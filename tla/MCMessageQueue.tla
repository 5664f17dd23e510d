--------------------------- MODULE MCMessageQueue ---------------------------
(***************************************************************************)
(* Small instances of the message queue: a ring that is lapped.            *)
(***************************************************************************)
EXTENDS MessageQueueApi

(* Message 0 is one of more than MAX_MESSAGE_LENGTH bytes. *)
MCMessage == 0 .. MaxMessages

=============================================================================
