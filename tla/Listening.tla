------------------------------ MODULE Listening ------------------------------
(***************************************************************************)
(* How a server under tcp/ gets its listening socket, in the function      *)
(* get_tcp_server_socket() of which each has a copy: getaddrinfo(), the    *)
(* first of its addresses for which there is a socket, bind(), listen().   *)
(* Every error ends the process.                                           *)
(*                                                                         *)
(* socket() does not return 0, as standard input is open.                  *)
(***************************************************************************)
EXTENDS Integers

CONSTANT MaxAddr  \* bound: addresses getaddrinfo() returns

VARIABLES
  pc,        \* where the main thread is
  untried,   \* addresses from validaddr on
  servinfo   \* how often the list of addresses is to be freed

Starting == { "start", "socket", "bind", "listen" }

ListeningInit == pc = "start" /\ untried = 0 /\ servinfo = 0

Free == servinfo' = servinfo - 1

Exit == pc' = "exited" /\ UNCHANGED untried

GetAddrInfo ==
  /\ pc = "start"
  /\ untried' \in 1 .. MaxAddr
  /\ servinfo' = servinfo + 1
  /\ pc' = "socket"

GetAddrInfoFails == pc = "start" /\ Exit /\ UNCHANGED servinfo

Socket == pc = "socket" /\ untried > 0 /\ pc' = "bind"
            /\ UNCHANGED << untried, servinfo >>

(* socket() does not know the address: on to the next one. *)
SocketFails == pc = "socket" /\ untried > 0 /\ untried' = untried - 1
                 /\ UNCHANGED << pc, servinfo >>

(* "failed to assign a valid address" *)
NoSocket == pc = "socket" /\ untried = 0 /\ Free /\ Exit

(* The address is used for the last time; tcp/single_connection keeps the  *)
(* list.                                                                   *)
Bind(keeps) ==
  /\ pc = "bind"
  /\ pc' = "listen"
  /\ IF keeps THEN UNCHANGED servinfo ELSE Free
  /\ untried' = 0

BindFails == pc = "bind" /\ Free /\ Exit

Listen(next) ==
  pc = "listen" /\ pc' = next /\ UNCHANGED << untried, servinfo >>

ListenFails == pc = "listen" /\ Exit /\ UNCHANGED servinfo

(* All goes well, or another address is tried; *)
Proceeds(keeps, next) ==
  \/ GetAddrInfo \/ Socket \/ SocketFails \/ NoSocket
  \/ Bind(keeps) \/ Listen(next)

(* a call fails for which there is no second try. *)
GivesUp == GetAddrInfoFails \/ BindFails \/ ListenFails

=============================================================================
