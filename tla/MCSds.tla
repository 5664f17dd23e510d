-------------------------------- MODULE MCSds --------------------------------
(* Types that hold 1, 3, 6 and 99 bytes, blocks of at most 30 bytes. *)
EXTENDS SdsTokens

MCTypeLimit == [t \in 0 .. 3 |-> << 2, 4, 7, 100 >>[t + 1]]
MCHdrSize == [t \in 0 .. 3 |-> << 1, 3, 5, 9 >>[t + 1]]

(* NUL, '-' and '1' *)
MCText == { << >>, << 0 >>, << 45 >>, << 49 >>, << 45, 49 >>, << 49, 0 >> }

(* For the calls on strings without a NUL: what sdstrim() does to one is   *)
(* left out.                                                               *)
MCPlainText == { t \in MCText : \A k \in DOMAIN t : t[k] # 0 }

MCRaw == { << 10 >>, << 34, 1 >>, << 97, 92 >> }

MCSize == { 0, 1, 3, 7, 31, 94, 99 }

MCPosition == { -3, -1, 0, 1, 2 }

Char(b) == [kind |-> "c", text |-> << b >>]
Conv(kind, t) == [kind |-> kind, text |-> t]
Num(kind, n) == [kind |-> kind, num |-> n]

Ones(n) == [k \in 1 .. n |-> 49]

MCFormat ==
  { << >>,
    << Num("%i", -11) >>,
    << Num("%i", 1), Conv("end", << >>) >>,
    << Num("%u", 11), Char(45) >>,
    << Num("%i", 0), Conv("%%", << 45 >>), Conv("%s", << >>) >>,
    << Conv("%s", << 49, 45 >>), Conv("%s", << 49 >>) >>,
    \* more than twice the format: the room has to be made in the loop
    << Conv("%s", Ones(4)), Conv("%s", Ones(8)) >>,
    << Conv("%s", Ones(9)), Char(45) >> }

(* 'a', 'b'; the separators "b" and "ab" *)
MCSplit ==
  { [text |-> t, sep |-> u] :
      t \in UNION { [1 .. n -> { 97, 98 }] : n \in 0 .. 5 },
      u \in { << >>, << 98 >>, << 97, 98 >>, << 97, 97 >> } }

(* a, space, \n, ", ', \, x, and bytes that are not printed *)
MCArg ==
  { << >>, << 97 >>, << 32, 10 >>, << 34, 39 >>, << 92, 97 >>,
    << 92, 120, 49, 49 >>, << 1, 255 >>, << 97, 39, 7 >> }

Quoted(t) == FlattenSeq(ReprPieces(t))

SingleQuoted(t) ==
  << 39 >> \o FlattenSeq([k \in DOMAIN t |-> IF t[k] = 39 THEN << 92, 39 >>
                                             ELSE << t[k] >>]) \o << 39 >>

(* An argument that has no quotes starts with them and needs none later. *)
MCLine ==
  LET One == { [line |-> Quoted(t), args |-> << t >>] : t \in MCArg }
               \cup { [line |-> SingleQuoted(t), args |-> << t >>] :
                        t \in { u \in MCArg : 92 \notin Range(u) } }
               \cup { [line |-> t, args |-> << t >>] :
                        t \in { << 97 >>, << 92, 97 >> } }
               \cup { [line |-> << 97 >> \o Quoted(t),
                       args |-> << << 97 >> \o t >>] : t \in MCArg }
      Pairs == { [line |-> a.line \o << 32 >> \o b.line \o << 10 >>,
                  args |-> a.args \o b.args] : a, b \in One }
      Broken == { [line |-> SubSeq(a.line, 1, Len(a.line) - 1),
                   args |-> NULL] :
                    a \in { c \in One : c.line[Len(c.line)] \in { 34, 39 } } }
                \cup { [line |-> Quoted(t) \o << 97 >>, args |-> NULL] :
                         t \in MCArg }
  IN  One \cup Pairs \cup Broken \cup { [line |-> << 32 >>, args |-> << >>] }
=============================================================================
