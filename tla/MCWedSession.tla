---------------------------- MODULE MCWedSession ----------------------------
(* WedSession for TLC.  Condition 0 is the final one; condition 1 has one  *)
(* trigger, and condition 2 is not there at first.                         *)
EXTENDS WedSession, TLC

Interchangeable == Permutations(Uptkn) \cup Permutations(Session) \cup Permutations(Wid)
Conds == 0 .. 2
Vals == {"go", "end", "odd"}
Every == {"add", "insert", "move", "final"}
Small == [cond |-> {0, 1}, final |-> {0}, pred |-> {<<0, "end">>, <<1, "go">>},
          trig |-> [g \in Tgid |-> IF g = 1 THEN 1 ELSE NoRow]]
=============================================================================
