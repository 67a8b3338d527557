---------------------------- MODULE MCWedWorker -----------------------------
(***************************************************************************)
(* An AND-split of two triggers: g2 moves attribute b, and g1 writes the   *)
(* final state, which is refused while g2 is running.                      *)
(***************************************************************************)
EXTENDS WedWorker

MCAttr == {"a", "b"}
MCVal == {"", "n", "m", "f"}
MCLower == [v \in MCVal |-> v]
MCCid == {"c1", "cf"}
MCFinalCid == {"cf"}
Row(c, x, y) == [cid |-> c, col |-> [a |-> x, b |-> y]]
MCWedPred == {Row("c1", "n", "n"), Row("cf", "f", NULL)}
MCTgid == {"g1", "g2"}
MCWedTrig == [g1 |-> "c1", g2 |-> "c1"]
MCState == [MCAttr -> {"n", "m", "f"}]
MCStart == {[a |-> "n", b |-> "n"], [a |-> "f", b |-> "n"]}

(* One worker per trigger. *)
MCChannel == [k1 |-> "g1", k2 |-> "g2"]
MCClause == [k1 |-> [a |-> "f"], k2 |-> [b |-> "m"]]
=============================================================================
