---------------------------- MODULE MCWedKernel -----------------------------
(***************************************************************************)
(* A small workflow for WedKernel: an AND-split (condition c1 fires g1 and *)
(* g2), a second condition c2 that can hold together with c1 or with the   *)
(* final condition, and a state that matches no predicate.                 *)
(***************************************************************************)
EXTENDS WedRefinement, TLC

MCAttr == {"a", "b"}
MCVal == {"", "n", "N", "m", "M", "f", "x"}
MCLower == [v \in MCVal |-> CASE v = "N" -> "n" [] v = "M" -> "m" [] OTHER -> v]
MCCid == {"c1", "c2", "cf"}
MCFinalCid == {"cf"}
MCTgid == {"g1", "g2", "g3"}
Row(c, x, y) == [cid |-> c, col |-> [a |-> x, b |-> y]]
MCWedPred == {Row("c1", "n", NULL), Row("c2", "", "M"), Row("c2", "m", "m"),
              Row("cf", "f", NULL)}
MCWedTrig == [g1 |-> "c1", g2 |-> "c1", g3 |-> "c2"]
St(x, y) == [a |-> x, b |-> y]
MCState == {St("n", ""), St("N", "m"), St("f", "m"), St("x", "")}
LiveState == {St("m", "m"), St("f", "m")}

TokenSymmetry == Permutations(Uptkn)
=============================================================================
