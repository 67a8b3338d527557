------------------------------ MODULE MCWedAttr ------------------------------
(* Instances of WedAttr for TLC: names that differ in case only, and the   *)
(* name of a column that wed_trace has and the other tables have not.      *)
EXTENDS WedAttr, TLC

Created == [t \in Table |-> CASE t = "wed_flow" -> {"wid", "var_uptkn"}
                              [] t = "wed_trace" -> {"wid", "tgid_wrote", "tgid_fired",
                                                     "final", "excpt", "tstmp"}
                              [] t = "wed_pred" -> {"pid", "cid"}]
FourNames == {"stock", "Stock", "price", "final"}
LowerName == [n \in FourNames |-> IF n = "Stock" THEN "stock" ELSE n]
Interchangeable == Permutations(Session) \cup Permutations(Aid)
=============================================================================
