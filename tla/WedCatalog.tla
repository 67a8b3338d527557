----------------------------- MODULE WedCatalog -----------------------------
(***************************************************************************)
(* The design-time tables of a WED-flow (wed_attr, wed_cond, wed_pred,     *)
(* wed_trig) and the read-only functions the kernel trigger evaluates on   *)
(* them: predicate matching and the three validations that open every      *)
(* kernel call.  A column value is a member of Val; Python's truth value   *)
(* of a column is false for NULL and for the empty string.                 *)
(***************************************************************************)
CONSTANTS
    Attr,        \* names of the WED-attributes (rows of wed_attr)
    Val,         \* TEXT values of WED-attributes
    Empty,       \* the empty string, default of wed_attr.default_value
    NULL,        \* SQL NULL
    lower,       \* str.lower on Val
    Cid,         \* primary keys of wed_cond
    FinalCid,    \* the rows of wed_cond with final = TRUE
    wed_pred,    \* the rows of wed_pred: a cid and one nullable column per attribute
    Tgid,        \* primary keys of wed_trig
    wed_trig     \* wed_trig.cid of every trigger

(***************************************************************************)
(* BEFORE INSERT OR UPDATE trigger of wed_pred: some column must be truthy.*)
(***************************************************************************)
Truthy(v) == v \notin {NULL, Empty}

wed_pred_validation(p) == \E a \in Attr : Truthy(p.col[a])

(***************************************************************************)
(* What the schema guarantees of the tables: foreign keys, the partial     *)
(* unique index on wed_cond(final), NOT NULL on attribute columns, and the *)
(* wed_pred trigger above.                                                 *)
(***************************************************************************)
ASSUME CatalogAssumption ==
    /\ NULL \notin Val
    /\ Empty \in Val
    /\ NULL \notin Tgid
    /\ lower \in [Val -> Val]
    /\ FinalCid \subseteq Cid
    /\ \A c, d \in FinalCid : c = d
    /\ wed_pred \subseteq [cid : Cid, col : [Attr -> Val \cup {NULL}]]
    /\ \A p \in wed_pred : wed_pred_validation(p)
    /\ wed_trig \in [Tgid -> Cid]

(***************************************************************************)
(* pred_match returns the matched conditions and whether the final one is  *)
(* among them.  A row constrains exactly the attributes whose column is    *)
(* truthy, and compares them ignoring case.                                *)
(***************************************************************************)
row_match(p, s) ==
    \A a \in Attr : Truthy(p.col[a]) => lower[s[a]] = lower[p.col[a]]

pred_match(s) == {p.cid : p \in {q \in wed_pred : row_match(q, s)}}

final_match(s) == pred_match(s) \cap FinalCid # {}

(***************************************************************************)
(* The validations: every condition has a predicate, every non-final       *)
(* condition has a trigger, there is a final condition.                    *)
(***************************************************************************)
wed_cond_validation == \A c \in Cid : \E p \in wed_pred : p.cid = c

wed_trig_validation == \A c \in Cid \ FinalCid : \E g \in Tgid : wed_trig[g] = c

wed_final_cond_validation == FinalCid # {}

Validated ==
    /\ wed_final_cond_validation
    /\ wed_cond_validation
    /\ wed_trig_validation

(***************************************************************************)
(* Which triggers a set of conditions fires, leaving out those of ptrg.    *)
(***************************************************************************)
squeeze_the_trigger(cond_set, ptrg) ==
    {g \in Tgid : wed_trig[g] \in cond_set /\ g \notin ptrg}
=============================================================================
