------------------------------ MODULE MCPgLock ------------------------------
(* Instances of PgLock for TLC. *)
EXTENDS PgLock

CONSTANTS p1, p2, p3, a, b

Three == {p1, p2, p3}
Tables == {a, b}
SameBucket == [l \in Tables |-> 0]

(* The engine's case: p2 and p3 write a, ask for all of it, before or      *)
(* after they wrote it, and for all of b; p1 only asks for all of a.       *)
MCAsks == [p \in Three |-> {<<a, AccessExclusiveLock>>} \cup
              (IF p = p1 THEN {} ELSE {<<a, RowExclusiveLock>>, <<b, AccessExclusiveLock>>})]

MCCancel == [p \in Three |-> IF p = p1 THEN 1 ELSE 0]
=============================================================================
