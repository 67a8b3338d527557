------------------------------- MODULE WedAttr -------------------------------
(***************************************************************************)
(* WED-attributes: the rows of wed_attr, and the columns that the new_attr *)
(* trigger adds to and renames in wed_flow, wed_trace and wed_pred.  The   *)
(* trigger runs one ALTER TABLE after the other inside the transaction of  *)
(* the INSERT or UPDATE, each with the table locked against everybody up   *)
(* to the commit; an error in any of them rolls the statement back.  Calls *)
(* of the kernel run meanwhile: they write wed_flow, scan wed_pred with    *)
(* the columns they saw in wed_flow, and write wed_trace.                  *)
(***************************************************************************)
EXTENDS Naturals, Sequences

CONSTANTS
    Session,
    Aid,         \* serial numbers of wed_attr
    Name,        \* names that are given to attributes
    Default,     \* default values
    lowered,     \* lower(name)
    Base,        \* per table, the columns it is created with
    NULL, NoRow,
    MaxStatement \* bound: statements on wed_attr

Table == {"wed_flow", "wed_trace", "wed_pred"}

ASSUME AttrAssumption ==
    /\ MaxStatement \in Nat /\ NoRow \notin [name : Name, default : Default]
    /\ NULL \notin Default
    /\ DOMAIN lowered = Name /\ DOMAIN Base = Table

VARIABLES
    wed_attr,    \* the committed rows
    column,      \* per table, the default of every column that was added
    sess,        \* the statement every session runs
    statements

attrVars == <<wed_attr, column, sess, statements>>

Columns == UNION {[S -> Default \cup {NULL}] : S \in SUBSET Name}

(* Type invariant. *)
AttrTypeOK ==
    /\ wed_attr \in [Aid -> [name : Name, default : Default] \cup {NoRow}]
    /\ column \in [Table -> Columns]
    /\ statements \in 0 .. MaxStatement

None == [kind |-> "none"]

AttrInit ==
    /\ wed_attr = [a \in Aid |-> NoRow]
    /\ column = [t \in Table |-> <<>>]
    /\ sess = [s \in Session |-> None]
    /\ statements = 0

-----------------------------------------------------------------------------
(* Locks: ALTER TABLE takes ACCESS EXCLUSIVE ("X"), the kernel's INSERT    *)
(* and UPDATE take ROW EXCLUSIVE and its SELECT ACCESS SHARE, which agree  *)
(* with one another.  A session holds those of the steps behind it.        *)

Active(s) == sess[s].kind # "none"

Held(s) == IF Active(s) THEN {sess[s].plan[i] : i \in 1 .. sess[s].at} ELSE {}

Next1(s) == sess[s].plan[sess[s].at + 1]

Blocked(s) == {r \in Session \ {s} :
                 \E h \in Held(r) : /\ h.table = Next1(s).table
                                    /\ "X" \in {h.mode, Next1(s).mode}}

Waits(s) == /\ Active(s) /\ sess[s].at < Len(sess[s].plan)
            /\ Blocked(s) # {}

L(table, mode) == [table |-> table, mode |-> mode]

(* Mutant: the tables in another order. *)
AlterPredFirst(change) ==
    IF change = "default" THEN <<L("wed_flow", "X"), L("wed_trace", "X")>>
    ELSE <<L("wed_pred", "X"), L("wed_flow", "X"), L("wed_trace", "X")>>

(* Mutant: a new name is not carried to wed_pred. *)
AlterPlanForgetful(change) ==
    IF change = "insert" THEN <<L("wed_flow", "X"), L("wed_trace", "X"), L("wed_pred", "X")>>
    ELSE <<L("wed_flow", "X"), L("wed_trace", "X")>>

(* new_wed_attr: the tables a change alters, in order. *)
AlterPlan(change) ==
    IF change = "default" THEN <<L("wed_flow", "X"), L("wed_trace", "X")>>
    ELSE <<L("wed_flow", "X"), L("wed_trace", "X"), L("wed_pred", "X")>>

KernelPlan == <<L("wed_flow", "W"), L("wed_pred", "R"), L("wed_trace", "W")>>

-----------------------------------------------------------------------------
(* INSERT INTO wed_attr and UPDATE wed_attr.  The unique index on          *)
(* lower(name) waits for a row of another session that would collide, and  *)
(* refuses one that is committed.                                          *)

Rows(s) == {a \in Aid : Active(s) /\ sess[s].kind = "attr" /\ sess[s].aid = a}
Locked(a) == \E s \in Session : a \in Rows(s)

NameTaken(name, a) ==
    \/ \E b \in Aid \ {a} : wed_attr[b] # NoRow /\ lowered[wed_attr[b].name] = lowered[name]
    \/ \E s \in Session : /\ Rows(s) # {}
                          /\ lowered[sess[s].new.name] = lowered[name]

(* new_wed_attr's branches: a new name wins over a new default. *)
ChangeOf(old, new) == IF old = NoRow THEN "insert"
                      ELSE IF new.name # old.name THEN "rename" ELSE "default"

Write(s, a, name, default) ==
    LET new == [name |-> name, default |-> default]
        old == wed_attr[a]
    IN /\ ~Active(s) /\ ~Locked(a) /\ statements < MaxStatement
       /\ old # new
       /\ ~NameTaken(name, a)
       /\ sess' = [sess EXCEPT ![s] =
              [kind |-> "attr", aid |-> a, old |-> old, new |-> new, at |-> 0,
               change |-> ChangeOf(old, new), plan |-> AlterPlan(ChangeOf(old, new)),
               mine |-> column]]
       /\ statements' = statements + 1
       /\ UNCHANGED <<wed_attr, column>>

(* One ALTER TABLE; a column that exists already is an error. *)
Added(cols, name, default) == [n \in DOMAIN cols \cup {name} |->
                                 IF n = name THEN default ELSE cols[n]]
Renamed(cols, from, to) == [n \in (DOMAIN cols \ {from}) \cup {to} |->
                              IF n = to THEN cols[from] ELSE cols[n]]

Altered(c, table, cols) ==
    CASE c.change = "insert" -> Added(cols, c.new.name,
                                      IF table = "wed_pred" THEN NULL ELSE c.new.default)
      [] c.change = "rename" -> Renamed(cols, c.old.name, c.new.name)
      [] c.change = "default" -> [cols EXCEPT ![c.old.name] = c.new.default]

Clash(c, table) ==
    /\ c.change \in {"insert", "rename"}
    /\ c.new.name \in DOMAIN column[table] \cup Base[table]

Alter(s) ==
    LET c == sess[s]
        t == Next1(s).table
    IN /\ c.kind = "attr" /\ c.at < Len(c.plan) /\ Blocked(s) = {} /\ ~Clash(c, t)
       /\ sess' = [sess EXCEPT ![s].at = @ + 1, ![s].mine[t] = Altered(c, t, column[t])]
       /\ UNCHANGED <<wed_attr, column, statements>>

(* Mutant: the error is reported, and the row stays. *)
AlterFailsQuietly(s) ==
    LET c == sess[s]
    IN /\ c.kind = "attr" /\ c.at < Len(c.plan) /\ Blocked(s) = {} /\ Clash(c, Next1(s).table)
       /\ sess' = [sess EXCEPT ![s] = None]
       /\ wed_attr' = [wed_attr EXCEPT ![c.aid] = c.new]
       /\ UNCHANGED <<column, statements>>

(* The error is caught, reported and raised again: all is rolled back. *)
AlterFails(s) ==
    LET c == sess[s]
    IN /\ c.kind = "attr" /\ c.at < Len(c.plan) /\ Blocked(s) = {} /\ Clash(c, Next1(s).table)
       /\ sess' = [sess EXCEPT ![s] = None]
       /\ UNCHANGED <<wed_attr, column, statements>>

Commit(s) ==
    LET c == sess[s]
        mine == {c.plan[i].table : i \in DOMAIN c.plan}
    IN /\ c.kind = "attr" /\ c.at = Len(c.plan)
       /\ wed_attr' = [wed_attr EXCEPT ![c.aid] = c.new]
       /\ column' = [t \in Table |-> IF t \in mine THEN c.mine[t] ELSE column[t]]
       /\ sess' = [sess EXCEPT ![s] = None]
       /\ UNCHANGED statements

-----------------------------------------------------------------------------
(* kernel_function: TD['new'] has the columns of wed_flow; pred_match asks *)
(* each of wed_pred's rows for them, and new_trace_entry writes them.      *)

KernelCall(s) == /\ ~Active(s)
                 /\ sess' = [sess EXCEPT ![s] = [kind |-> "kernel", at |-> 0, names |-> {},
                                                 known |-> TRUE, plan |-> KernelPlan]]
                 /\ UNCHANGED <<wed_attr, column, statements>>

KernelStep(s) ==
    LET c     == sess[s]
        names == DOMAIN column[Next1(s).table]
    IN /\ c.kind = "kernel" /\ c.at < Len(c.plan) /\ Blocked(s) = {}
       /\ sess' = [sess EXCEPT ![s].at = @ + 1,
                               ![s].names = IF c.at = 0 THEN names ELSE @,
                               ![s].known = c.at > 0 => c.names \subseteq names]
       /\ UNCHANGED <<wed_attr, column, statements>>

KernelEnds(s) == /\ sess[s].kind = "kernel" /\ sess[s].at = Len(sess[s].plan)
                 /\ sess' = [sess EXCEPT ![s] = None]
                 /\ UNCHANGED <<wed_attr, column, statements>>

AttrNext ==
    \E s \in Session :
       \/ \E a \in Aid, n \in Name, d \in Default : Write(s, a, n, d)
       \/ Alter(s) \/ AlterFails(s) \/ Commit(s)
       \/ KernelCall(s) \/ KernelStep(s) \/ KernelEnds(s)

AttrSpec == AttrInit /\ [][AttrNext]_attrVars

-----------------------------------------------------------------------------
Names == {wed_attr[a].name : a \in {b \in Aid : wed_attr[b] # NoRow}}

(* Each of the three tables has a column for every attribute and no other, *)
(* whichever ALTER TABLE of whichever session was refused.                 *)
ColumnsAreAttributes == \A t \in Table : DOMAIN column[t] = Names

(* A kernel call finds every column of wed_flow in wed_pred and wed_trace, *)
(* though it reads the three at different moments.                         *)
KernelSeesOneSchema == \A s \in Session : sess[s].kind = "kernel" => sess[s].known

(* When a session waits for a lock, some session is not waiting and will   *)
(* release its own: new_wed_attr takes the tables in an order that agrees  *)
(* with the kernel's.                                                      *)
NoLockCycle == (\E s \in Session : Waits(s)) => \E s \in Session : Active(s) /\ ~Waits(s)
=============================================================================
