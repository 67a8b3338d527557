---------------------------- MODULE WedAttrProofs ----------------------------
(***************************************************************************)
(* Proofs about WED-attributes.  The invariant rests on one fact: every    *)
(* plan, new_wed_attr's and the kernel's, begins with wed_flow, so while a *)
(* session alters tables no other has gone past its first lock.  What a    *)
(* session has altered so far, and what a kernel call has read, is then    *)
(* still about the columns as they are.                                    *)
(***************************************************************************)
EXTENDS WedAttr, TLAPS

-----------------------------------------------------------------------------
(* The invariant *)

Attr == [name : Name, default : Default]
Change == {"insert", "rename", "default"}

AttrCall == [kind : {"attr"}, aid : Aid, old : Attr \cup {NoRow}, new : Attr, at : Nat,
             change : Change, plan : {AlterPlan(x) : x \in Change}, mine : [Table -> Columns]]

KernelCalls == [kind : {"kernel"}, at : Nat, names : SUBSET Name, known : BOOLEAN,
                plan : {KernelPlan}]

SessType == sess \in [Session -> {None} \cup AttrCall \cup KernelCalls]

(* A statement on wed_attr: its row is as it was when the statement began, *)
(* its name is nobody else's, and what it has altered is up to date.       *)
AttrOK(c) ==
    /\ c.old = wed_attr[c.aid]
    /\ c.change = ChangeOf(c.old, c.new) /\ c.plan = AlterPlan(c.change)
    /\ c.at \in 0 .. Len(c.plan)
    /\ \A b \in Aid \ {c.aid} :
          wed_attr[b] # NoRow => lowered[wed_attr[b].name] # lowered[c.new.name]
    /\ \A i \in 1 .. c.at :
          c.mine[c.plan[i].table] = Altered(c, c.plan[i].table, column[c.plan[i].table])

(* A kernel call: the columns it found in wed_flow are the ones there. *)
KernelOK(c) ==
    /\ c.at \in 0 .. 3
    /\ c.at > 0 => c.names = DOMAIN column["wed_flow"]
    /\ c.known

CallOK(c) == (c.kind = "attr" => AttrOK(c)) /\ (c.kind = "kernel" => KernelOK(c))

(* Two statements: other rows, other names, and one of them alters. *)
Apart(c, d) ==
    /\ c.kind = "attr" /\ d.kind = "attr" =>
          c.aid # d.aid /\ lowered[c.new.name] # lowered[d.new.name]
    /\ c.kind = "attr" /\ d.kind # "none" /\ c.at > 0 => d.at = 0
    /\ d.kind = "attr" /\ c.kind # "none" /\ d.at > 0 => c.at = 0

UniqueNames ==
    \A a, b \in Aid : wed_attr[a] # NoRow /\ wed_attr[b] # NoRow
                      /\ wed_attr[a].name = wed_attr[b].name => a = b

AttrInv ==
    /\ AttrTypeOK
    /\ SessType
    /\ \A s \in Session : CallOK(sess[s])
    /\ \A s, r \in Session : s # r => Apart(sess[s], sess[r])
    /\ UniqueNames
    /\ ColumnsAreAttributes

-----------------------------------------------------------------------------
(* The plans *)

(* Every plan of locks begins with wed_flow, which new_wed_attr takes exclusively. *)
LEMMA PlanFacts ==
    /\ \A x \in Change : /\ Len(AlterPlan(x)) \in 2 .. 3 /\ DOMAIN AlterPlan(x) = 1 .. Len(AlterPlan(x))
                         /\ AlterPlan(x)[1].table = "wed_flow"
                         /\ \A i \in 1 .. Len(AlterPlan(x)) :
                               AlterPlan(x)[i].table \in Table /\ AlterPlan(x)[i].mode = "X"
    /\ Len(KernelPlan) = 3 /\ KernelPlan[1].table = "wed_flow"
    /\ \A i \in 1 .. 3 : KernelPlan[i].table \in Table /\ KernelPlan[i].mode # "X"
  <1>1. ASSUME NEW x \in Change, x = "default"
        PROVE  /\ Len(AlterPlan(x)) = 2 /\ DOMAIN AlterPlan(x) = 1 .. 2
               /\ AlterPlan(x)[1].table = "wed_flow"
               /\ \A i \in 1 .. 2 : AlterPlan(x)[i].table \in Table /\ AlterPlan(x)[i].mode = "X"
    BY <1>1 DEF AlterPlan, L, Table
  <1>2. ASSUME NEW x \in Change, x # "default"
        PROVE  /\ Len(AlterPlan(x)) = 3 /\ DOMAIN AlterPlan(x) = 1 .. 3
               /\ AlterPlan(x)[1].table = "wed_flow"
               /\ \A i \in 1 .. 3 : AlterPlan(x)[i].table \in Table /\ AlterPlan(x)[i].mode = "X"
    BY <1>2 DEF AlterPlan, L, Table
  <1>3. /\ Len(KernelPlan) = 3 /\ KernelPlan[1].table = "wed_flow"
        /\ \A i \in 1 .. 3 : KernelPlan[i].table \in Table /\ KernelPlan[i].mode # "X"
    BY DEF KernelPlan, L, Table
  <1>4. \A x \in Change : Len(AlterPlan(x)) \in 2 .. 3 /\ DOMAIN AlterPlan(x) = 1 .. Len(AlterPlan(x))
    BY <1>1, <1>2
  <1>5. \A x \in Change : AlterPlan(x)[1].table = "wed_flow"
    BY <1>1, <1>2
  <1>6. \A x \in Change : \A i \in 1 .. Len(AlterPlan(x)) :
           AlterPlan(x)[i].table \in Table /\ AlterPlan(x)[i].mode = "X"
    BY <1>1, <1>2
  <1> QED
    BY <1>3, <1>4, <1>5, <1>6

(* Which tables a change leaves out. *)
LEMMA PlanTables ==
    ASSUME NEW x \in Change
    PROVE  {AlterPlan(x)[i].table : i \in DOMAIN AlterPlan(x)}
              = IF x = "default" THEN Table \ {"wed_pred"} ELSE Table
  <1>1. CASE x = "default"
    <2>1. /\ DOMAIN AlterPlan(x) = {1, 2}
          /\ AlterPlan(x)[1].table = "wed_flow" /\ AlterPlan(x)[2].table = "wed_trace"
      BY <1>1 DEF AlterPlan, L
    <2> QED
      BY <1>1, <2>1 DEF Table
  <1>2. CASE x # "default"
    <2>1. /\ DOMAIN AlterPlan(x) = {1, 2, 3}
          /\ AlterPlan(x)[1].table = "wed_flow" /\ AlterPlan(x)[2].table = "wed_trace"
          /\ AlterPlan(x)[3].table = "wed_pred"
      BY <1>2 DEF AlterPlan, L
    <2> QED
      BY <1>2, <2>1 DEF Table
  <1> QED
    BY <1>1, <1>2

(* What a session that is in a statement holds. *)
LEMMA HeldFacts ==
    ASSUME SessType, NEW s \in Session, sess[s].kind # "none", CallOK(sess[s])
    PROVE  /\ sess[s] \in AttrCall \cup KernelCalls
           /\ sess[s].at \in Nat /\ sess[s].at <= Len(sess[s].plan) /\ Len(sess[s].plan) \in 2 .. 3
           /\ sess[s].plan[1].table = "wed_flow"
           /\ \A i \in 1 .. Len(sess[s].plan) :
                 /\ sess[s].plan[i].table \in Table
                 /\ sess[s].plan[i].mode = "X" <=> sess[s].kind = "attr"
           /\ Held(s) = {sess[s].plan[i] : i \in 1 .. sess[s].at}
  <1>1. sess[s] \in AttrCall \cup KernelCalls
    BY DEF SessType, None
  <1>2. Held(s) = {sess[s].plan[i] : i \in 1 .. sess[s].at}
    BY DEF Held, Active
  <1>3. CASE sess[s] \in AttrCall
    <2>1. sess[s].kind = "attr" /\ sess[s].at \in Nat
      BY <1>3 DEF AttrCall
    <2>2. PICK x \in Change : sess[s].plan = AlterPlan(x)
      BY <1>3 DEF AttrCall
    <2>3. sess[s].at <= Len(sess[s].plan)
      BY <2>1, <2>2, PlanFacts DEF CallOK, AttrOK
    <2> QED
      BY <1>1, <1>2, <2>1, <2>2, <2>3, PlanFacts
  <1>4. CASE sess[s] \in KernelCalls
    <2>1. sess[s].kind = "kernel" /\ sess[s].at \in Nat /\ sess[s].plan = KernelPlan
      BY <1>4 DEF KernelCalls
    <2>2. sess[s].at <= Len(sess[s].plan)
      BY <2>1, PlanFacts DEF CallOK, KernelOK
    <2> QED
      BY <1>1, <1>2, <2>1, <2>2, PlanFacts
  <1> QED
    BY <1>1, <1>3, <1>4

-----------------------------------------------------------------------------
(* Steps that leave the tables alone *)

(* Whether two calls are apart does not depend on their order. *)
LEMMA ApartSym ==
    ASSUME NEW c, NEW d, Apart(c, d)
    PROVE  Apart(d, c)
  BY DEF Apart

(* A step that only moves one call on, to where it is still apart from the rest. *)
LEMMA CallChange ==
    ASSUME AttrInv, NEW s \in Session, NEW d \in {None} \cup AttrCall \cup KernelCalls,
           sess' = [sess EXCEPT ![s] = d], UNCHANGED <<wed_attr, column>>,
           statements' \in 0 .. MaxStatement, CallOK(d),
           \A r \in Session \ {s} : Apart(d, sess[r])
    PROVE  AttrInv'
  <1>1. sess'[s] = d /\ \A r \in Session \ {s} : sess'[r] = sess[r]
    BY DEF AttrInv, SessType
  <1>2. AttrTypeOK' /\ UniqueNames' /\ ColumnsAreAttributes'
    BY DEF AttrInv, AttrTypeOK, UniqueNames, ColumnsAreAttributes, Names
  <1>3. SessType'
    BY DEF AttrInv, SessType
  <1>4. ASSUME NEW r \in Session
        PROVE  CallOK(sess[r])'
    <2>1. PICK e : e = sess'[r]
      OBVIOUS
    <2>2. CallOK(e)
      BY <1>1, <2>1 DEF AttrInv
    <2>3. CallOK(e)'
      BY <2>2 DEF CallOK, AttrOK, KernelOK
    <2> QED
      BY <2>1, <2>3
  <1>5. ASSUME NEW q \in Session, NEW r \in Session, q # r
        PROVE  Apart(sess'[q], sess'[r])
    <2>1. CASE q = s
      BY <1>1, <1>5, <2>1
    <2>2. CASE r = s
      BY <1>1, <1>5, <2>2, ApartSym
    <2>3. CASE q # s /\ r # s
      BY <1>1, <1>5, <2>3 DEF AttrInv
    <2> QED
      BY <2>1, <2>2, <2>3
  <1>6. \A q, r \in Session : q # r => Apart(sess[q], sess[r])'
    BY <1>5 DEF Apart
  <1> QED
    BY <1>2, <1>3, <1>4, <1>6 DEF AttrInv

(* A statement that ends without changing the tables. *)
LEMMA LeaveInv ==
    ASSUME AttrInv, NEW s \in Session, sess' = [sess EXCEPT ![s] = None],
           UNCHANGED <<wed_attr, column, statements>>
    PROVE  AttrInv'
  <1>1. None.kind = "none"
    BY DEF None
  <1>2. CallOK(None)
    BY <1>1 DEF CallOK
  <1>3. \A r \in Session \ {s} : Apart(None, sess[r])
    BY <1>1 DEF Apart
  <1>4. statements' \in 0 .. MaxStatement
    BY DEF AttrInv, AttrTypeOK
  <1> QED
    BY <1>2, <1>3, <1>4, CallChange

(* A kernel call begins and holds no lock yet. *)
LEMMA KernelCallInv ==
    ASSUME AttrInv, NEW s \in Session, KernelCall(s)
    PROVE  AttrInv'
  <1> DEFINE d == [kind |-> "kernel", at |-> 0, names |-> {}, known |-> TRUE, plan |-> KernelPlan]
  <1>1. /\ sess' = [sess EXCEPT ![s] = d] /\ UNCHANGED <<wed_attr, column>>
        /\ statements' \in 0 .. MaxStatement
    BY DEF KernelCall, AttrInv, AttrTypeOK
  <1>2. d \in KernelCalls /\ d.kind = "kernel" /\ d.at = 0 /\ d.known
    BY DEF KernelCalls
  <1> HIDE DEF d
  <1>3. CallOK(d)
    BY <1>2 DEF CallOK, KernelOK
  <1>4. \A r \in Session \ {s} : Apart(d, sess[r])
    BY <1>2 DEF Apart
  <1> QED
    BY <1>1, <1>2, <1>3, <1>4, CallChange

(* INSERT INTO wed_attr, UPDATE wed_attr. *)
LEMMA WriteInv ==
    ASSUME AttrInv, NEW s \in Session, NEW a \in Aid, NEW n \in Name, NEW df \in Default,
           Write(s, a, n, df)
    PROVE  AttrInv'
  <1> DEFINE new == [name |-> n, default |-> df]
             old == wed_attr[a]
             d == [kind |-> "attr", aid |-> a, old |-> old, new |-> new, at |-> 0,
                   change |-> ChangeOf(old, new), plan |-> AlterPlan(ChangeOf(old, new)),
                   mine |-> column]
  <1>1. /\ ~Locked(a) /\ ~NameTaken(n, a) /\ statements < MaxStatement
        /\ sess' = [sess EXCEPT ![s] = d]
        /\ statements' = statements + 1
        /\ UNCHANGED <<wed_attr, column>>
    BY DEF Write
  <1>2. statements' \in 0 .. MaxStatement
    BY <1>1, AttrAssumption DEF AttrInv, AttrTypeOK
  <1>3. /\ new \in Attr /\ old \in Attr \cup {NoRow} /\ column \in [Table -> Columns]
        /\ new.name = n
    BY DEF AttrInv, AttrTypeOK, Attr
  <1>4. ChangeOf(old, new) \in Change
    BY DEF ChangeOf, Change
  <1> HIDE DEF new, old
  <1>5. /\ d \in AttrCall /\ d.kind = "attr" /\ d.aid = a /\ d.old = old /\ d.new = new
        /\ d.at = 0 /\ d.change = ChangeOf(old, new) /\ d.plan = AlterPlan(d.change)
    BY <1>3, <1>4 DEF AttrCall
  <1> HIDE DEF d
  <1>6. CallOK(d)
    <2>1. d.old = wed_attr[d.aid]
      BY <1>5 DEF old
    <2>2. \A b \in Aid \ {a} : wed_attr[b] # NoRow => lowered[wed_attr[b].name] # lowered[n]
      BY <1>1 DEF NameTaken
    <2>3. d.at \in 0 .. Len(d.plan)
      BY <1>4, <1>5, PlanFacts
    <2> QED
      BY <1>3, <1>5, <2>1, <2>2, <2>3 DEF CallOK, AttrOK
  <1>7. ASSUME NEW r \in Session \ {s}
        PROVE  Apart(d, sess[r])
    <2>1. CASE sess[r].kind = "attr"
      <3>1. sess[r].aid \in Aid
        BY <2>1 DEF AttrInv, SessType, AttrCall, KernelCalls, None
      <3>2. Rows(r) = {sess[r].aid}
        BY <2>1, <3>1 DEF Rows, Active
      <3>3. sess[r].aid # a /\ lowered[sess[r].new.name] # lowered[n]
        BY <1>1, <3>2 DEF Locked, NameTaken
      <3> QED
        BY <1>3, <1>5, <3>3 DEF Apart
    <2>2. CASE sess[r].kind # "attr"
      BY <1>5, <2>2 DEF Apart
    <2> QED
      BY <2>1, <2>2
  <1> QED
    BY <1>1, <1>2, <1>5, <1>6, <1>7, CallChange

-----------------------------------------------------------------------------
(* The first lock *)

(* It is that of wed_flow: it waits for a session that alters, and one *)
(* that alters waits for all.                                          *)
LEMMA FirstLock ==
    ASSUME AttrInv, NEW s \in Session, sess[s].kind # "none", sess[s].at = 0, Blocked(s) = {},
           NEW r \in Session \ {s}, sess[r].kind # "none",
           "attr" \in {sess[s].kind, sess[r].kind}
    PROVE  sess[r].at = 0
  <1> SUFFICES ASSUME sess[r].at # 0 PROVE FALSE
    OBVIOUS
  <1>1. /\ sess[r].at \in Nat /\ sess[r].plan[1].table = "wed_flow"
        /\ sess[r].plan[1].mode = "X" <=> sess[r].kind = "attr"
        /\ Held(r) = {sess[r].plan[i] : i \in 1 .. sess[r].at}
    BY HeldFacts DEF AttrInv
  <1>2. /\ sess[s].plan[1].table = "wed_flow"
        /\ sess[s].plan[1].mode = "X" <=> sess[s].kind = "attr"
    BY HeldFacts DEF AttrInv
  <1>3. sess[r].plan[1] \in Held(r)
    BY <1>1
  <1>4. Next1(s) = sess[s].plan[1]
    BY DEF Next1
  <1>5. r \in Blocked(s)
    BY <1>1, <1>2, <1>3, <1>4 DEF Blocked
  <1> QED
    BY <1>5

(* So a step keeps sessions apart. *)
LEMMA StepApart ==
    ASSUME AttrInv, NEW s \in Session, sess[s].kind # "none", Blocked(s) = {}, NEW d,
           d.kind = sess[s].kind, d.at = sess[s].at + 1,
           d.kind = "attr" => d.aid = sess[s].aid /\ d.new = sess[s].new,
           NEW r \in Session \ {s}
    PROVE  Apart(d, sess[r])
  <1>1. Apart(sess[s], sess[r])
    BY DEF AttrInv
  <1>2. sess[s].at \in Nat
    BY HeldFacts DEF AttrInv
  <1>3. sess[r].kind # "none" => sess[r].at \in Nat
    BY HeldFacts DEF AttrInv
  <1>4. sess[s].at = 0 /\ sess[r].kind # "none" /\ "attr" \in {sess[s].kind, sess[r].kind}
           => sess[r].at = 0
    BY FirstLock
  <1> QED
    BY <1>1, <1>2, <1>3, <1>4 DEF Apart

(* A query of a kernel call. *)
LEMMA KernelStepInv ==
    ASSUME AttrInv, NEW s \in Session, KernelStep(s)
    PROVE  AttrInv'
  <1> DEFINE c == sess[s]
             names == DOMAIN column[Next1(s).table]
             read == IF c.at = 0 THEN names ELSE c.names
             known == c.at > 0 => c.names \subseteq names
             d == [c EXCEPT !.at = c.at + 1, !.names = read, !.known = known]
  <1>1. c.kind = "kernel" /\ c.at < Len(c.plan) /\ Blocked(s) = {}
    BY DEF KernelStep
  <1>2. c \in KernelCalls
    BY <1>1 DEF AttrInv, SessType, AttrCall, None
  <1>3. c.at \in Nat /\ c.plan = KernelPlan /\ KernelOK(c)
    BY <1>1, <1>2 DEF KernelCalls, AttrInv, CallOK
  <1>4. Next1(s) = KernelPlan[c.at + 1] /\ c.at + 1 \in 1 .. 3
    BY <1>1, <1>3, PlanFacts DEF Next1
  <1>5. Next1(s).table \in Table /\ (c.at = 0 => Next1(s).table = "wed_flow")
    BY <1>3, <1>4, PlanFacts
  <1>6. names = Names /\ DOMAIN column["wed_flow"] = Names
    BY <1>5 DEF AttrInv, ColumnsAreAttributes, Table
  <1>7. Names \in SUBSET Name
    BY DEF Names, AttrInv, AttrTypeOK
  <1>8. /\ sess' = [sess EXCEPT ![s] = d]
        /\ UNCHANGED <<wed_attr, column, statements>>
    BY <1>2 DEF KernelStep, KernelCalls, AttrInv, SessType
  <1>9. known = TRUE /\ read = Names
    BY <1>3, <1>6 DEF KernelOK
  <1> HIDE DEF known, read, names
  <1>10. /\ d \in KernelCalls /\ d.kind = "kernel" /\ d.at = c.at + 1
         /\ d.names = Names /\ d.known = TRUE
    <2>1. c.at + 1 \in Nat /\ read \in SUBSET Name /\ known \in BOOLEAN
      BY <1>3, <1>7, <1>9
    <2>2. d \in KernelCalls
      BY <1>2, <2>1 DEF KernelCalls
    <2>3. d.kind = "kernel" /\ d.at = c.at + 1 /\ d.names = read /\ d.known = known
      BY <1>2 DEF KernelCalls
    <2> QED
      BY <1>9, <2>2, <2>3
  <1> HIDE DEF d
  <1>11. CallOK(d)
    BY <1>3, <1>4, <1>6, <1>10 DEF CallOK, KernelOK
  <1>12. \A r \in Session \ {s} : Apart(d, sess[r])
    BY <1>1, <1>10, StepApart
  <1>13. statements' \in 0 .. MaxStatement
    BY <1>8 DEF AttrInv, AttrTypeOK
  <1> QED
    BY <1>8, <1>10, <1>11, <1>12, <1>13, CallChange

-----------------------------------------------------------------------------
(* ALTER TABLE *)

(* The columns of a table are a function on names. *)
LEMMA ColumnsFacts ==
    /\ \A cols \in Columns : /\ DOMAIN cols \in SUBSET Name
                             /\ \A n \in DOMAIN cols : cols[n] \in Default \cup {NULL}
                             /\ cols = [n \in DOMAIN cols |-> cols[n]]
    /\ \A S \in SUBSET Name : [S -> Default \cup {NULL}] \subseteq Columns
  BY DEF Columns

(* The columns an ALTER TABLE leaves, and their names. *)
LEMMA AlteredFacts ==
    ASSUME NEW c \in AttrCall, NEW table \in Table, NEW cols \in Columns,
           c.change = ChangeOf(c.old, c.new), c.old # NoRow => c.old.name \in DOMAIN cols
    PROVE  /\ Altered(c, table, cols) \in Columns
           /\ DOMAIN Altered(c, table, cols)
                 = IF c.old = NoRow THEN DOMAIN cols \cup {c.new.name}
                   ELSE (DOMAIN cols \ {c.old.name}) \cup {c.new.name}
  <1>1. /\ DOMAIN cols \in SUBSET Name
        /\ \A n \in DOMAIN cols : cols[n] \in Default \cup {NULL}
    BY ColumnsFacts
  <1>2. c.new.name \in Name /\ c.new.default \in Default
    BY DEF AttrCall, Attr
  <1>3. CASE c.old = NoRow
    <2> DEFINE S == DOMAIN cols \cup {c.new.name}
               def == IF table = "wed_pred" THEN NULL ELSE c.new.default
    <2>1. Altered(c, table, cols) = Added(cols, c.new.name, def)
      BY <1>3 DEF Altered, ChangeOf
    <2>2. def \in Default \cup {NULL} /\ S \in SUBSET Name
      BY <1>1, <1>2
    <2> HIDE DEF def
    <2>3. Added(cols, c.new.name, def) \in [S -> Default \cup {NULL}]
      BY <1>1, <2>2 DEF Added
    <2> QED
      BY <1>3, <2>1, <2>2, <2>3, ColumnsFacts
  <1>4. CASE c.old # NoRow /\ c.new.name # c.old.name
    <2> DEFINE S == (DOMAIN cols \ {c.old.name}) \cup {c.new.name}
    <2>1. Altered(c, table, cols) = Renamed(cols, c.old.name, c.new.name)
      BY <1>4 DEF Altered, ChangeOf
    <2>2. S \in SUBSET Name
      BY <1>1, <1>2
    <2>3. Renamed(cols, c.old.name, c.new.name) \in [S -> Default \cup {NULL}]
      BY <1>1, <1>4 DEF Renamed
    <2> QED
      BY <1>4, <2>1, <2>2, <2>3, ColumnsFacts
  <1>5. CASE c.old # NoRow /\ c.new.name = c.old.name
    <2>1. Altered(c, table, cols) = [cols EXCEPT ![c.old.name] = c.new.default]
      BY <1>5 DEF Altered, ChangeOf
    <2>2. Altered(c, table, cols) \in [DOMAIN cols -> Default \cup {NULL}]
      <3>1. cols \in [DOMAIN cols -> Default \cup {NULL}]
        BY <1>1, ColumnsFacts
      <3> QED
        BY <1>2, <2>1, <3>1
    <2> QED
      BY <1>1, <1>5, <2>2, ColumnsFacts
  <1> QED
    BY <1>3, <1>4, <1>5

(* The row a statement changes has a column in every table. *)
LEMMA OldHasColumn ==
    ASSUME AttrInv, NEW c \in AttrCall, AttrOK(c), NEW t \in Table
    PROVE  /\ column[t] \in Columns
           /\ c.old # NoRow => c.old.name \in DOMAIN column[t]
  <1>1. c.aid \in Aid /\ c.old = wed_attr[c.aid]
    BY DEF AttrCall, AttrOK
  <1>2. c.old # NoRow => c.old.name \in Names
    BY <1>1 DEF Names
  <1> QED
    BY <1>2 DEF AttrInv, AttrTypeOK, ColumnsAreAttributes

(* An ALTER TABLE of new_wed_attr takes its table and changes its columns. *)
LEMMA AlterInv ==
    ASSUME AttrInv, NEW s \in Session, Alter(s)
    PROVE  AttrInv'
  <1> DEFINE c == sess[s]
             t == Next1(s).table
             new == Altered(c, t, column[t])
             d == [c EXCEPT !.at = c.at + 1, !.mine = [c.mine EXCEPT ![t] = new]]
  <1>1. c.kind = "attr" /\ c.at < Len(c.plan) /\ Blocked(s) = {}
    BY DEF Alter
  <1>2. c \in AttrCall
    BY <1>1 DEF AttrInv, SessType, KernelCalls, None
  <1>3. c.at \in Nat /\ AttrOK(c) /\ c.mine \in [Table -> Columns]
    BY <1>1, <1>2 DEF AttrCall, AttrInv, CallOK
  <1>4. /\ Len(c.plan) \in 2 .. 3
        /\ \A i \in 1 .. Len(c.plan) : c.plan[i].table \in Table
    BY <1>1, HeldFacts DEF AttrInv
  <1>5. t = c.plan[c.at + 1].table /\ c.at + 1 \in 1 .. Len(c.plan) /\ t \in Table
    BY <1>1, <1>3, <1>4 DEF Next1
  <1>6. new \in Columns
    BY <1>2, <1>3, <1>5, OldHasColumn, AlteredFacts DEF AttrOK
  <1>7. /\ sess' = [sess EXCEPT ![s] = d]
        /\ UNCHANGED <<wed_attr, column, statements>>
    BY <1>2 DEF Alter, AttrCall, AttrInv, SessType
  <1> HIDE DEF new
  <1>8. [c.mine EXCEPT ![t] = new] \in [Table -> Columns]
    BY <1>3, <1>6
  <1>9. /\ d \in AttrCall /\ d.kind = "attr" /\ d.at = c.at + 1 /\ d.aid = c.aid
        /\ d.old = c.old /\ d.new = c.new /\ d.change = c.change /\ d.plan = c.plan
        /\ d.mine = [c.mine EXCEPT ![t] = new]
    <2> DEFINE m == [c.mine EXCEPT ![t] = new]
    <2>1. c.at + 1 \in Nat /\ m \in [Table -> Columns]
      BY <1>3, <1>8
    <2> HIDE DEF m
    <2>2. d = [c EXCEPT !.at = c.at + 1, !.mine = m]
      BY DEF m
    <2>3. d \in AttrCall
      BY <1>2, <2>1, <2>2 DEF AttrCall
    <2>4. /\ d.kind = c.kind /\ d.at = c.at + 1 /\ d.aid = c.aid
          /\ d.old = c.old /\ d.new = c.new /\ d.change = c.change /\ d.plan = c.plan
          /\ d.mine = m
      BY <1>2, <2>2 DEF AttrCall
    <2> QED
      BY <1>1, <2>3, <2>4 DEF m
  <1> HIDE DEF d
  <1>10. \A u, cols : Altered(d, u, cols) = Altered(c, u, cols)
    BY <1>9 DEF Altered
  <1>11. ASSUME NEW i \in 1 .. d.at
         PROVE  d.mine[d.plan[i].table] = Altered(d, d.plan[i].table, column[d.plan[i].table])
    <2> DEFINE u == c.plan[i].table
    <2> DEFINE n == Len(c.plan)
    <2>1. c.at \in Nat /\ n \in 2 .. 3 /\ c.at + 1 \in 1 .. n /\ d.at = c.at + 1
      BY <1>3, <1>4, <1>5, <1>9
    <2>2. i \in 1 .. (c.at + 1)
      BY <2>1
    <2> HIDE DEF n
    <2>3. i \in 1 .. n
      BY <2>1, <2>2
    <2>4. u \in Table /\ d.plan[i].table = u
      BY <1>4, <1>9, <2>3 DEF n
    <2>5. CASE u = t
      <3>1. d.mine[u] = new
        BY <1>3, <1>5, <1>9, <2>5
      <3> QED
        BY <1>10, <2>4, <2>5, <3>1 DEF new
    <2>6. CASE u # t
      <3>1. i # c.at + 1
        BY <1>5, <2>6
      <3>2. i \in 1 .. c.at
        BY <2>1, <2>2, <3>1
      <3>3. d.mine[u] = c.mine[u]
        BY <1>3, <1>9, <2>4, <2>6
      <3>4. c.mine[u] = Altered(c, u, column[u])
        BY <1>3, <3>2 DEF AttrOK
      <3> QED
        BY <1>10, <2>4, <3>3, <3>4
    <2> QED
      BY <2>5, <2>6
  <1>12. AttrOK(d)
    <2> DEFINE n == Len(c.plan)
    <2>1. n \in 2 .. 3 /\ c.at + 1 \in 1 .. n /\ d.at = c.at + 1 /\ Len(d.plan) = n
      BY <1>4, <1>5, <1>9
    <2> HIDE DEF n
    <2>2. d.at \in 0 .. Len(d.plan)
      BY <1>3, <2>1
    <2>3. /\ d.old = wed_attr[d.aid]
          /\ d.change = ChangeOf(d.old, d.new) /\ d.plan = AlterPlan(d.change)
          /\ \A b \in Aid \ {d.aid} :
                wed_attr[b] # NoRow => lowered[wed_attr[b].name] # lowered[d.new.name]
      BY <1>3, <1>9 DEF AttrOK
    <2> QED
      BY <1>11, <2>2, <2>3 DEF AttrOK
  <1>13. CallOK(d)
    BY <1>9, <1>12 DEF CallOK
  <1>14. \A r \in Session \ {s} : Apart(d, sess[r])
    BY <1>1, <1>9, StepApart
  <1>15. statements' \in 0 .. MaxStatement
    BY <1>7 DEF AttrInv, AttrTypeOK
  <1> QED
    BY <1>7, <1>9, <1>13, <1>14, <1>15, CallChange

-----------------------------------------------------------------------------
(* The commit *)

(* The names after the commit of c. *)
LEMMA CommitNames ==
    ASSUME AttrInv, NEW c \in AttrCall, AttrOK(c), wed_attr' = [wed_attr EXCEPT ![c.aid] = c.new]
    PROVE  /\ Names' = IF c.old = NoRow THEN Names \cup {c.new.name}
                       ELSE (Names \ {c.old.name}) \cup {c.new.name}
           /\ UniqueNames'
  <1>1. /\ c.aid \in Aid /\ c.new \in Attr /\ c.new # NoRow /\ c.old = wed_attr[c.aid]
        /\ wed_attr \in [Aid -> Attr \cup {NoRow}]
    BY AttrAssumption DEF AttrCall, AttrOK, Attr, AttrInv, AttrTypeOK
  <1>2. wed_attr'[c.aid] = c.new /\ \A b \in Aid \ {c.aid} : wed_attr'[b] = wed_attr[b]
    BY <1>1
  <1>3. \A b \in Aid \ {c.aid} : wed_attr[b] # NoRow => wed_attr[b].name # c.new.name
    BY DEF AttrOK
  <1>4. \A b \in Aid \ {c.aid} : wed_attr[b] # NoRow /\ c.old # NoRow
                                    => wed_attr[b].name # c.old.name
    BY <1>1 DEF AttrInv, UniqueNames
  <1>5. UniqueNames'
    BY <1>1, <1>2, <1>3 DEF AttrInv, UniqueNames
  <1>6. CASE c.old = NoRow
    <2>1. ASSUME NEW n \in Names'
          PROVE  n \in Names \cup {c.new.name}
      BY <1>1, <1>2 DEF Names
    <2>2. ASSUME NEW n \in Names \cup {c.new.name}
          PROVE  n \in Names'
      BY <1>1, <1>2, <1>6 DEF Names
    <2>3. Names' = Names \cup {c.new.name}
      BY <2>1, <2>2
    <2> QED
      BY <1>5, <1>6, <2>3
  <1>7. CASE c.old # NoRow
    <2>1. ASSUME NEW n \in Names'
          PROVE  n \in (Names \ {c.old.name}) \cup {c.new.name}
      BY <1>1, <1>2, <1>4, <1>7 DEF Names
    <2>2. ASSUME NEW n \in (Names \ {c.old.name}) \cup {c.new.name}
          PROVE  n \in Names'
      BY <1>1, <1>2, <1>7 DEF Names
    <2>3. Names' = (Names \ {c.old.name}) \cup {c.new.name}
      BY <2>1, <2>2
    <2> QED
      BY <1>5, <1>7, <2>3
  <1> QED
    BY <1>5, <1>6, <1>7

(* new_wed_attr commits: all tables change at once, as wed_attr does. *)
LEMMA CommitInv ==
    ASSUME AttrInv, NEW s \in Session, Commit(s)
    PROVE  AttrInv'
  <1> DEFINE c == sess[s]
             mine == {c.plan[i].table : i \in DOMAIN c.plan}
  <1>1. /\ c.kind = "attr" /\ c.at = Len(c.plan)
        /\ wed_attr' = [wed_attr EXCEPT ![c.aid] = c.new]
        /\ column' = [t \in Table |-> IF t \in mine THEN c.mine[t] ELSE column[t]]
        /\ sess' = [sess EXCEPT ![s] = None]
        /\ UNCHANGED statements
    BY DEF Commit
  <1>2. c \in AttrCall
    BY <1>1 DEF AttrInv, SessType, KernelCalls, None
  <1>3. /\ AttrOK(c) /\ c.aid \in Aid /\ c.new \in Attr /\ c.change \in Change
        /\ c.mine \in [Table -> Columns]
    BY <1>1, <1>2 DEF AttrCall, AttrInv, CallOK
  <1>4. c.plan = AlterPlan(c.change) /\ c.at > 0 /\ DOMAIN c.plan = 1 .. c.at
    <2>1. c.plan = AlterPlan(c.change)
      BY <1>3 DEF AttrOK
    <2>2. Len(c.plan) \in 2 .. 3
      BY <1>3, <2>1, PlanFacts
    <2>3. DOMAIN c.plan = 1 .. Len(c.plan)
      BY <1>3, <2>1, PlanFacts
    <2>4. c.at = Len(c.plan)
      BY <1>1
    <2>5. c.at > 0
      BY <2>2, <2>4
    <2>6. DOMAIN c.plan = 1 .. c.at
      BY <2>3, <2>4
    <2> QED
      BY <2>1, <2>5, <2>6
  <1>5. mine = IF c.change = "default" THEN Table \ {"wed_pred"} ELSE Table
    BY <1>3, <1>4, PlanTables
  <1>6. \A t \in mine : t \in Table /\ c.mine[t] = Altered(c, t, column[t])
    BY <1>3, <1>4, <1>5 DEF AttrOK
  <1> HIDE DEF mine
  <1>7. ColumnsAreAttributes'
    <2> SUFFICES ASSUME NEW t \in Table PROVE DOMAIN column'[t] = Names'
      BY DEF ColumnsAreAttributes
    <2>1. /\ column[t] \in Columns /\ DOMAIN column[t] = Names
          /\ c.old # NoRow => c.old.name \in DOMAIN column[t]
      BY <1>2, <1>3, OldHasColumn DEF AttrInv, ColumnsAreAttributes
    <2>2. Names' = IF c.old = NoRow THEN Names \cup {c.new.name}
                   ELSE (Names \ {c.old.name}) \cup {c.new.name}
      BY <1>1, <1>2, <1>3, CommitNames
    <2>3. CASE t \in mine
      <3>1. column'[t] = Altered(c, t, column[t])
        BY <1>1, <1>6, <2>3
      <3>2. c.change = ChangeOf(c.old, c.new)
        BY <1>3 DEF AttrOK
      <3> QED
        BY <1>2, <2>1, <2>2, <3>1, <3>2, AlteredFacts
    <2>4. CASE t \notin mine
      <3>1. c.old # NoRow /\ c.new.name = c.old.name
        BY <1>3, <1>5, <2>4 DEF AttrOK, ChangeOf
      <3> QED
        BY <1>1, <2>1, <2>2, <2>4, <3>1
    <2> QED
      BY <2>3, <2>4
  <1>8. UniqueNames'
    BY <1>1, <1>2, <1>3, CommitNames
  <1>9. AttrTypeOK'
    <2>1. column' \in [Table -> Columns]
      BY <1>1, <1>3 DEF AttrInv, AttrTypeOK
    <2>2. wed_attr' \in [Aid -> [name : Name, default : Default] \cup {NoRow}]
      BY <1>1, <1>3 DEF AttrInv, AttrTypeOK, Attr
    <2> QED
      BY <1>1, <2>1, <2>2 DEF AttrInv, AttrTypeOK
  <1>10. SessType'
    BY <1>1 DEF AttrInv, SessType
  <1>11. /\ sess'[s] = None /\ None.kind = "none"
         /\ \A r \in Session \ {s} : sess'[r] = sess[r]
    BY <1>1 DEF AttrInv, SessType, None
  <1>12. ASSUME NEW r \in Session
         PROVE  CallOK(sess[r])'
    <2>1. PICK e : e = sess'[r]
      OBVIOUS
    <2>2. CASE r = s
      <3>1. CallOK(e)'
        BY <1>11, <2>1, <2>2 DEF CallOK
      <3> QED
        BY <2>1, <3>1
    <2>3. CASE r # s
      <3>1. e = sess[r] /\ Apart(c, e) /\ CallOK(e) /\ e \in {None} \cup AttrCall \cup KernelCalls
        BY <1>11, <2>1, <2>3 DEF AttrInv, SessType
      <3>2. e.kind # "none" => e.at = 0
        BY <1>1, <1>4, <3>1 DEF Apart
      <3>3. e.kind = "kernel" => KernelOK(e)'
        BY <3>1, <3>2 DEF CallOK, KernelOK
      <3>4. ASSUME e.kind = "attr"
            PROVE  AttrOK(e)'
        <4>1. AttrOK(e) /\ e.aid \in Aid /\ e.at = 0
          BY <3>1, <3>2, <3>4 DEF CallOK, AttrCall, KernelCalls, None
        <4>2. e.aid # c.aid /\ lowered[e.new.name] # lowered[c.new.name]
          BY <1>1, <3>1, <3>4 DEF Apart
        <4>3. /\ wed_attr'[e.aid] = wed_attr[e.aid] /\ wed_attr'[c.aid] = c.new
              /\ \A b \in Aid \ {c.aid} : wed_attr'[b] = wed_attr[b]
          BY <1>1, <1>3, <4>1, <4>2 DEF AttrInv, AttrTypeOK
        <4>4. \A b \in Aid \ {e.aid} :
                 wed_attr'[b] # NoRow => lowered[wed_attr'[b].name] # lowered[e.new.name]
          BY <4>1, <4>2, <4>3 DEF AttrOK
        <4> QED
          BY <4>1, <4>3, <4>4 DEF AttrOK
      <3>5. CallOK(e)'
        BY <3>3, <3>4 DEF CallOK
      <3> QED
        BY <2>1, <3>5
    <2> QED
      BY <2>2, <2>3
  <1>13. ASSUME NEW q \in Session, NEW r \in Session, q # r
         PROVE  Apart(sess'[q], sess'[r])
    <2>1. CASE s \in {q, r}
      BY <1>11, <2>1 DEF Apart
    <2>2. CASE s \notin {q, r}
      BY <1>11, <1>13, <2>2 DEF AttrInv
    <2> QED
      BY <2>1, <2>2
  <1>14. \A q, r \in Session : q # r => Apart(sess[q], sess[r])'
    BY <1>13 DEF Apart
  <1> QED
    BY <1>7, <1>8, <1>9, <1>10, <1>12, <1>14 DEF AttrInv

-----------------------------------------------------------------------------
(* The theorems *)

(* Without attributes no table has attribute columns. *)
LEMMA AttrInitInv == AttrInit => AttrInv
  <1> SUFFICES ASSUME AttrInit PROVE AttrInv
    OBVIOUS
  <1>1. \A t \in Table : DOMAIN column[t] = {} /\ column[t] \in Columns
    <2>1. DOMAIN <<>> = {} /\ <<>> \in [{} -> Default \cup {NULL}]
      OBVIOUS
    <2>2. <<>> \in Columns
      BY <2>1, ColumnsFacts
    <2> QED
      BY <2>1, <2>2 DEF AttrInit
  <1>2. Names = {}
    BY DEF AttrInit, Names
  <1>3. AttrTypeOK
    BY <1>1, AttrAssumption DEF AttrInit, AttrTypeOK
  <1>4. SessType
    BY DEF AttrInit, SessType
  <1>5. \A s \in Session : sess[s].kind = "none"
    BY DEF AttrInit, None
  <1>6. \A s \in Session : CallOK(sess[s])
    BY <1>5 DEF CallOK
  <1>7. \A s, r \in Session : s # r => Apart(sess[s], sess[r])
    BY <1>5 DEF Apart
  <1>8. UniqueNames
    BY DEF AttrInit, UniqueNames
  <1>9. ColumnsAreAttributes
    BY <1>1, <1>2 DEF ColumnsAreAttributes
  <1> QED
    BY <1>3, <1>4, <1>6, <1>7, <1>8, <1>9 DEF AttrInv

(* Every step keeps the invariant. *)
LEMMA AttrNextInv == AttrInv /\ [AttrNext]_attrVars => AttrInv'
  <1> SUFFICES ASSUME AttrInv, [AttrNext]_attrVars PROVE AttrInv'
    OBVIOUS
  <1>1. ASSUME NEW s \in Session, NEW a \in Aid, NEW n \in Name, NEW d \in Default,
               Write(s, a, n, d)
        PROVE  AttrInv'
    BY <1>1, WriteInv
  <1>2. ASSUME NEW s \in Session, AlterFails(s) \/ KernelEnds(s)
        PROVE  AttrInv'
    BY <1>2, LeaveInv DEF AlterFails, KernelEnds
  <1>3. ASSUME NEW s \in Session, Alter(s) \/ Commit(s) \/ KernelCall(s) \/ KernelStep(s)
        PROVE  AttrInv'
    BY <1>3, AlterInv, CommitInv, KernelCallInv, KernelStepInv
  <1>4. CASE UNCHANGED attrVars
    <2>1. UNCHANGED <<wed_attr, column, sess, statements>>
      BY <1>4 DEF attrVars
    <2>2. AttrTypeOK' /\ SessType' /\ UniqueNames' /\ ColumnsAreAttributes'
      BY <2>1 DEF AttrInv, AttrTypeOK, SessType, UniqueNames, ColumnsAreAttributes, Names
    <2>3. ASSUME NEW r \in Session
          PROVE  CallOK(sess[r])'
      <3>1. PICK e : e = sess[r] /\ e = sess'[r]
        BY <2>1
      <3>2. CallOK(e)
        BY <3>1 DEF AttrInv
      <3>3. CallOK(e)'
        BY <2>1, <3>2 DEF CallOK, AttrOK, KernelOK
      <3> QED
        BY <3>1, <3>3
    <2>4. \A s, r \in Session : s # r => Apart(sess[s], sess[r])'
      BY <2>1 DEF AttrInv, Apart
    <2> QED
      BY <2>2, <2>3, <2>4 DEF AttrInv
  <1> QED
    BY <1>1, <1>2, <1>3, <1>4 DEF AttrNext

(* The invariant of the statements on wed_attr and of the kernel's calls. *)
THEOREM AttrSafety == AttrSpec => []AttrInv
  BY AttrInitInv, AttrNextInv, PTL DEF AttrSpec

(***************************************************************************)
(* wed_flow, wed_trace and wed_pred have a column for every attribute and  *)
(* no other, however the statements on wed_attr interleave and whichever   *)
(* ALTER TABLE of new_wed_attr is refused.                                 *)
(***************************************************************************)
THEOREM SchemaFollowsAttributes == AttrSpec => []ColumnsAreAttributes
  <1>1. AttrInv => ColumnsAreAttributes
    BY DEF AttrInv
  <1> QED
    BY AttrSafety, <1>1, PTL

(***************************************************************************)
(* A kernel call finds each column of the wed_flow row in wed_pred and     *)
(* wed_trace: no attribute appears or changes its name in between.         *)
(***************************************************************************)
THEOREM OneSchemaPerCall == AttrSpec => []KernelSeesOneSchema
  <1>1. AttrInv => KernelSeesOneSchema
    BY DEF AttrInv, KernelSeesOneSchema, CallOK, KernelOK
  <1> QED
    BY AttrSafety, <1>1, PTL

(* A session whose rivals hold nothing it minds does not wait. *)
LEMMA Free ==
    ASSUME AttrInv, NEW p \in Session, sess[p].kind # "none",
           \A r \in Session \ {p} : sess[r].kind # "none" =>
              sess[r].at = 0 \/ (sess[p].kind # "attr" /\ sess[r].kind # "attr")
    PROVE  Active(p) /\ ~Waits(p)
  <1> SUFFICES ASSUME Waits(p) PROVE FALSE
    BY DEF Active
  <1>1. sess[p].at < Len(sess[p].plan) /\ Blocked(p) # {}
    BY DEF Waits
  <1>2. /\ sess[p].at \in Nat /\ Len(sess[p].plan) \in 2 .. 3
        /\ \A i \in 1 .. Len(sess[p].plan) : sess[p].plan[i].mode = "X" <=> sess[p].kind = "attr"
    BY HeldFacts DEF AttrInv
  <1>3. Next1(p).mode = "X" => sess[p].kind = "attr"
    BY <1>1, <1>2 DEF Next1
  <1>4. PICK r \in Session \ {p} : \E h \in Held(r) : "X" \in {h.mode, Next1(p).mode}
    BY <1>1 DEF Blocked
  <1>5. PICK h \in Held(r) : "X" \in {h.mode, Next1(p).mode}
    BY <1>4
  <1>6. sess[r].kind # "none"
    BY <1>5 DEF Held, Active
  <1>7. /\ sess[r].at \in Nat /\ sess[r].at <= Len(sess[r].plan) /\ Len(sess[r].plan) \in 2 .. 3
        /\ \A i \in 1 .. Len(sess[r].plan) : sess[r].plan[i].mode = "X" <=> sess[r].kind = "attr"
        /\ Held(r) = {sess[r].plan[i] : i \in 1 .. sess[r].at}
    BY <1>6, HeldFacts DEF AttrInv
  <1>8. sess[r].at # 0 /\ (h.mode = "X" => sess[r].kind = "attr")
    BY <1>5, <1>7
  <1> QED
    BY <1>3, <1>5, <1>6, <1>8

(***************************************************************************)
(* Whenever sessions wait for table locks, one is left that does not wait: *)
(* statements on wed_attr and calls of the kernel never deadlock.          *)
(***************************************************************************)
THEOREM NobodyDeadlocks == AttrSpec => []NoLockCycle
  <1>1. AttrInv => NoLockCycle
    <2> SUFFICES ASSUME AttrInv, NEW s \in Session, Waits(s)
                 PROVE  \E p \in Session : Active(p) /\ ~Waits(p)
      BY DEF NoLockCycle
    <2>1. CASE \E p \in Session : sess[p].kind = "attr" /\ sess[p].at > 0
      <3>1. PICK p \in Session : sess[p].kind = "attr" /\ sess[p].at > 0
        BY <2>1
      <3>2. \A r \in Session \ {p} : sess[r].kind # "none" => sess[r].at = 0
        BY <3>1 DEF AttrInv, Apart
      <3> QED
        BY <3>1, <3>2, Free
    <2>2. CASE ~ \E p \in Session : sess[p].kind = "attr" /\ sess[p].at > 0
      <3>1. PICK p \in Session \ {s} : Held(p) # {}
        BY DEF Waits, Blocked
      <3>2. sess[p].kind # "none"
        BY <3>1 DEF Held, Active
      <3>3. sess[p].at \in Nat /\ Held(p) = {sess[p].plan[i] : i \in 1 .. sess[p].at}
        BY <3>2, HeldFacts DEF AttrInv
      <3>4. sess[p].at > 0
        BY <3>1, <3>3
      <3>5. sess[p].kind # "attr"
        BY <2>2, <3>4
      <3>6. \A r \in Session \ {p} : sess[r].kind = "attr" => sess[r].at = 0
        <4> SUFFICES ASSUME NEW r \in Session \ {p}, sess[r].kind = "attr"
                     PROVE  sess[r].at = 0
          OBVIOUS
        <4>1. sess[r].at \in Nat
          BY HeldFacts DEF AttrInv
        <4> QED
          BY <2>2, <4>1
      <3> QED
        BY <3>2, <3>5, <3>6, Free
    <2> QED
      BY <2>1, <2>2
  <1> QED
    BY AttrSafety, <1>1, PTL
=============================================================================
