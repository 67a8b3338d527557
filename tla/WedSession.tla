----------------------------- MODULE WedSession -----------------------------
(***************************************************************************)
(* One call of the kernel trigger, query by query.  kernel_function is     *)
(* VOLATILE and runs in READ COMMITTED: each of its queries sees the       *)
(* catalog as committed when that query starts, so an edit of wed_cond,    *)
(* wed_pred or wed_trig can fall between two of them.  What the call       *)
(* writes is seen by others when it commits.  The row lock of wed_flow     *)
(* orders the updates of an instance; find_job keeps job_pool to itself    *)
(* until the commit.  The wedflow user may insert and update catalog rows  *)
(* and delete none (winstall.sh).                                          *)
(***************************************************************************)
EXTENDS Naturals, Sequences, FiniteSets, Functions

CONSTANTS
    Session,     \* sessions that write wed_flow
    Wid, Uptkn, Tgid, Cid,
    Val,         \* values of the one WED-attribute
    Edits,       \* kinds of catalog edits that commit while calls run
    Initial,     \* the catalog at the start
    NoRow, NULL,
    MaxEdit,     \* bound: catalog edits
    MaxWrite     \* bound: committed writes

Catalog == [cond : SUBSET Cid, final : SUBSET Cid, pred : SUBSET (Cid \X Val),
            trig : [Tgid -> Cid \cup {NoRow}]]

Token == Uptkn \cup {NULL, "exception"}

Row == [val : Val, var_uptkn : Token]

Status == [final : BOOLEAN, excpt : BOOLEAN]

Job == [tgid : Tgid, wid : Wid, locked : BOOLEAN, tf : BOOLEAN]

ASSUME SessionAssumption ==
    /\ Edits \subseteq {"add", "insert", "move", "final"}
    /\ MaxEdit \in Nat /\ MaxWrite \in Nat
    /\ NULL \notin Uptkn /\ "exception" \notin Uptkn
    /\ NoRow \notin Cid /\ NoRow \notin Row /\ NoRow \notin Status /\ NoRow \notin Job
    /\ Initial \in Catalog

VARIABLES
    cat,         \* the committed catalog
    wed_flow,    \* the committed row of every instance
    st_status,
    job_pool,
    sess,        \* the call every session is in
    seen,        \* history: catalogs committed since the call began
    last,        \* history: the write committed last, as it was asked for
    edits,       \* history: the kinds of catalog edits so far
    writes

sessionVars == <<cat, wed_flow, st_status, job_pool, sess, seen, last, edits, writes>>

Idle == [pc |-> "idle"]

SessionInit ==
    /\ cat = Initial
    /\ wed_flow = [w \in Wid |-> NoRow]
    /\ st_status = [w \in Wid |-> NoRow]
    /\ job_pool = [t \in Uptkn |-> NoRow]
    /\ sess = [s \in Session |-> Idle]
    /\ seen = [s \in Session |-> {}]
    /\ last = [given |-> NULL, event |-> "none", done |-> {}, wid |-> NULL, ok |-> TRUE]
    /\ edits = <<>> /\ writes = 0

-----------------------------------------------------------------------------
(* The queries of the kernel, on the catalog k they see.                   *)

wed_final_cond_validation(k) == k.final # {}
wed_cond_validation(k) == \A c \in k.cond : \E v \in Val : <<c, v>> \in k.pred
wed_trig_validation(k) == \A c \in k.cond \ k.final : \E g \in Tgid : k.trig[g] = c

pred_match(k, v) == {c \in k.cond : <<c, v>> \in k.pred}
final_match(k, v) == pred_match(k, v) \cap k.final # {}
wed_trig(k, cond_set) == {g \in Tgid : k.trig[g] \in cond_set}

(* Mutant: a final state is accepted while triggers are running. *)
OutcomeEager(event, cond_set, final, rtrg) ==
    CASE event = "INSERT" /\ cond_set = {} -> "error"
      [] final -> "final"
      [] event = "UPDATE" /\ rtrg = {} /\ cond_set = {} -> "exception"
      [] OTHER -> "run"

(* What the call does once all is read. *)
Outcome(event, cond_set, final, rtrg) ==
    CASE event = "INSERT" /\ cond_set = {} -> "error"
      [] event = "INSERT" /\ final -> "final"
      [] event = "UPDATE" /\ rtrg = {} /\ cond_set = {} -> "exception"
      [] event = "UPDATE" /\ final -> IF rtrg # {} THEN "error" ELSE "final"
      [] OTHER -> "run"

Fired(outcome, rtrg, trigs) == IF outcome = "run" THEN trigs \ rtrg ELSE {}

-----------------------------------------------------------------------------
At(s, pc) == sess[s].pc = pc

Goto(s, r) == sess' = [sess EXCEPT ![s] = r]

(* find_job's ALTER TABLE locks job_pool against everybody until the       *)
(* commit; a call without it reads job_pool in running_triggers, or writes *)
(* it when it fires, and keeps the lock of that query.                     *)
HasPool(s) == sess[s].pc \in {"running", "match", "fire", "commit"} /\ sess[s].done # {}
UsesPool(s) == \/ HasPool(s)
               \/ sess[s].pc \in {"match", "fire", "commit"} /\ sess[s].event = "UPDATE"
               \/ At(s, "commit") /\ sess[s].trigs # {}

PoolOpen(s) == \A r \in Session \ {s} : ~HasPool(r)
PoolUnused(s) == \A r \in Session \ {s} : ~UsesPool(r)

Unlocked(w) == \A s \in Session : ~At(s, "idle") => sess[s].wid # w

Tables == <<cat, wed_flow, st_status, job_pool, seen, last, edits, writes>>

(* An error rolls the statement back. *)
Abort(s) == /\ sess' = [sess EXCEPT ![s] = Idle]
            /\ seen' = [seen EXCEPT ![s] = {}]
            /\ UNCHANGED <<cat, wed_flow, st_status, job_pool, last, edits, writes>>

(* INSERT INTO wed_flow; UPDATE wed_flow, in which var_uptkn keeps its     *)
(* value when the statement does not set it ("given" is then NULL).        *)
Call(event, w, v, given, tok) ==
    [pc |-> "final", event |-> event, wid |-> w, val |-> v, given |-> given, tok |-> tok,
     done |-> {}, wrote |-> NULL, rtrg |-> {}, cond_set |-> {},
     final |-> FALSE, trigs |-> {}]

Calls ==
    [pc : {"final", "cond", "trig", "status", "find", "running", "match", "fire", "commit"},
     event : {"INSERT", "UPDATE"}, wid : Wid, val : Val, given : Token, tok : Token,
     done : SUBSET Uptkn, wrote : Tgid \cup {NULL}, rtrg : SUBSET Tgid,
     cond_set : SUBSET Cid, final : BOOLEAN, trigs : SUBSET Tgid]

(* Type invariant. *)
SessionTypeOK ==
    /\ cat \in Catalog
    /\ wed_flow \in [Wid -> Row \cup {NoRow}]
    /\ st_status \in [Wid -> Status \cup {NoRow}]
    /\ job_pool \in [Uptkn -> Job \cup {NoRow}]
    /\ sess \in [Session -> {Idle} \cup Calls]

Begin(s, event, w, v, given) ==
    /\ At(s, "idle") /\ Unlocked(w) /\ writes < MaxWrite
    /\ IF event = "INSERT" THEN wed_flow[w] = NoRow /\ given = NULL ELSE wed_flow[w] # NoRow
    /\ LET tok == IF event = "UPDATE" /\ given = NULL THEN wed_flow[w].var_uptkn ELSE given
       IN Goto(s, Call(event, w, v, given, tok))
    /\ seen' = [seen EXCEPT ![s] = {cat}]
    /\ UNCHANGED <<cat, wed_flow, st_status, job_pool, last, edits, writes>>

(* A step to the next query, or an error. *)
Step(s, from, ok, r) ==
    /\ At(s, from)
    /\ IF ok THEN Goto(s, r) /\ UNCHANGED Tables ELSE Abort(s)

ValidateFinal(s) == Step(s, "final", wed_final_cond_validation(cat),
                         [sess[s] EXCEPT !.pc = "cond"])
ValidateCond(s) == Step(s, "cond", wed_cond_validation(cat), [sess[s] EXCEPT !.pc = "trig"])

ValidateTrig(s) ==
    Step(s, "trig", wed_trig_validation(cat),
         [sess[s] EXCEPT !.pc = IF sess[s].event = "INSERT" THEN "match" ELSE "status"])

(* get_st_status, and the token test. *)
get_st_status(s) ==
    LET c  == sess[s]
        st == st_status[c.wid]
    IN Step(s, "status",
            /\ st.final => st.excpt
            /\ c.tok # NULL
            /\ c.tok = "exception" => st.excpt,
            [c EXCEPT !.pc = IF c.tok = "exception" THEN "running" ELSE "find"])

(* Mutant: without "tf is null". *)
find_job_completed(s) ==
    LET c  == sess[s]
        ok == /\ job_pool[c.tok] # NoRow /\ job_pool[c.tok].locked
              /\ job_pool[c.tok].wid = c.wid
    IN /\ PoolUnused(s)
       /\ Step(s, "find", ok, [c EXCEPT !.pc = "running", !.done = {c.tok},
                                        !.wrote = job_pool[c.tok].tgid])

find_job(s) ==
    LET c  == sess[s]
        ok == /\ job_pool[c.tok] # NoRow /\ job_pool[c.tok].locked /\ ~job_pool[c.tok].tf
              /\ job_pool[c.tok].wid = c.wid
    IN /\ PoolUnused(s)
       /\ Step(s, "find", ok, [c EXCEPT !.pc = "running", !.done = {c.tok},
                                        !.wrote = job_pool[c.tok].tgid])

OpenJobs(w) == {t \in Uptkn : /\ job_pool[t] # NoRow /\ job_pool[t].wid = w
                              /\ ~job_pool[t].tf}

running_triggers(s) ==
    /\ PoolOpen(s)
    /\ Step(s, "running", TRUE,
            [sess[s] EXCEPT !.pc = "match",
               !.rtrg = {job_pool[t].tgid : t \in OpenJobs(sess[s].wid) \ sess[s].done}])

MatchPredicates(s) ==
    LET c     == sess[s]
        conds == pred_match(cat, c.val)
    IN Step(s, "match",
            Outcome(c.event, conds, final_match(cat, c.val), c.rtrg) # "error",
            [c EXCEPT !.pc = "fire", !.cond_set = conds,
                      !.final = final_match(cat, c.val)])

(* Mutant: the triggers are the ones seen when the call began. *)
squeeze_from_start(s) ==
    Step(s, "fire", TRUE,
         [sess[s] EXCEPT !.pc = "commit",
            !.trigs = wed_trig(CHOOSE k \in seen[s] : \A m \in seen[s] : k.cond \subseteq m.cond,
                               sess[s].cond_set)])

squeeze_the_trigger(s) ==
    /\ PoolOpen(s)
    /\ Step(s, "fire", TRUE,
            [sess[s] EXCEPT !.pc = "commit",
               !.trigs = IF sess[s].final THEN {} ELSE wed_trig(cat, sess[s].cond_set)])

(* The jobs, the trace entry and the status are written and committed. *)
Draws(G) == UNION {Bijection(T, G) : T \in SUBSET {t \in Uptkn : job_pool[t] = NoRow}}

(* As if the catalog had been read once. *)
AsOneRead(s, k) ==
    LET c     == sess[s]
        conds == pred_match(k, c.val)
        out   == Outcome(c.event, c.cond_set, c.final, c.rtrg)
        one   == Outcome(c.event, conds, final_match(k, c.val), c.rtrg)
    IN out = one /\ Fired(out, c.rtrg, c.trigs) = Fired(one, c.rtrg, wed_trig(k, conds))

CommitCall(s) ==
    LET c     == sess[s]
        out   == Outcome(c.event, c.cond_set, c.final, c.rtrg)
        fired == Fired(out, c.rtrg, c.trigs)
    IN /\ At(s, "commit") /\ writes < MaxWrite
       /\ \E b \in Draws(fired) :
             job_pool' = [t \in Uptkn |->
                 IF t \in DOMAIN b
                 THEN [tgid |-> b[t], wid |-> c.wid, locked |-> FALSE, tf |-> FALSE]
                 ELSE IF t \in c.done THEN [job_pool[t] EXCEPT !.tf = TRUE]
                 ELSE job_pool[t]]
       /\ wed_flow' = [wed_flow EXCEPT ![c.wid] = [val |-> c.val, var_uptkn |-> c.tok]]
       /\ st_status' = [st_status EXCEPT ![c.wid] =
                           [final |-> out \in {"final", "exception"},
                            excpt |-> out = "exception"]]
       /\ last' = [given |-> c.given, event |-> c.event, done |-> c.done, wid |-> c.wid,
                   ok |-> \E k \in seen[s] : AsOneRead(s, k)]
       /\ Goto(s, Idle) /\ seen' = [seen EXCEPT ![s] = {}]
       /\ writes' = writes + 1
       /\ UNCHANGED <<cat, edits>>

job_lock(t) ==
    /\ \A s \in Session : ~HasPool(s)
    /\ job_pool[t] # NoRow /\ ~job_pool[t].locked
    /\ job_pool' = [job_pool EXCEPT ![t].locked = TRUE]
    /\ UNCHANGED <<cat, wed_flow, st_status, sess, seen, last, edits, writes>>

-----------------------------------------------------------------------------
(* Catalog edits: a condition with its predicate and trigger in one        *)
(* transaction, or statement by statement; UPDATE wed_trig SET cid; UPDATE *)
(* wed_cond SET final, under the unique index on it.                       *)

Commits(kind, new) ==
    /\ kind \in Edits /\ Len(edits) < MaxEdit
    /\ cat' = new /\ edits' = Append(edits, kind)
    /\ seen' = [s \in Session |-> IF At(s, "idle") THEN {} ELSE seen[s] \cup {new}]
    /\ UNCHANGED <<wed_flow, st_status, job_pool, sess, last, writes>>

AddCondition(c, v, g) ==
    /\ c \notin cat.cond /\ cat.trig[g] = NoRow
    /\ Commits("add", [cat EXCEPT !.cond = @ \cup {c}, !.pred = @ \cup {<<c, v>>},
                                  !.trig[g] = c])

InsertCond(c) == c \notin cat.cond /\ Commits("insert", [cat EXCEPT !.cond = @ \cup {c}])

InsertPred(c, v) == /\ c \in cat.cond /\ <<c, v>> \notin cat.pred
                    /\ Commits("insert", [cat EXCEPT !.pred = @ \cup {<<c, v>>}])

InsertTrig(g, c) == /\ c \in cat.cond /\ cat.trig[g] = NoRow
                    /\ Commits("insert", [cat EXCEPT !.trig[g] = c])

MoveTrig(g, c) == /\ cat.trig[g] \notin {NoRow, c} /\ c \in cat.cond
                  /\ Commits("move", [cat EXCEPT !.trig[g] = c])

SetFinal(c) == /\ c \in cat.cond
               /\ c \notin cat.final => cat.final = {}
               /\ Commits("final", [cat EXCEPT !.final = IF c \in @ THEN {} ELSE {c}])

Edit == \E c \in Cid :
           \/ InsertCond(c) \/ SetFinal(c)
           \/ \E v \in Val : InsertPred(c, v) \/ \E g \in Tgid : AddCondition(c, v, g)
           \/ \E g \in Tgid : InsertTrig(g, c) \/ MoveTrig(g, c)

Kernel(s) == \/ ValidateFinal(s) \/ ValidateCond(s) \/ ValidateTrig(s) \/ get_st_status(s)
             \/ find_job(s) \/ running_triggers(s) \/ MatchPredicates(s)
             \/ squeeze_the_trigger(s) \/ CommitCall(s)

SessionNext ==
    \/ \E s \in Session :
          \/ Kernel(s)
          \/ \E event \in {"INSERT", "UPDATE"}, w \in Wid, v \in Val, given \in Token :
                Begin(s, event, w, v, given)
    \/ \E t \in Uptkn : job_lock(t)
    \/ Edit

SessionSpec == SessionInit /\ [][SessionNext]_sessionVars

-----------------------------------------------------------------------------
(* The catalog has only grown: whatever was added came with its predicate  *)
(* and its trigger in one transaction.                                     *)
OnlyGrown == Range(edits) \subseteq {"add"}

(* "no running triggers, not fired any new transitions and is not a final  *)
(* state" is detected as an inconsistent state (WED_control.sql:338): an   *)
(* instance that is neither final nor an exception has a job that is open, *)
(* as long as the catalog only grows while calls run.                      *)
InconsistentIsDetected ==
    OnlyGrown => \A w \in Wid : (wed_flow[w] # NoRow /\ ~st_status[w].final)
                                => OpenJobs(w) # {}

(* Where the catalog only grows, a call fires what it would have fired had *)
(* it read the catalog once, at some moment between its first query and    *)
(* its commit.                                                             *)
CatalogReadOnce == OnlyGrown => last.ok

(* An instance that has ended, or is in an exception, has no open job,     *)
(* whatever is done to the catalog meanwhile.                              *)
EndedHasNoJobs ==
    \A w \in Wid : (wed_flow[w] # NoRow /\ st_status[w].final) => OpenJobs(w) = {}

(* A job is completed only by a statement that sets its token: the token   *)
(* that the row keeps in var_uptkn never completes one.                    *)
CompletedByItsToken == last.done \subseteq {last.given}
=============================================================================
