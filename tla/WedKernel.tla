----------------------------- MODULE WedKernel ------------------------------
(***************************************************************************)
(* The WED-flow engine of one database at run time: the kernel trigger on  *)
(* wed_flow, the lock_job trigger on job_pool, and the job inspectors run  *)
(* by the background workers.  One action is one committed statement; a    *)
(* statement the code refuses rolls back and is not a step.  The inspector *)
(* reads job_pool under one lock and writes it under a stronger one, so it *)
(* takes two steps and other sessions run in between.                      *)
(***************************************************************************)
EXTENDS WedCatalog, Naturals, Sequences, Functions

CONSTANTS
    Wid,         \* serial numbers of wed_flow
    Uptkn,       \* tokens new_uptkn can return
    State,       \* the WED-states sessions write
    Inspector,   \* background workers started for the database
    NoRow,       \* absence of a row
    MaxTrace     \* bound: writes of one instance

Ti == {"null", "running", "expired"}   \* ti, read against tout

Job == [tgid : Tgid, wid : Wid, locked : BOOLEAN, aborted : BOOLEAN,
        ti : Ti, tf : BOOLEAN]         \* tf: the column is not NULL

Status == [final : BOOLEAN, excpt : BOOLEAN]

Entry == [st : State, tgid_wrote : Tgid \cup {NULL}, tgid_fired : SUBSET Tgid,
          final : BOOLEAN, excpt : BOOLEAN]

ASSUME KernelAssumption ==
    /\ State \subseteq [Attr -> Val]
    /\ NoRow \notin State
    /\ NoRow \notin Job
    /\ NoRow \notin Status
    /\ MaxTrace \in Nat

VARIABLES
    wed_flow,    \* current WED-state of every instance
    st_status,   \* its final and excpt flags
    wed_trace,   \* its history
    job_pool,    \* the job of every token in use
    inspector,   \* per inspector: pc and the tokens it has selected
    withdrawn    \* history: tokens closed by job_abort since their instance was last written

vars == <<wed_flow, st_status, wed_trace, job_pool, inspector, withdrawn>>

TypeOK ==
    /\ wed_flow \in [Wid -> State \cup {NoRow}]
    /\ st_status \in [Wid -> Status \cup {NoRow}]
    /\ wed_trace \in [Wid -> Seq(Entry)]
    /\ job_pool \in [Uptkn -> Job \cup {NoRow}]
    /\ inspector \in [Inspector -> [pc : {"idle", "scanned", "waiting", "dead"},
                                    rows : SUBSET Uptkn]]
    /\ withdrawn \subseteq Uptkn

-----------------------------------------------------------------------------
(* Rows of job_pool *)

IsJob(t) == job_pool[t] # NoRow

Open(t) == IsJob(t) /\ ~job_pool[t].tf

JobsOf(w) == {t \in Uptkn : IsJob(t) /\ job_pool[t].wid = w}

OpenJobsOf(w) == {t \in JobsOf(w) : Open(t)}

(* Mutant: the scan runs before find_job completes the job. *)
running_triggers_early(w, done) == {job_pool[t].tgid : t \in OpenJobsOf(w)}

running_triggers(w, done) == {job_pool[t].tgid : t \in OpenJobsOf(w) \ done}

(***************************************************************************)
(* The INSERTs into job_pool: an unused token per row (a collision with    *)
(* the unique index on uptkn rolls the transaction back).                  *)
(***************************************************************************)
NewJob(g, w) ==
    [tgid |-> g, wid |-> w, locked |-> FALSE, aborted |-> FALSE,
     ti |-> "null", tf |-> FALSE]

Draws(G) == UNION {Bijection(T, G) : T \in SUBSET {t \in Uptkn : ~IsJob(t)}}

(* job_pool with the jobs of done completed and one new job per trigger of b. *)
PoolAfter(w, done, b) ==
    [t \in Uptkn |-> IF t \in DOMAIN b THEN NewJob(b[t], w)
                     ELSE IF t \in done THEN [job_pool[t] EXCEPT !.tf = TRUE]
                     ELSE job_pool[t]]

-----------------------------------------------------------------------------
(* Table locks on job_pool, as far as they order the steps below.          *)
(* An inspector keeps the ACCESS SHARE lock of its SELECT and asks for     *)
(* ACCESS EXCLUSIVE; find_job asks for ACCESS EXCLUSIVE; everything else   *)
(* needs a lock that queues behind a waiting ACCESS EXCLUSIVE request.     *)

Holds(i) == inspector[i].pc \in {"scanned", "waiting"}

NoWaiter == \A i \in Inspector : inspector[i].pc # "waiting"

(* Mutant: ALTER TABLE takes a lock that lets readers stay. *)
JobPoolShared == TRUE

JobPoolFree == \A i \in Inspector : ~Holds(i)

-----------------------------------------------------------------------------
(* kernel_function *)

new_trace_entry(w, s, wrote, fired, final, excpt) ==
    wed_trace' = [wed_trace EXCEPT ![w] =
        Append(@, [st |-> s, tgid_wrote |-> wrote, tgid_fired |-> fired,
                   final |-> final, excpt |-> excpt])]

set_st_status(w, final, excpt) ==
    st_status' = [st_status EXCEPT ![w] = [final |-> final, excpt |-> excpt]]

(***************************************************************************)
(* AFTER INSERT on wed_flow.  An initial state that matches no predicate   *)
(* is refused.                                                             *)
(***************************************************************************)
NewInstance(w, s) ==
    /\ wed_flow[w] = NoRow
    /\ NoWaiter
    /\ Validated
    /\ pred_match(s) # {}
    /\ wed_flow' = [wed_flow EXCEPT ![w] = s]
    /\ UNCHANGED <<inspector, withdrawn>>

InsertRunning(w, s) ==
    /\ NewInstance(w, s)
    /\ ~final_match(s)
    /\ LET fired == squeeze_the_trigger(pred_match(s), {}) IN
          /\ \E b \in Draws(fired) : job_pool' = PoolAfter(w, {}, b)
          /\ new_trace_entry(w, s, NULL, fired, FALSE, FALSE)
    /\ set_st_status(w, FALSE, FALSE)

InsertFinal(w, s) ==
    /\ NewInstance(w, s)
    /\ final_match(s)
    /\ new_trace_entry(w, s, NULL, {}, TRUE, FALSE)
    /\ set_st_status(w, TRUE, FALSE)
    /\ UNCHANGED job_pool

(***************************************************************************)
(* BEFORE UPDATE on wed_flow.  The row lock of wed_flow orders updates of  *)
(* one instance.  A write with a token completes the token's job (find_job *)
(* asks only that it be locked and not completed) and must name the job's  *)
(* instance; a write with the token 'exception' needs an exception state.  *)
(* What happens next depends on the triggers still running, rtrg, and on   *)
(* the conditions the new state matches; a final state is refused while    *)
(* triggers are running.                                                   *)
(***************************************************************************)
(* Mutants: the instance of the job, or its completion, is not looked at. *)
find_job_any_wid(t, w) == Open(t) /\ job_pool[t].locked

find_job_completed(t, w) == IsJob(t) /\ job_pool[t].locked /\ job_pool[t].wid = w

find_job(t, w) ==
    /\ Open(t)
    /\ job_pool[t].locked
    /\ job_pool[t].wid = w

Inconsistent(w, s, wrote, done) ==
    /\ running_triggers(w, done) = {} /\ pred_match(s) = {}
    /\ job_pool' = PoolAfter(w, done, <<>>)
    /\ new_trace_entry(w, s, wrote, {}, TRUE, TRUE)
    /\ set_st_status(w, TRUE, TRUE)

(* Mutant: a final state is accepted while triggers are running. *)
ReachFinalEarly(w, s, wrote, done) ==
    /\ final_match(s)
    /\ job_pool' = PoolAfter(w, done, <<>>)
    /\ new_trace_entry(w, s, wrote, {}, TRUE, FALSE)
    /\ set_st_status(w, TRUE, FALSE)

ReachFinal(w, s, wrote, done) ==
    /\ final_match(s) /\ running_triggers(w, done) = {}
    /\ job_pool' = PoolAfter(w, done, <<>>)
    /\ new_trace_entry(w, s, wrote, {}, TRUE, FALSE)
    /\ set_st_status(w, TRUE, FALSE)

(* Mutant: the entry leaves out tgid_fired. *)
FireTriggersUnrecorded(w, s, wrote, done) ==
    LET rtrg == running_triggers(w, done) IN
    /\ ~final_match(s)
    /\ rtrg # {} \/ pred_match(s) # {}
    /\ \E b \in Draws(squeeze_the_trigger(pred_match(s), rtrg)) :
          job_pool' = PoolAfter(w, done, b)
    /\ new_trace_entry(w, s, wrote, {}, FALSE, FALSE)
    /\ set_st_status(w, FALSE, FALSE)

FireTriggers(w, s, wrote, done) ==
    LET rtrg  == running_triggers(w, done)
        fired == squeeze_the_trigger(pred_match(s), rtrg)
    IN  /\ ~final_match(s)
        /\ rtrg # {} \/ pred_match(s) # {}
        /\ \E b \in Draws(fired) : job_pool' = PoolAfter(w, done, b)
        /\ new_trace_entry(w, s, wrote, fired, FALSE, FALSE)
        /\ set_st_status(w, FALSE, FALSE)

Update(w, s, wrote, done) ==
    /\ wed_flow[w] # NoRow
    /\ Len(wed_trace[w]) < MaxTrace
    /\ Validated
    /\ st_status[w].final => st_status[w].excpt
    /\ \/ Inconsistent(w, s, wrote, done)
       \/ ReachFinal(w, s, wrote, done)
       \/ FireTriggers(w, s, wrote, done)
    /\ wed_flow' = [wed_flow EXCEPT ![w] = s]
    /\ withdrawn' = withdrawn \ JobsOf(w)
    /\ UNCHANGED inspector

UpdateWithToken(w, s, t) ==
    /\ JobPoolFree
    /\ find_job(t, w)
    /\ Update(w, s, job_pool[t].tgid, {t})

UpdateException(w, s) ==
    /\ NoWaiter
    /\ wed_flow[w] # NoRow
    /\ st_status[w].excpt
    /\ Update(w, s, NULL, {})

-----------------------------------------------------------------------------
(* set_job_lock: the lock_job trigger, reached through job_lock and job_abort. *)
(* A locked job can be aborted once, even after it was completed; an unlocked *)
(* one can be locked; an abort of an unlocked job is skipped.                 *)

CanLock(old) == ~old.locked

LockedRow(old) == [old EXCEPT !.locked = TRUE, !.aborted = FALSE, !.ti = "running"]

CanAbort(old) == old.locked /\ ~old.aborted

AbortedRow(old) == [old EXCEPT !.aborted = TRUE, !.tf = TRUE]

job_lock(t) ==
    /\ NoWaiter
    /\ IsJob(t) /\ CanLock(job_pool[t])
    /\ job_pool' = [job_pool EXCEPT ![t] = LockedRow(job_pool[t])]
    /\ UNCHANGED <<wed_flow, st_status, wed_trace, inspector, withdrawn>>

job_abort(t) ==
    /\ NoWaiter
    /\ IsJob(t) /\ CanAbort(job_pool[t])
    /\ job_pool' = [job_pool EXCEPT ![t] = AbortedRow(job_pool[t])]
    /\ withdrawn' = IF Open(t) THEN withdrawn \cup {t} ELSE withdrawn
    /\ UNCHANGED <<wed_flow, st_status, wed_trace, inspector>>

(* The clock passes ti + tout. *)
Timeout(t) ==
    /\ Open(t) /\ job_pool[t].ti = "running"
    /\ job_pool' = [job_pool EXCEPT ![t].ti = "expired"]
    /\ UNCHANGED <<wed_flow, st_status, wed_trace, inspector, withdrawn>>

-----------------------------------------------------------------------------
(* job_inspector: SELECT the expired jobs, then, in a subtransaction, take *)
(* job_pool exclusively, abort each selected job and insert it anew.       *)

ExpiredJobs == {t \in Uptkn : Open(t) /\ job_pool[t].ti = "expired"}

InspectorSelect(i) ==
    /\ inspector[i].pc = "idle"
    /\ NoWaiter
    /\ ExpiredJobs # {}
    /\ inspector' = [inspector EXCEPT ![i] = [pc |-> "scanned", rows |-> ExpiredJobs]]
    /\ UNCHANGED <<wed_flow, st_status, wed_trace, job_pool, withdrawn>>

OtherHolds(i) == \E j \in Inspector \ {i} : Holds(j)

OtherWaits(i) == \E j \in Inspector \ {i} : inspector[j].pc = "waiting"

(* Mutant: no deadlock detection, both inspectors wait. *)
InspectorWaitForever(i) ==
    /\ inspector[i].pc = "scanned"
    /\ OtherHolds(i)
    /\ inspector' = [inspector EXCEPT ![i].pc = "waiting"]
    /\ UNCHANGED <<wed_flow, st_status, wed_trace, job_pool, withdrawn>>

(* ALTER TABLE blocks on the ACCESS SHARE lock of another inspector ... *)
InspectorWait(i) ==
    /\ inspector[i].pc = "scanned"
    /\ OtherHolds(i) /\ ~OtherWaits(i)
    /\ inspector' = [inspector EXCEPT ![i].pc = "waiting"]
    /\ UNCHANGED <<wed_flow, st_status, wed_trace, job_pool, withdrawn>>

(* ... and is refused at once when that inspector waits for this one; the error
   ends the background worker, which is never restarted. *)
InspectorDeadlock(i) ==
    /\ inspector[i].pc = "scanned"
    /\ OtherWaits(i)
    /\ inspector' = [inspector EXCEPT ![i] = [pc |-> "dead", rows |-> {}]]
    /\ UNCHANGED <<wed_flow, st_status, wed_trace, job_pool, withdrawn>>

(* Mutant: expired jobs are aborted and not inserted again. *)
RequeuedNever(rows, b) ==
    [t \in Uptkn |-> IF t \in rows THEN [job_pool[t] EXCEPT !.aborted = TRUE, !.tf = TRUE]
                     ELSE job_pool[t]]

Requeued(rows, b) ==
    [t \in Uptkn |-> IF t \in DOMAIN b THEN NewJob(job_pool[b[t]].tgid, job_pool[b[t]].wid)
                     ELSE IF t \in rows THEN [job_pool[t] EXCEPT !.aborted = TRUE, !.tf = TRUE]
                     ELSE job_pool[t]]

InspectorRequeue(i) ==
    /\ Holds(i) /\ ~OtherHolds(i)
    /\ \E b \in Draws(inspector[i].rows) : job_pool' = Requeued(inspector[i].rows, b)
    /\ inspector' = [inspector EXCEPT ![i] = [pc |-> "idle", rows |-> {}]]
    /\ withdrawn' = withdrawn \ inspector[i].rows
    /\ UNCHANGED <<wed_flow, st_status, wed_trace>>

-----------------------------------------------------------------------------
Init ==
    /\ wed_flow = [w \in Wid |-> NoRow]
    /\ st_status = [w \in Wid |-> NoRow]
    /\ wed_trace = [w \in Wid |-> <<>>]
    /\ job_pool = [t \in Uptkn |-> NoRow]
    /\ inspector = [i \in Inspector |-> [pc |-> "idle", rows |-> {}]]
    /\ withdrawn = {}

Next ==
    \/ \E w \in Wid, s \in State :
          \/ InsertRunning(w, s)
          \/ InsertFinal(w, s)
          \/ UpdateException(w, s)
          \/ \E t \in Uptkn : UpdateWithToken(w, s, t)
    \/ \E t \in Uptkn : job_lock(t) \/ job_abort(t) \/ Timeout(t)
    \/ \E i \in Inspector :
          \/ InspectorSelect(i)
          \/ InspectorWait(i)
          \/ InspectorDeadlock(i)
          \/ InspectorRequeue(i)

Spec == Init /\ [][Next]_vars

(***************************************************************************)
(* wed_worker_main calls job_inspector every naptime seconds for as long   *)
(* as the worker lives, so an inspector that can go on does.               *)
(***************************************************************************)
InspectorStep(i) ==
    \/ InspectorSelect(i)
    \/ InspectorWait(i)
    \/ InspectorDeadlock(i)
    \/ InspectorRequeue(i)

FairSpec == Spec /\ \A i \in Inspector : WF_vars(InspectorStep(i))

-----------------------------------------------------------------------------
(* Properties *)

Live(w) == wed_flow[w] # NoRow /\ ~st_status[w].final

(***************************************************************************)
(* An instance never has two open jobs of one trigger, although jobs are   *)
(* inserted by two writers, squeeze_the_trigger (which skips the running   *)
(* triggers) and job_inspector (which does not look).                      *)
(***************************************************************************)
OneOpenJobPerTrigger ==
    \A w \in Wid : \A t, u \in OpenJobsOf(w) : job_pool[t].tgid = job_pool[u].tgid => t = u

(***************************************************************************)
(* An instance in a final or inconsistent state, or not yet inserted, has  *)
(* no open job: the kernel refuses to end an instance while triggers run,  *)
(* and no inspector re-queues a job of an ended instance.                  *)
(***************************************************************************)
FinalIsQuiet == \A w \in Wid : OpenJobsOf(w) # {} => Live(w)

(***************************************************************************)
(* An instance that has not ended always has an open job to carry it on,   *)
(* unless job_abort closed one after the last write: the kernel either     *)
(* fires, leaves a trigger running, ends the instance or declares it       *)
(* inconsistent, and a timeout always re-queues.                           *)
(***************************************************************************)
NeverStranded ==
    \A w \in Wid : Live(w) => OpenJobsOf(w) # {} \/ JobsOf(w) \cap withdrawn # {}

(***************************************************************************)
(* Rows of different tables agree although separate statements write them: *)
(* a job is locked exactly when it has a start time, and only locked jobs  *)
(* are closed or aborted; an instance has a status row, an exception is    *)
(* also final, every job belongs to an instance; only an inspector in its  *)
(* transaction has selected rows.                                          *)
(***************************************************************************)
JobColumnsAgree(t) ==
    /\ job_pool[t].locked <=> job_pool[t].ti # "null"
    /\ job_pool[t].tf => job_pool[t].locked
    /\ job_pool[t].aborted => job_pool[t].tf

RowsAgree ==
    /\ \A t \in Uptkn : IsJob(t) => JobColumnsAgree(t) /\ wed_flow[job_pool[t].wid] # NoRow
    /\ \A w \in Wid : wed_flow[w] = NoRow <=> st_status[w] = NoRow
    /\ \A w \in Wid : wed_flow[w] # NoRow /\ st_status[w].excpt => st_status[w].final
    /\ \A i \in Inspector : ~Holds(i) => inspector[i].rows = {}

(* A selected row is still what the inspector takes it for. *)
SelectedOK(rows, t) ==
    /\ IsJob(t)
    /\ job_pool[t].ti = "expired"
    /\ Open(t) \/ t \in withdrawn
    /\ Live(job_pool[t].wid)
    /\ \A u \in JobsOf(job_pool[t].wid) :
          (Open(u) \/ u \in rows) /\ job_pool[u].tgid = job_pool[t].tgid => u = t

(***************************************************************************)
(* What job_inspector selected is still good when, a lock upgrade later,   *)
(* it aborts and re-inserts it: the job is expired and either still open   *)
(* or withdrawn in between, its instance has not ended, and no other job   *)
(* of the same trigger is open or selected.                                *)
(***************************************************************************)
SelectionStaysValid ==
    \A i \in Inspector : \A t \in inspector[i].rows : SelectedOK(inspector[i].rows, t)

(* The inductive invariant. *)
Inv ==
    /\ TypeOK
    /\ RowsAgree
    /\ OneOpenJobPerTrigger
    /\ FinalIsQuiet
    /\ NeverStranded
    /\ SelectionStaysValid

(***************************************************************************)
(* Replaying tgid_wrote and tgid_fired of a history h gives the triggers   *)
(* in flight after its first n entries.                                    *)
(***************************************************************************)
InFlight(h, n) ==
    LET after[k \in 0..n] ==
            IF k = 0 THEN {} ELSE (after[k - 1] \ {h[k].tgid_wrote}) \cup h[k].tgid_fired
    IN  after[n]

(***************************************************************************)
(* wed_trace accounts for job_pool: every open job is in flight according  *)
(* to the history, and a trigger in flight without an open job has had a   *)
(* job aborted.                                                            *)
(***************************************************************************)
TraceAccountsForJobs ==
    \A w \in Wid :
        LET inflight == InFlight(wed_trace[w], Len(wed_trace[w])) IN
        /\ running_triggers(w, {}) \subseteq inflight
        /\ inflight \ running_triggers(w, {})
             \subseteq {job_pool[t].tgid : t \in {u \in JobsOf(w) : job_pool[u].aborted}}

(***************************************************************************)
(* The history is causal: an entry is anonymous exactly when it is the     *)
(* initial state or follows an exception, and any other was written by a   *)
(* trigger that an earlier entry fired and that had not yet written.       *)
(***************************************************************************)
TraceIsCausal ==
    \A w \in Wid : \A n \in DOMAIN wed_trace[w] :
        LET g == wed_trace[w][n].tgid_wrote IN
        IF n = 1 \/ wed_trace[w][n - 1].excpt THEN g = NULL ELSE g \in InFlight(wed_trace[w], n - 1)

SignedWrite ==
    \A w \in Wid :
       LET e == wed_trace'[w][Len(wed_trace'[w])] IN
       (wed_trace'[w] # wed_trace[w] /\ e.tgid_wrote # NULL) =>
          \E t \in OpenJobsOf(w) :
             /\ job_pool[t].locked /\ job_pool[t].tgid = e.tgid_wrote
             /\ job_pool'[t].tf /\ ~job_pool'[t].aborted
             /\ \A u \in Uptkn \ {t} : IsJob(u) => job_pool'[u] = job_pool[u]

(***************************************************************************)
(* A write signed by a trigger closes one job, the locked job of that      *)
(* trigger and that instance, as completed, and no other job anywhere.     *)
(***************************************************************************)
WriteConsumesItsJob == [][SignedWrite]_vars

JobAdvances ==
    \A t \in Uptkn : IsJob(t) =>
       /\ IsJob(t)'
       /\ job_pool'[t].tgid = job_pool[t].tgid /\ job_pool'[t].wid = job_pool[t].wid
       /\ job_pool[t].locked => job_pool'[t].locked
       /\ job_pool[t].tf => job_pool'[t].tf
       /\ job_pool[t].aborted => job_pool'[t].aborted
       /\ job_pool[t].ti # "null" => job_pool'[t].ti \in {job_pool[t].ti, "expired"}

(***************************************************************************)
(* A job row only moves forward: it keeps its trigger and instance, is     *)
(* never unlocked, reopened or un-aborted, and its timeout window, once    *)
(* started, is never started again.                                        *)
(***************************************************************************)
JobsOnlyAdvance == [][JobAdvances]_vars

FinalKept ==
    \A w \in Wid : (wed_flow[w] # NoRow /\ ~Live(w) /\ ~st_status[w].excpt) =>
       /\ wed_flow'[w] = wed_flow[w] /\ st_status'[w] = st_status[w]
       /\ wed_trace'[w] = wed_trace[w]
       /\ \A t \in Uptkn : IsJob(t)' /\ job_pool'[t].wid = w => IsJob(t)

(***************************************************************************)
(* A final state that is not an exception is final: the instance is never  *)
(* written again and never gets another job.                               *)
(***************************************************************************)
FinalIsForever == [][FinalKept]_vars

(* The bound: the tokens of the instance do not suffice for a re-queue. *)
OutOfTokens == \E i \in Inspector : Holds(i) /\ Draws(inspector[i].rows) = {}

(***************************************************************************)
(* A locked job whose time is up is closed in the end, by its worker or by *)
(* a re-queue, even if inspectors deadlock: the deadlock kills one of them *)
(* and the other goes on.                                                  *)
(***************************************************************************)
ExpiredJobsAreClosed ==
    \A t \in Uptkn : t \in ExpiredJobs ~> (t \notin ExpiredJobs \/ OutOfTokens)

(***************************************************************************)
(* The comment on find_job: a job that a write completes is inside its     *)
(* timeout window.  (find_job tests locked and tf, not the window.)        *)
(***************************************************************************)
CompletedInsideWindow ==
    [][\A t \in Uptkn : (Open(t) /\ job_pool'[t].tf /\ ~job_pool'[t].aborted)
          => job_pool[t].ti = "running"]_vars

(***************************************************************************)
(* The documentation of wed_pred: a row is a conjunction of the attributes *)
(* whose column is not NULL, so a trigger fires only on a state that       *)
(* agrees with all of them in some row of its condition.  (pred_match also *)
(* skips columns that hold the empty string.)                              *)
(***************************************************************************)
FiredByNonNullConjunction ==
    \A w \in Wid : \A n \in DOMAIN wed_trace[w] :
        LET e == wed_trace[w][n] IN
        \A g \in e.tgid_fired :
            \E p \in wed_pred :
                /\ p.cid = wed_trig[g]
                /\ \A a \in Attr : p.col[a] # NULL => lower[e.st[a]] = lower[p.col[a]]
=============================================================================
