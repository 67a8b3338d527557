-------------------------- MODULE WedKernelProofs ---------------------------
(***************************************************************************)
(* Proofs about WedKernel for every catalog, every set of instances,       *)
(* tokens, states and inspectors: Inv is inductive, and the invariants and *)
(* action properties that follow from it.                                  *)
(***************************************************************************)
EXTENDS WedKernel, TLAPS

-----------------------------------------------------------------------------
(* Facts about the operators *)

(***************************************************************************)
(* A draw gives one unused token to each member of G and to nothing else:  *)
(* what the INSERTs of squeeze_the_trigger and job_inspector rely on.      *)
(***************************************************************************)
LEMMA DrawFacts ==
    ASSUME NEW G, NEW b \in Draws(G)
    PROVE  /\ DOMAIN b \subseteq Uptkn
           /\ \A t \in DOMAIN b : ~IsJob(t) /\ b[t] \in G
           /\ \A t, u \in DOMAIN b : b[t] = b[u] => t = u
           /\ \A g \in G : \E t \in DOMAIN b : b[t] = g
    BY DEF Draws, Bijection, Injection, Surjection, IsInjective

(* A write that fires nothing draws nothing. *)
LEMMA EmptyDraw == <<>> \in Draws({})
  <1>1. {} \in SUBSET {t \in Uptkn : ~IsJob(t)}
    OBVIOUS
  <1>2. <<>> \in [{} -> {}] /\ DOMAIN <<>> = {}
    OBVIOUS
  <1>3. <<>> \in Bijection({}, {})
    BY <1>2 DEF Bijection, Injection, Surjection, IsInjective
  <1> QED
    BY <1>1, <1>3 DEF Draws

(***************************************************************************)
(* A state that matches a condition and is not final fires a trigger that  *)
(* was not running, unless one is running: this is what wed_trig_validation*)
(* is for.                                                                 *)
(***************************************************************************)
LEMMA ValidatedFires ==
    ASSUME NEW s, NEW ptrg, Validated, ~final_match(s), pred_match(s) # {}
    PROVE  squeeze_the_trigger(pred_match(s), ptrg) # {} \/ ptrg # {}
  <1>1. PICK c \in pred_match(s) : c \in Cid \ FinalCid
    BY CatalogAssumption DEF final_match, pred_match
  <1>2. PICK g \in Tgid : wed_trig[g] = c
    BY <1>1 DEF Validated, wed_trig_validation
  <1> QED
    BY <1>1, <1>2 DEF squeeze_the_trigger

(* The row that the kernel inserts into job_pool is an open job, not taken. *)
LEMMA NewJobFacts ==
    ASSUME NEW g \in Tgid, NEW w \in Wid
    PROVE  /\ NewJob(g, w) \in Job /\ NewJob(g, w) # NoRow
           /\ NewJob(g, w).wid = w /\ NewJob(g, w).tgid = g
           /\ ~NewJob(g, w).locked /\ ~NewJob(g, w).aborted
           /\ NewJob(g, w).ti = "null" /\ ~NewJob(g, w).tf
  <1>1. NewJob(g, w) \in Job
    BY DEF NewJob, Job, Ti
  <1>2. NewJob(g, w) # NoRow
    BY <1>1, KernelAssumption
  <1> QED
    BY <1>1, <1>2 DEF NewJob

(* The rows of job_pool after a kernel write are jobs. *)
LEMMA PoolAfterType ==
    ASSUME TypeOK, NEW w \in Wid, NEW done \in SUBSET Uptkn, NEW G \in SUBSET Tgid,
           NEW b \in Draws(G), \A t \in done : IsJob(t)
    PROVE  PoolAfter(w, done, b) \in [Uptkn -> Job \cup {NoRow}]
  <1>1. \A t \in DOMAIN b : NewJob(b[t], w) \in Job
    BY DrawFacts, NewJobFacts
  <1>2. \A t \in done : [job_pool[t] EXCEPT !.tf = TRUE] \in Job
    <2> TAKE t \in done
    <2>1. job_pool[t] \in Job
      BY DEF TypeOK, IsJob
    <2> QED
      BY <2>1 DEF Job
  <1> QED
    BY <1>1, <1>2 DEF PoolAfter, TypeOK

-----------------------------------------------------------------------------
(***************************************************************************)
(* What the INSERT and the two kinds of UPDATE of wed_flow have in common: *)
(* jobs of done are completed, fired gets one new job per trigger, and the *)
(* instance ends (fin) exactly when nothing runs and nothing fires.        *)
(***************************************************************************)
KernelWrite(w, s, done, fired, fin, ex) ==
    /\ done \subseteq OpenJobsOf(w)
    /\ \A t \in done : job_pool[t].locked
    /\ fired \subseteq Tgid
    /\ fired \cap running_triggers(w, done) = {}
    /\ fin <=> (fired = {} /\ running_triggers(w, done) = {})
    /\ ex => fin
    /\ \A i \in Inspector : \A t \in inspector[i].rows : job_pool[t].wid # w
    /\ \E b \in Draws(fired) : job_pool' = PoolAfter(w, done, b)
    /\ wed_flow' = [wed_flow EXCEPT ![w] = s]
    /\ st_status' = [st_status EXCEPT ![w] = [final |-> fin, excpt |-> ex]]
    /\ withdrawn' = withdrawn \ JobsOf(w)
    /\ UNCHANGED inspector

(* Jobs of an instance other than the written one are as they were. *)
LEMMA KernelWriteInv ==
    ASSUME Inv, NEW w \in Wid, NEW s \in State, NEW done \in SUBSET Uptkn,
           NEW fired \in SUBSET Tgid, NEW fin \in BOOLEAN, NEW ex \in BOOLEAN,
           KernelWrite(w, s, done, fired, fin, ex),
           wed_trace' \in [Wid -> Seq(Entry)]
    PROVE  Inv'
  <1> USE DEF IsJob, Open, JobsOf, OpenJobsOf
  <1>1. PICK b \in Draws(fired) : job_pool' = PoolAfter(w, done, b)
    BY DEF KernelWrite
  <1>2. \A t \in done : t \in Uptkn /\ job_pool[t] \in Job /\ ~job_pool[t].tf
                        /\ job_pool[t].locked /\ job_pool[t].wid = w
    BY DEF KernelWrite, Inv, TypeOK
  <1>3. /\ DOMAIN b \subseteq Uptkn
        /\ \A t \in DOMAIN b : ~IsJob(t) /\ b[t] \in fired
        /\ \A t, u \in DOMAIN b : b[t] = b[u] => t = u
        /\ \A g \in fired : \E t \in DOMAIN b : b[t] = g
    BY DrawFacts
  <1>4. /\ job_pool' \in [Uptkn -> Job \cup {NoRow}]
        /\ \A t \in Uptkn : job_pool'[t] =
                 IF t \in DOMAIN b THEN NewJob(b[t], w)
                 ELSE IF t \in done THEN [job_pool[t] EXCEPT !.tf = TRUE]
                 ELSE job_pool[t]
    <2>1. TypeOK /\ \A t \in done : IsJob(t)
      BY <1>2, KernelAssumption DEF Inv
    <2>2. PoolAfter(w, done, b) \in [Uptkn -> Job \cup {NoRow}]
      BY <2>1, PoolAfterType
    <2> QED
      BY <1>1, <2>2 DEF PoolAfter
  <1>5. TypeOK'
    BY <1>4, KernelAssumption DEF KernelWrite, Inv, TypeOK, Status
  \* The three kinds of rows of the new job_pool.
  <1>6. \A t \in DOMAIN b :
           /\ t \in Uptkn /\ job_pool[t] = NoRow /\ b[t] \in fired /\ b[t] \in Tgid
           /\ job_pool'[t] # NoRow /\ job_pool'[t].wid = w /\ job_pool'[t].tgid = b[t]
           /\ ~job_pool'[t].locked /\ ~job_pool'[t].aborted
           /\ job_pool'[t].ti = "null" /\ ~job_pool'[t].tf
    <2> TAKE t \in DOMAIN b
    <2>1. t \in Uptkn /\ job_pool[t] = NoRow /\ b[t] \in fired /\ b[t] \in Tgid
      BY <1>3
    <2>2. job_pool'[t] = NewJob(b[t], w)
      BY <2>1, <1>4
    <2>3. NewJob(b[t], w) \in Job
      BY <2>1 DEF NewJob, Job, Ti
    <2>4. job_pool'[t] # NoRow
      BY <2>2, <2>3, KernelAssumption
    <2> QED
      BY <2>1, <2>2, <2>4 DEF NewJob
  <1>7. \A t \in done :
           /\ t \notin DOMAIN b
           /\ job_pool'[t] # NoRow /\ job_pool'[t].wid = w
           /\ job_pool'[t].tgid = job_pool[t].tgid
           /\ job_pool'[t].locked = job_pool[t].locked
           /\ job_pool'[t].aborted = job_pool[t].aborted
           /\ job_pool'[t].ti = job_pool[t].ti /\ job_pool'[t].tf
    <2> TAKE t \in done
    <2>1. t \in Uptkn /\ job_pool[t] \in Job /\ job_pool[t] # NoRow /\ job_pool[t].wid = w
      BY <1>2, KernelAssumption
    <2>2. t \notin DOMAIN b
      BY <2>1, <1>3
    <2>3. job_pool'[t] = [job_pool[t] EXCEPT !.tf = TRUE]
      BY <2>1, <2>2, <1>4
    <2>4. [job_pool[t] EXCEPT !.tf = TRUE] \in Job
      BY <2>1 DEF Job
    <2> QED
      BY <2>1, <2>2, <2>3, <2>4, KernelAssumption DEF Job
  <1>8. \A t \in Uptkn \ (done \cup DOMAIN b) : job_pool'[t] = job_pool[t]
    BY <1>4
  <1>9. \A v \in Wid \ {w} : wed_flow'[v] = wed_flow[v] /\ st_status'[v] = st_status[v]
    BY DEF KernelWrite, Inv, TypeOK
  <1>10. /\ wed_flow'[w] = s /\ wed_flow'[w] # NoRow
         /\ st_status'[w] # NoRow
         /\ st_status'[w].final = fin /\ st_status'[w].excpt = ex
    BY KernelAssumption DEF KernelWrite, Inv, TypeOK, Status
  <1>11. RowsAgree'
    <2>1. \A t \in Uptkn : IsJob(t)' => JobColumnsAgree(t)'
      <3> SUFFICES ASSUME NEW t \in Uptkn, IsJob(t)'
                   PROVE  JobColumnsAgree(t)'
        OBVIOUS
      <3>1. IsJob(t) => JobColumnsAgree(t)
        BY DEF Inv, RowsAgree
      <3>2. CASE t \in DOMAIN b
        BY <3>2, <1>6 DEF JobColumnsAgree
      <3>3. CASE t \in done
        BY <3>1, <3>3, <1>2, <1>7, KernelAssumption DEF JobColumnsAgree
      <3>4. CASE t \notin done \cup DOMAIN b
        BY <3>1, <3>4, <1>8 DEF JobColumnsAgree
      <3> QED
        BY <3>2, <3>3, <3>4
    <2>2. \A t \in Uptkn : IsJob(t)' => (wed_flow[job_pool[t].wid] # NoRow)'
      BY <1>2, <1>5, <1>6, <1>7, <1>8, <1>9, <1>10 DEF Inv, RowsAgree, TypeOK, Job
    <2>3. \A v \in Wid : wed_flow'[v] = NoRow <=> st_status'[v] = NoRow
      BY <1>9, <1>10 DEF Inv, RowsAgree
    <2>4. \A v \in Wid : wed_flow'[v] # NoRow /\ st_status'[v].excpt => st_status'[v].final
      BY <1>9, <1>10 DEF Inv, RowsAgree, KernelWrite
    <2>5. \A i \in Inspector : ~Holds(i)' => inspector'[i].rows = {}
      BY DEF Inv, RowsAgree, KernelWrite, Holds
    <2> QED
      BY <2>1, <2>2, <2>3, <2>4, <2>5 DEF RowsAgree
  \* Open jobs afterwards: the new ones, and the old open ones that were not completed.
  <1>12. \A t \in Uptkn : Open(t)' => t \in DOMAIN b \/ (t \notin done /\ Open(t)
                                                         /\ job_pool'[t] = job_pool[t])
    BY <1>7, <1>8
  <1>13. \A t \in Uptkn : Open(t) /\ t \notin done => Open(t)' /\ job_pool'[t] = job_pool[t]
    BY <1>6, <1>8
  <1>14. \A t \in Uptkn : t \notin done /\ Open(t) /\ job_pool[t].wid = w
                          => job_pool[t].tgid \in running_triggers(w, done)
    BY DEF running_triggers
  <1>15. OneOpenJobPerTrigger'
    <2> SUFFICES ASSUME NEW v \in Wid, NEW t \in OpenJobsOf(v)', NEW u \in OpenJobsOf(v)',
                        job_pool'[t].tgid = job_pool'[u].tgid
                 PROVE  t = u
      BY DEF OneOpenJobPerTrigger
    <2>1. CASE t \in DOMAIN b /\ u \in DOMAIN b
      BY <2>1, <1>3, <1>6
    <2>0. ASSUME NEW x \in DOMAIN b, NEW y \in Uptkn \ DOMAIN b, Open(y)',
                 job_pool'[y].wid = w
          PROVE  job_pool'[x].tgid # job_pool'[y].tgid
      <3>1. y \notin done /\ Open(y) /\ job_pool'[y] = job_pool[y]
        BY <2>0, <1>12
      <3>2. job_pool'[y].tgid \in running_triggers(w, done)
        BY <2>0, <3>1, <1>14
      <3>3. job_pool'[x].tgid \in fired
        BY <1>6
      <3> QED
        BY <3>2, <3>3 DEF KernelWrite
    <2>2. CASE t \in DOMAIN b /\ u \notin DOMAIN b
      BY <2>0, <2>2, <1>6
    <2>3. CASE t \notin DOMAIN b /\ u \in DOMAIN b
      BY <2>0, <2>3, <1>6
    <2>4. CASE t \notin DOMAIN b /\ u \notin DOMAIN b
      BY <2>4, <1>12 DEF Inv, OneOpenJobPerTrigger
    <2> QED
      BY <2>1, <2>2, <2>3, <2>4
  <1>16. FinalIsQuiet'
    <2> SUFFICES ASSUME NEW v \in Wid, NEW t \in OpenJobsOf(v)'
                 PROVE  Live(v)'
      BY DEF FinalIsQuiet
    <2>1. CASE v = w
      <3>1. fired # {} \/ running_triggers(w, done) # {}
        BY <2>1, <1>6, <1>12, <1>14
      <3> QED
        BY <2>1, <3>1, <1>10 DEF Live, KernelWrite
    <2>2. CASE v # w
      BY <2>2, <1>6, <1>9, <1>12 DEF Live, Inv, FinalIsQuiet
    <2> QED
      BY <2>1, <2>2
  <1>17. NeverStranded'
    <2> SUFFICES ASSUME NEW v \in Wid, Live(v)'
                 PROVE  OpenJobsOf(v)' # {} \/ (JobsOf(v) \cap withdrawn)' # {}
      BY DEF NeverStranded
    <2>1. CASE v = w
      <3>1. fired # {} \/ running_triggers(w, done) # {}
        BY <2>1, <1>10 DEF Live, KernelWrite
      <3>2. CASE fired # {}
        BY <2>1, <3>2, <1>3, <1>6
      <3>3. CASE running_triggers(w, done) # {}
        BY <2>1, <3>3, <1>13 DEF running_triggers
      <3> QED
        BY <3>1, <3>2, <3>3
    <2>2. CASE v # w
      <3>1. OpenJobsOf(v) # {} \/ JobsOf(v) \cap withdrawn # {}
        BY <2>2, <1>9 DEF Live, Inv, NeverStranded
      <3>2. \A t \in JobsOf(v) : t \notin done /\ t \notin DOMAIN b /\ job_pool'[t] = job_pool[t]
        BY <2>2, <1>2, <1>6, <1>8
      <3>3. \A t \in JobsOf(v) \cap withdrawn : t \in withdrawn'
        BY <2>2 DEF KernelWrite
      <3> QED
        BY <3>1, <3>2, <3>3
    <2> QED
      BY <2>1, <2>2
  <1>18. SelectionStaysValid'
    <2> SUFFICES ASSUME NEW i \in Inspector, NEW t \in inspector[i].rows
                 PROVE  SelectedOK(inspector[i].rows, t)'
      BY DEF SelectionStaysValid, KernelWrite
    <2>1. SelectedOK(inspector[i].rows, t)
      BY DEF Inv, SelectionStaysValid
    <2>2. t \in Uptkn /\ IsJob(t) /\ job_pool[t].wid \in Wid \ {w}
      BY <2>1 DEF Inv, TypeOK, SelectedOK, Job, KernelWrite
    <2>3. job_pool'[t] = job_pool[t]
      BY <2>2, <1>2, <1>6, <1>8
    <2>4. t \in withdrawn => t \in withdrawn'
      BY <2>2 DEF KernelWrite
    <2>5. Live(job_pool[t].wid)'
      BY <2>1, <2>2, <2>3, <1>9 DEF SelectedOK, Live
    <2>6. \A u \in JobsOf(job_pool[t].wid)' : u \in Uptkn /\ job_pool'[u] = job_pool[u]
      BY <2>2, <2>3, <1>6, <1>7, <1>8
    <2>7. inspector'[i].rows = inspector[i].rows
      BY DEF KernelWrite
    <2> QED
      BY <2>1, <2>2, <2>3, <2>4, <2>5, <2>6, <2>7 DEF SelectedOK
  <1> QED
    BY <1>5, <1>11, <1>15, <1>16, <1>17, <1>18 DEF Inv

(* An entry of the right type keeps wed_trace a table of histories. *)
LEMMA TraceType ==
    ASSUME TypeOK, NEW w \in Wid, NEW s \in State, NEW wrote \in Tgid \cup {NULL},
           NEW fired \in SUBSET Tgid, NEW fin \in BOOLEAN, NEW ex \in BOOLEAN,
           new_trace_entry(w, s, wrote, fired, fin, ex)
    PROVE  wed_trace' \in [Wid -> Seq(Entry)]
  <1> DEFINE e == [st |-> s, tgid_wrote |-> wrote, tgid_fired |-> fired,
                   final |-> fin, excpt |-> ex]
  <1>1. e \in Entry
    BY DEF Entry
  <1> HIDE DEF e
  <1>2. wed_trace[w] \in Seq(Entry) /\ Append(wed_trace[w], e) \in Seq(Entry)
    BY <1>1 DEF TypeOK
  <1>3. wed_trace' = [wed_trace EXCEPT ![w] = Append(wed_trace[w], e)]
    BY DEF new_trace_entry, e
  <1> QED
    BY <1>2, <1>3 DEF TypeOK

(* Before its INSERT an instance has no job, running or withdrawn. *)
LEMMA FreshInstance ==
    ASSUME Inv, NEW w \in Wid, wed_flow[w] = NoRow
    PROVE  /\ JobsOf(w) = {}
           /\ running_triggers(w, {}) = {}
           /\ \A i \in Inspector : \A t \in inspector[i].rows : job_pool[t].wid # w
  <1>1. JobsOf(w) = {}
    BY DEF Inv, RowsAgree, JobsOf
  <1>2. running_triggers(w, {}) = {}
    BY <1>1 DEF running_triggers, OpenJobsOf
  <1>3. \A i \in Inspector : \A t \in inspector[i].rows : job_pool[t].wid # w
    BY DEF Inv, SelectionStaysValid, SelectedOK, Live
  <1> QED
    BY <1>1, <1>2, <1>3

(* The AFTER INSERT branch of kernel_function preserves Inv. *)
LEMMA InsertInv ==
    ASSUME Inv, NEW w \in Wid, NEW s \in State, InsertRunning(w, s) \/ InsertFinal(w, s)
    PROVE  Inv'
  <1>1. /\ wed_flow[w] = NoRow /\ Validated /\ pred_match(s) # {}
        /\ wed_flow' = [wed_flow EXCEPT ![w] = s]
        /\ UNCHANGED <<inspector, withdrawn>>
    BY DEF InsertRunning, InsertFinal, NewInstance
  <1>2. /\ JobsOf(w) = {}
        /\ running_triggers(w, {}) = {}
        /\ \A i \in Inspector : \A t \in inspector[i].rows : job_pool[t].wid # w
    BY <1>1, FreshInstance
  <1>3. TypeOK /\ NULL \in Tgid \cup {NULL}
    BY DEF Inv
  <1>4. CASE InsertRunning(w, s)
    <2> DEFINE fired == squeeze_the_trigger(pred_match(s), {})
    <2>1. fired \in SUBSET Tgid
      BY DEF squeeze_the_trigger
    <2>2. fired # {}
      BY <1>1, <1>4, ValidatedFires DEF InsertRunning
    <2>3. wed_trace' \in [Wid -> Seq(Entry)]
      <3>1. new_trace_entry(w, s, NULL, fired, FALSE, FALSE)
        BY <1>4 DEF InsertRunning
      <3> QED
        BY <1>3, <2>1, <3>1, TraceType
    <2>4. KernelWrite(w, s, {}, fired, FALSE, FALSE)
      BY <1>1, <1>2, <1>4, <2>1, <2>2 DEF InsertRunning, KernelWrite, set_st_status
    <2> QED
      BY <2>1, <2>3, <2>4, KernelWriteInv
  <1>5. CASE InsertFinal(w, s)
    <2>1. wed_trace' \in [Wid -> Seq(Entry)]
      BY <1>3, <1>5, TraceType DEF InsertFinal
    <2>2. job_pool' = PoolAfter(w, {}, <<>>)
      BY <1>3, <1>5 DEF InsertFinal, PoolAfter, TypeOK
    <2>3. KernelWrite(w, s, {}, {}, TRUE, FALSE)
      BY <1>1, <1>2, <1>5, <2>2, EmptyDraw DEF InsertFinal, KernelWrite, set_st_status
    <2> QED
      BY <2>1, <2>3, KernelWriteInv
  <1> QED
    BY <1>4, <1>5

(***************************************************************************)
(* The three outcomes of the BEFORE UPDATE branch preserve Inv, when the   *)
(* completed jobs are open, locked jobs of the instance and no inspector   *)
(* has selected one of its jobs.                                           *)
(***************************************************************************)
LEMMA UpdateInv ==
    ASSUME Inv, NEW w \in Wid, NEW s \in State, NEW wrote \in Tgid \cup {NULL},
           NEW done \in SUBSET OpenJobsOf(w), \A t \in done : job_pool[t].locked,
           \A i \in Inspector : \A t \in inspector[i].rows : job_pool[t].wid # w,
           Update(w, s, wrote, done)
    PROVE  Inv'
  <1>1. done \in SUBSET Uptkn
    BY DEF OpenJobsOf, JobsOf
  <1>2. TypeOK
    BY DEF Inv
  <1>3. /\ wed_flow' = [wed_flow EXCEPT ![w] = s]
        /\ withdrawn' = withdrawn \ JobsOf(w)
        /\ UNCHANGED inspector
        /\ Validated
    BY DEF Update
  <1>4. CASE Inconsistent(w, s, wrote, done)
    <2>1. wed_trace' \in [Wid -> Seq(Entry)]
      BY <1>2, <1>4, TraceType DEF Inconsistent
    <2>2. KernelWrite(w, s, done, {}, TRUE, TRUE)
      BY <1>3, <1>4, EmptyDraw DEF Inconsistent, KernelWrite, set_st_status
    <2> QED
      BY <1>1, <2>1, <2>2, KernelWriteInv
  <1>5. CASE ReachFinal(w, s, wrote, done)
    <2>1. wed_trace' \in [Wid -> Seq(Entry)]
      BY <1>2, <1>5, TraceType DEF ReachFinal
    <2>2. KernelWrite(w, s, done, {}, TRUE, FALSE)
      BY <1>3, <1>5, EmptyDraw DEF ReachFinal, KernelWrite, set_st_status
    <2> QED
      BY <1>1, <2>1, <2>2, KernelWriteInv
  <1>6. CASE FireTriggers(w, s, wrote, done)
    <2> DEFINE rtrg  == running_triggers(w, done)
               fired == squeeze_the_trigger(pred_match(s), rtrg)
    <2>1. fired \in SUBSET Tgid /\ fired \cap rtrg = {}
      BY DEF squeeze_the_trigger
    <2>2. fired # {} \/ rtrg # {}
      BY <1>3, <1>6, ValidatedFires DEF FireTriggers
    <2>3. /\ new_trace_entry(w, s, wrote, fired, FALSE, FALSE)
          /\ set_st_status(w, FALSE, FALSE)
          /\ \E b \in Draws(fired) : job_pool' = PoolAfter(w, done, b)
      BY <1>6 DEF FireTriggers
    <2> HIDE DEF fired
    <2>4. wed_trace' \in [Wid -> Seq(Entry)]
      BY <1>2, <2>1, <2>3, TraceType
    <2>5. KernelWrite(w, s, done, fired, FALSE, FALSE)
      BY <1>3, <2>1, <2>2, <2>3 DEF KernelWrite, set_st_status
    <2> QED
      BY <1>1, <2>1, <2>4, <2>5, KernelWriteInv
  <1> QED
    BY <1>4, <1>5, <1>6 DEF Update

(***************************************************************************)
(* UPDATE of wed_flow with a job token preserves Inv: find_job holds       *)
(* job_pool exclusively, so no inspector has a selection at that moment.   *)
(***************************************************************************)
LEMMA UpdateWithTokenInv ==
    ASSUME Inv, NEW w \in Wid, NEW s \in State, NEW t \in Uptkn, UpdateWithToken(w, s, t)
    PROVE  Inv'
  <1>1. {t} \in SUBSET OpenJobsOf(w) /\ job_pool[t].locked
    BY DEF UpdateWithToken, find_job, OpenJobsOf, JobsOf, Open
  <1>2. job_pool[t].tgid \in Tgid \cup {NULL}
    BY <1>1 DEF Inv, TypeOK, Job, OpenJobsOf, JobsOf, IsJob
  <1>3. \A i \in Inspector : inspector[i].rows = {}
    BY DEF UpdateWithToken, JobPoolFree, Inv, RowsAgree
  <1> QED
    BY <1>1, <1>2, <1>3, UpdateInv DEF UpdateWithToken

(***************************************************************************)
(* UPDATE of wed_flow with the token 'exception' preserves Inv, although   *)
(* it takes no exclusive lock: an exception state is final, so no job of   *)
(* that instance is open or selected.                                      *)
(***************************************************************************)
LEMMA UpdateExceptionInv ==
    ASSUME Inv, NEW w \in Wid, NEW s \in State, UpdateException(w, s)
    PROVE  Inv'
  <1>1. ~Live(w)
    BY DEF UpdateException, Inv, RowsAgree, Live
  <1>2. \A i \in Inspector : \A t \in inspector[i].rows : job_pool[t].wid # w
    BY <1>1 DEF Inv, SelectionStaysValid, SelectedOK
  <1>3. {} \in SUBSET OpenJobsOf(w) /\ NULL \in Tgid \cup {NULL}
    OBVIOUS
  <1> QED
    BY <1>2, <1>3, UpdateInv DEF UpdateException

-----------------------------------------------------------------------------
(***************************************************************************)
(* A step that changes one job row, keeping its trigger and instance, and  *)
(* closes it only by withdrawing it.                                       *)
(***************************************************************************)
LEMMA RowStepInv ==
    ASSUME Inv, NEW t \in Uptkn, IsJob(t), NEW row \in Job,
           job_pool' = [job_pool EXCEPT ![t] = row],
           row.tgid = job_pool[t].tgid, row.wid = job_pool[t].wid,
           job_pool[t].ti = "expired" => row.ti = "expired",
           job_pool[t].tf => row.tf,
           row.tf => job_pool[t].tf \/ t \in withdrawn',
           row.locked <=> row.ti # "null", row.tf => row.locked, row.aborted => row.tf,
           withdrawn \subseteq withdrawn', withdrawn' \subseteq Uptkn,
           UNCHANGED <<wed_flow, st_status, wed_trace, inspector>>
    PROVE  Inv'
  <1> USE DEF IsJob, Open, JobsOf, OpenJobsOf
  <1>1. TypeOK'
    BY DEF Inv, TypeOK
  <1>2. /\ job_pool'[t] = row /\ job_pool'[t] # NoRow
        /\ \A u \in Uptkn \ {t} : job_pool'[u] = job_pool[u]
    BY KernelAssumption DEF Inv, TypeOK
  <1>3. \A u \in Uptkn : /\ IsJob(u)' <=> IsJob(u)
                         /\ IsJob(u) => /\ job_pool'[u].tgid = job_pool[u].tgid
                                        /\ job_pool'[u].wid = job_pool[u].wid
                         /\ Open(u)' => Open(u)
                         /\ Open(u) => Open(u)' \/ u \in withdrawn'
                         /\ IsJob(u) /\ job_pool[u].ti = "expired" => job_pool'[u].ti = "expired"
    BY <1>2
  <1>4. RowsAgree'
    <2>1. \A u \in Uptkn : IsJob(u)' => JobColumnsAgree(u)'
      BY <1>2 DEF Inv, RowsAgree, JobColumnsAgree
    <2>2. \A u \in Uptkn : IsJob(u)' => wed_flow'[job_pool'[u].wid] # NoRow
      <3> TAKE u \in Uptkn
      <3>1. IsJob(u)' => IsJob(u) /\ job_pool'[u].wid = job_pool[u].wid
        BY <1>3
      <3> QED
        BY <3>1 DEF Inv, RowsAgree
    <2> QED
      BY <2>1, <2>2 DEF Inv, RowsAgree, Holds
  <1>5. OneOpenJobPerTrigger'
    <2>1. \A v \in Wid : \A u \in OpenJobsOf(v)' : /\ u \in OpenJobsOf(v)
                                                   /\ job_pool'[u].tgid = job_pool[u].tgid
      BY <1>3
    <2> HIDE DEF IsJob, Open, JobsOf, OpenJobsOf
    <2> QED
      BY <2>1 DEF Inv, OneOpenJobPerTrigger
  <1>6. FinalIsQuiet'
    <2>1. \A v \in Wid : OpenJobsOf(v)' \subseteq OpenJobsOf(v)
      BY <1>3
    <2> HIDE DEF IsJob, Open, JobsOf, OpenJobsOf
    <2> QED
      BY <2>1 DEF Inv, FinalIsQuiet, Live
  <1>7. NeverStranded'
    <2> SUFFICES ASSUME NEW v \in Wid, Live(v)
                 PROVE  OpenJobsOf(v)' # {} \/ (JobsOf(v) \cap withdrawn)' # {}
      BY DEF NeverStranded, Live
    <2>1. PICK u \in JobsOf(v) : Open(u) \/ u \in withdrawn
      BY DEF Inv, NeverStranded
    <2>2. u \in JobsOf(v)' /\ (Open(u)' \/ u \in withdrawn')
      BY <2>1, <1>3
    <2> QED
      BY <2>2
  <1>8. SelectionStaysValid'
    <2> SUFFICES ASSUME NEW i \in Inspector, NEW r \in inspector[i].rows
                 PROVE  SelectedOK(inspector[i].rows, r)'
      BY DEF SelectionStaysValid
    <2>1. SelectedOK(inspector[i].rows, r) /\ r \in Uptkn
      BY DEF Inv, TypeOK, SelectionStaysValid
    <2>2. /\ IsJob(r)' /\ job_pool'[r].ti = "expired"
          /\ job_pool'[r].wid = job_pool[r].wid /\ job_pool'[r].tgid = job_pool[r].tgid
          /\ Open(r)' \/ r \in withdrawn'
      BY <2>1, <1>3 DEF SelectedOK
    <2>3. Live(job_pool[r].wid)'
      BY <2>1, <2>2 DEF SelectedOK, Live
    <2>4. \A u \in JobsOf(job_pool[r].wid)' : /\ u \in JobsOf(job_pool[r].wid)
                                              /\ job_pool'[u].tgid = job_pool[u].tgid
                                              /\ Open(u)' => Open(u)
      BY <2>2, <1>3
    <2> HIDE DEF IsJob, Open, JobsOf, OpenJobsOf
    <2> QED
      BY <2>1, <2>2, <2>3, <2>4 DEF SelectedOK
  <1> QED
    BY <1>1, <1>4, <1>5, <1>6, <1>7, <1>8 DEF Inv

(* Locking a job preserves Inv. *)
LEMMA JobLockInv ==
    ASSUME Inv, NEW t \in Uptkn, job_lock(t)
    PROVE  Inv'
  <1> DEFINE row == LockedRow(job_pool[t])
  <1>1. /\ IsJob(t) /\ ~job_pool[t].locked /\ job_pool[t] \in Job
        /\ job_pool' = [job_pool EXCEPT ![t] = row]
        /\ UNCHANGED <<wed_flow, st_status, wed_trace, inspector, withdrawn>>
    BY DEF job_lock, CanLock, Inv, TypeOK, IsJob
  <1>2. JobColumnsAgree(t) /\ withdrawn \subseteq Uptkn
    BY <1>1 DEF Inv, RowsAgree, TypeOK
  <1>3. /\ row \in Job
        /\ row.tgid = job_pool[t].tgid /\ row.wid = job_pool[t].wid
        /\ row.locked /\ ~row.aborted /\ row.ti = "running" /\ row.tf = job_pool[t].tf
    BY <1>1 DEF Job, Ti, LockedRow
  <1>4. ~job_pool[t].tf /\ job_pool[t].ti = "null"
    BY <1>1, <1>2 DEF JobColumnsAgree
  <1> HIDE DEF row
  <1> QED
    BY <1>1, <1>2, <1>3, <1>4, RowStepInv

(* Aborting a job by hand preserves Inv. *)
LEMMA JobAbortInv ==
    ASSUME Inv, NEW t \in Uptkn, job_abort(t)
    PROVE  Inv'
  <1> DEFINE row == AbortedRow(job_pool[t])
  <1>1. /\ IsJob(t) /\ job_pool[t].locked /\ job_pool[t] \in Job
        /\ job_pool' = [job_pool EXCEPT ![t] = row]
        /\ withdrawn' = IF Open(t) THEN withdrawn \cup {t} ELSE withdrawn
        /\ UNCHANGED <<wed_flow, st_status, wed_trace, inspector>>
    BY DEF job_abort, CanAbort, Inv, TypeOK, IsJob
  <1>2. /\ JobColumnsAgree(t)
        /\ withdrawn \subseteq withdrawn' /\ withdrawn' \subseteq Uptkn
        /\ job_pool[t].tf \/ t \in withdrawn'
    BY <1>1 DEF Inv, RowsAgree, TypeOK, Open
  <1>3. /\ row \in Job
        /\ row.tgid = job_pool[t].tgid /\ row.wid = job_pool[t].wid
        /\ row.locked /\ row.aborted /\ row.ti = job_pool[t].ti /\ row.tf
    BY <1>1 DEF Job, AbortedRow
  <1> HIDE DEF row
  <1>4. row.ti # "null"
    BY <1>1, <1>2, <1>3 DEF JobColumnsAgree
  <1> QED
    BY <1>1, <1>2, <1>3, <1>4, RowStepInv

(* The passing of time preserves Inv. *)
LEMMA TimeoutInv ==
    ASSUME Inv, NEW t \in Uptkn, Timeout(t)
    PROVE  Inv'
  <1> DEFINE row == [job_pool[t] EXCEPT !.ti = "expired"]
  <1>1. /\ IsJob(t) /\ ~job_pool[t].tf /\ job_pool[t].ti = "running" /\ job_pool[t] \in Job
        /\ job_pool' = [job_pool EXCEPT ![t] = row]
        /\ UNCHANGED <<wed_flow, st_status, wed_trace, inspector, withdrawn>>
    BY DEF Timeout, Open, Inv, TypeOK, IsJob
  <1>2. JobColumnsAgree(t) /\ withdrawn \subseteq Uptkn
    BY <1>1 DEF Inv, RowsAgree, TypeOK
  <1>3. /\ row \in Job
        /\ row.tgid = job_pool[t].tgid /\ row.wid = job_pool[t].wid
        /\ row.locked = job_pool[t].locked /\ row.aborted = job_pool[t].aborted
        /\ row.ti = "expired" /\ row.tf = job_pool[t].tf
    BY <1>1 DEF Job, Ti
  <1>4. job_pool[t].locked /\ ~job_pool[t].aborted
    BY <1>1, <1>2 DEF JobColumnsAgree
  <1> HIDE DEF row
  <1> QED
    BY <1>1, <1>2, <1>3, <1>4, RowStepInv

-----------------------------------------------------------------------------
(***************************************************************************)
(* A step that only moves an inspector, leaving it with no selection, with *)
(* the one it had, or with the jobs expired now, preserves Inv.            *)
(***************************************************************************)
LEMMA InspectorMoveInv ==
    ASSUME Inv, NEW i \in Inspector,
           InspectorSelect(i) \/ InspectorWait(i) \/ InspectorDeadlock(i)
    PROVE  Inv'
  <1> USE DEF IsJob, Open, JobsOf, OpenJobsOf, ExpiredJobs
  <1>1. UNCHANGED <<wed_flow, st_status, wed_trace, job_pool, withdrawn>>
    BY DEF InspectorSelect, InspectorWait, InspectorDeadlock
  <1>2. inspector[i] \in [pc : {"idle", "scanned", "waiting", "dead"}, rows : SUBSET Uptkn]
    BY DEF Inv, TypeOK
  <1>3. /\ inspector' \in [Inspector -> [pc : {"idle", "scanned", "waiting", "dead"},
                                         rows : SUBSET Uptkn]]
        /\ \A j \in Inspector \ {i} : inspector'[j] = inspector[j]
        /\ \/ inspector'[i].rows = {}
           \/ /\ inspector'[i].rows = inspector[i].rows
              /\ inspector'[i].pc = "waiting"
           \/ /\ inspector'[i].rows = ExpiredJobs
              /\ inspector'[i].pc = "scanned"
    <2>1. CASE InspectorSelect(i)
      BY <2>1 DEF InspectorSelect, Inv, TypeOK
    <2>2. CASE InspectorWait(i)
      BY <2>2, <1>2 DEF InspectorWait, Inv, TypeOK
    <2>3. CASE InspectorDeadlock(i)
      BY <2>3 DEF InspectorDeadlock, Inv, TypeOK
    <2> QED
      BY <2>1, <2>2, <2>3
  <1>4. TypeOK'
    BY <1>1, <1>3 DEF Inv, TypeOK
  <1>5. RowsAgree'
    <2>1. \A j \in Inspector : ~Holds(j)' => inspector'[j].rows = {}
      BY <1>3 DEF Inv, RowsAgree, Holds
    <2> QED
      BY <1>1, <2>1 DEF Inv, RowsAgree, JobColumnsAgree
  <1>6. OneOpenJobPerTrigger' /\ FinalIsQuiet' /\ NeverStranded'
    BY <1>1 DEF Inv, OneOpenJobPerTrigger, FinalIsQuiet, NeverStranded, Live
  <1>7. SelectionStaysValid'
    <2> SUFFICES ASSUME NEW j \in Inspector, NEW t \in inspector'[j].rows
                 PROVE  SelectedOK(inspector'[j].rows, t)
      BY <1>1 DEF SelectionStaysValid, SelectedOK, Live
    <2>1. CASE inspector'[j].rows = inspector[j].rows
      BY <2>1 DEF Inv, SelectionStaysValid
    <2>2. CASE inspector'[j].rows = ExpiredJobs
      <3>1. t \in Uptkn /\ Open(t) /\ job_pool[t].ti = "expired" /\ job_pool[t].wid \in Wid
        BY <2>2 DEF Inv, TypeOK, Job
      <3>2. Live(job_pool[t].wid)
        BY <3>1 DEF Inv, FinalIsQuiet
      <3>3. ASSUME NEW u \in JobsOf(job_pool[t].wid), Open(u) \/ u \in ExpiredJobs,
                   job_pool[u].tgid = job_pool[t].tgid
            PROVE  u = t
        BY <3>1, <3>3 DEF Inv, OneOpenJobPerTrigger
      <3> QED
        BY <2>2, <3>1, <3>2, <3>3 DEF SelectedOK
    <2> QED
      BY <2>1, <2>2, <1>3
  <1> QED
    BY <1>4, <1>5, <1>6, <1>7 DEF Inv

(***************************************************************************)
(* Aborting and re-inserting the selected jobs preserves Inv: every        *)
(* selected row is replaced by one open job of its trigger and instance.   *)
(***************************************************************************)
LEMMA InspectorRequeueInv ==
    ASSUME Inv, NEW i \in Inspector, InspectorRequeue(i)
    PROVE  Inv'
  <1> DEFINE rows == inspector[i].rows
  <1> USE DEF IsJob, Open, JobsOf, OpenJobsOf
  <1>1. PICK b \in Draws(rows) : job_pool' = Requeued(rows, b)
    BY DEF InspectorRequeue
  <1>2. /\ DOMAIN b \subseteq Uptkn
        /\ \A t \in DOMAIN b : ~IsJob(t) /\ b[t] \in rows
        /\ \A t, u \in DOMAIN b : b[t] = b[u] => t = u
        /\ \A r \in rows : \E t \in DOMAIN b : b[t] = r
    BY DrawFacts
  <1>3. /\ inspector' = [inspector EXCEPT ![i] = [pc |-> "idle", rows |-> {}]]
        /\ withdrawn' = withdrawn \ rows
        /\ UNCHANGED <<wed_flow, st_status, wed_trace>>
        /\ \A j \in Inspector \ {i} : ~Holds(j)
    BY DEF InspectorRequeue, OtherHolds
  \* Selected rows, from the invariant.
  <1>4. \A r \in rows : /\ r \in Uptkn /\ job_pool[r] # NoRow /\ job_pool[r] \in Job
                        /\ job_pool[r].ti = "expired" /\ job_pool[r].locked
                        /\ job_pool[r].wid \in Wid /\ Live(job_pool[r].wid)
                        /\ wed_flow[job_pool[r].wid] # NoRow
    <2> SUFFICES ASSUME NEW r \in rows
                 PROVE  /\ r \in Uptkn /\ job_pool[r] # NoRow /\ job_pool[r] \in Job
                        /\ job_pool[r].ti = "expired" /\ job_pool[r].locked
                        /\ job_pool[r].wid \in Wid /\ Live(job_pool[r].wid)
                        /\ wed_flow[job_pool[r].wid] # NoRow
      OBVIOUS
    <2>1. SelectedOK(rows, r) /\ r \in Uptkn
      BY DEF Inv, TypeOK, SelectionStaysValid
    <2>2. job_pool[r] # NoRow /\ job_pool[r] \in Job /\ job_pool[r].wid \in Wid
      BY <2>1 DEF SelectedOK, Inv, TypeOK, Job
    <2>3. job_pool[r].ti = "expired" /\ Live(job_pool[r].wid)
      BY <2>1 DEF SelectedOK
    <2>4. job_pool[r].locked /\ wed_flow[job_pool[r].wid] # NoRow
      BY <2>1, <2>2, <2>3 DEF Inv, RowsAgree, JobColumnsAgree
    <2> QED
      BY <2>1, <2>2, <2>3, <2>4
  <1>5. \A r, u \in Uptkn : r \in rows /\ job_pool[u] # NoRow
                            /\ job_pool[u].wid = job_pool[r].wid
                            /\ job_pool[u].tgid = job_pool[r].tgid
                            /\ (Open(u) \/ u \in rows) => u = r
    BY DEF Inv, SelectionStaysValid, SelectedOK
  <1>0. \A j \in Inspector : inspector'[j].rows = {}
    BY <1>3 DEF Inv, TypeOK, RowsAgree
  <1> HIDE DEF rows
  \* The three kinds of rows of the new job_pool.
  <1>6. \A t \in DOMAIN b :
           /\ t \in Uptkn /\ b[t] \in rows /\ job_pool[t] = NoRow
           /\ job_pool'[t] \in Job /\ job_pool'[t] # NoRow
           /\ job_pool'[t].wid = job_pool[b[t]].wid /\ job_pool'[t].tgid = job_pool[b[t]].tgid
           /\ ~job_pool'[t].locked /\ ~job_pool'[t].aborted
           /\ job_pool'[t].ti = "null" /\ ~job_pool'[t].tf
    <2> TAKE t \in DOMAIN b
    <2>1. t \in Uptkn /\ b[t] \in rows /\ job_pool[t] = NoRow
      BY <1>2
    <2>2. job_pool'[t] = NewJob(job_pool[b[t]].tgid, job_pool[b[t]].wid)
      BY <2>1, <1>1 DEF Requeued
    <2>3. job_pool[b[t]].tgid \in Tgid /\ job_pool[b[t]].wid \in Wid
      BY <2>1, <1>4 DEF Job
    <2> HIDE DEF IsJob, Open, JobsOf, OpenJobsOf
    <2> DEFINE g == job_pool[b[t]].tgid
               v == job_pool[b[t]].wid
    <2>4. g \in Tgid /\ v \in Wid /\ job_pool'[t] = NewJob(g, v)
      BY <2>2, <2>3
    <2>5. /\ job_pool'[t] \in Job /\ job_pool'[t] # NoRow
          /\ job_pool'[t].wid = v /\ job_pool'[t].tgid = g
          /\ ~job_pool'[t].locked /\ ~job_pool'[t].aborted
          /\ job_pool'[t].ti = "null" /\ ~job_pool'[t].tf
      <3> HIDE DEF g, v
      <3> QED
        BY <2>4, NewJobFacts
    <2> QED
      BY <2>1, <2>5
  <1>7. \A t \in rows :
           /\ t \in Uptkn /\ t \notin DOMAIN b
           /\ job_pool'[t] \in Job /\ job_pool'[t] # NoRow
           /\ job_pool'[t].wid = job_pool[t].wid /\ job_pool'[t].tgid = job_pool[t].tgid
           /\ job_pool'[t].locked /\ job_pool'[t].aborted
           /\ job_pool'[t].ti = "expired" /\ job_pool'[t].tf
    <2> TAKE t \in rows
    <2>1. t \in Uptkn /\ t \notin DOMAIN b /\ job_pool[t] \in Job
          /\ job_pool[t].ti = "expired" /\ job_pool[t].locked
      BY <1>2, <1>4
    <2>2. job_pool'[t] = [job_pool[t] EXCEPT !.aborted = TRUE, !.tf = TRUE]
      BY <2>1, <1>1 DEF Requeued
    <2>3. [job_pool[t] EXCEPT !.aborted = TRUE, !.tf = TRUE] \in Job
      BY <2>1 DEF Job
    <2> QED
      BY <2>1, <2>2, <2>3, KernelAssumption DEF Job
  <1>8. \A t \in Uptkn \ (rows \cup DOMAIN b) : job_pool'[t] = job_pool[t]
    BY <1>1 DEF Requeued
  <1>9. TypeOK'
    <2>1. job_pool' \in [Uptkn -> Job \cup {NoRow}]
      <3>1. job_pool' = [t \in Uptkn |-> job_pool'[t]]
        BY <1>1 DEF Requeued
      <3>2. \A t \in Uptkn : job_pool'[t] \in Job \cup {NoRow}
        <4> TAKE t \in Uptkn
        <4>1. CASE t \in DOMAIN b \cup rows
          BY <4>1, <1>6, <1>7
        <4>2. CASE t \notin DOMAIN b \cup rows
          BY <4>2, <1>8 DEF Inv, TypeOK
        <4> QED
          BY <4>1, <4>2
      <3> QED
        BY <3>1, <3>2
    <2> QED
      BY <1>3, <2>1 DEF Inv, TypeOK
  <1>11. RowsAgree'
    <2>1. \A t \in Uptkn : IsJob(t)' => JobColumnsAgree(t)'
      <3> SUFFICES ASSUME NEW t \in Uptkn, IsJob(t)' PROVE JobColumnsAgree(t)'
        OBVIOUS
      <3>1. CASE t \in DOMAIN b
        BY <3>1, <1>6 DEF JobColumnsAgree
      <3>2. CASE t \in rows
        BY <3>2, <1>7 DEF JobColumnsAgree
      <3>3. CASE t \notin rows \cup DOMAIN b
        <4>1. job_pool'[t] = job_pool[t]
          BY <3>3, <1>8
        <4>2. JobColumnsAgree(t)
          BY <4>1 DEF Inv, RowsAgree
        <4> QED
          BY <4>1, <4>2 DEF JobColumnsAgree
      <3> QED
        BY <3>1, <3>2, <3>3
    <2>2. \A t \in Uptkn : IsJob(t)' => wed_flow'[job_pool'[t].wid] # NoRow
      <3> SUFFICES ASSUME NEW t \in Uptkn, IsJob(t)'
                   PROVE  wed_flow[job_pool'[t].wid] # NoRow
        BY <1>3
      <3>1. CASE t \in DOMAIN b
        <4>1. b[t] \in rows /\ job_pool'[t].wid = job_pool[b[t]].wid
          BY <3>1, <1>6
        <4> QED
          BY <4>1, <1>4
      <3>2. CASE t \in rows
        BY <3>2, <1>4, <1>7
      <3>3. CASE t \notin rows \cup DOMAIN b
        BY <3>3, <1>8 DEF Inv, RowsAgree
      <3> QED
        BY <3>1, <3>2, <3>3
    <2> QED
      BY <1>3, <1>0, <2>1, <2>2 DEF Inv, RowsAgree
  <1>12. \A t \in Uptkn : Open(t)' => t \in DOMAIN b \/ (t \notin rows /\ Open(t)
                                                         /\ job_pool'[t] = job_pool[t])
    BY <1>7, <1>8
  <1>13. OneOpenJobPerTrigger'
    <2> SUFFICES ASSUME NEW v \in Wid, NEW t \in OpenJobsOf(v)', NEW u \in OpenJobsOf(v)',
                        job_pool'[t].tgid = job_pool'[u].tgid
                 PROVE  t = u
      BY DEF OneOpenJobPerTrigger
    <2>0. /\ t \in Uptkn /\ IsJob(t)' /\ Open(t)' /\ job_pool'[t].wid = v
          /\ u \in Uptkn /\ IsJob(u)' /\ Open(u)' /\ job_pool'[u].wid = v
      OBVIOUS
    <2>1. ASSUME NEW x \in DOMAIN b
          PROVE  /\ b[x] \in rows /\ b[x] \in Uptkn /\ job_pool[b[x]] # NoRow
                 /\ job_pool[b[x]].wid = job_pool'[x].wid
                 /\ job_pool[b[x]].tgid = job_pool'[x].tgid
      BY <1>4, <1>6
    <2>2. ASSUME NEW x \in Uptkn, Open(x)', x \notin DOMAIN b
          PROVE  x \notin rows /\ Open(x) /\ job_pool[x] # NoRow /\ job_pool'[x] = job_pool[x]
      BY <2>2, <1>12
    <2>3. \A x \in DOMAIN b, y \in Uptkn \ DOMAIN b :
             Open(y)' /\ job_pool'[x].wid = job_pool'[y].wid
             => job_pool'[x].tgid # job_pool'[y].tgid
      <3> SUFFICES ASSUME NEW x \in DOMAIN b, NEW y \in Uptkn \ DOMAIN b, Open(y)',
                          job_pool'[x].wid = job_pool'[y].wid,
                          job_pool'[x].tgid = job_pool'[y].tgid
                   PROVE  FALSE
        OBVIOUS
      <3>1. /\ y \notin rows /\ Open(y) /\ job_pool[y] # NoRow
            /\ job_pool'[y] = job_pool[y]
        BY <2>2
      <3> HIDE DEF Open
      <3>3. /\ b[x] \in rows /\ b[x] \in Uptkn
            /\ job_pool[y].wid = job_pool[b[x]].wid /\ job_pool[y].tgid = job_pool[b[x]].tgid
        BY <2>1, <3>1
      <3>2. y = b[x]
        BY <1>5, <3>1, <3>3
      <3> QED
        BY <2>1, <3>1, <3>2
    <2> HIDE DEF IsJob, Open, JobsOf, OpenJobsOf
    <2>4. CASE t \in DOMAIN b /\ u \in DOMAIN b
      <3>2. /\ b[t] \in rows /\ b[t] \in Uptkn /\ b[u] \in rows /\ b[u] \in Uptkn
            /\ job_pool[b[u]] # NoRow
            /\ job_pool[b[u]].wid = job_pool[b[t]].wid
            /\ job_pool[b[u]].tgid = job_pool[b[t]].tgid
        BY <2>0, <2>1, <2>4
      <3>1. b[t] = b[u]
        BY <3>2, <1>5
      <3> QED
        BY <2>4, <3>1, <1>2
    <2>5. CASE t \notin DOMAIN b /\ u \notin DOMAIN b
      <3>1. t \in OpenJobsOf(v) /\ u \in OpenJobsOf(v)
        BY <2>0, <2>2, <2>5 DEF OpenJobsOf, JobsOf, IsJob
      <3> QED
        BY <2>0, <2>2, <2>5, <3>1 DEF Inv, OneOpenJobPerTrigger
    <2> QED
      BY <2>0, <2>3, <2>4, <2>5
  <1>14. FinalIsQuiet'
    <2> SUFFICES ASSUME NEW v \in Wid, NEW t \in OpenJobsOf(v)'
                 PROVE  Live(v)
      BY <1>3 DEF FinalIsQuiet, Live
    <2>1. CASE t \in DOMAIN b
      <3>1. b[t] \in rows /\ job_pool[b[t]].wid = v
        BY <2>1, <1>6
      <3> QED
        BY <3>1, <1>4
    <2>2. CASE t \notin DOMAIN b
      <3>1. t \in OpenJobsOf(v)
        BY <2>2, <1>12
      <3> QED
        BY <3>1 DEF Inv, FinalIsQuiet
    <2> QED
      BY <2>1, <2>2
  <1>15. NeverStranded'
    <2> SUFFICES ASSUME NEW v \in Wid, Live(v)
                 PROVE  OpenJobsOf(v)' # {} \/ (JobsOf(v) \cap withdrawn)' # {}
      BY <1>3 DEF NeverStranded, Live
    <2>1. PICK t \in JobsOf(v) : Open(t) \/ t \in withdrawn
      BY DEF Inv, NeverStranded
    <2>2. CASE t \in rows
      <3>1. PICK x \in DOMAIN b : b[x] = t
        BY <2>2, <1>2
      <3>2. x \in OpenJobsOf(v)'
        BY <2>1, <3>1, <1>6
      <3> QED
        BY <3>2
    <2>3. CASE t \notin rows
      BY <2>1, <2>3, <1>3, <1>6, <1>8
    <2> QED
      BY <2>2, <2>3
  <1>16. SelectionStaysValid'
    BY <1>0 DEF SelectionStaysValid
  <1> QED
    BY <1>9, <1>11, <1>13, <1>14, <1>15, <1>16 DEF Inv

-----------------------------------------------------------------------------
(* Inv holds in the empty database. *)
LEMMA InitInv == Init => Inv
  <1> SUFFICES ASSUME Init PROVE Inv
    OBVIOUS
  <1>1. TypeOK
    <2>1. <<>> \in Seq(Entry)
      OBVIOUS
    <2> QED
      BY <2>1 DEF Init, TypeOK
  <1>2. RowsAgree
    BY DEF Init, RowsAgree, IsJob, Holds
  <1>3. \A w \in Wid : OpenJobsOf(w) = {} /\ ~Live(w)
    BY DEF Init, OpenJobsOf, JobsOf, IsJob, Live
  <1>4. SelectionStaysValid
    BY DEF Init, SelectionStaysValid
  <1> QED
    BY <1>1, <1>2, <1>3, <1>4 DEF Inv, OneOpenJobPerTrigger, FinalIsQuiet, NeverStranded

(* Every step preserves Inv. *)
LEMMA NextInv == Inv /\ [Next]_vars => Inv'
  <1> SUFFICES ASSUME Inv, [Next]_vars PROVE Inv'
    OBVIOUS
  <1>1. ASSUME NEW w \in Wid, NEW s \in State, InsertRunning(w, s) \/ InsertFinal(w, s)
        PROVE  Inv'
    BY <1>1, InsertInv
  <1>2. ASSUME NEW w \in Wid, NEW s \in State, UpdateException(w, s)
        PROVE  Inv'
    BY <1>2, UpdateExceptionInv
  <1>3. ASSUME NEW w \in Wid, NEW s \in State, NEW t \in Uptkn, UpdateWithToken(w, s, t)
        PROVE  Inv'
    BY <1>3, UpdateWithTokenInv
  <1>4. ASSUME NEW t \in Uptkn, job_lock(t) \/ job_abort(t) \/ Timeout(t)
        PROVE  Inv'
    BY <1>4, JobLockInv, JobAbortInv, TimeoutInv
  <1>5. ASSUME NEW i \in Inspector,
               InspectorSelect(i) \/ InspectorWait(i) \/ InspectorDeadlock(i)
        PROVE  Inv'
    BY <1>5, InspectorMoveInv
  <1>6. ASSUME NEW i \in Inspector, InspectorRequeue(i)
        PROVE  Inv'
    BY <1>6, InspectorRequeueInv
  <1>7. CASE UNCHANGED vars
    <2> USE <1>7 DEF vars, IsJob, Open, JobsOf, OpenJobsOf, Live, Holds
    <2>1. TypeOK'
      BY DEF Inv, TypeOK
    <2>2. RowsAgree'
      BY DEF Inv, RowsAgree, JobColumnsAgree
    <2>3. OneOpenJobPerTrigger' /\ FinalIsQuiet' /\ NeverStranded'
      BY DEF Inv, OneOpenJobPerTrigger, FinalIsQuiet, NeverStranded
    <2>4. SelectionStaysValid'
      <3> SUFFICES ASSUME NEW i \in Inspector, NEW t \in inspector[i].rows
                   PROVE  SelectedOK(inspector[i].rows, t)'
        BY DEF SelectionStaysValid
      <3>1. SelectedOK(inspector[i].rows, t)
        BY DEF Inv, SelectionStaysValid
      <3> QED
        BY <3>1 DEF SelectedOK
    <2> QED
      BY <2>1, <2>2, <2>3, <2>4 DEF Inv
  <1> QED
    BY <1>1, <1>2, <1>3, <1>4, <1>5, <1>6, <1>7 DEF Next

(***************************************************************************)
(* The inductive invariant of the engine holds in every reachable state,   *)
(* whatever the catalog, the states written and the number of inspectors.  *)
(***************************************************************************)
THEOREM Safety == Spec => []Inv
  BY InitInv, NextInv, PTL DEF Spec

(* The tables have their types. *)
THEOREM TypesHold == Spec => []TypeOK
  BY Safety, PTL DEF Inv

(***************************************************************************)
(* squeeze_the_trigger and job_inspector never leave an instance with two  *)
(* open jobs of one trigger.                                               *)
(***************************************************************************)
THEOREM NoDoubleJob == Spec => []OneOpenJobPerTrigger
  BY Safety, PTL DEF Inv

(* No instance that the kernel has ended has a job to lock or to re-queue. *)
THEOREM EndedIsQuiet == Spec => []FinalIsQuiet
  BY Safety, PTL DEF Inv

(***************************************************************************)
(* Every instance the kernel has not ended has a job that carries it on,   *)
(* unless job_abort took it away.                                          *)
(***************************************************************************)
THEOREM NobodyStranded == Spec => []NeverStranded
  BY Safety, PTL DEF Inv

(***************************************************************************)
(* The rows job_inspector read under its weak lock are still right when it *)
(* writes them under the strong one.                                       *)
(***************************************************************************)
THEOREM SelectionValid == Spec => []SelectionStaysValid
  BY Safety, PTL DEF Inv

-----------------------------------------------------------------------------
(* What one committed statement may do *)

(* What a kernel write of w that completes the jobs of done does to rows. *)
RowsAfter(w, done) ==
    /\ \A t \in Uptkn \ done : IsJob(t) => job_pool'[t] = job_pool[t]
    /\ \A t \in done : /\ job_pool'[t] \in Job /\ job_pool'[t].tf
                       /\ job_pool'[t].tgid = job_pool[t].tgid
                       /\ job_pool'[t].wid = job_pool[t].wid
                       /\ job_pool'[t].locked = job_pool[t].locked
                       /\ job_pool'[t].aborted = job_pool[t].aborted
                       /\ job_pool'[t].ti = job_pool[t].ti
    /\ \A t \in Uptkn : ~IsJob(t) /\ job_pool'[t] # NoRow => job_pool'[t].wid = w

(* What PoolAfter means row by row. *)
LEMMA PoolRows ==
    ASSUME TypeOK, NEW w \in Wid, NEW done \in SUBSET OpenJobsOf(w), NEW G,
           NEW b \in Draws(G), job_pool' = PoolAfter(w, done, b)
    PROVE  RowsAfter(w, done)
  <1>1. DOMAIN b \subseteq Uptkn /\ \A t \in DOMAIN b : job_pool[t] = NoRow
    BY DrawFacts DEF IsJob
  <1>2. \A t \in done : t \in Uptkn /\ job_pool[t] # NoRow /\ job_pool[t] \in Job
    BY DEF TypeOK, OpenJobsOf, JobsOf, IsJob
  <1>3. \A t \in Uptkn \ done : IsJob(t) => job_pool'[t] = job_pool[t]
    BY <1>1 DEF IsJob, PoolAfter
  <1>4. ASSUME NEW t \in done
        PROVE  /\ job_pool'[t] \in Job /\ job_pool'[t].tf
               /\ job_pool'[t].tgid = job_pool[t].tgid /\ job_pool'[t].wid = job_pool[t].wid
               /\ job_pool'[t].locked = job_pool[t].locked
               /\ job_pool'[t].aborted = job_pool[t].aborted
               /\ job_pool'[t].ti = job_pool[t].ti
    <2>1. t \in Uptkn /\ t \notin DOMAIN b /\ job_pool[t] \in Job
      BY <1>1, <1>2
    <2>2. job_pool'[t] = [job_pool[t] EXCEPT !.tf = TRUE]
      BY <2>1 DEF PoolAfter
    <2>3. [job_pool[t] EXCEPT !.tf = TRUE] \in Job
      BY <2>1 DEF Job
    <2> QED
      BY <2>1, <2>2, <2>3 DEF Job
  <1>5. ASSUME NEW t \in Uptkn, ~IsJob(t), job_pool'[t] # NoRow
        PROVE  job_pool'[t].wid = w
    <2>1. t \in DOMAIN b
      BY <1>2, <1>5 DEF IsJob, PoolAfter
    <2>2. job_pool'[t] = NewJob(b[t], w)
      BY <2>1 DEF PoolAfter
    <2> QED
      BY <2>2 DEF NewJob
  <1> QED
    BY <1>3, <1>4, <1>5 DEF RowsAfter

(* One entry, signed wrote, is added to the history of w and to no other. *)
LEMMA TraceRows ==
    ASSUME TypeOK, NEW w \in Wid, NEW s, NEW wrote, NEW fired, NEW fin, NEW ex,
           new_trace_entry(w, s, wrote, fired, fin, ex)
    PROVE  /\ wed_trace'[w][Len(wed_trace'[w])].tgid_wrote = wrote
           /\ \A v \in Wid \ {w} : wed_trace'[v] = wed_trace[v]
  <1> DEFINE e == [st |-> s, tgid_wrote |-> wrote, tgid_fired |-> fired,
                   final |-> fin, excpt |-> ex]
  <1>1. e.tgid_wrote = wrote
    OBVIOUS
  <1> HIDE DEF e
  <1>2. wed_trace' = [wed_trace EXCEPT ![w] = Append(wed_trace[w], e)]
    BY DEF new_trace_entry, e
  <1>3. wed_trace[w] \in Seq(Entry)
    BY DEF TypeOK
  <1>4. wed_trace'[w] = Append(wed_trace[w], e)
    BY <1>2 DEF TypeOK
  <1>5. Append(wed_trace[w], e)[Len(Append(wed_trace[w], e))] = e
    BY <1>3
  <1> QED
    BY <1>1, <1>2, <1>4, <1>5 DEF TypeOK

(* The INSERT branch: an anonymous entry, and jobs of the new instance only. *)
LEMMA InsertRows ==
    ASSUME Inv, NEW w \in Wid, NEW s \in State, InsertRunning(w, s) \/ InsertFinal(w, s)
    PROVE  /\ RowsAfter(w, {})
           /\ wed_trace'[w][Len(wed_trace'[w])].tgid_wrote = NULL
           /\ \A v \in Wid \ {w} : /\ wed_trace'[v] = wed_trace[v]
                                   /\ wed_flow'[v] = wed_flow[v]
                                   /\ st_status'[v] = st_status[v]
           /\ wed_flow[w] = NoRow
  <1>1. TypeOK /\ {} \in SUBSET OpenJobsOf(w)
    BY DEF Inv
  <1>2. /\ wed_flow[w] = NoRow
        /\ \A v \in Wid \ {w} : wed_flow'[v] = wed_flow[v] /\ st_status'[v] = st_status[v]
    BY <1>1 DEF InsertRunning, InsertFinal, NewInstance, set_st_status, TypeOK
  <1>3. CASE InsertRunning(w, s)
    <2>1. \E G : \E b \in Draws(G) : job_pool' = PoolAfter(w, {}, b)
      BY <1>3 DEF InsertRunning
    <2>2. RowsAfter(w, {})
      BY <1>1, <2>1, PoolRows
    <2>3. PICK fired : new_trace_entry(w, s, NULL, fired, FALSE, FALSE)
      BY <1>3 DEF InsertRunning
    <2> QED
      BY <1>1, <1>2, <2>2, <2>3, TraceRows
  <1>4. CASE InsertFinal(w, s)
    <2>1. RowsAfter(w, {})
      BY <1>4 DEF InsertFinal, RowsAfter, IsJob
    <2>2. new_trace_entry(w, s, NULL, {}, TRUE, FALSE)
      BY <1>4 DEF InsertFinal
    <2> QED
      BY <1>1, <1>2, <2>1, <2>2, TraceRows
  <1> QED
    BY <1>3, <1>4

(* The UPDATE branch: an entry signed wrote, and jobs of w only. *)
LEMMA UpdateRows ==
    ASSUME Inv, NEW w \in Wid, NEW s \in State, NEW wrote,
           NEW done \in SUBSET OpenJobsOf(w), Update(w, s, wrote, done)
    PROVE  /\ RowsAfter(w, done)
           /\ wed_trace'[w][Len(wed_trace'[w])].tgid_wrote = wrote
           /\ \A v \in Wid \ {w} : /\ wed_trace'[v] = wed_trace[v]
                                   /\ wed_flow'[v] = wed_flow[v]
                                   /\ st_status'[v] = st_status[v]
           /\ st_status[w].final => st_status[w].excpt
  <1>1. TypeOK
    BY DEF Inv
  <1>2. \E fired, fin, ex : new_trace_entry(w, s, wrote, fired, fin, ex)
    BY DEF Update, Inconsistent, ReachFinal, FireTriggers
  <1>3. \E fin, ex : set_st_status(w, fin, ex)
    BY DEF Update, Inconsistent, ReachFinal, FireTriggers
  <1>4. \E G : \E b \in Draws(G) : job_pool' = PoolAfter(w, done, b)
    BY EmptyDraw DEF Update, Inconsistent, ReachFinal, FireTriggers
  <1>5. RowsAfter(w, done)
    BY <1>1, <1>4, PoolRows
  <1>6. \A v \in Wid \ {w} : wed_flow'[v] = wed_flow[v] /\ st_status'[v] = st_status[v]
    BY <1>1, <1>3 DEF Update, set_st_status, TypeOK
  <1>7. /\ wed_trace'[w][Len(wed_trace'[w])].tgid_wrote = wrote
        /\ \A v \in Wid \ {w} : wed_trace'[v] = wed_trace[v]
    BY <1>1, <1>2, TraceRows
  <1> QED
    BY <1>5, <1>6, <1>7 DEF Update

(* Requeueing by row: selected rows are aborted, new rows take over from them. *)
LEMMA RequeueRows ==
    ASSUME Inv, NEW i \in Inspector, InspectorRequeue(i)
    PROVE  /\ \A t \in Uptkn \ inspector[i].rows : IsJob(t) => job_pool'[t] = job_pool[t]
           /\ \A t \in inspector[i].rows :
                 /\ t \in Uptkn /\ job_pool'[t] # NoRow
                 /\ job_pool'[t].tf /\ job_pool'[t].aborted
                 /\ job_pool'[t].tgid = job_pool[t].tgid /\ job_pool'[t].wid = job_pool[t].wid
                 /\ job_pool'[t].locked = job_pool[t].locked /\ job_pool'[t].ti = job_pool[t].ti
           /\ \A t \in Uptkn : ~IsJob(t) /\ job_pool'[t] # NoRow => Live(job_pool'[t].wid)
  <1> DEFINE rows == inspector[i].rows
  <1>1. PICK b \in Draws(rows) : job_pool' = Requeued(rows, b)
    BY DEF InspectorRequeue
  <1>2. /\ DOMAIN b \subseteq Uptkn
        /\ \A t \in DOMAIN b : job_pool[t] = NoRow /\ b[t] \in rows
    BY DrawFacts DEF IsJob
  <1>3. \A t \in rows : /\ t \in Uptkn /\ job_pool[t] # NoRow /\ job_pool[t] \in Job
                        /\ Live(job_pool[t].wid)
    BY DEF Inv, TypeOK, SelectionStaysValid, SelectedOK, IsJob
  <1>4. \A t \in Uptkn \ rows : IsJob(t) => job_pool'[t] = job_pool[t]
    BY <1>1, <1>2 DEF IsJob, Requeued
  <1>5. ASSUME NEW t \in rows
        PROVE  /\ t \in Uptkn /\ job_pool'[t] # NoRow
               /\ job_pool'[t].tf /\ job_pool'[t].aborted
               /\ job_pool'[t].tgid = job_pool[t].tgid /\ job_pool'[t].wid = job_pool[t].wid
               /\ job_pool'[t].locked = job_pool[t].locked /\ job_pool'[t].ti = job_pool[t].ti
    <2>1. t \in Uptkn /\ t \notin DOMAIN b /\ job_pool[t] \in Job
      BY <1>2, <1>3
    <2>2. job_pool'[t] = [job_pool[t] EXCEPT !.aborted = TRUE, !.tf = TRUE]
      BY <1>1, <2>1 DEF Requeued
    <2>3. [job_pool[t] EXCEPT !.aborted = TRUE, !.tf = TRUE] \in Job
      BY <2>1 DEF Job
    <2> QED
      BY <2>1, <2>2, <2>3, KernelAssumption DEF Job
  <1>6. ASSUME NEW t \in Uptkn, ~IsJob(t), job_pool'[t] # NoRow
        PROVE  Live(job_pool'[t].wid)
    <2>1. t \in DOMAIN b
      BY <1>1, <1>3, <1>6 DEF IsJob, Requeued
    <2>2. job_pool'[t] = NewJob(job_pool[b[t]].tgid, job_pool[b[t]].wid)
      BY <1>1, <2>1 DEF Requeued
    <2>3. job_pool'[t].wid = job_pool[b[t]].wid
      BY <2>2 DEF NewJob
    <2> QED
      BY <1>2, <1>3, <2>1, <2>3
  <1> QED
    BY <1>4, <1>5, <1>6

-----------------------------------------------------------------------------
(* A token write completes an open, locked, not aborted job of its instance. *)
LEMMA TokenJob ==
    ASSUME Inv, NEW w \in Wid, NEW s \in State, NEW t \in Uptkn, UpdateWithToken(w, s, t)
    PROVE  /\ t \in OpenJobsOf(w) /\ job_pool[t].locked /\ ~job_pool[t].aborted
           /\ {t} \in SUBSET OpenJobsOf(w)
           /\ Update(w, s, job_pool[t].tgid, {t})
  <1>1. t \in OpenJobsOf(w) /\ job_pool[t].locked /\ ~job_pool[t].tf
    BY DEF UpdateWithToken, find_job, OpenJobsOf, JobsOf, Open
  <1>2. ~job_pool[t].aborted
    BY <1>1 DEF Inv, RowsAgree, JobColumnsAgree, OpenJobsOf, JobsOf
  <1> QED
    BY <1>1, <1>2 DEF UpdateWithToken

(* Only a token write signs an entry, and it completes the signer's job. *)
LEMMA SignedWriteStep == Inv /\ [Next]_vars => [SignedWrite]_vars
  <1> SUFFICES ASSUME Inv, Next PROVE SignedWrite
    OBVIOUS
  <1>1. ASSUME NEW w \in Wid, NEW s \in State, InsertRunning(w, s) \/ InsertFinal(w, s)
        PROVE  SignedWrite
    BY <1>1, InsertRows DEF SignedWrite
  <1>2. ASSUME NEW w \in Wid, NEW s \in State, UpdateException(w, s)
        PROVE  SignedWrite
    <2>1. Update(w, s, NULL, {}) /\ {} \in SUBSET OpenJobsOf(w)
      BY <1>2 DEF UpdateException
    <2>2. /\ wed_trace'[w][Len(wed_trace'[w])].tgid_wrote = NULL
          /\ \A v \in Wid \ {w} : wed_trace'[v] = wed_trace[v]
      BY <2>1, UpdateRows
    <2> QED
      BY <2>2 DEF SignedWrite
  <1>3. ASSUME NEW w \in Wid, NEW s \in State, NEW t \in Uptkn, UpdateWithToken(w, s, t)
        PROVE  SignedWrite
    <2>1. /\ t \in OpenJobsOf(w) /\ job_pool[t].locked /\ ~job_pool[t].aborted
          /\ {t} \in SUBSET OpenJobsOf(w)
          /\ Update(w, s, job_pool[t].tgid, {t})
      BY <1>3, TokenJob
    <2>2. /\ RowsAfter(w, {t})
          /\ wed_trace'[w][Len(wed_trace'[w])].tgid_wrote = job_pool[t].tgid
          /\ \A v \in Wid \ {w} : wed_trace'[v] = wed_trace[v]
      BY <2>1, UpdateRows
    <2>3. /\ job_pool'[t].tf /\ ~job_pool'[t].aborted
          /\ \A u \in Uptkn \ {t} : IsJob(u) => job_pool'[u] = job_pool[u]
      BY <2>1, <2>2 DEF RowsAfter
    <2> QED
      BY <2>1, <2>2, <2>3 DEF SignedWrite
  <1>4. ASSUME UNCHANGED wed_trace
        PROVE  SignedWrite
    BY <1>4 DEF SignedWrite
  <1> QED
    BY <1>1, <1>2, <1>3, <1>4 DEF Next, job_lock, job_abort, Timeout, InspectorSelect,
       InspectorWait, InspectorDeadlock, InspectorRequeue

(***************************************************************************)
(* Every entry of wed_trace signed by a trigger was written by completing  *)
(* the one locked job of that trigger and instance, and no other job.      *)
(***************************************************************************)
THEOREM SignedWrites == Spec => WriteConsumesItsJob
  BY Safety, SignedWriteStep, PTL DEF Spec, WriteConsumesItsJob

(* Kernel writes only complete rows. *)
LEMMA RowsAfterAdvance ==
    ASSUME TypeOK, NEW w \in Wid, NEW done \in SUBSET OpenJobsOf(w), RowsAfter(w, done)
    PROVE  JobAdvances
  <1> SUFFICES ASSUME NEW t \in Uptkn, IsJob(t)
               PROVE  /\ IsJob(t)'
                      /\ job_pool'[t].tgid = job_pool[t].tgid
                      /\ job_pool'[t].wid = job_pool[t].wid
                      /\ job_pool[t].locked => job_pool'[t].locked
                      /\ job_pool[t].tf => job_pool'[t].tf
                      /\ job_pool[t].aborted => job_pool'[t].aborted
                      /\ job_pool[t].ti # "null" => job_pool'[t].ti \in {job_pool[t].ti, "expired"}
    BY DEF JobAdvances
  <1>1. CASE t \in done
    BY <1>1, KernelAssumption DEF RowsAfter, IsJob
  <1>2. CASE t \notin done
    BY <1>2 DEF RowsAfter, IsJob
  <1> QED
    BY <1>1, <1>2

(* A step that replaces one row by a later version of it only advances jobs. *)
LEMMA RowStepAdvance ==
    ASSUME TypeOK, NEW t \in Uptkn, IsJob(t), NEW row \in Job,
           job_pool' = [job_pool EXCEPT ![t] = row],
           row.tgid = job_pool[t].tgid, row.wid = job_pool[t].wid,
           job_pool[t].locked => row.locked, job_pool[t].tf => row.tf,
           job_pool[t].aborted => row.aborted,
           job_pool[t].ti # "null" => row.ti \in {job_pool[t].ti, "expired"}
    PROVE  JobAdvances
  <1>1. /\ job_pool'[t] = row /\ job_pool'[t] # NoRow
        /\ \A u \in Uptkn \ {t} : job_pool'[u] = job_pool[u]
    BY KernelAssumption DEF TypeOK
  <1> QED
    BY <1>1 DEF JobAdvances, IsJob

(* Every step only advances jobs. *)
LEMMA JobAdvancesStep == Inv /\ [Next]_vars => [JobAdvances]_vars
  <1> SUFFICES ASSUME Inv, Next PROVE JobAdvances
    OBVIOUS
  <1>0. TypeOK
    BY DEF Inv
  <1>1. ASSUME NEW w \in Wid, NEW s \in State, InsertRunning(w, s) \/ InsertFinal(w, s)
        PROVE  JobAdvances
    <2>1. {} \in SUBSET OpenJobsOf(w) /\ RowsAfter(w, {})
      BY <1>1, InsertRows
    <2> QED
      BY <1>0, <2>1, RowsAfterAdvance
  <1>2. ASSUME NEW w \in Wid, NEW s \in State, UpdateException(w, s)
        PROVE  JobAdvances
    <2>1. Update(w, s, NULL, {}) /\ {} \in SUBSET OpenJobsOf(w)
      BY <1>2 DEF UpdateException
    <2>2. RowsAfter(w, {})
      BY <2>1, UpdateRows
    <2> QED
      BY <1>0, <2>1, <2>2, RowsAfterAdvance
  <1>3. ASSUME NEW w \in Wid, NEW s \in State, NEW t \in Uptkn, UpdateWithToken(w, s, t)
        PROVE  JobAdvances
    <2>1. {t} \in SUBSET OpenJobsOf(w) /\ Update(w, s, job_pool[t].tgid, {t})
      BY <1>3, TokenJob
    <2>2. RowsAfter(w, {t})
      BY <2>1, UpdateRows
    <2> QED
      BY <1>0, <2>1, <2>2, RowsAfterAdvance
  <1>4. ASSUME NEW t \in Uptkn, job_lock(t)
        PROVE  JobAdvances
    <2> DEFINE row == LockedRow(job_pool[t])
    <2>1. /\ IsJob(t) /\ ~job_pool[t].locked /\ job_pool[t] \in Job
          /\ job_pool' = [job_pool EXCEPT ![t] = row]
      BY <1>0, <1>4 DEF job_lock, CanLock, TypeOK, IsJob
    <2>2. job_pool[t].ti = "null" /\ ~job_pool[t].aborted
      BY <2>1 DEF Inv, RowsAgree, JobColumnsAgree
    <2>3. /\ row \in Job /\ row.tgid = job_pool[t].tgid /\ row.wid = job_pool[t].wid
          /\ row.locked /\ row.tf = job_pool[t].tf
      BY <2>1 DEF Job, Ti, LockedRow
    <2> HIDE DEF row
    <2> QED
      BY <1>0, <2>1, <2>2, <2>3, RowStepAdvance
  <1>5. ASSUME NEW t \in Uptkn, job_abort(t)
        PROVE  JobAdvances
    <2> DEFINE row == AbortedRow(job_pool[t])
    <2>1. /\ IsJob(t) /\ job_pool[t] \in Job
          /\ job_pool' = [job_pool EXCEPT ![t] = row]
      BY <1>0, <1>5 DEF job_abort, TypeOK, IsJob
    <2>2. /\ row \in Job /\ row.tgid = job_pool[t].tgid /\ row.wid = job_pool[t].wid
          /\ row.locked = job_pool[t].locked /\ row.tf /\ row.aborted
          /\ row.ti = job_pool[t].ti
      BY <2>1 DEF Job, AbortedRow
    <2> HIDE DEF row
    <2> QED
      BY <1>0, <2>1, <2>2, RowStepAdvance
  <1>6. ASSUME NEW t \in Uptkn, Timeout(t)
        PROVE  JobAdvances
    <2> DEFINE row == [job_pool[t] EXCEPT !.ti = "expired"]
    <2>1. /\ IsJob(t) /\ job_pool[t] \in Job
          /\ job_pool' = [job_pool EXCEPT ![t] = row]
      BY <1>0, <1>6 DEF Timeout, Open, TypeOK, IsJob
    <2>2. /\ row \in Job /\ row.tgid = job_pool[t].tgid /\ row.wid = job_pool[t].wid
          /\ row.locked = job_pool[t].locked /\ row.tf = job_pool[t].tf
          /\ row.aborted = job_pool[t].aborted /\ row.ti = "expired"
      BY <2>1 DEF Job, Ti
    <2> HIDE DEF row
    <2> QED
      BY <1>0, <2>1, <2>2, RowStepAdvance
  <1>7. ASSUME NEW i \in Inspector, InspectorRequeue(i)
        PROVE  JobAdvances
    <2>1. /\ \A t \in Uptkn \ inspector[i].rows : IsJob(t) => job_pool'[t] = job_pool[t]
          /\ \A t \in inspector[i].rows :
                /\ job_pool'[t] # NoRow
                /\ job_pool'[t].tf /\ job_pool'[t].aborted
                /\ job_pool'[t].tgid = job_pool[t].tgid /\ job_pool'[t].wid = job_pool[t].wid
                /\ job_pool'[t].locked = job_pool[t].locked /\ job_pool'[t].ti = job_pool[t].ti
      BY <1>7, RequeueRows
    <2> QED
      BY <2>1 DEF JobAdvances, IsJob
  <1>8. ASSUME UNCHANGED job_pool
        PROVE  JobAdvances
    BY <1>8 DEF JobAdvances, IsJob
  <1> QED
    BY <1>1, <1>2, <1>3, <1>4, <1>5, <1>6, <1>7, <1>8
       DEF Next, InspectorSelect, InspectorWait, InspectorDeadlock

(***************************************************************************)
(* No statement unlocks, reopens or moves a job, or restarts its timeout.  *)
(***************************************************************************)
THEOREM JobsAdvance == Spec => JobsOnlyAdvance
  BY Safety, JobAdvancesStep, PTL DEF Spec, JobsOnlyAdvance

-----------------------------------------------------------------------------
(* No step writes an instance that has ended without exception. *)
LEMMA FinalKeptStep == Inv /\ [Next]_vars => [FinalKept]_vars
  <1> SUFFICES ASSUME Inv, Next, NEW w \in Wid, wed_flow[w] # NoRow, ~Live(w),
                      ~st_status[w].excpt
               PROVE  /\ wed_flow'[w] = wed_flow[w] /\ st_status'[w] = st_status[w]
                      /\ wed_trace'[w] = wed_trace[w]
                      /\ \A t \in Uptkn : IsJob(t)' /\ job_pool'[t].wid = w => IsJob(t)
    BY DEF FinalKept
  <1> DEFINE Kept == /\ wed_flow'[w] = wed_flow[w] /\ st_status'[w] = st_status[w]
                     /\ wed_trace'[w] = wed_trace[w]
                     /\ \A t \in Uptkn : IsJob(t)' /\ job_pool'[t].wid = w => IsJob(t)
  <1>0. st_status[w].final /\ ~st_status[w].excpt
    BY DEF Live
  <1>1. ASSUME NEW v \in Wid, NEW s \in State, InsertRunning(v, s) \/ InsertFinal(v, s)
        PROVE  Kept
    BY <1>1, InsertRows DEF RowsAfter, IsJob
  <1>2. ASSUME NEW v \in Wid, NEW s \in State, UpdateException(v, s)
        PROVE  Kept
    <2>1. Update(v, s, NULL, {}) /\ {} \in SUBSET OpenJobsOf(v)
      BY <1>2 DEF UpdateException
    <2> QED
      BY <1>0, <2>1, UpdateRows DEF RowsAfter, IsJob
  <1>3. ASSUME NEW v \in Wid, NEW s \in State, NEW t \in Uptkn, UpdateWithToken(v, s, t)
        PROVE  Kept
    <2>1. {t} \in SUBSET OpenJobsOf(v) /\ Update(v, s, job_pool[t].tgid, {t})
      BY <1>3, TokenJob
    <2>2. RowsAfter(v, {t}) /\ v # w
      BY <1>0, <2>1, UpdateRows
    <2>3. /\ wed_flow'[w] = wed_flow[w] /\ st_status'[w] = st_status[w]
          /\ wed_trace'[w] = wed_trace[w]
      BY <2>1, <2>2, UpdateRows
    <2> QED
      BY <2>2, <2>3 DEF RowsAfter, IsJob
  <1>4. ASSUME NEW t \in Uptkn, job_lock(t) \/ job_abort(t) \/ Timeout(t)
        PROVE  Kept
    <2>1. /\ UNCHANGED <<wed_flow, st_status, wed_trace>>
          /\ IsJob(t) /\ \A u \in Uptkn \ {t} : job_pool'[u] = job_pool[u]
      BY <1>4 DEF job_lock, job_abort, Timeout, Open, Inv, TypeOK
    <2> QED
      BY <2>1 DEF IsJob
  <1>5. ASSUME NEW i \in Inspector, InspectorRequeue(i)
        PROVE  Kept
    <2>1. UNCHANGED <<wed_flow, st_status, wed_trace>>
      BY <1>5 DEF InspectorRequeue
    <2>2. \A t \in Uptkn : ~IsJob(t) /\ job_pool'[t] # NoRow => Live(job_pool'[t].wid)
      BY <1>5, RequeueRows
    <2> QED
      BY <2>1, <2>2 DEF IsJob
  <1>6. ASSUME UNCHANGED <<wed_flow, st_status, wed_trace, job_pool>>
        PROVE  Kept
    BY <1>6 DEF IsJob
  <1> QED
    BY <1>1, <1>2, <1>3, <1>4, <1>5, <1>6
       DEF Next, InspectorSelect, InspectorWait, InspectorDeadlock

(***************************************************************************)
(* An instance in a final state that is not an exception is never written  *)
(* again and gets no new job, neither from the kernel nor from job_inspector. *)
(***************************************************************************)
THEOREM FinalForever == Spec => FinalIsForever
  BY Safety, FinalKeptStep, PTL DEF Spec, FinalIsForever
=============================================================================
