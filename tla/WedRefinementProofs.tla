------------------------ MODULE WedRefinementProofs -------------------------
(***************************************************************************)
(* Proof that the engine implements the life cycle of WedInstance: every   *)
(* initial state maps to an initial state, every write to Start, Write or  *)
(* Recover, and every other step to Withdraw or to no step at all.         *)
(***************************************************************************)
EXTENDS WedRefinement, WedTraceProofs

-----------------------------------------------------------------------------
(* The triggers in flight *)

(* The triggers in flight, by the rows that say so ... *)
LEMMA InFlightByRow ==
    ASSUME NEW w \in Wid, NEW g
    PROVE  g \in InFlightNow(w) <=>
             \E t \in Uptkn : /\ job_pool[t] # NoRow /\ (~job_pool[t].tf \/ t \in Selected)
                              /\ job_pool[t].wid = w /\ job_pool[t].tgid = g
    BY DEF InFlightNow, JobsOf, Open, IsJob

(* ... also after a step. *)
LEMMA InFlightByRowNext ==
    ASSUME NEW w \in Wid, NEW g
    PROVE  g \in InFlightNow(w)' <=>
             \E t \in Uptkn : /\ job_pool'[t] # NoRow /\ (~job_pool'[t].tf \/ t \in Selected')
                              /\ job_pool'[t].wid = w /\ job_pool'[t].tgid = g
    BY DEF InFlightNow, JobsOf, Open, IsJob

(* Only triggers are in flight. *)
LEMMA InFlightType ==
    ASSUME TypeOK, NEW w \in Wid
    PROVE  InFlightNow(w) \subseteq Tgid
  <1> SUFFICES ASSUME NEW g \in InFlightNow(w) PROVE g \in Tgid
    OBVIOUS
  <1>1. PICK t \in Uptkn : job_pool[t] # NoRow /\ job_pool[t].tgid = g
    BY InFlightByRow
  <1>2. job_pool[t] \in Job
    BY <1>1 DEF TypeOK
  <1> QED
    BY <1>1, <1>2 DEF Job

(* What an inspector selected are jobs. *)
LEMMA SelectedAreJobs ==
    ASSUME Inv
    PROVE  \A t \in Selected : t \in Uptkn /\ IsJob(t)
    BY DEF Inv, TypeOK, Selected, SelectionStaysValid, SelectedOK

(* A kernel write of an instance of which no job is selected. *)
LEMMA WriteInFlight ==
    ASSUME Inv, NEW w \in Wid, NEW done \in SUBSET OpenJobsOf(w), NEW G \in SUBSET Tgid,
           WriteRows(w, done, G), UNCHANGED inspector,
           \A i \in Inspector : \A t \in inspector[i].rows : job_pool[t].wid # w
    PROVE  /\ InFlightNow(w) = running_triggers(w, {})
           /\ InFlightNow(w)' = running_triggers(w, done) \cup G
           /\ \A v \in Wid \ {w} : InFlightNow(v)' = InFlightNow(v)
  <1>1. /\ Selected' = Selected
        /\ \A t \in Selected : t \in Uptkn /\ job_pool[t] # NoRow /\ job_pool[t].wid # w
    BY SelectedAreJobs DEF Selected, IsJob
  <1>2. \A t \in done : t \in Uptkn /\ job_pool[t] # NoRow /\ job_pool[t].wid = w
    BY DEF OpenJobsOf, JobsOf, IsJob
  <1>3. \A t \in Uptkn : job_pool[t] = NoRow /\ job_pool'[t] # NoRow => job_pool'[t].wid = w
    BY DEF WriteRows, RowsAfter, IsJob
  <1>4. \A t \in Uptkn \ done : job_pool[t] # NoRow => job_pool'[t] = job_pool[t]
    BY DEF WriteRows, RowsAfter, IsJob
  <1>5. \A t \in done : job_pool'[t].wid = w
    BY <1>2 DEF WriteRows, RowsAfter
  <1>6. \A t \in Selected : job_pool'[t] = job_pool[t]
    BY <1>1, <1>2, <1>4
  <1>7. ASSUME NEW g
        PROVE  g \in InFlightNow(w) <=> g \in running_triggers(w, {})
    BY <1>1, InFlightByRow, RunningByRow
  <1>8. ASSUME NEW g
        PROVE  g \in InFlightNow(w)' <=> g \in running_triggers(w, {})'
    BY <1>1, <1>6, InFlightByRowNext, RunningByRowNext
  <1>9. running_triggers(w, {})' = running_triggers(w, done) \cup G
    BY WriteTriggers DEF Inv
  <1>10. ASSUME NEW v \in Wid \ {w}, NEW g \in InFlightNow(v)
         PROVE  g \in InFlightNow(v)'
    <2>1. PICK t \in Uptkn : /\ job_pool[t] # NoRow /\ (~job_pool[t].tf \/ t \in Selected)
                             /\ job_pool[t].wid = v /\ job_pool[t].tgid = g
      BY InFlightByRow
    <2>2. job_pool'[t] = job_pool[t]
      BY <1>2, <1>4, <2>1
    <2> QED
      BY <1>1, <2>1, <2>2, InFlightByRowNext
  <1>11. ASSUME NEW v \in Wid \ {w}, NEW g \in InFlightNow(v)'
         PROVE  g \in InFlightNow(v)
    <2>1. PICK t \in Uptkn : /\ job_pool'[t] # NoRow /\ (~job_pool'[t].tf \/ t \in Selected')
                             /\ job_pool'[t].wid = v /\ job_pool'[t].tgid = g
      BY InFlightByRowNext
    <2>2. job_pool'[t] = job_pool[t]
      BY <1>3, <1>4, <1>5, <2>1
    <2> QED
      BY <1>1, <2>1, <2>2, InFlightByRow
  <1> QED
    BY <1>7, <1>8, <1>9, <1>10, <1>11

-----------------------------------------------------------------------------
(* Writes *)

(* The abstract phase that the flags of st_status stand for. *)
PhaseOf(fin, ex) == IF ~fin THEN "running" ELSE IF ex THEN "exception" ELSE "final"

(* A kernel write is a step of the life cycle into the phase of its flags. *)
LEMMA WriteEnters ==
    ASSUME Inv, NEW w \in Wid, NEW s \in State, NEW wrote, NEW G \in SUBSET Tgid,
           NEW fin \in BOOLEAN, NEW ex \in BOOLEAN, ex => fin,
           NEW done \in SUBSET OpenJobsOf(w), WriteRows(w, done, G), UNCHANGED inspector,
           \A i \in Inspector : \A t \in inspector[i].rows : job_pool[t].wid # w,
           running_triggers(w, done) = running_triggers(w, {}) \ {wrote},
           new_trace_entry(w, s, wrote, G, fin, ex), set_st_status(w, fin, ex),
           wed_flow' = [wed_flow EXCEPT ![w] = s]
    PROVE  Instance!Enter(w, s, wrote, G, PhaseOf(fin, ex))
  <1>1. TypeOK /\ s # NoRow
    BY KernelAssumption DEF Inv
  <1>2. /\ InFlightNow(w)' = (InFlightNow(w) \ {wrote}) \cup G
        /\ \A v \in Wid \ {w} : InFlightNow(v)' = InFlightNow(v)
    BY WriteInFlight
  <1>3. /\ wed_flow'[w] = s
        /\ st_status'[w].final = fin /\ st_status'[w].excpt = ex
        /\ \A v \in Wid \ {w} : wed_flow'[v] = wed_flow[v] /\ st_status'[v] = st_status[v]
    BY <1>1 DEF set_st_status, TypeOK
  <1>4. Phase(w)' = PhaseOf(fin, ex)
    BY <1>1, <1>3 DEF Phase, PhaseOf
  <1>5. \A v \in Wid \ {w} : Phase(v)' = Phase(v)
    BY <1>3 DEF Phase
  <1>6. [v \in Wid |-> Phase(v)]' = [[v \in Wid |-> Phase(v)] EXCEPT ![w] = PhaseOf(fin, ex)]
    BY <1>4, <1>5
  <1>7. [v \in Wid |-> InFlightNow(v)]' =
           [[v \in Wid |-> InFlightNow(v)] EXCEPT ![w] = (@ \ {wrote}) \cup G]
    BY <1>2
  <1>8. fin = (PhaseOf(fin, ex) # "running") /\ ex = (PhaseOf(fin, ex) = "exception")
    BY DEF PhaseOf
  <1>9. wed_trace' = [wed_trace EXCEPT ![w] =
           Append(@, [st |-> s, tgid_wrote |-> wrote, tgid_fired |-> G,
                      final |-> PhaseOf(fin, ex) # "running",
                      excpt |-> PhaseOf(fin, ex) = "exception"])]
    BY <1>8 DEF new_trace_entry
  <1> QED
    BY <1>6, <1>7, <1>9 DEF Instance!Enter

(* The life cycle evaluates predicates on the same tables. *)
LEMMA SameCatalog ==
    \A s : Instance!pred_match(s) = pred_match(s) /\ (Instance!final_match(s) <=> final_match(s))
    BY DEF pred_match, final_match, row_match, Truthy, Instance!pred_match,
       Instance!final_match, Instance!row_match, Instance!Truthy

(* What Fires leaves when triggers of rtrg are running is what is squeezed. *)
LEMMA FiresSqueezed ==
    ASSUME NEW s, NEW rtrg
    PROVE  squeeze_the_trigger(pred_match(s), rtrg) = Instance!Fires(s) \ rtrg
    BY SameCatalog DEF squeeze_the_trigger, Instance!Fires

(* The INSERT of an instance is Start. *)
LEMMA InsertStarts ==
    ASSUME Inv, NEW w \in Wid, NEW s \in State, InsertRunning(w, s) \/ InsertFinal(w, s)
    PROVE  Instance!Start(w, s)
  <1>1. /\ TypeOK /\ wed_flow[w] = NoRow /\ pred_match(s) # {}
        /\ wed_flow' = [wed_flow EXCEPT ![w] = s] /\ UNCHANGED inspector
    BY DEF Inv, InsertRunning, InsertFinal, NewInstance
  <1>2. /\ {} \in SUBSET OpenJobsOf(w) /\ running_triggers(w, {}) = {}
        /\ running_triggers(w, {}) = running_triggers(w, {}) \ {NULL}
        /\ \A i \in Inspector : \A t \in inspector[i].rows : job_pool[t].wid # w
    BY <1>1, FreshInstance
  <1>3. [v \in Wid |-> Phase(v)][w] = "absent"
    BY <1>1 DEF Phase
  <1>4. CASE InsertRunning(w, s)
    <2> DEFINE G == squeeze_the_trigger(pred_match(s), {})
    <2>1. G \in SUBSET Tgid /\ G = Instance!Fires(s)
      BY SameCatalog DEF squeeze_the_trigger, Instance!Fires
    <2>2. PICK b \in Draws(G) : job_pool' = PoolAfter(w, {}, b)
      BY <1>4 DEF InsertRunning
    <2>3. /\ ~final_match(s)
          /\ new_trace_entry(w, s, NULL, G, FALSE, FALSE) /\ set_st_status(w, FALSE, FALSE)
      BY <1>4 DEF InsertRunning
    <2> HIDE DEF G
    <2>4. WriteRows(w, {}, G)
      BY <1>1, <1>2, <2>1, <2>2, PoolWriteRows
    <2>5. Instance!Enter(w, s, NULL, G, PhaseOf(FALSE, FALSE))
      BY <1>1, <1>2, <2>1, <2>3, <2>4, WriteEnters
    <2> QED
      BY <1>1, <1>3, <2>1, <2>3, <2>5, SameCatalog DEF PhaseOf, Instance!Start
  <1>5. CASE InsertFinal(w, s)
    <2>1. /\ job_pool' = job_pool /\ final_match(s)
          /\ new_trace_entry(w, s, NULL, {}, TRUE, FALSE) /\ set_st_status(w, TRUE, FALSE)
      BY <1>5 DEF InsertFinal
    <2>2. WriteRows(w, {}, {})
      BY <2>1 DEF WriteRows, RowsAfter, IsJob
    <2>3. Instance!Enter(w, s, NULL, {}, PhaseOf(TRUE, FALSE))
      BY <1>1, <1>2, <2>1, <2>2, WriteEnters
    <2> QED
      BY <1>1, <1>3, <2>1, <2>3, SameCatalog DEF PhaseOf, Instance!Start
  <1> QED
    BY <1>4, <1>5

(* The three outcomes of an UPDATE are those of Continue. *)
LEMMA UpdateContinues ==
    ASSUME Inv, NEW w \in Wid, NEW s \in State, NEW wrote,
           NEW done \in SUBSET OpenJobsOf(w), Update(w, s, wrote, done),
           \A i \in Inspector : \A t \in inspector[i].rows : job_pool[t].wid # w,
           running_triggers(w, done) = running_triggers(w, {}) \ {wrote}
    PROVE  Instance!Continue(w, s, wrote, running_triggers(w, done))
  <1>1. TypeOK /\ wed_flow' = [wed_flow EXCEPT ![w] = s] /\ UNCHANGED inspector
    BY DEF Inv, Update
  <1>2. CASE Inconsistent(w, s, wrote, done)
    <2>1. /\ running_triggers(w, done) = {} /\ pred_match(s) = {}
          /\ new_trace_entry(w, s, wrote, {}, TRUE, TRUE) /\ set_st_status(w, TRUE, TRUE)
      BY <1>2 DEF Inconsistent
    <2>2. WriteRows(w, done, {})
      BY <1>1, <1>2, EmptyDraw, PoolWriteRows DEF Inconsistent
    <2>3. Instance!Enter(w, s, wrote, {}, PhaseOf(TRUE, TRUE))
      BY <1>1, <2>1, <2>2, WriteEnters
    <2> QED
      BY <2>1, <2>3, SameCatalog DEF PhaseOf, Instance!Continue
  <1>3. CASE ReachFinal(w, s, wrote, done)
    <2>1. /\ running_triggers(w, done) = {} /\ final_match(s)
          /\ new_trace_entry(w, s, wrote, {}, TRUE, FALSE) /\ set_st_status(w, TRUE, FALSE)
      BY <1>3 DEF ReachFinal
    <2>2. WriteRows(w, done, {})
      BY <1>1, <1>3, EmptyDraw, PoolWriteRows DEF ReachFinal
    <2>3. Instance!Enter(w, s, wrote, {}, PhaseOf(TRUE, FALSE))
      BY <1>1, <2>1, <2>2, WriteEnters
    <2> QED
      BY <2>1, <2>3, SameCatalog DEF PhaseOf, Instance!Continue
  <1>4. CASE FireTriggers(w, s, wrote, done)
    <2> DEFINE rtrg == running_triggers(w, done)
               G    == squeeze_the_trigger(pred_match(s), rtrg)
    <2>1. G \in SUBSET Tgid /\ G = Instance!Fires(s) \ rtrg
      BY FiresSqueezed DEF squeeze_the_trigger
    <2>2. PICK b \in Draws(G) : job_pool' = PoolAfter(w, done, b)
      BY <1>4 DEF FireTriggers
    <2>3. /\ ~final_match(s) /\ (pred_match(s) # {} \/ rtrg # {})
          /\ new_trace_entry(w, s, wrote, G, FALSE, FALSE) /\ set_st_status(w, FALSE, FALSE)
      BY <1>4 DEF FireTriggers
    <2> HIDE DEF G
    <2>4. WriteRows(w, done, G)
      BY <1>1, <2>1, <2>2, PoolWriteRows
    <2>5. Instance!Enter(w, s, wrote, G, PhaseOf(FALSE, FALSE))
      BY <1>1, <2>1, <2>3, <2>4, WriteEnters
    <2> QED
      BY <2>1, <2>3, <2>5, SameCatalog DEF PhaseOf, Instance!Continue
  <1> QED
    BY <1>2, <1>3, <1>4 DEF Update

(* A write with the token of job t is Write by t's trigger. *)
LEMMA TokenWrites ==
    ASSUME Inv, NEW w \in Wid, NEW s \in State, NEW t \in Uptkn, UpdateWithToken(w, s, t)
    PROVE  \E g \in Tgid : Instance!Write(w, s, g)
  <1> DEFINE g == job_pool[t].tgid
  <1>1. /\ TypeOK /\ t \in OpenJobsOf(w) /\ {t} \in SUBSET OpenJobsOf(w)
        /\ Update(w, s, g, {t})
    BY TokenJob DEF Inv
  <1>2. Live(w) /\ [v \in Wid |-> Phase(v)][w] = "running"
    BY <1>1 DEF Inv, FinalIsQuiet, Live, Phase
  <1>3. \A i \in Inspector : \A u \in inspector[i].rows : job_pool[u].wid # w
    BY DEF UpdateWithToken, JobPoolFree, Inv, RowsAgree
  <1>4. Selected = {}
    BY DEF UpdateWithToken, JobPoolFree, Inv, RowsAgree, Selected
  <1>5. InFlightNow(w) = running_triggers(w, {})
    BY <1>4 DEF InFlightNow, running_triggers, OpenJobsOf
  <1>6. g \in running_triggers(w, {})
    BY <1>1 DEF running_triggers
  <1>7. running_triggers(w, {t}) = running_triggers(w, {}) \ {g}
    BY <1>1 DEF running_triggers, Inv, OneOpenJobPerTrigger
  <1>8. g \in Tgid
    BY <1>1, <1>5, <1>6, InFlightType
  <1> HIDE DEF g
  <1>9. Instance!Continue(w, s, g, running_triggers(w, {t}))
    BY <1>1, <1>3, <1>7, UpdateContinues
  <1>10. /\ g \in [v \in Wid |-> InFlightNow(v)][w]
         /\ running_triggers(w, {t}) = [v \in Wid |-> InFlightNow(v)][w] \ {g}
    BY <1>5, <1>6, <1>7
  <1>11. Instance!Write(w, s, g)
    BY <1>2, <1>9, <1>10 DEF Instance!Write
  <1> QED
    BY <1>8, <1>11

(* A write with the token 'exception' is Recover. *)
LEMMA ExceptionRecovers ==
    ASSUME Inv, NEW w \in Wid, NEW s \in State, UpdateException(w, s)
    PROVE  Instance!Recover(w, s)
  <1>1. /\ Update(w, s, NULL, {}) /\ {} \in SUBSET OpenJobsOf(w)
        /\ wed_flow[w] # NoRow /\ st_status[w].excpt
    BY DEF UpdateException
  <1>2. st_status[w].final /\ ~Live(w) /\ OpenJobsOf(w) = {}
    BY <1>1 DEF Inv, RowsAgree, FinalIsQuiet, Live
  <1>3. running_triggers(w, {}) = {}
    BY <1>2 DEF running_triggers
  <1>4. \A i \in Inspector : \A t \in inspector[i].rows : job_pool[t].wid # w
    BY <1>2 DEF Inv, SelectionStaysValid, SelectedOK
  <1>5. Instance!Continue(w, s, NULL, running_triggers(w, {}))
    BY <1>1, <1>3, <1>4, UpdateContinues
  <1>6. [v \in Wid |-> Phase(v)][w] = "exception"
    BY <1>1, <1>2 DEF Phase
  <1> QED
    BY <1>3, <1>5, <1>6 DEF Instance!Recover

-----------------------------------------------------------------------------
(* Steps that write no state *)

(* Without a write, triggers in flight are withdrawn or nothing happens. *)
LEMMA QuietWithdraws ==
    ASSUME TypeOK', UNCHANGED <<wed_flow, st_status, wed_trace>>,
           \A w \in Wid : InFlightNow(w)' \subseteq InFlightNow(w)
    PROVE  [Instance!Next]_(Instance!vars)
  <1> DEFINE P == [w \in Wid |-> Phase(w)]
             F == [w \in Wid |-> InFlightNow(w)]
  <1>1. P' = P
    BY DEF Phase
  <1>2. \A w \in Wid : F'[w] \subseteq F[w]
    OBVIOUS
  <1>3. F' \in [Wid -> SUBSET Tgid]
    <2>1. ASSUME NEW w \in Wid, NEW g \in InFlightNow(w)'
          PROVE  g \in Tgid
      <3>1. PICK t \in Uptkn : job_pool'[t] # NoRow /\ job_pool'[t].tgid = g
        BY InFlightByRowNext
      <3>2. job_pool'[t] \in Job
        BY <3>1 DEF TypeOK
      <3> QED
        BY <3>1, <3>2 DEF Job
    <2> QED
      BY <2>1
  <1>4. CASE F' = F
    BY <1>1, <1>4 DEF Instance!vars
  <1>5. CASE F' # F
    <2>1. Instance!Withdraw
      BY <1>1, <1>2, <1>3, <1>5 DEF Instance!Withdraw
    <2> QED
      BY <2>1 DEF Instance!Next
  <1> QED
    BY <1>4, <1>5

(* job_lock, job_abort and the clock: a row keeps its trigger and is never reopened. *)
LEMMA JobQuiet ==
    ASSUME Inv, NEW t \in Uptkn, job_lock(t) \/ job_abort(t) \/ Timeout(t)
    PROVE  \A w \in Wid : InFlightNow(w)' \subseteq InFlightNow(w)
  <1>1. [JobAdvances]_vars
    <2>1. Next
      BY DEF Next
    <2> QED
      BY <2>1, JobAdvancesStep
  <1>2. /\ inspector' = inspector /\ job_pool[t] # NoRow
        /\ \A u \in Uptkn \ {t} : job_pool'[u] = job_pool[u]
    BY DEF job_lock, job_abort, Timeout, Open, IsJob, Inv, TypeOK
  <1>3. /\ job_pool'[t].tgid = job_pool[t].tgid /\ job_pool'[t].wid = job_pool[t].wid
        /\ job_pool[t].tf => job_pool'[t].tf
    BY <1>1, <1>2 DEF JobAdvances, vars, IsJob
  <1>4. Selected' = Selected
    BY <1>2 DEF Selected
  <1> SUFFICES ASSUME NEW w \in Wid, NEW g \in InFlightNow(w)'
               PROVE  g \in InFlightNow(w)
    OBVIOUS
  <1>5. PICK u \in Uptkn : /\ job_pool'[u] # NoRow /\ (~job_pool'[u].tf \/ u \in Selected')
                           /\ job_pool'[u].wid = w /\ job_pool'[u].tgid = g
    BY InFlightByRowNext
  <1>6. /\ job_pool[u] # NoRow /\ (~job_pool[u].tf \/ u \in Selected)
        /\ job_pool[u].wid = w /\ job_pool[u].tgid = g
    BY <1>2, <1>3, <1>4, <1>5
  <1> QED
    BY <1>6, InFlightByRow

(* An inspector that selects, waits or gives up. *)
LEMMA InspectorQuiet ==
    ASSUME Inv, NEW i \in Inspector,
           InspectorSelect(i) \/ InspectorWait(i) \/ InspectorDeadlock(i)
    PROVE  \A w \in Wid : InFlightNow(w)' \subseteq InFlightNow(w)
  <1>1. job_pool' = job_pool
    BY DEF InspectorSelect, InspectorWait, InspectorDeadlock
  <1>2. \A j \in Inspector : inspector'[j].rows \subseteq inspector[j].rows \cup ExpiredJobs
    <2>0. inspector \in [Inspector -> [pc : {"idle", "scanned", "waiting", "dead"},
                                       rows : SUBSET Uptkn]]
      BY DEF Inv, TypeOK
    <2>1. CASE InspectorSelect(i)
      BY <2>0, <2>1 DEF InspectorSelect
    <2>2. CASE InspectorWait(i)
      BY <2>0, <2>2 DEF InspectorWait
    <2>3. CASE InspectorDeadlock(i)
      BY <2>0, <2>3 DEF InspectorDeadlock
    <2> QED
      BY <2>1, <2>2, <2>3
  <1>3. \A t \in Selected' : t \in Selected \/ t \in ExpiredJobs
    BY <1>2 DEF Selected
  <1> SUFFICES ASSUME NEW w \in Wid, NEW g \in InFlightNow(w)'
               PROVE  g \in InFlightNow(w)
    OBVIOUS
  <1>4. PICK t \in Uptkn : /\ job_pool'[t] # NoRow /\ (~job_pool'[t].tf \/ t \in Selected')
                           /\ job_pool'[t].wid = w /\ job_pool'[t].tgid = g
    BY InFlightByRowNext
  <1>5. ~job_pool[t].tf \/ t \in Selected
    BY <1>1, <1>3, <1>4 DEF ExpiredJobs, Open
  <1> QED
    BY <1>1, <1>4, <1>5, InFlightByRow

(* A re-queue: new jobs are of triggers that were selected. *)
LEMMA RequeueQuiet ==
    ASSUME Inv, NEW i \in Inspector, InspectorRequeue(i)
    PROVE  \A w \in Wid : InFlightNow(w)' \subseteq InFlightNow(w)
  <1> DEFINE rows == inspector[i].rows
  <1>1. PICK b \in Draws(rows) : job_pool' = Requeued(rows, b)
    BY DEF InspectorRequeue
  <1>2. /\ DOMAIN b \subseteq Uptkn
        /\ \A t \in DOMAIN b : job_pool[t] = NoRow /\ b[t] \in rows
    BY DrawFacts DEF IsJob
  <1>3. \A r \in rows : /\ r \in Uptkn /\ r \in Selected /\ job_pool[r] # NoRow
                        /\ job_pool'[r].tf
    BY RequeueRows, SelectedAreJobs DEF Selected, IsJob
  <1>4. Selected' = {}
    <2>1. \A j \in Inspector : inspector'[j].rows = {}
      BY DEF InspectorRequeue, OtherHolds, Inv, RowsAgree, TypeOK
    <2> QED
      BY <2>1 DEF Selected
  <1>5. \A t \in Uptkn \ DOMAIN b : job_pool'[t] # NoRow /\ ~job_pool'[t].tf =>
           job_pool'[t] = job_pool[t]
    BY <1>1, <1>3 DEF Requeued
  <1>6. \A t \in DOMAIN b : /\ job_pool'[t].tgid = job_pool[b[t]].tgid
                            /\ job_pool'[t].wid = job_pool[b[t]].wid
    BY <1>1, <1>2 DEF Requeued, NewJob
  <1> HIDE DEF rows
  <1> SUFFICES ASSUME NEW w \in Wid, NEW g \in InFlightNow(w)'
               PROVE  g \in InFlightNow(w)
    OBVIOUS
  <1>7. PICK t \in Uptkn : /\ job_pool'[t] # NoRow /\ ~job_pool'[t].tf
                           /\ job_pool'[t].wid = w /\ job_pool'[t].tgid = g
    BY <1>4, InFlightByRowNext
  <1>8. CASE t \in DOMAIN b
    <2>1. /\ b[t] \in Uptkn /\ b[t] \in Selected /\ job_pool[b[t]] # NoRow
          /\ job_pool[b[t]].wid = w /\ job_pool[b[t]].tgid = g
      BY <1>2, <1>3, <1>6, <1>7, <1>8
    <2> QED
      BY <2>1, InFlightByRow
  <1>9. CASE t \notin DOMAIN b
    BY <1>5, <1>7, <1>9, InFlightByRow
  <1> QED
    BY <1>8, <1>9

-----------------------------------------------------------------------------
(* At first no instance is started and nothing is in flight. *)
LEMMA RefinementInit == Init => Instance!Init
  <1> SUFFICES ASSUME Init PROVE Instance!Init
    OBVIOUS
  <1>1. \A w \in Wid : Phase(w) = "absent"
    BY DEF Init, Phase
  <1>2. \A w \in Wid : InFlightNow(w) = {}
    BY DEF Init, InFlightNow, JobsOf, IsJob
  <1> QED
    BY <1>1, <1>2 DEF Init, Instance!Init

(* Every step is a step of the life cycle or leaves it alone. *)
LEMMA RefinementStep == Inv /\ Inv' /\ [Next]_vars => [Instance!Next]_(Instance!vars)
  <1> SUFFICES ASSUME Inv, Inv', [Next]_vars PROVE [Instance!Next]_(Instance!vars)
    OBVIOUS
  <1>0. TypeOK'
    BY DEF Inv
  <1>1. ASSUME NEW w \in Wid, NEW s \in State, InsertRunning(w, s) \/ InsertFinal(w, s)
        PROVE  Instance!Next
    BY <1>1, InsertStarts DEF Instance!Next
  <1>2. ASSUME NEW w \in Wid, NEW s \in State, UpdateException(w, s)
        PROVE  Instance!Next
    BY <1>2, ExceptionRecovers DEF Instance!Next
  <1>3. ASSUME NEW w \in Wid, NEW s \in State, NEW t \in Uptkn, UpdateWithToken(w, s, t)
        PROVE  Instance!Next
    BY <1>3, TokenWrites DEF Instance!Next
  <1>4. ASSUME NEW t \in Uptkn, job_lock(t) \/ job_abort(t) \/ Timeout(t)
        PROVE  [Instance!Next]_(Instance!vars)
    <2>1. UNCHANGED <<wed_flow, st_status, wed_trace>>
      BY <1>4 DEF job_lock, job_abort, Timeout
    <2> QED
      BY <1>0, <1>4, <2>1, JobQuiet, QuietWithdraws
  <1>5. ASSUME NEW i \in Inspector,
               InspectorSelect(i) \/ InspectorWait(i) \/ InspectorDeadlock(i)
        PROVE  [Instance!Next]_(Instance!vars)
    <2>1. UNCHANGED <<wed_flow, st_status, wed_trace>>
      BY <1>5 DEF InspectorSelect, InspectorWait, InspectorDeadlock
    <2> QED
      BY <1>0, <1>5, <2>1, InspectorQuiet, QuietWithdraws
  <1>6. ASSUME NEW i \in Inspector, InspectorRequeue(i)
        PROVE  [Instance!Next]_(Instance!vars)
    <2>1. UNCHANGED <<wed_flow, st_status, wed_trace>>
      BY <1>6 DEF InspectorRequeue
    <2> QED
      BY <1>0, <1>6, <2>1, RequeueQuiet, QuietWithdraws
  <1>7. CASE UNCHANGED vars
    <2>1. \A w \in Wid : InFlightNow(w)' \subseteq InFlightNow(w)
      BY <1>7 DEF vars, InFlightNow, Selected, JobsOf, Open, IsJob
    <2> QED
      BY <1>0, <1>7, <2>1, QuietWithdraws DEF vars
  <1> QED
    BY <1>1, <1>2, <1>3, <1>4, <1>5, <1>6, <1>7 DEF Next

(***************************************************************************)
(* The engine, with its tokens, locks, timeouts, aborts and re-queues,     *)
(* implements the life cycle of WedInstance, for any tables, any number of *)
(* instances and any number of inspectors.                                 *)
(***************************************************************************)
THEOREM EngineRefines == Spec => ImplementsInstance
  <1>1. Inv /\ Inv' /\ [Next]_vars => [Instance!Next]_(Instance!vars)
    BY RefinementStep
  <1> QED
    BY Safety, RefinementInit, <1>1, PTL DEF Spec, ImplementsInstance, Instance!Spec
=============================================================================
