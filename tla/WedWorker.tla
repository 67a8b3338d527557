----------------------------- MODULE WedWorker ------------------------------
(***************************************************************************)
(* The transition workers (handyman.py) composed with the engine.  Every   *)
(* worker serves one trigger: it LISTENs on the trigger's channel, takes   *)
(* the announced jobs one at a time, and looks for an unlocked job itself  *)
(* when nothing was announced for a while.  Notifications that arrive      *)
(* wait on the connection (wire) and move to conn.notifies whenever the    *)
(* client library reads the connection, that is on poll and on every       *)
(* query, while select looks at the connection only.                       *)
(* A worker can die at any time and is started again by its operator.      *)
(***************************************************************************)
EXTENDS WedKernel, TLC

CONSTANTS
    Worker,      \* the worker processes
    channel,     \* argv[1]: the trigger a worker serves
    set_clause,  \* argv[3]: the attributes a worker writes, and their values
    Start,       \* the states applications insert
    MaxCrash     \* bound: deaths of workers

(* SET clauses and applications write the states there are. *)
ASSUME WorkerAssumption ==
    /\ NULL \notin Uptkn
    /\ Start \subseteq State
    /\ \A k \in Worker : \A s \in State : set_clause[k] @@ s \in State
    /\ MaxCrash \in Nat

VARIABLES
    worker,      \* per worker: pc, wire, notifies, job (NULL when none)
    crashes      \* deaths so far

allvars == <<vars, worker, crashes>>

(***************************************************************************)
(* pc: down; select (in select.select); drain (in "while conn.notifies");  *)
(* lock (wed_trans before job_lock); run (after it, before the UPDATE).    *)
(* The loop that wed_trans returns to is remembered in back.               *)
(***************************************************************************)
WorkerState == [pc : {"down", "select", "drain", "lock", "run"},
                back : {"select", "drain"}, wire : Seq(Uptkn), notifies : Seq(Uptkn),
                job : Uptkn \cup {NULL}]

(* wed_trans always has a job. *)
WorkerTypeOK ==
    /\ worker \in [Worker -> WorkerState] /\ crashes \in 0..MaxCrash
    /\ \A k \in Worker : worker[k].pc \in {"lock", "run"} <=> worker[k].job # NULL

Down == [pc |-> "down", back |-> "select", wire |-> <<>>, notifies |-> <<>>, job |-> NULL]

-----------------------------------------------------------------------------
(* Notifications *)

(* The tokens the step announces to k: the new jobs of its trigger. *)
Announced(k) ==
    {t \in Uptkn : ~IsJob(t) /\ job_pool'[t] # NoRow /\ job_pool'[t].tgid = channel[k]}

(* A statement fires a trigger once, for the instance it writes. *)
Hear(k, r) ==
    IF r.pc = "down" \/ Announced(k) = {} THEN r
    ELSE [r EXCEPT !.wire = Append(@, CHOOSE t \in Announced(k) : TRUE)]

(* A statement of the kernel announces its new jobs to every listener. *)
NotifyAll == worker' = [k \in Worker |-> Hear(k, worker[k])]

(* The client library reads the connection of k. *)
Receive(r) == [r EXCEPT !.notifies = @ \o r.wire, !.wire = <<>>]

-----------------------------------------------------------------------------
(* The main loop of a worker *)

Connect(k) ==
    /\ worker[k].pc = "down"
    /\ worker' = [worker EXCEPT ![k] = [Down EXCEPT !.pc = "select"]]
    /\ UNCHANGED <<vars, crashes>>

Unlocked(t) == IsJob(t) /\ ~job_pool[t].locked

(* Mutant: a timeout of select is ignored. *)
PollNothing(k) == FALSE /\ UNCHANGED allvars

(* select times out: job_lookup takes any one unlocked job of the trigger. *)
Poll(k) ==
    /\ worker[k].pc = "select" /\ worker[k].wire = <<>>
    /\ NoWaiter
    /\ \E t \in Uptkn :
          /\ Unlocked(t) /\ job_pool[t].tgid = channel[k]
          /\ worker' = [worker EXCEPT ![k].pc = "lock", ![k].back = "select", ![k].job = t]
    /\ UNCHANGED <<vars, crashes>>

Wake(k) ==
    /\ worker[k].pc = "select" /\ worker[k].wire # <<>>
    /\ worker' = [worker EXCEPT ![k] = [Receive(worker[k]) EXCEPT !.pc = "drain"]]
    /\ UNCHANGED <<vars, crashes>>

Pop(k) ==
    /\ worker[k].pc = "drain" /\ worker[k].notifies # <<>>
    /\ worker' = [worker EXCEPT ![k].pc = "lock", ![k].back = "drain",
                                ![k].job = Head(worker[k].notifies), ![k].notifies = Tail(@)]
    /\ UNCHANGED <<vars, crashes>>

Drained(k) ==
    /\ worker[k].pc = "drain" /\ worker[k].notifies = <<>>
    /\ worker' = [worker EXCEPT ![k].pc = "select"]
    /\ UNCHANGED <<vars, crashes>>

(* The end of wed_trans, after a query that read the connection. *)
Return(r) == [Receive(r) EXCEPT !.pc = r.back, !.job = NULL]

(* job_lock: the job is locked, or somebody else has it. *)
Lock(k) ==
    /\ worker[k].pc = "lock"
    /\ job_lock(worker[k].job)
    /\ worker' = [worker EXCEPT ![k] = [Receive(worker[k]) EXCEPT !.pc = "run"]]
    /\ UNCHANGED crashes

LockRefused(k) ==
    /\ worker[k].pc = "lock"
    /\ NoWaiter
    /\ ~CanLock(job_pool[worker[k].job])
    /\ worker' = [worker EXCEPT ![k] = Return(worker[k])]
    /\ UNCHANGED <<vars, crashes>>

(* The row the UPDATE asks for: the SET clause over the current row. *)
NewState(k, w) == set_clause[k] @@ wed_flow[w]

Write(k) ==
    LET t == worker[k].job
        w == job_pool[t].wid
    IN  /\ worker[k].pc = "run"
        /\ UpdateWithToken(w, NewState(k, w), t)
        /\ worker' = [j \in Worker |->
               Hear(j, IF j = k THEN Return(worker[k]) ELSE worker[j])]
        /\ UNCHANGED crashes

(* kernel_function raises: the job is no longer open, or the state is final
   and other triggers are running.  The job keeps its lock. *)
Refused(w, s, t) ==
    \/ ~find_job(t, w)
    \/ final_match(s) /\ running_triggers(w, {t}) # {}

WriteRefused(k) ==
    LET t == worker[k].job
        w == job_pool[t].wid
    IN  /\ worker[k].pc = "run"
        /\ JobPoolFree
        /\ Refused(w, NewState(k, w), t)
        /\ worker' = [worker EXCEPT ![k] = Return(worker[k])]
        /\ UNCHANGED <<vars, crashes>>

WorkerStep(k) ==
    \/ Connect(k) \/ Poll(k) \/ Wake(k) \/ Pop(k) \/ Drained(k)
    \/ Lock(k) \/ LockRefused(k) \/ Write(k) \/ WriteRefused(k)

Crash(k) ==
    /\ worker[k].pc # "down" /\ crashes < MaxCrash
    /\ worker' = [worker EXCEPT ![k] = Down]
    /\ crashes' = crashes + 1
    /\ UNCHANGED vars

-----------------------------------------------------------------------------
(* Applications, the clock and the inspectors *)

Submit(w, s) ==
    /\ InsertRunning(w, s) \/ InsertFinal(w, s)
    /\ NotifyAll
    /\ UNCHANGED crashes

(* Another worker of the trigger takes a job, and dies with it. *)
LostElsewhere(t) ==
    /\ crashes < MaxCrash /\ crashes' = crashes + 1
    /\ job_lock(t)
    /\ UNCHANGED worker

Tick(t) == Timeout(t) /\ UNCHANGED <<worker, crashes>>

(* job_inspector inserts its jobs without a NOTIFY. *)
Inspect(i) == InspectorStep(i) /\ UNCHANGED <<worker, crashes>>

WorkerInit == Init /\ worker = [k \in Worker |-> Down] /\ crashes = 0

WorkerNext ==
    \/ \E w \in Wid, s \in Start : Submit(w, s)
    \/ \E t \in Uptkn : Tick(t) \/ LostElsewhere(t)
    \/ \E i \in Inspector : Inspect(i)
    \/ \E k \in Worker : WorkerStep(k) \/ Crash(k)

WorkerSpec == WorkerInit /\ [][WorkerNext]_allvars

(***************************************************************************)
(* Time passes, the inspectors are called every naptime, and a worker's    *)
(* loop never stops of itself: select returns after 5 seconds at the       *)
(* latest, and the operator restarts a dead worker.                        *)
(***************************************************************************)
WorkerFairSpec ==
    /\ WorkerSpec
    /\ WF_allvars(\E t \in Uptkn : Tick(t))
    /\ \A i \in Inspector : WF_allvars(Inspect(i))
    /\ \A k \in Worker : WF_allvars(WorkerStep(k))

-----------------------------------------------------------------------------
(* Properties *)

(***************************************************************************)
(* Every job is picked up: also one whose notification was lost with the   *)
(* connection of a dead worker, one re-queued without a notification, and  *)
(* one whose notification lies in conn.notifies while select waits.        *)
(***************************************************************************)
JobsArePickedUp == \A t \in Uptkn : Unlocked(t) ~> (~Unlocked(t) \/ OutOfTokens)

(***************************************************************************)
(* Every instance ends: an AND-split whose final write is refused while a  *)
(* sibling runs, a lost worker and a late one are all made good by the     *)
(* timeout, the inspector and the poll.                                    *)
(***************************************************************************)
InstancesEnd ==
    \A w \in Wid : Live(w) ~> (~Live(w) \/ OutOfTokens)
=============================================================================
