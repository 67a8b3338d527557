-------------------------- MODULE WedWorkerProofs ---------------------------
(***************************************************************************)
(* Proofs about the workers composed with the engine: everything workers,  *)
(* applications, the clock and inspectors do together is a behaviour of    *)
(* WedKernel, so all that is proved of WedKernel holds of the composition; *)
(* a worker gets jobs of its own trigger only, and no two workers ever run *)
(* the same job.                                                           *)
(***************************************************************************)
EXTENDS WedWorker, WedKernelProofs

-----------------------------------------------------------------------------
(* The invariant *)

(* The jobs announced, or to be found, on the channel of k. *)
Mine(k) == {t \in Uptkn : job_pool[t] # NoRow /\ job_pool[t].tgid = channel[k]}

(* The state r of worker k; a job that is run is locked. *)
RecordOK(k, r) ==
    /\ r \in WorkerState
    /\ r.pc \in {"lock", "run"} <=> r.job # NULL
    /\ r.wire \in Seq(Mine(k)) /\ r.notifies \in Seq(Mine(k))
    /\ r.job # NULL => r.job \in Mine(k)
    /\ r.pc = "run" => job_pool[r.job].locked

(***************************************************************************)
(* A worker is told of, looks up, locks and runs only jobs of the trigger  *)
(* it serves, for whose condition its SET clause was written.              *)
(***************************************************************************)
ServesItsTrigger ==
    \A k \in Worker : /\ worker[k].wire \in Seq(Mine(k)) /\ worker[k].notifies \in Seq(Mine(k))
                      /\ worker[k].job # NULL => worker[k].job \in Mine(k)

(***************************************************************************)
(* No two workers run the same job, whichever of them was told of it, and  *)
(* however often: between job_lock and the UPDATE a job has one worker.    *)
(***************************************************************************)
OneWorkerPerJob ==
    \A j, k \in Worker :
        worker[j].pc = "run" /\ worker[k].pc = "run" /\ worker[j].job = worker[k].job => j = k

IsRecord == worker = [k \in Worker |-> worker[k]]

WorkerInv ==
    /\ IsRecord /\ crashes \in 0..MaxCrash
    /\ \A k \in Worker : RecordOK(k, worker[k])
    /\ OneWorkerPerJob

-----------------------------------------------------------------------------
(* Announcements *)

(***************************************************************************)
(* A statement announces at most one job to a worker: it fires each        *)
(* trigger at most once, for the instance it writes.                       *)
(***************************************************************************)
LEMMA AnnouncedOnce ==
    ASSUME Inv, NEW w \in Wid, NEW s \in State,
           \/ InsertRunning(w, s) \/ InsertFinal(w, s)
           \/ \E t \in Uptkn : UpdateWithToken(w, s, t),
           NEW k, NEW x \in Announced(k), NEW y \in Announced(k)
    PROVE  x = y
  <1>1. /\ x \in Uptkn /\ y \in Uptkn /\ ~IsJob(x) /\ ~IsJob(y)
        /\ job_pool'[x] # NoRow /\ job_pool'[y] # NoRow /\ job_pool'[x].tgid = job_pool'[y].tgid
    BY DEF Announced
  <1>2. ~UNCHANGED job_pool
    BY <1>1 DEF IsJob
  <1>3. \E done \in SUBSET OpenJobsOf(w) : \E G : \E b \in Draws(G) :
           job_pool' = PoolAfter(w, done, b)
    <2>1. CASE InsertRunning(w, s)
      BY <2>1 DEF InsertRunning
    <2>2. CASE InsertFinal(w, s)
      BY <1>2, <2>2 DEF InsertFinal
    <2>3. CASE \E t \in Uptkn : UpdateWithToken(w, s, t)
      <3>1. PICK t \in Uptkn : UpdateWithToken(w, s, t)
        BY <2>3
      <3>2. {t} \in SUBSET OpenJobsOf(w) /\ Update(w, s, job_pool[t].tgid, {t})
        BY <3>1, TokenJob
      <3> QED
        BY <3>2, EmptyDraw DEF Update, Inconsistent, ReachFinal, FireTriggers
    <2> QED
      BY <2>1, <2>2, <2>3
  <1>4. PICK done \in SUBSET OpenJobsOf(w) :
           \E G : \E b \in Draws(G) : job_pool' = PoolAfter(w, done, b)
    BY <1>3
  <1>5. PICK G : \E b \in Draws(G) : job_pool' = PoolAfter(w, done, b)
    BY <1>4
  <1>6. PICK b \in Draws(G) : job_pool' = PoolAfter(w, done, b)
    BY <1>5
  <1>7. x \notin done /\ y \notin done
    BY <1>1 DEF OpenJobsOf, JobsOf
  <1>8. x \in DOMAIN b /\ y \in DOMAIN b
    BY <1>1, <1>6, <1>7 DEF PoolAfter, IsJob
  <1>9. job_pool'[x] = NewJob(b[x], w) /\ job_pool'[y] = NewJob(b[y], w)
    BY <1>1, <1>6, <1>8 DEF PoolAfter
  <1>10. b[x] = b[y]
    BY <1>1, <1>9 DEF NewJob
  <1> QED
    BY <1>6, <1>8, <1>10, DrawFacts

(* Sequences over a set are sequences over a larger one. *)
LEMMA SeqGrows ==
    ASSUME NEW S, NEW T, S \subseteq T, NEW s \in Seq(S)
    PROVE  s \in Seq(T)
  <1>1. Len(s) \in Nat /\ s \in [1..Len(s) -> S]
    OBVIOUS
  <1>2. s \in [1..Len(s) -> T]
    BY <1>1
  <1> QED
    BY <1>1, <1>2

(* Rows of job_pool stay and keep their trigger. *)
LEMMA MineGrows ==
    ASSUME [JobAdvances]_vars, NEW k
    PROVE  Mine(k) \subseteq Mine(k)'
  BY DEF JobAdvances, IsJob, Mine, vars

(* What other sessions do to job_pool leaves a worker as it was. *)
LEMMA RecordKept ==
    ASSUME [JobAdvances]_vars, NEW k, NEW r, RecordOK(k, r)
    PROVE  RecordOK(k, r)'
  <1>1. PICK M, N : M = Mine(k) /\ N = Mine(k)'
    OBVIOUS
  <1>2. M \subseteq N
    BY <1>1, MineGrows
  <1>3. r.wire \in Seq(N) /\ r.notifies \in Seq(N) /\ (r.job # NULL => r.job \in N)
    BY <1>1, <1>2, SeqGrows DEF RecordOK
  <1>4. r.pc = "run" => job_pool'[r.job].locked
    <2>1. r.pc = "run" => r.job \in Mine(k)
      BY DEF RecordOK
    <2> QED
      BY <2>1 DEF RecordOK, Mine, JobAdvances, IsJob, vars
  <1> QED
    BY <1>1, <1>3, <1>4 DEF RecordOK, WorkerState

(* The announcements of a step arrive at k. *)
LEMMA HearOK ==
    ASSUME NEW k, NEW r, RecordOK(k, r)', NEW h, h = Hear(k, r)
    PROVE  RecordOK(k, h)' /\ h.pc = r.pc /\ h.job = r.job
  <1>1. CASE r.pc = "down" \/ Announced(k) = {}
    BY <1>1 DEF Hear
  <1>2. CASE r.pc # "down" /\ Announced(k) # {}
    <2>1. PICK N : N = Mine(k)'
      OBVIOUS
    <2>2. Announced(k) \subseteq N /\ N \subseteq Uptkn
      BY <2>1 DEF Announced, Mine
    <2>3. PICK t : t = CHOOSE u \in Announced(k) : TRUE
      OBVIOUS
    <2>4. t \in N
      BY <1>2, <2>2, <2>3
    <2>5. h = [r EXCEPT !.wire = Append(r.wire, t)]
      BY <1>2, <2>3 DEF Hear
    <2>6. r \in WorkerState /\ r.wire \in Seq(N)
      BY <2>1 DEF RecordOK
    <2>7. h.wire = Append(r.wire, t) /\ h.wire \in Seq(N)
      BY <2>4, <2>5, <2>6 DEF WorkerState
    <2>8. h.wire \in Seq(Uptkn)
      BY <2>2, <2>7, SeqGrows
    <2>9. /\ h.pc = r.pc /\ h.back = r.back /\ h.notifies = r.notifies /\ h.job = r.job
          /\ h \in WorkerState
      BY <2>5, <2>6, <2>7, <2>8 DEF WorkerState
    <2> QED
      BY <2>1, <2>7, <2>9 DEF RecordOK
  <1> QED
    BY <1>1, <1>2

(* The client library moves what has arrived. *)
LEMMA ReceiveOK ==
    ASSUME NEW k, NEW r, RecordOK(k, r), NEW q, q = Receive(r)
    PROVE  /\ RecordOK(k, q) /\ q.pc = r.pc /\ q.back = r.back /\ q.job = r.job
           /\ q.back \in {"select", "drain"}
  <1>1. PICK M : M = Mine(k)
    OBVIOUS
  <1>2. r \in WorkerState /\ r.wire \in Seq(M) /\ r.notifies \in Seq(M) /\ M \subseteq Uptkn
    BY <1>1 DEF RecordOK, Mine
  <1>3. q = [r EXCEPT !.notifies = r.notifies \o r.wire, !.wire = <<>>]
    BY DEF Receive
  <1>4. q.notifies = r.notifies \o r.wire /\ q.notifies \in Seq(M) /\ q.wire \in Seq(M)
    BY <1>2, <1>3 DEF WorkerState
  <1>5. q.notifies \in Seq(Uptkn) /\ q.wire \in Seq(Uptkn)
    BY <1>2, <1>4, SeqGrows
  <1>6. q \in WorkerState /\ q.pc = r.pc /\ q.back = r.back /\ q.job = r.job
    BY <1>2, <1>3, <1>5 DEF WorkerState
  <1> QED
    BY <1>1, <1>2, <1>4, <1>6 DEF RecordOK, WorkerState

(* wed_trans returns to its loop. *)
LEMMA ReturnOK ==
    ASSUME NEW k, NEW r, RecordOK(k, r), NEW q, q = Return(r)
    PROVE  RecordOK(k, q) /\ q.pc # "run"
  <1>1. PICK p : p = Receive(r)
    OBVIOUS
  <1>2. RecordOK(k, p) /\ p.back = r.back /\ r.back \in {"select", "drain"}
    BY <1>1, ReceiveOK
  <1>3. q = [p EXCEPT !.pc = r.back, !.job = NULL]
    BY <1>1 DEF Return
  <1>4. /\ q \in WorkerState /\ q.pc = r.back /\ q.job = NULL
        /\ q.wire = p.wire /\ q.notifies = p.notifies
    BY <1>2, <1>3 DEF RecordOK, WorkerState
  <1> QED
    BY <1>2, <1>4 DEF RecordOK

(* A worker that has just connected, or is down, has heard of nothing. *)
LEMMA FreshOK ==
    ASSUME NEW k, NEW r, NEW pc \in {"down", "select"},
           r = [pc |-> pc, back |-> "select", wire |-> <<>>, notifies |-> <<>>, job |-> NULL]
    PROVE  RecordOK(k, r) /\ r.pc = pc
  <1>1. PICK M : M = Mine(k)
    OBVIOUS
  <1>2. <<>> \in Seq(M) /\ <<>> \in Seq(Uptkn)
    OBVIOUS
  <1>3. /\ r.pc = pc /\ r.wire = <<>> /\ r.notifies = <<>> /\ r.job = NULL
        /\ r \in WorkerState
    BY <1>2 DEF WorkerState
  <1>4. r.wire \in Seq(Mine(k)) /\ r.notifies \in Seq(Mine(k))
    BY <1>1, <1>2, <1>3
  <1> QED
    BY <1>3, <1>4 DEF RecordOK

-----------------------------------------------------------------------------
(* Steps *)

(* A step of worker k, to r. *)
LEMMA OneRecord ==
    ASSUME WorkerInv, [JobAdvances]_vars, NEW k \in Worker, NEW r,
           worker' = [worker EXCEPT ![k] = r], RecordOK(k, r)', crashes' \in 0..MaxCrash,
           r.pc = "run" => \A j \in Worker : worker[j].pc = "run" => worker[j].job # r.job
    PROVE  WorkerInv'
  <1>1. worker'[k] = r /\ \A j \in Worker \ {k} : worker'[j] = worker[j]
    BY DEF WorkerInv, IsRecord
  <1>2. IsRecord'
    BY DEF WorkerInv, IsRecord
  <1>3. ASSUME NEW j \in Worker PROVE RecordOK(j, worker[j])'
    <2>1. CASE j = k
      BY <1>1, <2>1 DEF RecordOK
    <2>2. CASE j # k
      <3>1. PICK p : p = worker[j]
        OBVIOUS
      <3>2. RecordOK(j, p)'
        BY <3>1, RecordKept DEF WorkerInv
      <3>3. worker'[j] = p
        BY <1>1, <2>2, <3>1
      <3> QED
        BY <3>2, <3>3 DEF RecordOK
    <2> QED
      BY <2>1, <2>2
  <1>4. OneWorkerPerJob'
    BY <1>1 DEF WorkerInv, OneWorkerPerJob
  <1> QED
    BY <1>2, <1>3, <1>4 DEF WorkerInv

(* Every worker hears of new jobs, having first changed to its record in R. *)
LEMMA AllRecords ==
    ASSUME WorkerInv, [JobAdvances]_vars, NEW R,
           \A j \in Worker : RecordOK(j, R[j]) /\ (R[j] = worker[j] \/ R[j].pc # "run"),
           worker' = [j \in Worker |-> Hear(j, R[j])], UNCHANGED crashes
    PROVE  WorkerInv'
  <1>1. ASSUME NEW j \in Worker
        PROVE  /\ RecordOK(j, worker[j])'
               /\ worker'[j].pc = "run" => worker[j].pc = "run" /\ worker'[j].job = worker[j].job
    <2>1. PICK p : p = R[j]
      OBVIOUS
    <2>2. RecordOK(j, p)
      BY <2>1
    <2>3. RecordOK(j, p)'
      BY <2>2, RecordKept
    <2>4. PICK h : h = Hear(j, p)
      OBVIOUS
    <2>5. RecordOK(j, h)' /\ h.pc = p.pc /\ h.job = p.job
      BY <2>3, <2>4, HearOK
    <2>6. worker'[j] = h
      BY <2>1, <2>4
    <2>7. RecordOK(j, worker[j])'
      BY <2>5, <2>6 DEF RecordOK
    <2> QED
      BY <2>1, <2>5, <2>6, <2>7
  <1>2. IsRecord'
    BY DEF IsRecord
  <1>3. OneWorkerPerJob'
    BY <1>1 DEF WorkerInv, OneWorkerPerJob
  <1> QED
    BY <1>1, <1>2, <1>3 DEF WorkerInv

(* The worker's own steps, which leave the tables alone. *)
LEMMA LoopInv ==
    ASSUME WorkerInv, NEW k \in Worker,
           \/ Connect(k) \/ Poll(k) \/ Wake(k) \/ Pop(k) \/ Drained(k)
           \/ LockRefused(k) \/ WriteRefused(k) \/ Crash(k)
    PROVE  WorkerInv' /\ UNCHANGED vars
  <1>1. UNCHANGED vars
    BY DEF Connect, Poll, Wake, Pop, Drained, LockRefused, WriteRefused, Crash
  <1>2. RecordOK(k, worker[k]) /\ crashes \in 0..MaxCrash
    BY DEF WorkerInv
  <1> SUFFICES \E r : /\ worker' = [worker EXCEPT ![k] = r] /\ RecordOK(k, r) /\ r.pc # "run"
                      /\ crashes' \in 0..MaxCrash
    <2>1. PICK r : /\ worker' = [worker EXCEPT ![k] = r] /\ RecordOK(k, r) /\ r.pc # "run"
                   /\ crashes' \in 0..MaxCrash
      OBVIOUS
    <2>2. [JobAdvances]_vars
      BY <1>1
    <2>3. RecordOK(k, r)'
      BY <2>1, <2>2, RecordKept
    <2> QED
      BY <1>1, <2>1, <2>2, <2>3, OneRecord
  <1>3. PICK p, M : p = worker[k] /\ M = Mine(k)
    OBVIOUS
  <1>4. /\ p \in WorkerState /\ p.wire \in Seq(M) /\ p.notifies \in Seq(M) /\ M \subseteq Uptkn
        /\ p.job # NULL => p.job \in M
        /\ p.pc \in {"lock", "run"} <=> p.job # NULL
    BY <1>2, <1>3 DEF RecordOK, Mine
  <1>5. CASE Connect(k)
    <2> PICK r : r = [Down EXCEPT !.pc = "select"]
      OBVIOUS
    <2>1. r = [pc |-> "select", back |-> "select", wire |-> <<>>, notifies |-> <<>>, job |-> NULL]
      BY DEF Down
    <2>2. RecordOK(k, r) /\ r.pc = "select"
      BY <2>1, FreshOK
    <2> QED
      BY <1>2, <1>5, <2>1, <2>2 DEF Connect
  <1>6. CASE Poll(k)
    <2>1. PICK t \in M : worker' = [worker EXCEPT ![k].pc = "lock", ![k].back = "select", ![k].job = t]
      BY <1>3, <1>6 DEF Poll, Unlocked, IsJob, Mine
    <2> PICK r : r = [p EXCEPT !.pc = "lock", !.back = "select", !.job = t]
      OBVIOUS
    <2>2. /\ r.pc = "lock" /\ r.back = "select" /\ r.wire = p.wire /\ r.notifies = p.notifies
          /\ r.job = t /\ r \in WorkerState
      BY <1>4 DEF WorkerState
    <2>3. t # NULL
      BY <1>4, WorkerAssumption
    <2>4. RecordOK(k, r)
      BY <1>3, <1>4, <2>2, <2>3 DEF RecordOK
    <2>5. worker' = [worker EXCEPT ![k] = r]
      BY <1>3, <2>1 DEF WorkerInv, IsRecord
    <2> QED
      BY <1>2, <1>6, <2>2, <2>4, <2>5 DEF Poll
  <1>7. CASE Wake(k)
    <2> PICK q : q = Receive(p)
      OBVIOUS
    <2> PICK r : r = [q EXCEPT !.pc = "drain"]
      OBVIOUS
    <2>1. RecordOK(k, q) /\ q.job = p.job /\ p.pc = "select"
      BY <1>2, <1>3, <1>7, ReceiveOK DEF Wake
    <2>2. /\ r.pc = "drain" /\ r.wire = q.wire /\ r.notifies = q.notifies
          /\ r.job = q.job /\ r \in WorkerState
      BY <2>1 DEF WorkerState, RecordOK
    <2>3. RecordOK(k, r)
      BY <1>4, <2>1, <2>2 DEF RecordOK
    <2> QED
      BY <1>2, <1>3, <1>7, <2>2, <2>3 DEF Wake
  <1>8. CASE Pop(k)
    <2> PICK t : t = Head(p.notifies)
      OBVIOUS
    <2> PICK r : r = [p EXCEPT !.pc = "lock", !.back = "drain", !.job = t, !.notifies = Tail(p.notifies)]
      OBVIOUS
    <2>1. p.notifies # <<>>
      BY <1>3, <1>8 DEF Pop
    <2>2. t \in M /\ Tail(p.notifies) \in Seq(M)
      BY <1>4, <2>1
    <2>3. Tail(p.notifies) \in Seq(Uptkn)
      BY <1>4, <2>2, SeqGrows
    <2>4. t # NULL /\ t \in Uptkn
      BY <1>4, <2>2, WorkerAssumption
    <2>5. /\ r.pc = "lock" /\ r.back = "drain" /\ r.wire = p.wire /\ r.notifies = Tail(p.notifies)
          /\ r.job = t /\ r \in WorkerState
      BY <1>4, <2>3, <2>4 DEF WorkerState
    <2>6. RecordOK(k, r)
      BY <1>3, <1>4, <2>2, <2>4, <2>5 DEF RecordOK
    <2>7. worker' = [worker EXCEPT ![k] = r]
      BY <1>3, <1>8 DEF Pop, WorkerInv, IsRecord
    <2> QED
      BY <1>2, <1>8, <2>5, <2>6, <2>7 DEF Pop
  <1>9. CASE Drained(k)
    <2> PICK r : r = [p EXCEPT !.pc = "select"]
      OBVIOUS
    <2>1. p.pc = "drain"
      BY <1>3, <1>9 DEF Drained
    <2>2. /\ r.pc = "select" /\ r.wire = p.wire /\ r.notifies = p.notifies
          /\ r.job = p.job /\ r \in WorkerState
      BY <1>4 DEF WorkerState
    <2>3. RecordOK(k, r)
      BY <1>3, <1>4, <2>1, <2>2 DEF RecordOK
    <2>4. worker' = [worker EXCEPT ![k] = r]
      BY <1>3, <1>9 DEF Drained, WorkerInv, IsRecord
    <2> QED
      BY <1>2, <1>9, <2>2, <2>3, <2>4 DEF Drained
  <1>10. CASE LockRefused(k) \/ WriteRefused(k)
    <2> PICK r : r = Return(p)
      OBVIOUS
    <2>1. RecordOK(k, r) /\ r.pc # "run"
      BY <1>2, <1>3, ReturnOK
    <2> QED
      BY <1>2, <1>3, <1>10, <2>1 DEF LockRefused, WriteRefused
  <1>11. CASE Crash(k)
    <2>1. RecordOK(k, Down) /\ Down.pc = "down"
      BY FreshOK DEF Down
    <2>3. crashes' \in 0..MaxCrash
      BY <1>2, <1>11, WorkerAssumption DEF Crash
    <2> QED
      BY <1>11, <2>1, <2>3 DEF Crash
  <1> QED
    BY <1>5, <1>6, <1>7, <1>8, <1>9, <1>10, <1>11

(* job_lock: whoever runs a job has it locked, so nobody runs this one. *)
LEMMA LockInv ==
    ASSUME Inv, WorkerInv, NEW k \in Worker, Lock(k)
    PROVE  WorkerInv' /\ Next
  <1>1. PICK p, t : p = worker[k] /\ t = p.job
    OBVIOUS
  <1>2. p.pc = "lock" /\ job_lock(t) /\ RecordOK(k, p)
    BY <1>1 DEF Lock, WorkerInv
  <1>3. t \in Uptkn /\ t # NULL /\ t \in Mine(k)
    BY <1>1, <1>2 DEF RecordOK, Mine
  <1>4. Next
    BY <1>2, <1>3 DEF Next
  <1>5. [JobAdvances]_vars
    BY <1>4, JobAdvancesStep
  <1> PICK q : q = Receive(p)
    OBVIOUS
  <1> PICK r : r = [q EXCEPT !.pc = "run"]
    OBVIOUS
  <1>6. RecordOK(k, q) /\ q.job = t
    BY <1>1, <1>2, ReceiveOK
  <1>7. /\ r.pc = "run" /\ r.wire = q.wire /\ r.notifies = q.notifies /\ r.job = t
        /\ r \in WorkerState
    BY <1>6 DEF RecordOK, WorkerState
  <1>8. RecordOK(k, q)'
    BY <1>5, <1>6, RecordKept
  <1>9. job_pool'[t].locked /\ ~job_pool[t].locked
    <2>1. job_pool' = [job_pool EXCEPT ![t] = LockedRow(job_pool[t])] /\ ~job_pool[t].locked
      BY <1>2 DEF job_lock, CanLock
    <2>2. job_pool[t] \in Job /\ job_pool'[t] = LockedRow(job_pool[t])
      BY <1>3, <2>1 DEF Inv, TypeOK, Mine
    <2> QED
      BY <2>1, <2>2 DEF LockedRow, Job
  <1>10. RecordOK(k, r)'
    BY <1>3, <1>6, <1>7, <1>8, <1>9 DEF RecordOK
  <1>11. \A j \in Worker : worker[j].pc = "run" => worker[j].job # t
    BY <1>9 DEF WorkerInv, RecordOK
  <1>12. worker' = [worker EXCEPT ![k] = r] /\ crashes' \in 0..MaxCrash
    BY <1>1 DEF Lock, WorkerInv
  <1>13. WorkerInv'
    BY <1>5, <1>7, <1>10, <1>11, <1>12, OneRecord
  <1> QED
    BY <1>4, <1>13

(* The UPDATE: a state of the workflow, the token of the job, all its listeners told. *)
LEMMA WriteInv ==
    ASSUME Inv, WorkerInv, NEW k \in Worker, Write(k)
    PROVE  WorkerInv' /\ Next
  <1>1. PICK p, t, w : p = worker[k] /\ t = p.job /\ w = job_pool[t].wid
    OBVIOUS
  <1>2. p.pc = "run" /\ RecordOK(k, p) /\ UpdateWithToken(w, NewState(k, w), t)
    BY <1>1 DEF Write, WorkerInv
  <1>3. t \in Uptkn /\ t \in Mine(k)
    BY <1>1, <1>2 DEF RecordOK, Mine
  <1>4. w \in Wid
    <2>1. job_pool[t] \in Job
      BY <1>3 DEF Inv, TypeOK, Mine
    <2> QED
      BY <1>1, <2>1 DEF Job
  <1>5. wed_flow[w] \in State
    BY <1>2, <1>4 DEF Inv, TypeOK, UpdateWithToken, Update
  <1>6. NewState(k, w) \in State
    BY <1>5, WorkerAssumption DEF NewState
  <1>7. Next
    BY <1>2, <1>3, <1>4, <1>6 DEF Next
  <1>8. [JobAdvances]_vars
    BY <1>7, JobAdvancesStep
  <1> PICK q : q = Return(p)
    OBVIOUS
  <1> PICK R : R = [j \in Worker |-> IF j = k THEN q ELSE worker[j]]
    OBVIOUS
  <1>9. RecordOK(k, q) /\ q.pc # "run"
    BY <1>2, ReturnOK
  <1>10. \A j \in Worker : RecordOK(j, R[j]) /\ (R[j] = worker[j] \/ R[j].pc # "run")
    BY <1>9 DEF WorkerInv
  <1>11. worker' = [j \in Worker |-> Hear(j, R[j])] /\ UNCHANGED crashes
    BY <1>1 DEF Write
  <1>12. WorkerInv'
    BY <1>8, <1>10, <1>11, AllRecords
  <1> QED
    BY <1>7, <1>12

(* Steps of applications, of the clock, of other workers and of inspectors. *)
LEMMA OtherInv ==
    ASSUME Inv, WorkerInv,
           \/ \E w \in Wid, s \in Start : Submit(w, s)
           \/ \E t \in Uptkn : Tick(t) \/ LostElsewhere(t)
           \/ \E i \in Inspector : Inspect(i)
    PROVE  WorkerInv' /\ Next
  <1>1. Next
    <2>1. Start \subseteq State
      BY WorkerAssumption
    <2> QED
      BY <2>1 DEF Next, Submit, Tick, LostElsewhere, Inspect, InspectorStep
  <1>2. [JobAdvances]_vars
    BY <1>1, JobAdvancesStep
  <1>3. CASE worker' = [k \in Worker |-> Hear(k, worker[k])] /\ UNCHANGED crashes
    <2>1. PICK R : R = worker
      OBVIOUS
    <2>2. \A j \in Worker : RecordOK(j, R[j]) /\ R[j] = worker[j]
      BY <2>1 DEF WorkerInv
    <2>3. worker' = [j \in Worker |-> Hear(j, R[j])] /\ UNCHANGED crashes
      BY <1>3, <2>1
    <2> QED
      BY <1>1, <1>2, <2>2, <2>3, AllRecords
  <1>4. CASE UNCHANGED worker /\ crashes' \in 0..MaxCrash
    <2>1. ASSUME NEW k \in Worker PROVE RecordOK(k, worker[k])'
      <3>1. PICK p : p = worker[k]
        OBVIOUS
      <3>2. RecordOK(k, p)'
        BY <1>2, <3>1, RecordKept DEF WorkerInv
      <3> QED
        BY <1>4, <3>1, <3>2 DEF RecordOK
    <2>2. IsRecord' /\ OneWorkerPerJob' /\ crashes' \in 0..MaxCrash
      BY <1>4 DEF WorkerInv, IsRecord, OneWorkerPerJob
    <2> QED
      BY <1>1, <2>1, <2>2 DEF WorkerInv
  <1>5. \/ worker' = [k \in Worker |-> Hear(k, worker[k])] /\ UNCHANGED crashes
        \/ UNCHANGED worker /\ crashes' \in 0..MaxCrash
    BY WorkerAssumption DEF WorkerInv, Submit, NotifyAll, Tick, LostElsewhere, Inspect
  <1> QED
    BY <1>1, <1>3, <1>4, <1>5

-----------------------------------------------------------------------------
(* The theorems *)

(* All workers are down, and so has the engine not begun. *)
LEMMA WorkerInitInv == WorkerInit => Inv /\ WorkerInv
  <1> SUFFICES ASSUME WorkerInit PROVE Inv /\ WorkerInv
    OBVIOUS
  <1>1. Inv
    BY InitInv DEF WorkerInit
  <1>2. ASSUME NEW k \in Worker PROVE worker[k].pc = "down" /\ RecordOK(k, worker[k])
    <2>1. PICK r : r = worker[k]
      OBVIOUS
    <2>2. r = [pc |-> "down", back |-> "select", wire |-> <<>>, notifies |-> <<>>, job |-> NULL]
      BY <2>1 DEF WorkerInit, Down
    <2>3. RecordOK(k, r) /\ r.pc = "down"
      BY <2>2, FreshOK
    <2> QED
      BY <2>1, <2>3
  <1>4. IsRecord /\ crashes \in 0..MaxCrash
    BY WorkerAssumption DEF WorkerInit, IsRecord
  <1>5. OneWorkerPerJob
    BY <1>2 DEF OneWorkerPerJob
  <1> QED
    BY <1>1, <1>2, <1>4, <1>5 DEF WorkerInv

(* A step of the composition is a step of the engine or leaves it alone. *)
LEMMA WorkerNextInv ==
    Inv /\ WorkerInv /\ [WorkerNext]_allvars => Inv' /\ WorkerInv' /\ [Next]_vars
  <1> SUFFICES ASSUME Inv, WorkerInv, [WorkerNext]_allvars PROVE WorkerInv' /\ [Next]_vars
    BY NextInv
  <1>1. ASSUME NEW k \in Worker, WorkerStep(k) \/ Crash(k)
        PROVE  WorkerInv' /\ [Next]_vars
    BY <1>1, LoopInv, LockInv, WriteInv DEF WorkerStep
  <1>2. CASE \/ \E w \in Wid, s \in Start : Submit(w, s)
             \/ \E t \in Uptkn : Tick(t) \/ LostElsewhere(t)
             \/ \E i \in Inspector : Inspect(i)
    BY <1>2, OtherInv
  <1>3. CASE UNCHANGED allvars
    <2>1. UNCHANGED vars /\ UNCHANGED <<worker, crashes>>
      BY <1>3 DEF allvars
    <2>2. [JobAdvances]_vars
      BY <2>1
    <2>3. ASSUME NEW k \in Worker PROVE RecordOK(k, worker[k])'
      <3>1. PICK p : p = worker[k]
        OBVIOUS
      <3>2. RecordOK(k, p)'
        BY <2>2, <3>1, RecordKept DEF WorkerInv
      <3> QED
        BY <2>1, <3>1, <3>2 DEF RecordOK
    <2>4. IsRecord' /\ OneWorkerPerJob' /\ crashes' \in 0..MaxCrash
      BY <2>1 DEF WorkerInv, IsRecord, OneWorkerPerJob
    <2> QED
      BY <2>1, <2>3, <2>4 DEF WorkerInv
  <1> QED
    BY <1>1, <1>2, <1>3 DEF WorkerNext

(***************************************************************************)
(* The workers, with their crashes, late and repeated attempts, their      *)
(* notifications and polls, and the applications, use the engine as        *)
(* WedKernel allows: what is proved of every behaviour of WedKernel holds  *)
(* for them.                                                               *)
(***************************************************************************)
THEOREM WorkersUseTheEngine == WorkerSpec => Spec
  <1>1. WorkerInit => Init
    BY DEF WorkerInit
  <1> QED
    BY <1>1, WorkerInitInv, WorkerNextInv, PTL DEF WorkerSpec, Spec

(* The invariant of the composition. *)
THEOREM WorkerSafety == WorkerSpec => [](Inv /\ WorkerInv)
  BY WorkerInitInv, WorkerNextInv, PTL DEF WorkerSpec

(* The type invariant of the composition: wed_trans always has a job. *)
THEOREM WorkerTypes == WorkerSpec => []WorkerTypeOK
  <1>1. WorkerInv => WorkerTypeOK
    BY DEF WorkerInv, IsRecord, RecordOK, WorkerTypeOK
  <1> QED
    BY WorkerSafety, <1>1, PTL

(* A worker works for its own trigger: see ServesItsTrigger. *)
THEOREM RightJobs == WorkerSpec => []ServesItsTrigger
  <1>1. WorkerInv => ServesItsTrigger
    BY DEF WorkerInv, RecordOK, ServesItsTrigger
  <1> QED
    BY WorkerSafety, <1>1, PTL

(* No job is run by two workers at a time: see OneWorkerPerJob. *)
THEOREM NoDoubleWork == WorkerSpec => []OneWorkerPerJob
  <1>1. WorkerInv => OneWorkerPerJob
    BY DEF WorkerInv
  <1> QED
    BY WorkerSafety, <1>1, PTL
=============================================================================
