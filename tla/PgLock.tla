------------------------------- MODULE PgLock -------------------------------
(***************************************************************************)
(* PostgreSQL's lock manager (storage/lmgr/lock.c and proc.c): the shared  *)
(* lock table with its wait queues, the per-backend fast path for weak     *)
(* relation locks, the early deadlock test of ProcSleep and the deadlock   *)
(* check a waiting process runs once its timer fires.                      *)
(*                                                                         *)
(* WedKernel relies on it: find_job and the job inspector lock job_pool    *)
(* with an ALTER TABLE, in transactions that already hold weaker locks.    *)
(*                                                                         *)
(* Every section under a partition lock, a backendLock or the strong-lock  *)
(* spinlock is one step; CheckDeadLock holds all partition locks.  Owners, *)
(* session locks and repeated acquisitions (nLocks > 1) only count locally *)
(* and are left out.                                                       *)
(***************************************************************************)
EXTENDS PgDeadLock

CONSTANTS
    Proc,       \* the backends
    Lock,       \* the lockable relations
    Asks,       \* the <<lock, mode>> pairs each backend may ask for
    Bucket,     \* FastPathStrongLockHashPartition: the bucket of each lock
    FP_LOCK_SLOTS_PER_BACKEND,
    MaxHeld,    \* bound: locks of one transaction
    MaxCancel   \* bound: cancelled waits of each backend

ASSUME LockAssumption ==
    /\ Asks \in [Proc -> SUBSET (Lock \X LockMode)]
    /\ FP_LOCK_SLOTS_PER_BACKEND \in Nat
    /\ MaxHeld \in Nat \ {0}
    /\ MaxCancel \in [Proc -> Nat]

VARIABLES
    lock,       \* LockMethodLockHash and LockMethodProcLockHash
    fp,         \* fpRelId and fpLockBits: the modes held by fast path
    fpcount,    \* FastPathLocalUseCount
    strong,     \* FastPathStrongRelationLocks->count
    local,      \* LockMethodLocalHash: the locks a backend counts as its own,
                \* "fast" while the LOCALLOCK points to no LOCK because the lock
                \* was taken by fast path, else "main", or "uncounted" after a
                \* cancelled wait for it was granted all the same
    proc,       \* what each backend does, and the wait fields of its PGPROC
    cancels     \* cancelled waits of each backend so far, for the bound

vars == <<lock, fp, fpcount, strong, local, proc, cancels>>

Request == UNION {Asks[p] : p \in Proc}

Mode == {r[2] : r \in Request}

NewLock == [procLocks |-> <<>>, holdMask |-> [p \in Proc |-> {}],
            waitProcs |-> <<>>, waitMask |-> {},
            requested |-> [m \in Mode |-> 0], granted |-> [m \in Mode |-> 0]]

NoRequest == CHOOSE r \in Request : TRUE

Idle == [pc |-> "run", req |-> NoRequest, status |-> "ok", heldLocks |-> {},
         checked |-> FALSE, sem |-> 0]

LockInit ==
    /\ lock = [l \in Lock |-> NewLock]
    /\ fp = [p \in Proc |-> [l \in Lock |-> {}]]
    /\ fpcount = [p \in Proc |-> 0]
    /\ strong = [b \in {Bucket[l] : l \in Lock} |-> 0]
    /\ local = [p \in Proc |-> [r \in Request |-> "none"]]
    /\ proc = [p \in Proc |-> Idle]
    /\ cancels = [p \in Proc |-> 0]

WaitMode(p) == proc[p].req[2]

(* The wait fields mean something only while a process waits. *)
At(pc, sem) == [Idle EXCEPT !.pc = pc, !.sem = sem]

Snapshot == [lock |-> lock, tag |-> [p \in Proc |-> proc[p].req[1]],
             mode |-> [p \in Proc |-> WaitMode(p)]]
-----------------------------------------------------------------------------
(* The operations on one LOCK, under its partition lock.  L is the lock.   *)

SetupLockInTable(L, p, m) ==
    [L EXCEPT !.procLocks = IF Contains(@, p) THEN @ ELSE Append(@, p),
              !.requested[m] = @ + 1]

(* Does a mode held by another process conflict with m?  A process's own   *)
(* locks do not count.                                                     *)
LockCheckConflicts(L, p, m) ==
    \E n \in LockConflicts[m] \cap Mode :
        L.granted[n] > (IF n \in L.holdMask[p] THEN 1 ELSE 0)

GrantLock(L, p, m) ==
    [L EXCEPT !.granted[m] = @ + 1,
              !.holdMask[p] = @ \cup {m},
              !.waitMask = IF L.granted[m] + 1 = L.requested[m]
                           THEN @ \ {m} ELSE @]

(* ProcLockWakeup grants every waiter that conflicts neither with a holder *)
(* nor with a waiter that stays ahead of it, and takes it off the queue.   *)
ProcLockWakeup(L) ==
    LET Visit(R, q) ==
            IF \/ LockConflicts[WaitMode(q)] \cap R.ahead # {}
               \/ LockCheckConflicts(R.L, q, WaitMode(q))
            THEN [R EXCEPT !.ahead = @ \cup {WaitMode(q)}]
            ELSE [R EXCEPT !.L = [GrantLock(@, q, WaitMode(q)) EXCEPT
                                    !.waitProcs = RemoveFirst(@, q)]]
    IN  FoldLeft(Visit, [L |-> L, ahead |-> {}], L.waitProcs).L

(* UnGrantLock and the wakeup it calls for; then CleanUpLock forgets a     *)
(* PROCLOCK that holds nothing.                                            *)
UnGrantLock(L, p, m) ==
    [L EXCEPT !.requested[m] = @ - 1, !.granted[m] = @ - 1,
              !.holdMask[p] = @ \ {m}]

WakeupNeeded(L, modes) == \E m \in modes : LockConflicts[m] \cap L.waitMask # {}

CleanUpLock(L, p, wakeupNeeded) ==
    LET C == [L EXCEPT !.procLocks = IF L.holdMask[p] = {}
                                     THEN RemoveFirst(@, p) ELSE @]
    IN  IF wakeupNeeded THEN ProcLockWakeup(C) ELSE C

Release(L, p, modes) ==
    LET Drop(M, m) == UnGrantLock(M, p, m)
    IN  CleanUpLock(FoldLeft(Drop, L, SetToSeq(modes)), p, WakeupNeeded(L, modes))

(* Mutant: whoever waits behind a request that gives up is not looked at. *)
RemoveFromWaitQueueQuietly(L, p, m) ==
    CleanUpLock([L EXCEPT !.waitProcs = RemoveFirst(@, p),
                          !.requested[m] = @ - 1,
                          !.waitMask = IF L.granted[m] = L.requested[m] - 1
                                       THEN @ \ {m} ELSE @], p, FALSE)

RemoveFromWaitQueue(L, p, m) ==
    CleanUpLock([L EXCEPT !.waitProcs = RemoveFirst(@, p),
                          !.requested[m] = @ - 1,
                          !.waitMask = IF L.granted[m] = L.requested[m] - 1
                                       THEN @ \ {m} ELSE @], p, TRUE)

(* ProcWakeup: the status and semaphore of the processes that left the     *)
(* queues of lock by being granted their request in new.                   *)
Woken(new) == {q \in Proc : LET l == proc[q].req[1] IN
                  /\ Contains(lock[l].waitProcs, q)
                  /\ ~Contains(new[l].waitProcs, q)}

ProcWakeup(S) == [q \in Proc |-> IF q \in S
                                 THEN [proc[q] EXCEPT !.status = "ok",
                                                      !.sem = @ + 1]
                                 ELSE proc[q]]
-----------------------------------------------------------------------------
(* LockAcquire.  A lock held already is only counted again.                *)

StrongLock(r) == ConflictsWithRelationFastPath(r[2])

AddStrong(r, n) == IF StrongLock(r) THEN [strong EXCEPT ![Bucket[r[1]]] = @ + n]
                   ELSE strong

SlotsUsed(f) == {l \in Lock : f[l] # {}}

(* FastPathGrantRelationLock: the relation's slot or, failing that, a free *)
(* one.                                                                    *)
FastPathGrants(p, l) ==
    \/ fp[p][l] # {}
    \/ Cardinality(SlotsUsed(fp[p])) < FP_LOCK_SLOTS_PER_BACKEND

FastPathOpen(p, r) ==
    /\ EligibleForRelationFastPath(r[2])
    /\ fpcount[p] < FP_LOCK_SLOTS_PER_BACKEND
    /\ strong[Bucket[r[1]]] = 0
    /\ FastPathGrants(p, r[1])

CanAsk(p, r) ==
    /\ proc[p].pc = "run" /\ r \in Asks[p]
    /\ local[p][r] = "none"
    /\ Cardinality({s \in Request : local[p][s] # "none"}) < MaxHeld

AcquireFast(p, r) ==
    /\ CanAsk(p, r) /\ FastPathOpen(p, r)
    /\ fp' = [fp EXCEPT ![p][r[1]] = @ \cup {r[2]}]
    /\ fpcount' = [fpcount EXCEPT ![p] = IF fp[p][r[1]] = {} THEN @ + 1 ELSE @]
    /\ local' = [local EXCEPT ![p][r] = "fast"]
    /\ UNCHANGED <<lock, strong, proc, cancels>>

(* BeginStrongLockAcquire closes the fast path for the bucket. *)
AcquireMain(p, r) ==
    /\ CanAsk(p, r) /\ ~FastPathOpen(p, r)
    /\ strong' = AddStrong(r, 1)
    /\ proc' = [proc EXCEPT ![p].req = r,
                            ![p].pc = IF StrongLock(r) THEN "transfer" ELSE "table"]
    /\ UNCHANGED <<lock, fp, fpcount, local, cancels>>

(* FastPathTransferRelationLocks: one backend's fast-path locks on the     *)
(* relation enter the table.  While the bucket is closed no backend can    *)
(* take another, so one visited is done with.                              *)
Transfer(p, q) ==
    LET l == proc[p].req[1]
        Move(L, m) == GrantLock(SetupLockInTable(L, q, m), q, m)
    IN  /\ proc[p].pc = "transfer" /\ fp[q][l] # {}
        /\ lock' = [lock EXCEPT ![l] = FoldLeft(Move, @, SetToSeq(fp[q][l]))]
        /\ fp' = [fp EXCEPT ![q][l] = {}]
        /\ UNCHANGED <<fpcount, strong, local, proc, cancels>>

(* Mutant: the transfer is left to the other backends. *)
TransferNone(p) ==
    /\ proc[p].pc = "transfer"
    /\ proc' = [proc EXCEPT ![p].pc = "table"]
    /\ UNCHANGED <<lock, fp, fpcount, strong, local, cancels>>

TransferDone(p) ==
    /\ proc[p].pc = "transfer"
    /\ \A q \in Proc : fp[q][proc[p].req[1]] = {}
    /\ proc' = [proc EXCEPT ![p].pc = "table"]
    /\ UNCHANGED <<lock, fp, fpcount, strong, local, cancels>>

(* The request of p in the table: what the partition lock protects. *)
Asked(p) == SetupLockInTable(lock[proc[p].req[1]], p, WaitMode(p))

(* A request that conflicts with a waiter's request joins the queue. *)
MustWait(p) ==
    \/ LockConflicts[WaitMode(p)] \cap Asked(p).waitMask # {}
    \/ LockCheckConflicts(Asked(p), p, WaitMode(p))

Granted(p, L) ==
    /\ lock' = [lock EXCEPT ![proc[p].req[1]] = GrantLock(L, p, WaitMode(p))]
    /\ local' = [local EXCEPT ![p][proc[p].req] = "main"]
    /\ proc' = [proc EXCEPT ![p] = At("run", @.sem)]
    /\ UNCHANGED <<fp, fpcount, strong, cancels>>

Grant(p) == proc[p].pc = "table" /\ ~MustWait(p) /\ Granted(p, Asked(p))

(* Mutant: a request taken back keeps the fast path closed. *)
NotAvailStrong(p) ==
    /\ proc[p].pc = "table" /\ MustWait(p)
    /\ lock' = [lock EXCEPT ![proc[p].req[1]] =
                   [Asked(p) EXCEPT !.requested[WaitMode(p)] = @ - 1,
                                    !.procLocks = IF lock[proc[p].req[1]].holdMask[p] = {}
                                                  THEN RemoveFirst(@, p) ELSE @]]
    /\ proc' = [proc EXCEPT ![p] = At("run", @.sem)]
    /\ UNCHANGED <<fp, fpcount, strong, local, cancels>>

(* dontWait: the request is taken back. *)
NotAvail(p) ==
    /\ proc[p].pc = "table" /\ MustWait(p)
    /\ lock' = [lock EXCEPT ![proc[p].req[1]] =
                   [Asked(p) EXCEPT !.requested[WaitMode(p)] = @ - 1,
                                    !.procLocks = IF lock[proc[p].req[1]].holdMask[p] = {}
                                                  THEN RemoveFirst(@, p) ELSE @]]
    /\ strong' = AddStrong(proc[p].req, -1)
    /\ proc' = [proc EXCEPT ![p] = At("run", @.sem)]
    /\ UNCHANGED <<fp, fpcount, local, cancels>>

(* ProcSleep: a process that holds a lock some waiter must wait for goes   *)
(* in front of that waiter, at position Place; others go last.             *)
Place(p, L) ==
    LET Must(q) == LockConflicts[WaitMode(q)] \cap L.holdMask[p] # {}
        i == SelectInSeq(L.waitProcs, Must)
    IN  IF i = 0 THEN Len(L.waitProcs) + 1 ELSE i

Enqueued(p, L, i) == [L EXCEPT !.waitProcs = InsertAt(@, i, p),
                               !.waitMask = @ \cup {WaitMode(p)}]

(* ... if that waiter holds what p waits for, p has found a deadlock; ...  *)
EarlyDeadlock(p, L, i) ==
    /\ i <= Len(L.waitProcs)
    /\ LockConflicts[WaitMode(p)] \cap proc[L.waitProcs[i]].heldLocks # {}

(* ... and if nothing ahead of that place conflicts, p need not wait.      *)
MayPass(p, L, i) ==
    /\ i <= Len(L.waitProcs)
    /\ \A j \in 1 .. i - 1 : WaitMode(L.waitProcs[j]) \notin LockConflicts[WaitMode(p)]
    /\ ~LockCheckConflicts(L, p, WaitMode(p))

ProcSleepDeadlock(p) ==
    LET L == Asked(p)
        i == Place(p, L)
        new == [lock EXCEPT ![proc[p].req[1]] =
                   RemoveFromWaitQueue(Enqueued(p, L, i), p, WaitMode(p))]
    IN  /\ proc[p].pc = "table" /\ MustWait(p) /\ EarlyDeadlock(p, L, i)
        /\ lock' = new
        /\ proc' = [ProcWakeup(Woken(new)) EXCEPT ![p] = At("end", @.sem)]
        /\ strong' = AddStrong(proc[p].req, -1)
        /\ UNCHANGED <<fp, fpcount, local, cancels>>

ProcSleepPass(p) ==
    LET L == Asked(p)
        i == Place(p, L)
    IN  /\ proc[p].pc = "table" /\ MustWait(p)
        /\ ~EarlyDeadlock(p, L, i) /\ MayPass(p, L, i)
        /\ Granted(p, L)

ProcSleep(p) ==
    LET L == Asked(p)
        i == Place(p, L)
    IN  /\ proc[p].pc = "table" /\ MustWait(p)
        /\ ~EarlyDeadlock(p, L, i) /\ ~MayPass(p, L, i)
        /\ lock' = [lock EXCEPT ![proc[p].req[1]] = Enqueued(p, L, i)]
        /\ proc' = [proc EXCEPT ![p].pc = "sleep", ![p].status = "waiting",
                                ![p].heldLocks = L.holdMask[p], ![p].checked = FALSE]
        /\ UNCHANGED <<fp, fpcount, strong, local, cancels>>
-----------------------------------------------------------------------------
(* While asleep.                                                           *)

(* The rest of ProcSleep: a wakeup may be left over from an earlier wait,  *)
(* so the process sleeps on unless its status changed.                     *)
WakeAsleep(p) ==
    /\ proc[p].pc = "sleep" /\ proc[p].sem > 0 /\ proc[p].status = "waiting"
    /\ proc' = [proc EXCEPT ![p].sem = @ - 1]
    /\ UNCHANGED <<lock, fp, fpcount, strong, local, cancels>>

WakeGranted(p) ==
    /\ proc[p].pc = "sleep" /\ proc[p].sem > 0 /\ proc[p].status = "ok"
    /\ proc' = [proc EXCEPT ![p] = At("run", @.sem - 1)]
    /\ local' = [local EXCEPT ![p][proc[p].req] = "main"]
    /\ UNCHANGED <<lock, fp, fpcount, strong, cancels>>

WakeError(p) ==
    /\ proc[p].pc = "sleep" /\ proc[p].sem > 0 /\ proc[p].status = "error"
    /\ proc' = [proc EXCEPT ![p] = At("end", @.sem - 1)]
    /\ strong' = AddStrong(proc[p].req, -1)
    /\ UNCHANGED <<lock, fp, fpcount, local, cancels>>

OnQueue(p) == Contains(lock[proc[p].req[1]].waitProcs, p)

(* CheckDeadLock, when the timer fires: once in every wait.  A process     *)
(* taken off the queue meanwhile has nothing to check.                     *)
CheckLate(p) ==
    /\ proc[p].pc = "sleep" /\ ~proc[p].checked /\ ~OnQueue(p)
    /\ proc' = [proc EXCEPT ![p].checked = TRUE]
    /\ UNCHANGED <<lock, fp, fpcount, strong, local, cancels>>

(* A soft deadlock, or none: the queues get their new orders, and those    *)
(* the new order lets pass are granted their locks.                        *)
CheckSoft(p, d) ==
    LET new == [l \in Lock |->
                  IF l \in DOMAIN d.orders
                  THEN ProcLockWakeup([lock[l] EXCEPT !.waitProcs = d.orders[l]])
                  ELSE lock[l]]
    IN  /\ ~d.hard
        /\ lock' = new
        /\ proc' = [ProcWakeup(Woken(new)) EXCEPT ![p].checked = TRUE]
        /\ UNCHANGED <<fp, fpcount, strong, local, cancels>>

(* A hard deadlock: p leaves the queue and wakes itself up to fail. *)
CheckHard(p, d) ==
    LET l == proc[p].req[1]
        new == [lock EXCEPT ![l] = RemoveFromWaitQueue(@, p, WaitMode(p))]
    IN  /\ d.hard
        /\ lock' = new
        /\ proc' = [ProcWakeup(Woken(new) \ {p}) EXCEPT
                       ![p].checked = TRUE, ![p].status = "error", ![p].sem = @ + 1]
        /\ UNCHANGED <<fp, fpcount, strong, local, cancels>>

CheckWaiting(p) ==
    /\ proc[p].pc = "sleep" /\ ~proc[p].checked /\ OnQueue(p)
    /\ \E d \in {DeadLockCheck(Snapshot, p)} : CheckSoft(p, d) \/ CheckHard(p, d)

(* LockErrorCleanup: a query cancel, a termination or a lock timeout ends  *)
(* the wait.  The strong lock is uncounted first; ...                      *)
Cancel(p) ==
    /\ proc[p].pc = "sleep" /\ cancels[p] < MaxCancel[p]
    /\ proc' = [proc EXCEPT ![p].pc = "cancel"]
    /\ strong' = AddStrong(proc[p].req, -1)
    /\ cancels' = [cancels EXCEPT ![p] = @ + 1]
    /\ UNCHANGED <<lock, fp, fpcount, local>>

Dequeued(p) == [lock EXCEPT ![proc[p].req[1]] =
                   IF OnQueue(p) THEN RemoveFromWaitQueue(@, p, WaitMode(p)) ELSE @]

(* Mutant: a lock granted just before the cancel is forgotten. *)
LockErrorForgets(p) ==
    /\ proc[p].pc = "cancel"
    /\ lock' = Dequeued(p)
    /\ proc' = [ProcWakeup(Woken(Dequeued(p)) \ {p}) EXCEPT
                   ![p] = At("run", @.sem)]
    /\ UNCHANGED <<fp, fpcount, strong, local, cancels>>

(* ... a lock granted meanwhile is remembered, so that the end of the      *)
(* transaction releases it.                                                *)
LockErrorCleanup(p) ==
    LET got == ~OnQueue(p) /\ proc[p].status = "ok"
    IN  /\ proc[p].pc = "cancel"
        /\ lock' = Dequeued(p)
        /\ proc' = [ProcWakeup(Woken(Dequeued(p)) \ {p}) EXCEPT
                       ![p] = At("end", @.sem)]
        /\ local' = [local EXCEPT ![p][proc[p].req] = IF got THEN "uncounted" ELSE @]
        /\ UNCHANGED <<fp, fpcount, strong, cancels>>
-----------------------------------------------------------------------------
(* LockRelease, LockReleaseAll.                                            *)

(* FastPathUnGrantRelationLock, which also counts the slots in use anew. *)
FastUnGrant(p, r) ==
    LET f == [fp[p] EXCEPT ![r[1]] = @ \ {r[2]}]
    IN  /\ fp' = [fp EXCEPT ![p] = f]
        /\ fpcount' = [fpcount EXCEPT ![p] = Cardinality(SlotsUsed(f))]

(* LockRefindAndRelease, and the main-table part of LockRelease. *)
MainUnGrant(p, l, modes) ==
    LET new == [lock EXCEPT ![l] = Release(@, p, modes)]
    IN  /\ lock' = new
        /\ proc' = ProcWakeup(Woken(new))

(* Not found among the fast-path locks, the lock was transferred. *)
ReleaseFast(p, r) ==
    IF r[2] \in fp[p][r[1]]
    THEN FastUnGrant(p, r) /\ UNCHANGED <<lock, proc>>
    ELSE /\ MainUnGrant(p, r[1], {r[2]})
         /\ fpcount' = [fpcount EXCEPT ![p] = Cardinality(SlotsUsed(fp[p]))]
         /\ UNCHANGED fp

(* LockRelease: a lock given back before the transaction ends. *)
LockRelease(p, r) ==
    /\ proc[p].pc = "run" /\ local[p][r] # "none"
    /\ IF EligibleForRelationFastPath(r[2]) /\ fpcount[p] > 0
       THEN ReleaseFast(p, r)
       ELSE MainUnGrant(p, r[1], {r[2]}) /\ UNCHANGED <<fp, fpcount>>
    /\ strong' = AddStrong(r, -1)
    /\ local' = [local EXCEPT ![p][r] = "none"]
    /\ UNCHANGED cancels

EndTransaction(p) ==
    /\ proc[p].pc = "run" /\ \E r \in Request : local[p][r] # "none"
    /\ proc' = [proc EXCEPT ![p].pc = "end"]
    /\ UNCHANGED <<lock, fp, fpcount, strong, local, cancels>>

(* LockReleaseAll, the scan of the local table: fast-path locks are        *)
(* released, the others only lose their local entry and their strong       *)
(* count ...                                                               *)
ReleaseLocal(p, r) ==
    /\ proc[p].pc = "end" /\ local[p][r] # "none"
    /\ IF local[p][r] = "fast" THEN ReleaseFast(p, r)
       ELSE UNCHANGED <<lock, proc, fp, fpcount>>
    /\ strong' = IF local[p][r] = "uncounted" THEN strong ELSE AddStrong(r, -1)
    /\ local' = [local EXCEPT ![p][r] = "none"]
    /\ UNCHANGED cancels

(* ... then the partitions: whatever the process still holds in the table. *)
ReleaseMain(p, l) ==
    /\ proc[p].pc = "end" /\ \A r \in Request : local[p][r] = "none"
    /\ Contains(lock[l].procLocks, p)
    /\ MainUnGrant(p, l, lock[l].holdMask[p])
    /\ UNCHANGED <<fp, fpcount, strong, local, cancels>>

ReleaseDone(p) ==
    /\ proc[p].pc = "end" /\ \A r \in Request : local[p][r] = "none"
    /\ \A l \in Lock : ~Contains(lock[l].procLocks, p)
    /\ proc' = [proc EXCEPT ![p] = At("run", @.sem)]
    /\ UNCHANGED <<lock, fp, fpcount, strong, local, cancels>>
-----------------------------------------------------------------------------
Acquire(p) ==
    \/ \E r \in Request : AcquireFast(p, r) \/ AcquireMain(p, r)

Proceed(p) ==
    \/ \E q \in Proc : Transfer(p, q)
    \/ TransferDone(p) \/ Grant(p)
    \/ ProcSleepDeadlock(p) \/ ProcSleepPass(p) \/ ProcSleep(p)
    \/ WakeAsleep(p) \/ WakeGranted(p) \/ WakeError(p) \/ LockErrorCleanup(p)

CheckDeadLock(p) == CheckLate(p) \/ CheckWaiting(p)

LockReleaseAll(p) ==
    \/ \E r \in Request : ReleaseLocal(p, r)
    \/ \E l \in Lock : ReleaseMain(p, l)
    \/ ReleaseDone(p)

LockNext ==
    \E p \in Proc :
        \/ Acquire(p) \/ Proceed(p) \/ NotAvail(p)
        \/ CheckDeadLock(p) \/ Cancel(p)
        \/ \E r \in Request : LockRelease(p, r)
        \/ EndTransaction(p) \/ LockReleaseAll(p)

LockSpec == LockInit /\ [][LockNext]_vars
-----------------------------------------------------------------------------
Held(p) == {r \in Request : local[p][r] # "none"}

(* No two transactions hold conflicting modes of a lock, wherever each     *)
(* took it: in the shared table or by fast path.  A transaction that       *)
(* releases its locks already is over.  (LockAcquire, the fast path and    *)
(* the transfer.)                                                          *)
NoConflictingHolders ==
    \A p, q \in Proc :
        p # q /\ {proc[p].pc, proc[q].pc} \cap {"cancel", "end"} = {} =>
            \A r \in Held(p), s \in Held(q) :
                r[1] = s[1] => s[2] \notin LockConflicts[r[2]]

(* A lock is released exactly when it should be: a transaction's local     *)
(* table names what the shared table and the fast path record for it, so   *)
(* an idle backend leaves nothing behind.  (GrantAwaitedLock, the          *)
(* transfer, LockRefindAndRelease.)                                        *)
NothingLeaks ==
    \A p \in Proc : proc[p].pc = "run" =>
        Held(p) = {r \in Request : \/ r[2] \in fp[p][r[1]]
                                   \/ r[2] \in lock[r[1]].holdMask[p]}

(* No wakeup is lost: whoever is queued conflicts with a holder or with a  *)
(* request ahead of it.  (ProcLockWakeup after every release, every        *)
(* request that gives up and every reordering; the test of UnGrantLock     *)
(* that skips it; waitMask.)                                               *)
WaitersHaveCause ==
    \A p \in Proc : OnQueue(p) => WaitsFor(Snapshot, <<>>, p) # {}

(* The fast path opens again: a bucket counts the strong locks held or     *)
(* asked for, and no others.  (BeginStrongLockAcquire,                     *)
(* AbortStrongLockAcquire, RemoveLocalLock.)                               *)
StrongCountsExact ==
    \A b \in DOMAIN strong :
        strong[b] = Cardinality(
            {<<p, r>> \in Proc \X Request :
                /\ Bucket[r[1]] = b /\ StrongLock(r)
                /\ \/ local[p][r] = "main"
                   \/ proc[p].pc \in {"transfer", "table", "sleep"} /\ proc[p].req = r})

(* Every deadlock is found: a cycle of waiters, through holders or through *)
(* requests ahead in a queue, has a member that will still check, although *)
(* each checks only once in a wait and only for cycles through itself.     *)
(* (CheckDeadLock, DeadLockCheck's choice of constraints and new orders.)  *)
EveryDeadlockHasAWatcher ==
    \A p \in Proc : OnQueue(p) /\ InCycle(Snapshot, <<>>, p) =>
        \E q \in Proc : /\ OnQueue(q) /\ (~proc[q].checked \/ proc[q].pc = "cancel")
                        /\ InCycle(Snapshot, <<>>, q)
                        /\ q \in Reached(Snapshot, <<>>, {p})
                        /\ p \in Reached(Snapshot, <<>>, {q})

(* Nobody gives up in vain: if some order of the wait queues had no cycle, *)
(* DeadLockCheck does not report a hard deadlock.  (DeadLockCheckRecurse   *)
(* tries single soft edges of one cycle after another; TopoSort.)          *)
HardMeansHopeless ==
    \A p \in Proc :
        OnQueue(p) /\ ~proc[p].checked /\ DeadLockCheck(Snapshot, p).hard =>
            \A orders \in AllOrders(Snapshot) :
                \E q \in Proc : InCycle(Snapshot, orders, q)
=============================================================================
