----------------------------- MODULE PgBgWorker -----------------------------
(* Background workers (bgworker.c, postmaster.c): the postmaster's list of *)
(* registered workers, the slots in shared memory through which backends   *)
(* register and terminate workers, starting, reaping and forgetting them,  *)
(* the crash of a child with the reinitialization that follows, and        *)
(* shutdown.  The engine's inspectors are workers of this kind, registered *)
(* when the library is loaded and never restarted.                         *)
(*                                                                         *)
(* The postmaster's signal handlers and the body of its loop run with      *)
(* signals blocked: each is one step.  Backends share the slots with it    *)
(* and with one another; they take BackgroundWorkerLock, it does not.      *)
(* Every worker here is connected to a database and starts when recovery   *)
(* has finished.                                                           *)
EXTENDS Integers, Sequences, SequencesExt, FiniteSets, FiniteSetsExt

CONSTANTS Static,       \* workers that a preloaded library registers
          NeverRestart, \* those, of all registrations, with BGW_NEVER_RESTART
          Client,       \* ordinary backends
          MaxReg,       \* bound: registrations by backends
          MaxWorkers,   \* max_worker_processes
          MaxPid,       \* bound: worker processes at a time
          Failures,     \* how a start may fail: "nofork", "nomem"
          MaxFault,     \* bound: children that crash and starts that fail
          Shutdowns     \* the kinds of shutdown that may be requested

Dynamic == 1 .. MaxReg
Reg == Static \cup Dynamic
Pid == 1 .. MaxPid
SlotNo == 0 .. MaxWorkers - 1

ASSUME BgAssumption == /\ {MaxReg, MaxPid, MaxFault} \subseteq Nat
                       /\ MaxWorkers \in Nat \ {0} /\ MaxWorkers <= MaxPid
                       /\ IsFiniteSet(Static)
                       /\ Cardinality(Static) <= MaxWorkers
                       /\ Static \cap Dynamic = {} /\ NeverRestart \subseteq Reg
                       /\ Failures \subseteq {"nofork", "nomem"}
                       /\ Shutdowns \subseteq {"smart", "fast"}

VARIABLES pm,       \* the postmaster: pmState, FatalError, Shutdown,
                    \* StartWorkerNeeded, HaveCrashedWorker, entries of
                    \* BackendList whose process was never forked
          list,     \* BackgroundWorkerList
          slot,     \* the array in shared memory
          proc,     \* the worker processes
          client,   \* the ordinary backends
          change,   \* PMSIGNAL_BACKGROUND_WORKER_CHANGE was sent
          hist      \* what happened: starts of the workers that are never
                    \* restarted, terminations asked for, bounds

bgVars == <<pm, list, slot, proc, client, change, hist>>

None == 0
InvalidPid == -1

FreeSlot == [in_use |-> FALSE, terminate |-> FALSE, pid |-> None, generation |-> 0,
             reg |-> None, notify |-> None]

NoHandle == [slot |-> 0, generation |-> -1, reg |-> None]
Gone == [pc |-> "gone", handle |-> NoHandle, latch |-> FALSE, wait |-> FALSE]

(* RegisterBackgroundWorker, for each static worker. *)
RegisterBackgroundWorker(reg) == [reg |-> reg, notify |-> None, slot |-> 0, pid |-> None,
                                  crashed |-> FALSE, terminate |-> FALSE]

(* BackgroundWorkerShmemInit: the list's order is the slots' order, and    *)
(* nobody of an earlier life waits for news.                               *)
ShmemSlots(l) == [n \in SlotNo |->
                    IF n < Len(l)
                    THEN [FreeSlot EXCEPT !.in_use = TRUE, !.pid = InvalidPid,
                                          !.reg = l[n + 1].reg]
                    ELSE FreeSlot]
ShmemList(l) == [i \in DOMAIN l |-> [l[i] EXCEPT !.slot = i - 1, !.notify = None]]

BgInit ==
  /\ pm = [state |-> "STARTUP", FatalError |-> FALSE, Shutdown |-> "no",
           StartWorkerNeeded |-> TRUE, HaveCrashedWorker |-> FALSE, ghosts |-> 0]
  /\ \E order \in SetToSeqs(Static) :
       list = ShmemList([i \in DOMAIN order |-> RegisterBackgroundWorker(order[i])])
  /\ slot = ShmemSlots(list)
  /\ proc = [p \in Pid |-> "free"]
  /\ client = [c \in Client |-> Gone]
  /\ change = FALSE
  /\ hist = [starts |-> [r \in NeverRestart |-> 0], asked |-> {}, regs |-> 0, crashes |-> 0,
             fails |-> 0]

-----------------------------------------------------------------------------
(* The postmaster's handlers are functions of its view of the world.       *)

View == [pm |-> pm, list |-> list, slot |-> slot, proc |-> proc, client |-> client,
         change |-> change, hist |-> hist]

Become(view) ==
  \E V \in {view} : /\ pm' = V.pm /\ list' = V.list /\ slot' = V.slot /\ proc' = V.proc
                    /\ client' = V.client /\ change' = V.change /\ hist' = V.hist

(* kill(notify_pid, SIGUSR1): the backend's handler sets its latch while   *)
(* it is in WaitForBackgroundWorkerStartup.                                *)
Notified(V, c) ==
  IF c = None \/ V.client[c].pc \notin {"look", "sleep"} THEN V
  ELSE [V EXCEPT !.client[c].latch = TRUE]


ReportBackgroundWorkerPID(V, rw) ==
  Notified([V EXCEPT !.slot[rw.slot].pid = rw.pid], rw.notify)

(* ForgetBackgroundWorker, for the entries whose slots are in gone. *)
ForgetBackgroundWorkers(V, gone) ==
  [V EXCEPT !.list = SelectSeq(@, LAMBDA rw : rw.slot \notin gone),
            !.slot = [n \in SlotNo |-> IF n \in gone THEN [@[n] EXCEPT !.in_use = FALSE]
                                       ELSE @[n]]]

(* What maybe_start_bgworker finds on its way down the list: the entries   *)
(* whose restart time is over are due.                                     *)
Never(rw) == rw.reg \in NeverRestart
Doomed(rw) == rw.pid = None /\ (rw.terminate \/ (rw.crashed /\ Never(rw)))
TooEarly(rw, due) == rw.pid = None /\ ~Doomed(rw) /\ rw.crashed /\ rw.reg \notin due
Startable(rw, due) == rw.pid = None /\ ~Doomed(rw) /\ ~TooEarly(rw, due)

(* assign_backendlist_entry and do_start_bgworker for the entry at k.      *)
(* Without memory the worker counts as crashed; when fork() fails the      *)
(* entry of BackendList is pushed all the same.                            *)
StartWorker(V, k, outcome) ==
  CASE outcome = "started" ->
         LET pid == CHOOSE p \in Pid : V.proc[p] = "free"
             rw  == [V.list[k] EXCEPT !.pid = pid, !.crashed = FALSE]
         IN ReportBackgroundWorkerPID(
              [V EXCEPT !.list[k] = rw, !.proc[pid] = "run",
                        !.hist.starts = [r \in NeverRestart |->
                           IF r = rw.reg THEN Min({2, @[r] + 1}) ELSE @[r]]], rw)
    [] outcome = "nofork" ->
         [V EXCEPT !.list[k].crashed = FALSE, !.pm.ghosts = @ + 1, !.hist.fails = @ + 1]
    [] outcome = "nomem" ->
         [V EXCEPT !.list[k].crashed = TRUE, !.hist.fails = @ + 1]

(* maybe_start_bgworker: at most one worker is started. *)
maybe_start_bgworker(V, due, outcome) ==
  IF V.pm.FatalError
  THEN [V EXCEPT !.pm.StartWorkerNeeded = FALSE, !.pm.HaveCrashedWorker = FALSE]
  ELSE LET ready == {i \in DOMAIN V.list : V.pm.state = "RUN" /\ Startable(V.list[i], due)}
           k     == IF ready = {} THEN Len(V.list) + 1 ELSE Min(ready)
           W     == IF ready = {} THEN V ELSE StartWorker(V, k, outcome)
           gone  == {V.list[i].slot : i \in {j \in 1 .. k - 1 : Doomed(V.list[j])}}
       IN [ForgetBackgroundWorkers(W, gone) EXCEPT
             !.pm.StartWorkerNeeded = IF ready # {} /\ outcome = "nomem" THEN @
                                      ELSE ready # {},
             !.pm.HaveCrashedWorker = \E i \in 1 .. k - 1 : TooEarly(V.list[i], due)]

(* A start succeeds, or fails while the bound allows; the worker whose     *)
(* restart time is over is due.                                            *)
Faults(V) == V.hist.crashes + V.hist.fails
Outcomes(V) == {"started"} \cup (IF Faults(V) < MaxFault THEN Failures ELSE {})
Crashed(V) == {rw.reg : rw \in {r \in Range(V.list) : r.crashed /\ ~Never(r)}}
MaybeStart(view) ==
  \E V \in {view} : \E due \in SUBSET Crashed(V), outcome \in Outcomes(V) :
    Become(maybe_start_bgworker(V, due, outcome))

-----------------------------------------------------------------------------
(* BackgroundWorkerStateChange: what backends did to the slots.            *)

Known(V, n) == \E i \in DOMAIN V.list : V.list[i].slot = n

(* PostmasterMarkPIDForWorkerNotify: a registrant that is gone is not told. *)
Listening(V, c) == IF c # None /\ V.client[c].pc # "gone" THEN c ELSE None

(* Mutant: the slot is freed at once. *)
NoticeKnownFrees(V, n) ==
  LET i == CHOOSE j \in DOMAIN V.list : V.list[j].slot = n
  IN IF ~V.slot[n].terminate \/ V.list[i].terminate THEN V
     ELSE [V EXCEPT !.list[i].terminate = TRUE, !.slot[n].in_use = FALSE]

NoticeKnown(V, n) ==
  LET i  == CHOOSE j \in DOMAIN V.list : V.list[j].slot = n
      rw == V.list[i]
  IN IF ~V.slot[n].terminate \/ rw.terminate THEN V
     ELSE LET W == [V EXCEPT !.list[i].terminate = TRUE]
          IN IF rw.pid # None
             THEN [W EXCEPT !.proc[rw.pid] = IF @ = "run" THEN "term" ELSE @]
             ELSE ReportBackgroundWorkerPID(W, rw)

NoticeNew(V, n) ==
  IF V.slot[n].terminate
  THEN Notified([V EXCEPT !.slot[n].pid = None, !.slot[n].in_use = FALSE], V.slot[n].notify)
  ELSE [V EXCEPT !.list = <<[reg |-> V.slot[n].reg, slot |-> n, pid |-> None,
                             notify |-> Listening(V, V.slot[n].notify),
                             crashed |-> FALSE, terminate |-> FALSE]>> \o @]

Notice(V, n) == IF ~V.slot[n].in_use THEN V
                ELSE IF Known(V, n) THEN NoticeKnown(V, n) ELSE NoticeNew(V, n)

BackgroundWorkerStateChange(V) ==
  FoldLeft(LAMBDA W, n : Notice(W, n), V, [i \in 1 .. MaxWorkers |-> i - 1])

(* sigusr1_handler. *)
sigusr1_handler ==
  /\ change /\ pm.state # "EXITED"
  /\ MaybeStart([BackgroundWorkerStateChange([View EXCEPT !.change = FALSE])
                   EXCEPT !.pm.StartWorkerNeeded = TRUE])

-----------------------------------------------------------------------------
(* The loop: DetermineSleepTime before it sleeps, a start after it wakes.  *)

DetermineSleepTime ==
  /\ pm.state # "EXITED" /\ pm.Shutdown = "no"
  /\ pm.HaveCrashedWorker /\ ~pm.StartWorkerNeeded
  /\ LET over == {rw \in Range(list) : rw.crashed /\ (Never(rw) \/ rw.terminate)}
     IN Become(ForgetBackgroundWorkers(View, {rw.slot : rw \in over}))

ServerLoop == /\ pm.state # "EXITED"
              /\ pm.StartWorkerNeeded \/ pm.HaveCrashedWorker
              /\ MaybeStart(View)

(* The same, when every restart time is over. *)
ServerLoopLater == /\ pm.state # "EXITED"
                   /\ pm.StartWorkerNeeded \/ pm.HaveCrashedWorker
                   /\ \E outcome \in Outcomes(View) :
                        Become(maybe_start_bgworker(View, Crashed(View), outcome))

(* BackendStartup. *)
Connect(c) == /\ pm.state = "RUN" /\ client[c].pc = "gone"
              /\ client' = [client EXCEPT ![c] = [Gone EXCEPT !.pc = "up"]]
              /\ UNCHANGED <<pm, list, slot, proc, change, hist>>

-----------------------------------------------------------------------------
(* reaper.                                                                 *)

Running(V) == {c \in Client : V.client[c].pc # "gone"}
WorkersLeft(V) == {i \in DOMAIN V.list : V.list[i].pid # None}

(* PostmasterStateMachine, once the children are gone: exit, or            *)
(* reinitialize shared memory and start over; the crash times of workers   *)
(* that are never restarted are kept.                                      *)
(* Mutant: the crash times of all workers are reset. *)
ReinitializeAll(V) ==
  LET l == ShmemList([i \in DOMAIN V.list |-> [V.list[i] EXCEPT !.crashed = FALSE]])
  IN [V EXCEPT !.pm.state = "STARTUP", !.list = l, !.slot = ShmemSlots(l), !.change = FALSE]

Reinitialize(V) ==
  LET l == ShmemList([i \in DOMAIN V.list |->
                        [V.list[i] EXCEPT !.crashed = @ /\ Never(V.list[i])]])
  IN [V EXCEPT !.pm.state = "STARTUP", !.list = l, !.slot = ShmemSlots(l), !.change = FALSE]

PostmasterStateMachine(V) ==
  IF V.pm.state # "WAIT_BACKENDS" \/ Running(V) # {} \/ WorkersLeft(V) # {} \/ V.pm.ghosts > 0
  THEN V
  ELSE IF V.pm.Shutdown # "no" THEN [V EXCEPT !.pm.state = "EXITED"]
  ELSE Reinitialize(V)

(* HandleChildCrash: everybody else is told to quit, once. *)
Quit(pc) == IF pc \in {"gone", "exit1", "exit2"} THEN pc ELSE "quit"
(* Mutant: only the backends are told. *)
HandleChildCrashBackends(V) ==
  [V EXCEPT !.client = [c \in Client |-> [V.client[c] EXCEPT !.pc = Quit(@)]],
            !.pm.FatalError = TRUE,
            !.pm.state = IF @ = "RUN" THEN "WAIT_BACKENDS" ELSE @]

HandleChildCrash(V) ==
  LET W == IF V.pm.FatalError THEN V
           ELSE [V EXCEPT !.proc = [p \in Pid |-> IF V.proc[p] \in {"run", "term"}
                                                 THEN "quit" ELSE V.proc[p]],
                          !.client = [c \in Client |->
                             [V.client[c] EXCEPT !.pc = Quit(@)]]]
  IN [W EXCEPT !.pm.FatalError = TRUE,
               !.pm.state = IF @ = "RUN" THEN "WAIT_BACKENDS" ELSE @]

(* CleanupBackgroundWorker: the entry at i, whose process ended. *)
CleanupBackgroundWorker(V, i, status) ==
  LET pid == V.list[i].pid
      rw  == [V.list[i] EXCEPT !.pid = None, !.crashed = status # "exit0",
                               !.terminate = @ \/ status = "exit0"]
      W   == [V EXCEPT !.list[i] = rw, !.proc[pid] = "free", !.pm.HaveCrashedWorker = TRUE]
  IN IF status = "exit2" THEN HandleChildCrash(W) ELSE ReportBackgroundWorkerPID(W, rw)

ReapWorker(p) == /\ proc[p] \in {"exit0", "exit1", "exit2"} /\ pm.state # "EXITED"
                 /\ \E i \in DOMAIN list :
                      /\ list[i].pid = p
                      /\ Become(PostmasterStateMachine(
                                  CleanupBackgroundWorker(View, i, proc[p])))

(* CleanupBackend, with BackgroundWorkerStopNotifications. *)
CleanupBackend(V, c, status) ==
  LET W == [V EXCEPT !.client[c] = Gone]
  IN IF status = "exit2" THEN HandleChildCrash(W)
     ELSE [W EXCEPT !.list = [i \in DOMAIN V.list |->
                                [V.list[i] EXCEPT !.notify = IF @ = c THEN None ELSE @]]]

ReapBackend(c) == /\ client[c].pc \in {"exit1", "exit2"} /\ pm.state # "EXITED"
                  /\ Become(PostmasterStateMachine(CleanupBackend(View, c, client[c].pc)))

(* The startup process has ended: normal operation. *)
ReapStartup == /\ pm.state = "STARTUP"
               /\ MaybeStart([View EXCEPT !.pm.state = "RUN", !.pm.FatalError = FALSE])

-----------------------------------------------------------------------------
(* pmdie: SIGTERM is smart, SIGINT is fast.                                *)

Terminated(pc) == IF pc \in {"gone", "exit1", "exit2", "quit"} THEN pc ELSE "term"

Shutdown(kind) ==
  /\ pm.state \in {"RUN", "WAIT_BACKENDS"}
  /\ pm.Shutdown = "no" \/ (pm.Shutdown = "smart" /\ kind = "fast")
  /\ LET told == kind = "fast" \/ pm.state = "RUN"
     IN Become(PostmasterStateMachine(
          [View EXCEPT
             !.pm.Shutdown = kind, !.pm.state = "WAIT_BACKENDS",
             !.proc = [p \in Pid |-> IF proc[p] = "run" /\ told THEN "term" ELSE proc[p]],
             !.client = [c \in Client |->
                           [client[c] EXCEPT !.pc = IF kind = "fast" THEN Terminated(@)
                                                    ELSE @]]]))

-----------------------------------------------------------------------------
(* The worker processes.  A worker of the engine ends with status 1 in     *)
(* every case; others may return.                                          *)

Ends(p, status) == /\ proc' = [proc EXCEPT ![p] = status]
                   /\ UNCHANGED <<pm, list, slot, client, change>>

WorkerObeys(p) == /\ \/ proc[p] = "term" /\ Ends(p, "exit1")
                     \/ proc[p] = "quit" /\ Ends(p, "exit2")
                  /\ UNCHANGED hist

RegOf(p) == CHOOSE r \in Reg : \E i \in DOMAIN list : list[i].pid = p /\ list[i].reg = r

WorkerEnds(p) == /\ proc[p] = "run"
                 /\ \/ Ends(p, "exit1")
                    \/ RegOf(p) \in Dynamic /\ Ends(p, "exit0")
                 /\ UNCHANGED hist

(* Killed by the system, or a fault. *)
WorkerCrashes(p) == /\ proc[p] \in {"run", "term"} /\ Faults(View) < MaxFault
                    /\ Ends(p, "exit2")
                    /\ hist' = [hist EXCEPT !.crashes = @ + 1]

-----------------------------------------------------------------------------
(* The backends.                                                           *)

Sets(c, rec) == client' = [client EXCEPT ![c] = rec]

(* RegisterDynamicBackgroundWorker, up to the signal, by a backend that    *)
(* will wait for the worker or not.  Of its handles a backend uses one     *)
(* later, the new one or the one it had.                                   *)
RegisterDynamicBackgroundWorker(c, wait) ==
  /\ client[c].pc = "up" /\ hist.regs < MaxReg
  /\ LET free == {n \in SlotNo : ~slot[n].in_use}
         n    == Min(free)
         reg  == hist.regs + 1
         gen  == slot[n].generation + 1
     IN /\ free # {}
        /\ slot' = [slot EXCEPT ![n] = [in_use |-> TRUE, terminate |-> FALSE,
                                        pid |-> InvalidPid, generation |-> gen,
                                        reg |-> reg,
                                        notify |-> IF wait THEN c ELSE None]]
        /\ \E h \in {[slot |-> n, generation |-> gen, reg |-> reg]}
                     \cup (IF wait THEN {} ELSE {client[c].handle}) :
              Sets(c, [pc |-> "signal", wait |-> wait, latch |-> FALSE, handle |-> h])
        /\ hist' = [hist EXCEPT !.regs = reg]
  /\ UNCHANGED <<pm, list, proc, change>>

(* SendPostmasterSignal. *)
SendSignal(c) == /\ client[c].pc = "signal"
                 /\ change' = TRUE
                 /\ Sets(c, [client[c] EXCEPT !.pc = IF client[c].wait THEN "look" ELSE "up"])
                 /\ UNCHANGED <<pm, list, slot, proc, hist>>

(* GetBackgroundWorkerPid. *)
PidOf(h) == IF h.generation # slot[h.slot].generation THEN None ELSE slot[h.slot].pid

(* WaitForBackgroundWorkerStartup. *)
WaitForBackgroundWorkerStartup(c) ==
  /\ client[c].pc = "look"
  /\ Sets(c, IF PidOf(client[c].handle) = InvalidPid
             THEN [client[c] EXCEPT !.pc = "sleep"]
             ELSE [client[c] EXCEPT !.pc = "up", !.wait = FALSE, !.latch = FALSE])
  /\ UNCHANGED <<pm, list, slot, proc, change, hist>>

WakeUp(c) == /\ client[c].pc = "sleep" /\ client[c].latch
             /\ Sets(c, [client[c] EXCEPT !.pc = "look", !.latch = FALSE])
             /\ UNCHANGED <<pm, list, slot, proc, change, hist>>

(* Mutant: the generation is not looked at. *)
TerminateAnyGeneration(c) ==
  /\ client[c].pc = "up" /\ client[c].handle # NoHandle
  /\ slot' = [slot EXCEPT ![client[c].handle.slot].terminate = TRUE]
  /\ hist' = [hist EXCEPT !.asked = @ \cup {client[c].handle.reg}]
  /\ Sets(c, [client[c] EXCEPT !.pc = "signal", !.handle = NoHandle])
  /\ UNCHANGED <<pm, list, proc, change>>

(* TerminateBackgroundWorker; the handle is not used again. *)
TerminateBackgroundWorker(c) ==
  LET h == client[c].handle
      live == h.generation = slot[h.slot].generation
  IN /\ client[c].pc = "up" /\ h # NoHandle
     /\ slot' = IF live THEN [slot EXCEPT ![h.slot].terminate = TRUE] ELSE slot
     /\ hist' = IF live THEN [hist EXCEPT !.asked = @ \cup {h.reg}] ELSE hist
     /\ Sets(c, [client[c] EXCEPT !.pc = IF live THEN "signal" ELSE "up",
                                  !.handle = NoHandle])
     /\ UNCHANGED <<pm, list, proc, change>>

BackendEnds(c) == /\ client[c].pc \in {"up", "term"}
                  /\ Sets(c, [Gone EXCEPT !.pc = "exit1"])
                  /\ UNCHANGED <<pm, list, slot, proc, change, hist>>

BackendObeysQuit(c) == /\ client[c].pc = "quit"
                       /\ Sets(c, [Gone EXCEPT !.pc = "exit2"])
                       /\ UNCHANGED <<pm, list, slot, proc, change, hist>>

BackendCrashes(c) == /\ client[c].pc \notin {"gone", "exit1", "exit2", "quit"}
                     /\ Faults(View) < MaxFault
                     /\ Sets(c, [Gone EXCEPT !.pc = "exit2"])
                     /\ hist' = [hist EXCEPT !.crashes = @ + 1]
                     /\ UNCHANGED <<pm, list, slot, proc, change>>

-----------------------------------------------------------------------------
Reaper == (\E p \in Pid : ReapWorker(p)) \/ (\E c \in Client : ReapBackend(c)) \/ ReapStartup

Backend(c) == SendSignal(c) \/ WaitForBackgroundWorkerStartup(c) \/ WakeUp(c)
              \/ BackendObeysQuit(c)

BgNext ==
  \/ Reaper \/ sigusr1_handler \/ DetermineSleepTime \/ ServerLoop
  \/ \E kind \in Shutdowns : Shutdown(kind)
  \/ \E p \in Pid : WorkerObeys(p) \/ WorkerEnds(p) \/ WorkerCrashes(p)
  \/ \E c \in Client : \/ Connect(c) \/ Backend(c) \/ TerminateBackgroundWorker(c)
                       \/ BackendEnds(c) \/ BackendCrashes(c)
                       \/ \E wait \in BOOLEAN : RegisterDynamicBackgroundWorker(c, wait)

BgSpec == BgInit /\ [][BgNext]_bgVars

(* The postmaster handles its signals and goes round its loop, time        *)
(* passes; processes do what signals tell them, and clients end their      *)
(* sessions.                                                               *)
BgFairSpec ==
  /\ BgSpec
  /\ WF_bgVars(ReapStartup) /\ WF_bgVars(sigusr1_handler) /\ WF_bgVars(ServerLoopLater)
  /\ \A p \in Pid : WF_bgVars(WorkerObeys(p) \/ ReapWorker(p))
  /\ \A c \in Client : WF_bgVars(Backend(c) \/ BackendEnds(c) \/ ReapBackend(c))

-----------------------------------------------------------------------------
(* Properties.                                                             *)

(* "a 1-to-1 correspondence between the postmaster's private list and the  *)
(* array in shared memory" (BackgroundWorkerShmemInit): no slot is free,   *)
(* or another worker's, while the list has an entry for it, and the slot   *)
(* tells the pid of a worker that runs.  No process is forgotten either:   *)
(* every worker process has its entry, so that it is told to quit when     *)
(* another crashes, and is waited for.                                     *)
SlotsMatchList ==
  /\ \A i, j \in DOMAIN list : list[i].slot = list[j].slot => i = j
  /\ \A rw \in Range(list) : /\ slot[rw.slot].in_use /\ slot[rw.slot].reg = rw.reg
                             /\ rw.pid # None => slot[rw.slot].pid = rw.pid
  /\ \A p \in Pid : proc[p] # "free" => \E rw \in Range(list) : rw.pid = p

(* A worker that is never restarted is started at most once: not after an  *)
(* error of its own, and not when the system is reinitialized because      *)
(* another process crashed.                                                *)
NeverMeansOnce == \A r \in NeverRestart : hist.starts[r] <= 1

(* A backend that terminates a worker through an old handle does not hit   *)
(* the worker that has the slot now.                                       *)
TerminateHitsItsOwn == \A n \in SlotNo : slot[n].terminate => slot[n].reg \in hist.asked


(* The system comes back after a crash, or goes down if that was asked     *)
(* for, and a fast shutdown ends.  (Not a smart one that waits for its     *)
(* clients, and not with an entry of BackendList that no process belongs   *)
(* to, which a failed fork leaves behind.)                                 *)
SystemSettles ==
  (pm.FatalError \/ pm.Shutdown = "fast")
    ~> \/ ~pm.FatalError /\ pm.Shutdown = "no"
       \/ pm.state = "EXITED" \/ pm.Shutdown = "smart" \/ pm.ghosts > 0
=============================================================================
