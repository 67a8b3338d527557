---------------------------- MODULE WedInspector ----------------------------
(* The background worker that runs job_inspector (wed_worker.c): its       *)
(* signal handlers, its loop around WaitLatch, the reload of its           *)
(* configuration, and the ways it ends.  The latch is that of PgLatch; the *)
(* worker is its owner.  What job_inspector does to the tables is          *)
(* WedKernel's; here it commits or fails.                                  *)
EXTENDS PgLatch

CONSTANTS Naptimes,   \* the values of wed_worker.naptime in the config file
          MS          \* milliseconds in a second

ASSUME InspectorAssumption == /\ Naptimes \subseteq 1 .. 2^(IntBits - 1) - 1
                              /\ MS \in Nat \ {0}

VARIABLES got,        \* got_sighup, got_sigterm, and QueryCancelPending
          pending,    \* signals sent and not yet handled
          file,       \* wed_worker.naptime in the configuration file
          naptime,    \* wed_worker_naptime
          why         \* how the process ended

inspVars == <<latchVars, got, pending, file, naptime, why>>

Signal == {"hup", "term", "int"}
Running == why = "running"

(* Type invariant. *)
InspectorTypeOK ==
  /\ owner.pc \in {"dead", "init", "connect", "top", "wait", "drain", "check", "poll",
                   "reset", "test", "bailout", "load", "txn", "commit"}
  /\ got \subseteq Signal /\ pending \subseteq Signal
  /\ {file, naptime} \subseteq Naptimes
  /\ why \in {"running", "term", "death", "error", "cancel", "noconnect"}
  /\ Running <=> ~At("dead")
  /\ owner.waiting <=> owner.pc \in {"drain", "check", "poll"}

(* StartBackgroundWorker has made the process the owner of its latch       *)
(* (InitProcess) and runs wed_worker_main; signals are still blocked.      *)
InspectorInit == /\ LatchStart("init")
                 /\ got = {} /\ pending = {} /\ why = "running"
                 /\ file \in Naptimes /\ naptime = file

-----------------------------------------------------------------------------
(* The world around the worker.                                            *)

(* SIGHUP comes from the postmaster (SIGHUP_handler), SIGTERM from it or   *)
(* from pg_terminate_backend, SIGINT from pg_cancel_backend.               *)
Kill(sig) == /\ Running /\ sig \notin pending
             /\ sig = "hup" => alive
             /\ pending' = pending \cup {sig}
             /\ UNCHANGED <<latchVars, got, file, naptime, why>>

EditConfig(n) == /\ Running /\ n # file /\ file' = n
                 /\ UNCHANGED <<latchVars, got, pending, naptime, why>>

-----------------------------------------------------------------------------
(* The signal handlers.  Signals are blocked until wed_worker_main unblocks *)
(* them.                                                                    *)

Deliver(sig) == /\ sig \in pending /\ Running /\ ~At("init")
                /\ pending' = pending \ {sig}
                /\ got' = got \cup {sig}
                /\ UNCHANGED <<usr1, setter, alive, file, naptime, why>>

(* wed_worker_sighup, wed_worker_sigterm, StatementCancelHandler: a flag,  *)
(* then SetLatch.                                                          *)
Handle(sig) == Deliver(sig) /\ SetOwnLatch

HandleUsr1 == /\ ~At("init") /\ latch_sigusr1_handler
              /\ UNCHANGED <<got, pending, file, naptime, why>>

-----------------------------------------------------------------------------
(* wed_worker_main.                                                        *)

Keep == UNCHANGED <<latch, usr1, setter, alive, pending, file>>

(* proc_exit. *)
Exit(reason) == /\ owner' = Dead /\ why' = reason
                /\ got' = {} /\ pending' = {} /\ usr1' = FALSE
                /\ latch' = [latch EXCEPT !.owned = FALSE]
                /\ UNCHANGED <<setter, alive, file, naptime>>

UnblockSignals == /\ At("init") /\ Goto("connect") /\ Keep
                  /\ UNCHANGED <<got, naptime, why>>

InitializeConnection == /\ At("connect") /\ Goto("top") /\ Keep
                        /\ UNCHANGED <<got, naptime, why>>

(* The database or the role is missing, or no connection is left. *)
ConnectionRefused == At("connect") /\ Exit("noconnect")

(* Mutant: for (;;) *)
LoopTestNever == /\ At("top")
                 /\ Goto("wait") /\ Keep /\ UNCHANGED <<got, naptime, why>>

(* while (!got_sigterm) *)
LoopTest == /\ At("top") /\ "term" \notin got
            /\ Goto("wait") /\ Keep /\ UNCHANGED <<got, naptime, why>>

LoopEnd == At("top") /\ "term" \in got /\ Exit("term")

InLatch(A) == A /\ UNCHANGED <<got, pending, file, naptime, why>>

(* Mutant: without WL_TIMEOUT. *)
NapForever == InLatch(WaitLatch(-1))

Nap == InLatch(WaitLatch(naptime * MS))

ProcDeath == At("bailout") /\ Exit("death")

(* if (got_sighup) { got_sighup = false; ... *)
TestSighup == /\ At("test")
              /\ Goto(IF "hup" \in got THEN "load" ELSE "txn")
              /\ got' = got \ {"hup"}
              /\ Keep /\ UNCHANGED <<naptime, why>>

ProcessConfigFile == /\ At("load") /\ naptime' = file /\ Goto("txn")
                     /\ Keep /\ UNCHANGED <<got, why>>

(* SELECT job_inspector(): a cancel that is pending when it begins is      *)
(* raised; one that comes while it runs may be raised or not.              *)
Inspect == /\ At("txn") /\ "int" \notin got
           /\ Goto("commit") /\ Keep /\ UNCHANGED <<got, naptime, why>>

Cancelled == /\ At("txn") \/ At("commit")
             /\ "int" \in got /\ Exit("cancel")

(* An error of job_inspector reaches the handler of StartBackgroundWorker. *)
InspectionFails == At("commit") /\ Exit("error")

Commit == /\ At("commit") /\ Goto("top")
          /\ Keep /\ UNCHANGED <<got, naptime, why>>

(* Mutant: the file is read first and the flag reset afterwards: a signal  *)
(* that arrives between the two is lost.                                   *)
StepClearsLate ==
  \/ UnblockSignals \/ InitializeConnection \/ LoopTest \/ LoopEnd \/ Nap
  \/ InLatch(WaitStep) \/ InLatch(ResetLatch) \/ ProcDeath
  \/ /\ At("test") /\ "hup" \in got /\ naptime' = file /\ Goto("load")
     /\ Keep /\ UNCHANGED <<got, why>>
  \/ /\ At("test") /\ "hup" \notin got /\ Goto("txn")
     /\ Keep /\ UNCHANGED <<got, naptime, why>>
  \/ /\ At("load") /\ got' = got \ {"hup"} /\ Goto("txn")
     /\ Keep /\ UNCHANGED <<naptime, why>>
  \/ Inspect \/ Cancelled \/ Commit

(* One iteration, or a part of one. *)
Step == \/ UnblockSignals \/ InitializeConnection \/ LoopTest \/ LoopEnd \/ Nap
        \/ InLatch(WaitStep) \/ InLatch(ResetLatch) \/ ProcDeath
        \/ TestSighup \/ ProcessConfigFile
        \/ Inspect \/ Cancelled \/ Commit

(* The other processes leave, too, when the postmaster dies, and set no    *)
(* latch from then on.                                                     *)
Environment == \/ \E sig \in Signal : Kill(sig)
               \/ \E n \in Naptimes : EditConfig(n)
               \/ Running /\ InLatch(PostmasterDies)
               \/ \E s \in Setter : InLatch(alive /\ SetLatchTest(s))

InspectorNext == \/ Environment
                 \/ \E s \in Setter : InLatch(SetLatchGoesOn(s))
                 \/ \E sig \in Signal : Handle(sig)
                 \/ HandleUsr1 \/ InLatch(PollTimeout)
                 \/ Step \/ ConnectionRefused \/ InspectionFails

InspectorSpec == InspectorInit /\ [][InspectorNext]_inspVars

(* The process is scheduled, signals are delivered, poll() returns when    *)
(* its time is over, which WaitLatch keeps count of when signals interrupt *)
(* it, and a process that began to set the latch goes on.                  *)
InspectorFairSpec ==
  /\ InspectorSpec
  /\ WF_inspVars(Step)
  /\ SF_inspVars(InLatch(PollTimeout)) /\ WF_inspVars(HandleUsr1)
  /\ \A sig \in {"hup", "term"} : WF_inspVars(Handle(sig))
  /\ \A s \in Setter : WF_inspVars(InLatch(SetLatchGoesOn(s)))

-----------------------------------------------------------------------------
(* Properties.                                                             *)

(* The worker does not sleep through a signal: when it is in poll() with   *)
(* nothing to wake it, the loop has acted on every flag the handlers set,  *)
(* at whatever point of the loop the signal came; or else a handler found  *)
(* the latch set by another process, which has yet to signal the worker.   *)
NothingSleptThrough == Asleep /\ got # {} => \E s \in Setter : Signalling(s)

(* The worker ends when it is told to, by a SIGTERM, also when that comes  *)
(* while signals are blocked or while job_inspector runs, and it does not  *)
(* outlive the postmaster; neither waits for the nap to end.               *)
EndsWhenTold == ("term" \in pending \/ ~alive) ~> ~Running

(* A SIGHUP makes the worker use what the file holds, also when it comes   *)
(* while a reload is going on.                                             *)
ReloadTakesEffect ==
  \A n \in Naptimes : ("hup" \in pending /\ file = n)
                        ~> (naptime = n \/ file # n \/ ~Running)

(* The naptimes that fit the int of poll() in milliseconds. *)
Fit == {n \in Naptimes : AsInt(n * MS) = n * MS}

(* The worker inspects again and again, unless it ends, whatever signals   *)
(* and sets of its latch cut its naps short; with a naptime out of range a *)
(* nap may be endless.                                                     *)
InspectsAgain == []<>(At("txn") \/ ~Running \/ naptime \notin Fit)
=============================================================================
