------------------------------ MODULE PgLatch ------------------------------
(* Latches (unix_latch.c): a flag in shared memory that one process, its   *)
(* owner, sleeps on, and that any process, or a signal handler of the      *)
(* owner, sets.  A sleeping owner is woken through a pipe to itself, which *)
(* its signal handlers write to.                                           *)
(*                                                                         *)
(* Every load and store of the shared words is a step of its own.  This    *)
(* module has the steps of the latch; the loop around them is that of the  *)
(* process that owns it (WedInspector).                                    *)
EXTENDS Integers

CONSTANTS Setter,     \* other processes, which set the latch
          IntBits     \* width of int

ASSUME LatchAssumption == IntBits \in Nat \ {0}

VARIABLES latch,    \* is_set, and owned: owner_pid is not 0
          owner,    \* the owning process: where it is, and its private state
          usr1,     \* a SIGUSR1 is pending for the owner
          setter,   \* where each setter is in SetLatch
          alive     \* the postmaster is alive

latchVars == <<latch, owner, usr1, setter, alive>>

Dead == [pc |-> "dead", waiting |-> FALSE, pipe |-> FALSE, timeout |-> 0, rc |-> "none"]

(* InitSharedLatch, InitializeLatchSupport and OwnLatch (InitProcess). *)
LatchStart(pc) ==
  /\ latch = [is_set |-> FALSE, owned |-> TRUE]
  /\ owner = [Dead EXCEPT !.pc = pc]
  /\ usr1 = FALSE /\ alive = TRUE
  /\ setter = [s \in Setter |-> "idle"]

At(pc) == owner.pc = pc
Goto(pc) == owner' = [owner EXCEPT !.pc = pc]

-----------------------------------------------------------------------------
(* The owner.                                                              *)

ResetLatch == /\ At("reset")
              /\ owner' = [owner EXCEPT !.pc = IF owner.rc = "death" THEN "bailout" ELSE "test",
                                        !.rc = "none"]
              /\ latch' = [latch EXCEPT !.is_set = FALSE]
              /\ UNCHANGED <<usr1, setter, alive>>

(* (int) cur_timeout. *)
AsInt(n) == ((n + 2^(IntBits - 1)) % 2^IntBits) - 2^(IntBits - 1)

WaitLatch(t) == /\ At("wait")
                /\ owner' = [owner EXCEPT !.pc = "drain", !.waiting = TRUE, !.timeout = t]
                /\ UNCHANGED <<latch, usr1, setter, alive>>

drainSelfPipe == /\ At("drain")
                 /\ owner' = [owner EXCEPT !.pc = "check", !.pipe = FALSE]
                 /\ UNCHANGED <<latch, usr1, setter, alive>>

WaitReturns(rc) == owner' = [owner EXCEPT !.pc = "reset", !.rc = rc, !.waiting = FALSE,
                                          !.timeout = 0]

CheckLatch == /\ At("check")
              /\ IF latch.is_set THEN WaitReturns("latch") ELSE Goto("poll")
              /\ UNCHANGED <<latch, usr1, setter, alive>>

(* poll() returns for the pipe: no event that WaitLatch reports, once more. *)
PollPipe == /\ At("poll") /\ owner.pipe /\ alive
            /\ Goto("drain")
            /\ UNCHANGED <<latch, usr1, setter, alive>>

PollDeath == /\ At("poll") /\ ~alive
             /\ WaitReturns("death")
             /\ UNCHANGED <<latch, usr1, setter, alive>>

(* A negative timeout is none. *)
PollTimeout == /\ At("poll") /\ ~owner.pipe /\ alive
               /\ AsInt(owner.timeout) >= 0
               /\ WaitReturns("timeout")
               /\ UNCHANGED <<latch, usr1, setter, alive>>

(* Where a handler that ran leaves the owner: a signal may interrupt a     *)
(* poll() that blocks, and on some platforms does not.                     *)
Blocked == At("poll") /\ ~owner.pipe /\ alive
Interrupted == {owner.pc} \cup (IF Blocked THEN {"drain"} ELSE {})

latch_sigusr1_handler ==
  /\ usr1 /\ ~At("dead")
  /\ usr1' = FALSE
  /\ \E pc \in Interrupted :
       owner' = [owner EXCEPT !.pipe = @ \/ owner.waiting, !.pc = pc]
  /\ UNCHANGED <<latch, setter, alive>>

(* SetLatch by a signal handler of the owner. *)
SetOwnLatch ==
  /\ latch' = [latch EXCEPT !.is_set = TRUE]
  /\ \E pc \in Interrupted :
       owner' = [owner EXCEPT !.pipe = @ \/ (~latch.is_set /\ owner.waiting), !.pc = pc]

-----------------------------------------------------------------------------
(* SetLatch by another process.                                            *)

SetterGoto(s, pc) == setter' = [setter EXCEPT ![s] = pc]

(* Quick exit if it is already set. *)
SetLatchTest(s) == /\ setter[s] = "idle" /\ ~latch.is_set
                   /\ SetterGoto(s, "set")
                   /\ UNCHANGED <<latch, owner, usr1, alive>>

SetLatchSet(s) == /\ setter[s] = "set"
                  /\ latch' = [latch EXCEPT !.is_set = TRUE]
                  /\ SetterGoto(s, "owner")
                  /\ UNCHANGED <<owner, usr1, alive>>

SetLatchOwner(s) == /\ setter[s] = "owner"
                    /\ SetterGoto(s, IF latch.owned THEN "kill" ELSE "idle")
                    /\ UNCHANGED <<latch, owner, usr1, alive>>

(* kill(); the process may be gone. *)
SetLatchKill(s) == /\ setter[s] = "kill"
                   /\ usr1' = ~At("dead")
                   /\ SetterGoto(s, "idle")
                   /\ UNCHANGED <<latch, owner, alive>>

PostmasterDies == /\ alive /\ alive' = FALSE
                  /\ UNCHANGED <<latch, owner, usr1, setter>>

-----------------------------------------------------------------------------
(* Mutant: the pipe is drained after the latch was looked at. *)
WaitStepSwapped ==
  \/ /\ At("drain")
     /\ IF latch.is_set THEN WaitReturns("latch") ELSE Goto("check")
     /\ UNCHANGED <<latch, usr1, setter, alive>>
  \/ /\ At("check")
     /\ owner' = [owner EXCEPT !.pc = "poll", !.pipe = FALSE]
     /\ UNCHANGED <<latch, usr1, setter, alive>>
  \/ PollPipe \/ PollDeath

(* WaitLatchOrSocket, between its call and its timeout. *)
WaitStep == drainSelfPipe \/ CheckLatch \/ PollPipe \/ PollDeath

SetLatchGoesOn(s) == SetLatchSet(s) \/ SetLatchOwner(s) \/ SetLatchKill(s)

-----------------------------------------------------------------------------
(* Properties.                                                             *)

Asleep == At("poll") /\ ~owner.pipe /\ ~usr1

(* s has set the latch, and has yet to look up its owner or to signal it. *)
Signalling(s) == setter[s] \in {"owner", "kill"}

(* WaitLatch does not block on a set latch: when its owner is in poll()    *)
(* with nothing to wake it, is_set is unset, or the setter that set it has *)
(* yet to look up the owner or to signal it.                               *)
SetLatchWakes == Asleep /\ latch.is_set => \E s \in Setter : Signalling(s)
=============================================================================
