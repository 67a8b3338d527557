------------------------- MODULE WedInspectorProofs -------------------------
(***************************************************************************)
(* Proofs about the inspector's process and its latch.  A signal sets its  *)
(* flag and then the latch; the flag outlives the latch only between       *)
(* ResetLatch and the test of that flag.  So whoever is about to sleep     *)
(* with a flag set has the latch set, and WaitLatch does not block then.   *)
(***************************************************************************)
EXTENDS WedInspector, TLAPS

-----------------------------------------------------------------------------
(* The invariant *)

Pcs == {"dead", "init", "connect", "top", "wait", "drain", "check", "poll",
        "reset", "test", "bailout", "load", "txn", "commit"}

OwnerType == [pc : Pcs, waiting : BOOLEAN, pipe : BOOLEAN, timeout : Int,
              rc : {"none", "latch", "timeout", "death"}]

LatchTypeOK ==
    /\ latch \in [is_set : BOOLEAN, owned : BOOLEAN]
    /\ owner \in OwnerType
    /\ usr1 \in BOOLEAN /\ alive \in BOOLEAN
    /\ setter \in [Setter -> {"idle", "set", "owner", "kill"}]

(* The owner disowns its latch when it ends. *)
OwnedWhileAlive == ~At("dead") => latch.owned

(* Where the latch has been reset, and the flag is yet to be tested. *)
Untested(sig) ==
    CASE sig = "hup"  -> {"test", "bailout"}
      [] sig = "int"  -> {"test", "bailout", "load", "txn"}
      [] sig = "term" -> {"test", "bailout", "load", "txn", "commit", "top"}

FlagsSetLatch == \A sig \in got : latch.is_set \/ owner.pc \in Untested(sig)

InspectorInv ==
    /\ LatchTypeOK
    /\ InspectorTypeOK
    /\ OwnedWhileAlive
    /\ FlagsSetLatch
    /\ SetLatchWakes

-----------------------------------------------------------------------------
(* Steps *)

Waiting == {"drain", "check", "poll"}

(* The owner goes on as o, and nothing is lost. *)
LEMMA OwnerStep ==
    ASSUME InspectorInv, ~At("dead"), NEW o \in OwnerType, owner' = o, o.pc # "dead",
           o.waiting <=> o.pc \in Waiting,
           latch' \in [is_set : BOOLEAN, owned : BOOLEAN], latch'.owned = latch.owned,
           usr1' \in BOOLEAN, UNCHANGED <<setter, alive, file, why>>,
           got' \subseteq Signal, pending' \subseteq Signal, naptime' \in Naptimes,
           \A sig \in got' : latch'.is_set \/ o.pc \in Untested(sig),
           o.pc = "poll" /\ ~o.pipe /\ ~usr1' /\ latch'.is_set => \E s \in Setter : Signalling(s)
    PROVE  InspectorInv'
  <1>1. LatchTypeOK'
    BY DEF InspectorInv, LatchTypeOK
  <1>2. InspectorTypeOK'
    BY DEF InspectorInv, InspectorTypeOK, OwnerType, Pcs, Waiting, Running, At
  <1>3. OwnedWhileAlive' /\ FlagsSetLatch'
    BY DEF InspectorInv, OwnedWhileAlive, FlagsSetLatch, Untested, At
  <1>4. SetLatchWakes'
    BY DEF SetLatchWakes, Asleep, At, Signalling
  <1> QED
    BY <1>1, <1>2, <1>3, <1>4 DEF InspectorInv

(* proc_exit. *)
LEMMA ExitInv ==
    ASSUME InspectorInv, NEW reason \in {"term", "death", "error", "cancel", "noconnect"},
           Exit(reason)
    PROVE  InspectorInv'
  <1>1. /\ owner' = Dead /\ why' = reason /\ got' = {} /\ pending' = {} /\ usr1' = FALSE
        /\ latch' = [latch EXCEPT !.owned = FALSE] /\ UNCHANGED <<setter, alive, file, naptime>>
    BY DEF Exit
  <1>2. Dead \in OwnerType /\ Dead.pc = "dead" /\ ~Dead.waiting
    BY DEF Dead, OwnerType, Pcs
  <1>3. LatchTypeOK'
    BY <1>1, <1>2 DEF InspectorInv, LatchTypeOK
  <1>4. InspectorTypeOK'
    BY <1>1, <1>2 DEF InspectorInv, InspectorTypeOK, Running, At
  <1>5. OwnedWhileAlive' /\ FlagsSetLatch' /\ SetLatchWakes'
    BY <1>1, <1>2 DEF OwnedWhileAlive, FlagsSetLatch, SetLatchWakes, Asleep, At
  <1> QED
    BY <1>3, <1>4, <1>5 DEF InspectorInv

(* The loop of wed_worker_main outside WaitLatch. *)
LEMMA LoopInv ==
    ASSUME InspectorInv, NEW pc \in Pcs \ (Waiting \cup {"dead"}), Goto(pc), Keep,
           owner.pc \notin Waiting \cup {"dead"},
           naptime' \in Naptimes, UNCHANGED why, got' \subseteq got,
           \A sig \in got' : owner.pc \in Untested(sig) => pc \in Untested(sig)
    PROVE  InspectorInv'
  <1> DEFINE o == [owner EXCEPT !.pc = pc]
  <1>1. owner \in OwnerType /\ ~owner.waiting
    BY DEF InspectorInv, LatchTypeOK, InspectorTypeOK, Waiting
  <1>2. o \in OwnerType /\ o.pc = pc /\ ~o.waiting /\ owner' = o
    BY <1>1 DEF OwnerType, Goto
  <1> HIDE DEF o
  <1>3. UNCHANGED <<latch, usr1, setter, alive, pending, file, why>>
    BY DEF Keep
  <1>4. \A sig \in got' : latch'.is_set \/ o.pc \in Untested(sig)
    BY <1>2, <1>3 DEF InspectorInv, FlagsSetLatch
  <1>5. /\ got' \subseteq Signal /\ pending' \subseteq Signal /\ usr1' \in BOOLEAN
        /\ latch' \in [is_set : BOOLEAN, owned : BOOLEAN]
    BY <1>3 DEF InspectorInv, InspectorTypeOK, LatchTypeOK
  <1>6. (o.waiting <=> o.pc \in Waiting) /\ o.pc # "dead" /\ o.pc # "poll" /\ ~At("dead")
    BY <1>2 DEF Waiting, At
  <1> QED
    BY <1>2, <1>3, <1>4, <1>5, <1>6, OwnerStep

(* The steps of the loop of wed_worker_main outside of WaitLatch. *)
LEMMA LoopSteps ==
    ASSUME InspectorInv,
           \/ UnblockSignals \/ InitializeConnection \/ LoopTest \/ TestSighup
           \/ ProcessConfigFile \/ Inspect \/ Commit
    PROVE  InspectorInv'
  <1>1. got \subseteq Signal /\ naptime \in Naptimes /\ file \in Naptimes
    BY DEF InspectorInv, InspectorTypeOK
  <1>2. CASE UnblockSignals
    <2>1. /\ owner.pc = "init" /\ Goto("connect") /\ Keep /\ UNCHANGED <<got, naptime, why>>
      BY <1>2 DEF UnblockSignals, At
    <2>2. \A sig \in got' : owner.pc \in Untested(sig) => "connect" \in Untested(sig)
      BY <1>1, <2>1 DEF Untested, Signal
    <2> QED
      BY <1>1, <2>1, <2>2, LoopInv DEF Pcs, Waiting
  <1>3. CASE InitializeConnection
    <2>1. /\ owner.pc = "connect" /\ Goto("top") /\ Keep /\ UNCHANGED <<got, naptime, why>>
      BY <1>3 DEF InitializeConnection, At
    <2>2. \A sig \in got' : owner.pc \in Untested(sig) => "top" \in Untested(sig)
      BY <1>1, <2>1 DEF Untested, Signal
    <2> QED
      BY <1>1, <2>1, <2>2, LoopInv DEF Pcs, Waiting
  <1>4. CASE LoopTest
    <2>1. /\ owner.pc = "top" /\ Goto("wait") /\ Keep /\ UNCHANGED <<got, naptime, why>>
          /\ "term" \notin got
      BY <1>4 DEF LoopTest, At
    <2>2. \A sig \in got' : owner.pc \in Untested(sig) => "wait" \in Untested(sig)
      BY <1>1, <2>1 DEF Untested, Signal
    <2> QED
      BY <1>1, <2>1, <2>2, LoopInv DEF Pcs, Waiting
  <1>5. CASE TestSighup
    <2> DEFINE pc == IF "hup" \in got THEN "load" ELSE "txn"
    <2>1. /\ owner.pc = "test" /\ Goto(pc) /\ Keep /\ UNCHANGED <<naptime, why>>
          /\ got' = got \ {"hup"}
      BY <1>5 DEF TestSighup, At
    <2>2. pc \in {"load", "txn"}
      OBVIOUS
    <2> HIDE DEF pc
    <2>3. \A sig \in got' : owner.pc \in Untested(sig) => pc \in Untested(sig)
      BY <1>1, <2>1, <2>2 DEF Untested, Signal
    <2> QED
      BY <1>1, <2>1, <2>2, <2>3, LoopInv DEF Pcs, Waiting
  <1>6. CASE ProcessConfigFile
    <2>1. /\ owner.pc = "load" /\ Goto("txn") /\ Keep /\ UNCHANGED <<got, why>>
          /\ naptime' \in Naptimes
      BY <1>1, <1>6 DEF ProcessConfigFile, At
    <2>2. \A sig \in got' : owner.pc \in Untested(sig) => "txn" \in Untested(sig)
      BY <1>1, <2>1 DEF Untested, Signal
    <2> QED
      BY <1>1, <2>1, <2>2, LoopInv DEF Pcs, Waiting
  <1>7. CASE Inspect
    <2>1. /\ owner.pc = "txn" /\ Goto("commit") /\ Keep /\ UNCHANGED <<got, naptime, why>>
          /\ "int" \notin got
      BY <1>7 DEF Inspect, At
    <2>2. \A sig \in got' : owner.pc \in Untested(sig) => "commit" \in Untested(sig)
      BY <1>1, <2>1 DEF Untested, Signal
    <2> QED
      BY <1>1, <2>1, <2>2, LoopInv DEF Pcs, Waiting
  <1>8. CASE Commit
    <2>1. /\ owner.pc = "commit" /\ Goto("top") /\ Keep /\ UNCHANGED <<got, naptime, why>>
      BY <1>8 DEF Commit, At
    <2>2. \A sig \in got' : owner.pc \in Untested(sig) => "top" \in Untested(sig)
      BY <1>1, <2>1 DEF Untested, Signal
    <2> QED
      BY <1>1, <2>1, <2>2, LoopInv DEF Pcs, Waiting
  <1> QED
    BY <1>2, <1>3, <1>4, <1>5, <1>6, <1>7, <1>8

(* WaitLatch and ResetLatch: the flags and the world stay as they are. *)
LEMMA LatchStep ==
    ASSUME InspectorInv, ~At("dead"), NEW o \in OwnerType, owner' = o, o.pc # "dead",
           o.waiting <=> o.pc \in Waiting,
           latch' \in [is_set : BOOLEAN, owned : BOOLEAN], latch'.owned = latch.owned,
           UNCHANGED <<usr1, setter, alive, got, pending, file, naptime, why>>,
           \A sig \in got : latch'.is_set \/ o.pc \in Untested(sig),
           o.pc = "poll" /\ ~o.pipe /\ ~usr1 => ~latch'.is_set
    PROVE  InspectorInv'
  <1>1. usr1' \in BOOLEAN /\ got' \subseteq Signal /\ pending' \subseteq Signal /\ naptime' \in Naptimes
    BY DEF InspectorInv, LatchTypeOK, InspectorTypeOK
  <1> QED
    BY <1>1, OwnerStep

(* WaitLatch, and the ResetLatch that follows it. *)
LEMMA WaitInv ==
    ASSUME InspectorInv,
           Nap \/ InLatch(WaitStep) \/ InLatch(ResetLatch) \/ InLatch(PollTimeout)
    PROVE  InspectorInv'
  <1>1. /\ owner \in OwnerType /\ latch \in [is_set : BOOLEAN, owned : BOOLEAN]
        /\ owner.waiting <=> owner.pc \in Waiting
        /\ got \subseteq Signal
    BY DEF InspectorInv, LatchTypeOK, InspectorTypeOK, Waiting
  <1>2. \A sig \in got : latch.is_set \/ owner.pc \in Untested(sig)
    BY DEF InspectorInv, FlagsSetLatch
  <1>3. CASE Nap
    <2> DEFINE o == [owner EXCEPT !.pc = "drain", !.waiting = TRUE, !.timeout = naptime * MS]
    <2>1. /\ owner.pc = "wait" /\ owner' = o
          /\ UNCHANGED <<latch, usr1, setter, alive, got, pending, file, naptime, why>>
      BY <1>3 DEF Nap, InLatch, WaitLatch, At
    <2>2. naptime * MS \in Int
      <3>1. PICK max : Naptimes \subseteq 1 .. max
        BY InspectorAssumption
      <3>2. naptime \in Naptimes
        BY DEF InspectorInv, InspectorTypeOK
      <3>3. naptime \in Int
        BY <3>1, <3>2
      <3>4. MS \in Int
        BY InspectorAssumption
      <3> QED
        BY <3>3, <3>4
    <2>3. o \in OwnerType /\ o.pc = "drain" /\ o.waiting
      BY <1>1, <2>2 DEF OwnerType, Pcs
    <2> HIDE DEF o
    <2>4. \A sig \in got : latch.is_set
      BY <1>1, <1>2, <2>1 DEF Untested, Signal
    <2> QED
      BY <1>1, <2>1, <2>3, <2>4, LatchStep DEF Waiting, At
  <1>4. CASE InLatch(drainSelfPipe)
    <2> DEFINE o == [owner EXCEPT !.pc = "check", !.pipe = FALSE]
    <2>1. /\ owner.pc = "drain" /\ owner' = o
          /\ UNCHANGED <<latch, usr1, setter, alive, got, pending, file, naptime, why>>
      BY <1>4 DEF InLatch, drainSelfPipe, At
    <2>2. o \in OwnerType /\ o.pc = "check" /\ (o.waiting <=> owner.waiting)
      BY <1>1 DEF OwnerType, Pcs
    <2> HIDE DEF o
    <2>3. \A sig \in got : latch.is_set
      BY <1>1, <1>2, <2>1 DEF Untested, Signal
    <2> QED
      BY <1>1, <2>1, <2>2, <2>3, LatchStep DEF Waiting, At
  <1>5. CASE InLatch(CheckLatch) /\ ~latch.is_set
    <2> DEFINE o == [owner EXCEPT !.pc = "poll"]
    <2>1. /\ owner.pc = "check" /\ owner' = o
          /\ UNCHANGED <<latch, usr1, setter, alive, got, pending, file, naptime, why>>
      BY <1>5 DEF InLatch, CheckLatch, Goto, At
    <2>2. o \in OwnerType /\ o.pc = "poll" /\ (o.waiting <=> owner.waiting)
      BY <1>1 DEF OwnerType, Pcs
    <2> HIDE DEF o
    <2>3. \A sig \in got : latch.is_set
      BY <1>1, <1>2, <2>1 DEF Untested, Signal
    <2> QED
      BY <1>1, <1>5, <2>1, <2>2, <2>3, LatchStep DEF Waiting, At
  <1>6. ASSUME NEW rc \in {"latch", "timeout", "death"}, owner.pc \in {"check", "poll"},
               WaitReturns(rc),
               UNCHANGED <<latch, usr1, setter, alive, got, pending, file, naptime, why>>
        PROVE  InspectorInv'
    <2> DEFINE o == [owner EXCEPT !.pc = "reset", !.rc = rc, !.waiting = FALSE, !.timeout = 0]
    <2>1. owner' = o
      BY <1>6 DEF WaitReturns
    <2>2. o \in OwnerType /\ o.pc = "reset" /\ ~o.waiting
      <3>1. o \in OwnerType
        <4>1. "reset" \in Pcs /\ rc \in {"none", "latch", "timeout", "death"} /\ 0 \in Int
          BY <1>6 DEF Pcs
        <4> QED
          BY <1>1, <4>1 DEF OwnerType
      <3>2. o.pc = "reset" /\ ~o.waiting
        BY <1>1 DEF OwnerType
      <3> QED
        BY <3>1, <3>2
    <2> HIDE DEF o
    <2>3. \A sig \in got : latch.is_set
      BY <1>1, <1>2, <1>6 DEF Untested, Signal
    <2> QED
      BY <1>1, <1>6, <2>1, <2>2, <2>3, LatchStep DEF Waiting, At
  <1>7. CASE \/ InLatch(CheckLatch) /\ latch.is_set
             \/ InLatch(PollDeath) \/ InLatch(PollTimeout)
    BY <1>6, <1>7 DEF InLatch, CheckLatch, PollDeath, PollTimeout, At
  <1>8. CASE InLatch(PollPipe)
    <2> DEFINE o == [owner EXCEPT !.pc = "drain"]
    <2>1. /\ owner.pc = "poll" /\ owner' = o
          /\ UNCHANGED <<latch, usr1, setter, alive, got, pending, file, naptime, why>>
      BY <1>8 DEF InLatch, PollPipe, Goto, At
    <2>2. o \in OwnerType /\ o.pc = "drain" /\ (o.waiting <=> owner.waiting)
      BY <1>1 DEF OwnerType, Pcs
    <2> HIDE DEF o
    <2>3. \A sig \in got : latch.is_set
      BY <1>1, <1>2, <2>1 DEF Untested, Signal
    <2> QED
      BY <1>1, <2>1, <2>2, <2>3, LatchStep DEF Waiting, At
  <1>9. CASE InLatch(ResetLatch)
    <2> DEFINE pc == IF owner.rc = "death" THEN "bailout" ELSE "test"
               o == [owner EXCEPT !.pc = pc, !.rc = "none"]
    <2>1. /\ owner.pc = "reset" /\ owner' = o /\ latch' = [latch EXCEPT !.is_set = FALSE]
          /\ UNCHANGED <<usr1, setter, alive, got, pending, file, naptime, why>>
      BY <1>9 DEF InLatch, ResetLatch, At
    <2>2. pc \in {"bailout", "test"}
      OBVIOUS
    <2> HIDE DEF pc
    <2>3. o \in OwnerType /\ o.pc = pc /\ (o.waiting <=> owner.waiting)
      BY <1>1, <2>2 DEF OwnerType, Pcs
    <2> HIDE DEF o
    <2>4. \A sig \in got : pc \in Untested(sig)
      BY <1>1, <2>2 DEF Untested, Signal
    <2>5. latch' \in [is_set : BOOLEAN, owned : BOOLEAN] /\ latch'.owned = latch.owned
      BY <1>1, <2>1
    <2> QED
      BY <1>1, <2>1, <2>2, <2>3, <2>4, <2>5, LatchStep DEF Waiting, At
  <1> QED
    BY <1>3, <1>4, <1>5, <1>7, <1>8, <1>9 DEF WaitStep, InLatch

(* A handler: a poll() that blocks may return, and with the pipe written *)
(* the next one does.                                                    *)
LEMMA HandlerLeaves ==
    ASSUME InspectorInv, ~At("dead"),
           \E pipe \in BOOLEAN, pc \in Interrupted :
              owner' = [owner EXCEPT !.pipe = pipe, !.pc = pc]
    PROVE  /\ owner' \in OwnerType /\ owner'.pc # "dead"
           /\ owner'.waiting <=> owner'.pc \in Waiting
           /\ owner'.pc = owner.pc \/ (owner'.pc = "drain" /\ owner.pc = "poll")
  <1>1. owner \in OwnerType /\ (owner.waiting <=> owner.pc \in Waiting)
    BY DEF InspectorInv, LatchTypeOK, InspectorTypeOK, Waiting
  <1>2. PICK pipe \in BOOLEAN, pc \in Interrupted :
           owner' = [owner EXCEPT !.pipe = pipe, !.pc = pc]
    OBVIOUS
  <1>3. pc = owner.pc \/ (pc = "drain" /\ owner.pc = "poll")
    BY DEF Interrupted, Blocked, At
  <1>4. pc \in Pcs /\ pc # "dead" /\ (owner.waiting <=> pc \in Waiting)
    BY <1>1, <1>3 DEF OwnerType, Pcs, Waiting, At
  <1>5. owner' \in OwnerType /\ owner'.pc = pc /\ owner'.waiting = owner.waiting
    BY <1>1, <1>2, <1>4 DEF OwnerType
  <1> QED
    BY <1>3, <1>4, <1>5

(* The handlers of SIGHUP, SIGTERM and SIGINT set their flag and the latch. *)
LEMMA HandleInv ==
    ASSUME InspectorInv, NEW sig \in Signal, Handle(sig)
    PROVE  InspectorInv'
  <1>1. /\ Running /\ pending' = pending \ {sig} /\ got' = got \cup {sig}
        /\ latch' = [latch EXCEPT !.is_set = TRUE]
        /\ UNCHANGED <<usr1, setter, alive, file, naptime, why>>
    BY DEF Handle, Deliver, SetOwnLatch
  <1>2. ~At("dead") /\ got \subseteq Signal /\ pending \subseteq Signal /\ naptime \in Naptimes
    BY <1>1 DEF InspectorInv, InspectorTypeOK
  <1>3. /\ latch' \in [is_set : BOOLEAN, owned : BOOLEAN] /\ latch'.is_set
        /\ latch'.owned = latch.owned /\ usr1' \in BOOLEAN
    BY <1>1 DEF InspectorInv, LatchTypeOK
  <1> DEFINE pipe == owner.pipe \/ (~latch.is_set /\ owner.waiting)
  <1>4. PICK pc \in Interrupted : owner' = [owner EXCEPT !.pipe = pipe, !.pc = pc]
    BY DEF Handle, SetOwnLatch
  <1>5. pipe \in BOOLEAN
    OBVIOUS
  <1>6. owner \in OwnerType
    BY DEF InspectorInv, LatchTypeOK
  <1> HIDE DEF pipe
  <1>7. \E b \in BOOLEAN, c \in Interrupted : owner' = [owner EXCEPT !.pipe = b, !.pc = c]
    BY <1>4, <1>5
  <1>8. owner'.pipe = pipe
    BY <1>4, <1>6 DEF OwnerType
  <1>9. /\ owner' \in OwnerType /\ owner'.pc # "dead"
        /\ owner'.waiting <=> owner'.pc \in Waiting
        /\ owner'.pc = owner.pc \/ (owner'.pc = "drain" /\ owner.pc = "poll")
    BY <1>2, <1>7, HandlerLeaves
  <1>10. owner'.pc = "poll" /\ ~owner'.pipe /\ ~usr1 => \E s \in Setter : Signalling(s)
    <2> SUFFICES ASSUME owner'.pc = "poll", ~owner'.pipe, ~usr1
                 PROVE  \E s \in Setter : Signalling(s)
      OBVIOUS
    <2>1. owner.pc = "poll" /\ owner.waiting
      BY <1>9 DEF InspectorInv, InspectorTypeOK
    <2>2. ~owner.pipe /\ latch.is_set
      BY <1>8, <2>1 DEF pipe
    <2> QED
      BY <2>1, <2>2 DEF InspectorInv, SetLatchWakes, Asleep, At
  <1>11. PICK o \in OwnerType : owner' = o
    BY <1>9
  <1> QED
    BY <1>1, <1>2, <1>3, <1>9, <1>10, <1>11, OwnerStep

(* The handler of SIGUSR1 writes the self-pipe. *)
LEMMA HandleUsr1Inv ==
    ASSUME InspectorInv, HandleUsr1
    PROVE  InspectorInv'
  <1>1. /\ ~At("dead") /\ usr1' = FALSE
        /\ UNCHANGED <<latch, setter, alive, got, pending, file, naptime, why>>
    BY DEF HandleUsr1, latch_sigusr1_handler
  <1>2. /\ got' \subseteq Signal /\ pending' \subseteq Signal /\ naptime' \in Naptimes
        /\ latch' \in [is_set : BOOLEAN, owned : BOOLEAN] /\ latch'.owned = latch.owned
        /\ usr1' \in BOOLEAN
    BY <1>1 DEF InspectorInv, InspectorTypeOK, LatchTypeOK
  <1> DEFINE pipe == owner.pipe \/ owner.waiting
  <1>3. PICK pc \in Interrupted : owner' = [owner EXCEPT !.pipe = pipe, !.pc = pc]
    BY DEF HandleUsr1, latch_sigusr1_handler
  <1>4. pipe \in BOOLEAN
    OBVIOUS
  <1>5. owner \in OwnerType
    BY DEF InspectorInv, LatchTypeOK
  <1> HIDE DEF pipe
  <1>6. \E b \in BOOLEAN, c \in Interrupted : owner' = [owner EXCEPT !.pipe = b, !.pc = c]
    BY <1>3, <1>4
  <1>7. owner'.pipe = pipe
    BY <1>3, <1>5 DEF OwnerType
  <1>8. /\ owner' \in OwnerType /\ owner'.pc # "dead"
        /\ owner'.waiting <=> owner'.pc \in Waiting
        /\ owner'.pc = owner.pc \/ (owner'.pc = "drain" /\ owner.pc = "poll")
    BY <1>1, <1>6, HandlerLeaves
  <1>9. owner'.pc = "poll" => owner'.pipe
    BY <1>7, <1>8 DEF pipe, InspectorInv, InspectorTypeOK
  <1>10. \A sig \in got' : latch'.is_set \/ owner'.pc \in Untested(sig)
    BY <1>1, <1>2, <1>8 DEF InspectorInv, FlagsSetLatch, Untested, Signal
  <1>11. PICK o \in OwnerType : owner' = o
    BY <1>8
  <1> QED
    BY <1>1, <1>2, <1>8, <1>9, <1>10, <1>11, OwnerStep

(* Steps of others. *)
LEMMA OuterStep ==
    ASSUME InspectorInv, UNCHANGED <<owner, got, naptime, why>>,
           pending' \subseteq Signal, file' \in Naptimes,
           latch' \in [is_set : BOOLEAN, owned : BOOLEAN], latch'.owned = latch.owned,
           latch.is_set => latch'.is_set, usr1' \in BOOLEAN, alive' \in BOOLEAN,
           setter' \in [Setter -> {"idle", "set", "owner", "kill"}],
           At("poll") /\ ~usr1' /\ latch'.is_set =>
              owner.pipe \/ \E s \in Setter : setter'[s] \in {"owner", "kill"}
    PROVE  InspectorInv'
  <1>1. LatchTypeOK'
    BY DEF InspectorInv, LatchTypeOK
  <1>2. InspectorTypeOK'
    BY DEF InspectorInv, InspectorTypeOK, Running, At
  <1>3. OwnedWhileAlive' /\ FlagsSetLatch'
    BY DEF InspectorInv, OwnedWhileAlive, FlagsSetLatch, Untested, At
  <1>4. SetLatchWakes'
    BY DEF SetLatchWakes, Asleep, At, Signalling
  <1> QED
    BY <1>1, <1>2, <1>3, <1>4 DEF InspectorInv

(* SetLatch by another process, one load or store at a time. *)
LEMMA SetterInv ==
    ASSUME InspectorInv, NEW s \in Setter,
           InLatch(alive /\ SetLatchTest(s)) \/ InLatch(SetLatchGoesOn(s))
    PROVE  InspectorInv'
  <1>1. UNCHANGED <<owner, alive, got, pending, file, naptime, why>>
    BY DEF InLatch, SetLatchTest, SetLatchGoesOn, SetLatchSet, SetLatchOwner, SetLatchKill
  <1>2. /\ pending' \subseteq Signal /\ file' \in Naptimes /\ alive' \in BOOLEAN
        /\ latch \in [is_set : BOOLEAN, owned : BOOLEAN] /\ usr1 \in BOOLEAN
        /\ setter \in [Setter -> {"idle", "set", "owner", "kill"}]
    BY <1>1 DEF InspectorInv, LatchTypeOK, InspectorTypeOK
  <1>3. At("poll") /\ ~usr1 /\ latch.is_set => owner.pipe \/ \E r \in Setter : Signalling(r)
    BY DEF InspectorInv, SetLatchWakes, Asleep
  <1>4. CASE InLatch(SetLatchTest(s))
    <2>1. /\ ~latch.is_set /\ setter' = [setter EXCEPT ![s] = "set"] /\ UNCHANGED <<latch, usr1>>
      BY <1>4 DEF InLatch, SetLatchTest, SetterGoto
    <2>2. setter' \in [Setter -> {"idle", "set", "owner", "kill"}]
      BY <1>2, <2>1
    <2> QED
      BY <1>1, <1>2, <2>1, <2>2, OuterStep
  <1>5. CASE InLatch(SetLatchSet(s))
    <2>1. /\ latch' = [latch EXCEPT !.is_set = TRUE] /\ setter' = [setter EXCEPT ![s] = "owner"]
          /\ UNCHANGED usr1
      BY <1>5 DEF InLatch, SetLatchSet, SetterGoto
    <2>2. /\ setter' \in [Setter -> {"idle", "set", "owner", "kill"}] /\ setter'[s] = "owner"
          /\ latch' \in [is_set : BOOLEAN, owned : BOOLEAN] /\ latch'.is_set
          /\ latch'.owned = latch.owned
      BY <1>2, <2>1
    <2> QED
      BY <1>1, <1>2, <2>1, <2>2, OuterStep
  <1>6. CASE InLatch(SetLatchOwner(s))
    <2> DEFINE pc == IF latch.owned THEN "kill" ELSE "idle"
    <2>1. /\ setter' = [setter EXCEPT ![s] = pc] /\ UNCHANGED <<latch, usr1>>
      BY <1>6 DEF InLatch, SetLatchOwner, SetterGoto
    <2>2. At("poll") => pc = "kill"
      BY DEF InspectorInv, OwnedWhileAlive, At
    <2>3. pc \in {"kill", "idle"}
      OBVIOUS
    <2> HIDE DEF pc
    <2>4. setter' \in [Setter -> {"idle", "set", "owner", "kill"}] /\ setter'[s] = pc
      BY <1>2, <2>1, <2>3
    <2> QED
      BY <1>1, <1>2, <2>1, <2>2, <2>4, OuterStep
  <1>7. CASE InLatch(SetLatchKill(s))
    <2>1. /\ setter' = [setter EXCEPT ![s] = "idle"] /\ UNCHANGED latch
          /\ usr1' = ~At("dead")
      BY <1>7 DEF InLatch, SetLatchKill, SetterGoto
    <2>2. usr1' \in BOOLEAN /\ (At("poll") => usr1')
      BY <2>1 DEF At
    <2>3. setter' \in [Setter -> {"idle", "set", "owner", "kill"}]
      BY <1>2, <2>1
    <2> QED
      BY <1>1, <1>2, <2>1, <2>2, <2>3, OuterStep
  <1> QED
    BY <1>4, <1>5, <1>6, <1>7 DEF InLatch, SetLatchGoesOn

(* Signals sent, configuration edited, the postmaster dead. *)
LEMMA EnvironmentInv ==
    ASSUME InspectorInv,
           \/ \E sig \in Signal : Kill(sig)
           \/ \E n \in Naptimes : EditConfig(n)
           \/ InLatch(PostmasterDies)
    PROVE  InspectorInv'
  <1>1. /\ UNCHANGED <<owner, got, naptime, why, latch, usr1, setter>>
        /\ pending' \subseteq Signal /\ file' \in Naptimes /\ alive' \in BOOLEAN
    <2>1. pending \subseteq Signal /\ file \in Naptimes /\ alive \in BOOLEAN
      BY DEF InspectorInv, InspectorTypeOK, LatchTypeOK
    <2> QED
      BY <2>1 DEF Kill, EditConfig, InLatch, PostmasterDies, latchVars
  <1>2. /\ latch \in [is_set : BOOLEAN, owned : BOOLEAN] /\ usr1 \in BOOLEAN
        /\ setter \in [Setter -> {"idle", "set", "owner", "kill"}]
    BY DEF InspectorInv, LatchTypeOK
  <1>3. At("poll") /\ ~usr1 /\ latch.is_set =>
           owner.pipe \/ \E r \in Setter : setter[r] \in {"owner", "kill"}
    BY DEF InspectorInv, SetLatchWakes, Asleep, Signalling
  <1> QED
    BY <1>1, <1>2, <1>3, OuterStep

-----------------------------------------------------------------------------
(* The theorems *)

(* The worker starts with its latch owned and not set. *)
LEMMA InspectorInitInv == InspectorInit => InspectorInv
  <1> SUFFICES ASSUME InspectorInit PROVE InspectorInv
    OBVIOUS
  <1>1. /\ latch = [is_set |-> FALSE, owned |-> TRUE] /\ owner = [Dead EXCEPT !.pc = "init"]
        /\ usr1 = FALSE /\ alive = TRUE /\ setter = [s \in Setter |-> "idle"]
        /\ got = {} /\ pending = {} /\ why = "running" /\ file \in Naptimes /\ naptime = file
    BY DEF InspectorInit, LatchStart
  <1>2. owner \in OwnerType /\ owner.pc = "init" /\ ~owner.waiting
    <2>1. owner = [pc |-> "init", waiting |-> FALSE, pipe |-> FALSE, timeout |-> 0, rc |-> "none"]
      BY <1>1 DEF Dead
    <2> QED
      BY <2>1 DEF OwnerType, Pcs
  <1>3. LatchTypeOK
    BY <1>1, <1>2 DEF LatchTypeOK
  <1>4. InspectorTypeOK
    BY <1>1, <1>2 DEF InspectorTypeOK, Running, At
  <1>5. OwnedWhileAlive /\ FlagsSetLatch /\ SetLatchWakes
    BY <1>1, <1>2 DEF OwnedWhileAlive, FlagsSetLatch, SetLatchWakes, Asleep, At
  <1> QED
    BY <1>3, <1>4, <1>5 DEF InspectorInv

(* Every step keeps the invariant. *)
LEMMA InspectorNextInv == InspectorInv /\ [InspectorNext]_inspVars => InspectorInv'
  <1> SUFFICES ASSUME InspectorInv, [InspectorNext]_inspVars PROVE InspectorInv'
    OBVIOUS
  <1>1. CASE Environment
    BY <1>1, EnvironmentInv, SetterInv DEF Environment
  <1>2. ASSUME NEW s \in Setter, InLatch(SetLatchGoesOn(s))
        PROVE  InspectorInv'
    BY <1>2, SetterInv
  <1>3. ASSUME NEW sig \in Signal, Handle(sig)
        PROVE  InspectorInv'
    BY <1>3, HandleInv
  <1>4. CASE HandleUsr1
    BY <1>4, HandleUsr1Inv
  <1>5. CASE InLatch(PollTimeout)
    BY <1>5, WaitInv
  <1>6. CASE LoopEnd \/ ProcDeath \/ Cancelled \/ ConnectionRefused \/ InspectionFails
    BY <1>6, ExitInv DEF LoopEnd, ProcDeath, Cancelled, ConnectionRefused, InspectionFails
  <1>7. CASE Step
    BY <1>6, <1>7, LoopSteps, WaitInv DEF Step
  <1>8. CASE UNCHANGED inspVars
    <2>1. UNCHANGED <<latch, owner, usr1, setter, alive, got, pending, file, naptime, why>>
      BY <1>8 DEF inspVars, latchVars
    <2>2. LatchTypeOK' /\ InspectorTypeOK'
      BY <2>1 DEF InspectorInv, LatchTypeOK, InspectorTypeOK, Running, At
    <2>3. OwnedWhileAlive' /\ FlagsSetLatch' /\ SetLatchWakes'
      BY <2>1 DEF InspectorInv, OwnedWhileAlive, FlagsSetLatch, Untested, SetLatchWakes,
         Asleep, Signalling, At
    <2> QED
      BY <2>2, <2>3 DEF InspectorInv
  <1> QED
    BY <1>1, <1>2, <1>3, <1>4, <1>5, <1>6, <1>7, <1>8 DEF InspectorNext

(* The invariant of the worker process and its latch. *)
THEOREM InspectorSafety == InspectorSpec => []InspectorInv
  BY InspectorInitInv, InspectorNextInv, PTL DEF InspectorSpec

(***************************************************************************)
(* The type invariant: the worker is in WaitLatch exactly when its         *)
(* "waiting" says so, and its signals and naptimes are the ones there are. *)
(***************************************************************************)
THEOREM InspectorTypes == InspectorSpec => []InspectorTypeOK
  <1>1. InspectorInv => InspectorTypeOK
    BY DEF InspectorInv
  <1> QED
    BY InspectorSafety, <1>1, PTL

(***************************************************************************)
(* WaitLatch does not block on a set latch, for any number of processes    *)
(* that set it and whatever handlers run in between.                       *)
(***************************************************************************)
THEOREM LatchWakesOwner == InspectorSpec => []SetLatchWakes
  <1>1. InspectorInv => SetLatchWakes
    BY DEF InspectorInv
  <1> QED
    BY InspectorSafety, <1>1, PTL

(***************************************************************************)
(* wed_worker_main does not sleep through a SIGHUP, a SIGTERM or a SIGINT, *)
(* at whatever point of its loop it comes.                                 *)
(***************************************************************************)
THEOREM NoSignalSleptThrough == InspectorSpec => []NothingSleptThrough
  <1>1. InspectorInv => NothingSleptThrough
    <2> SUFFICES ASSUME InspectorInv, Asleep, NEW sig \in got
                 PROVE  \E s \in Setter : Signalling(s)
      BY DEF NothingSleptThrough
    <2>1. sig \in Signal
      BY DEF InspectorInv, InspectorTypeOK
    <2>2. owner.pc \notin Untested(sig)
      BY <2>1 DEF Asleep, At, Untested, Signal
    <2>3. latch.is_set
      BY <2>2 DEF InspectorInv, FlagsSetLatch
    <2> QED
      BY <2>3 DEF InspectorInv, SetLatchWakes
  <1> QED
    BY InspectorSafety, <1>1, PTL
=============================================================================
