--------------------------- MODULE WedRefinement ----------------------------
(***************************************************************************)
(* The engine implements the life cycle of WedInstance.  A trigger is in   *)
(* flight while it has an open job or an inspector is about to give it one *)
(* again: locking, timeouts and re-queues change nothing, and an abort     *)
(* counts when no inspector can undo it any more.                          *)
(***************************************************************************)
EXTENDS WedKernel

Selected == UNION {inspector[i].rows : i \in Inspector}

InFlightNow(w) == {job_pool[t].tgid : t \in {u \in JobsOf(w) : Open(u) \/ u \in Selected}}

Phase(w) ==
    IF wed_flow[w] = NoRow THEN "absent"
    ELSE IF ~st_status[w].final THEN "running"
    ELSE IF st_status[w].excpt THEN "exception" ELSE "final"

Instance == INSTANCE WedInstance WITH
    phase    <- [w \in Wid |-> Phase(w)],
    state    <- wed_flow,
    inflight <- [w \in Wid |-> InFlightNow(w)],
    history  <- wed_trace

(***************************************************************************)
(* Every step of the engine is a step of the life cycle or invisible to    *)
(* it; in particular a re-queue is, also of a job that was aborted after   *)
(* the inspector selected it.                                              *)
(***************************************************************************)
ImplementsInstance == Instance!Spec
=============================================================================
