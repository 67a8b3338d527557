---------------------------- MODULE WedInstance -----------------------------
(***************************************************************************)
(* What the engine promises of a WED-flow instance, without tokens, locks, *)
(* timeouts, inspectors or re-queues: an instance starts in a state that   *)
(* fires triggers, every trigger in flight may write once, a write fires   *)
(* the triggers of the new state that are not in flight, and the instance  *)
(* ends in a final state, or in an exception from which it can go on, when *)
(* nothing is left in flight.  A trigger can be withdrawn for good.        *)
(***************************************************************************)
EXTENDS WedCatalog, Sequences

CONSTANTS
    Wid,        \* the instances
    State,      \* the WED-states
    NoRow       \* an instance that has not been started has no state

VARIABLES
    phase,      \* "absent", "running", "exception" or "final"
    state,      \* current WED-state
    inflight,   \* triggers fired and not yet written or withdrawn
    history     \* the entries of wed_trace

vars == <<phase, state, inflight, history>>

Init ==
    /\ phase = [w \in Wid |-> "absent"]
    /\ state = [w \in Wid |-> NoRow]
    /\ inflight = [w \in Wid |-> {}]
    /\ history = [w \in Wid |-> <<>>]

Fires(s) == {g \in Tgid : wed_trig[g] \in pred_match(s)}

(* Instance w moves to s and phase p; g wrote it (NULL: nobody) and F is fired. *)
Enter(w, s, g, F, p) ==
    /\ phase' = [phase EXCEPT ![w] = p]
    /\ state' = [state EXCEPT ![w] = s]
    /\ inflight' = [inflight EXCEPT ![w] = (@ \ {g}) \cup F]
    /\ history' = [history EXCEPT ![w] =
           Append(@, [st |-> s, tgid_wrote |-> g, tgid_fired |-> F,
                      final |-> p # "running", excpt |-> p = "exception"])]

Start(w, s) ==
    /\ phase[w] = "absent"
    /\ pred_match(s) # {}
    /\ \/ final_match(s)  /\ Enter(w, s, NULL, {}, "final")
       \/ ~final_match(s) /\ Enter(w, s, NULL, Fires(s), "running")

(* The next state s of w, written by g, with the triggers of rest in flight. *)
Continue(w, s, g, rest) ==
    \/ /\ pred_match(s) = {} /\ rest = {}
       /\ Enter(w, s, g, {}, "exception")
    \/ /\ final_match(s) /\ rest = {}
       /\ Enter(w, s, g, {}, "final")
    \/ /\ ~final_match(s) /\ (pred_match(s) # {} \/ rest # {})
       /\ Enter(w, s, g, Fires(s) \ rest, "running")

Write(w, s, g) ==
    /\ phase[w] = "running"
    /\ g \in inflight[w]
    /\ Continue(w, s, g, inflight[w] \ {g})

Recover(w, s) ==
    /\ phase[w] = "exception"
    /\ Continue(w, s, NULL, {})

(* Some triggers in flight, of one or more instances, will never write. *)
Withdraw ==
    /\ inflight' # inflight
    /\ inflight' \in [Wid -> SUBSET Tgid]
    /\ \A w \in Wid : inflight'[w] \subseteq inflight[w]
    /\ UNCHANGED <<phase, state, history>>

Next ==
    \/ \E w \in Wid, s \in State :
          \/ Start(w, s)
          \/ Recover(w, s)
          \/ \E g \in Tgid : Write(w, s, g)
    \/ Withdraw

Spec == Init /\ [][Next]_vars
=============================================================================
