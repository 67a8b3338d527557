--------------------------- MODULE WedTraceProofs ---------------------------
(***************************************************************************)
(* Proofs that the history of an instance explains its jobs, for every     *)
(* length of history.  What InFlight computes by recursion is established  *)
(* by induction in the form of the least counterexample.                   *)
(***************************************************************************)
EXTENDS WedKernelProofs, WellFoundedInduction

-----------------------------------------------------------------------------
(* Replaying a history *)

Less == {p \in Nat \X Nat : p[1] < p[2]}
(* A non-empty set of numbers has a least element: induction without a formula. *)
LEMMA LeastElement ==
    ASSUME NEW T \in SUBSET Nat, T # {}
    PROVE  \E x \in T : \A y \in T : x <= y
  <1>1. IsWellFoundedOn(Less, Nat)
    BY NatLessThanWellFounded DEF OpToRel, Less
  <1>2. PICK x \in T : \A y \in T : <<y, x>> \notin Less
    BY <1>1, WFMin
  <1>3. ASSUME NEW y \in T PROVE x <= y
    <2>1. ~(y < x)
      BY <1>2 DEF Less
    <2> QED
      BY <2>1
  <1> QED
    BY <1>3

(* The triggers in flight after entry e, when those of F were before. *)
Following(F, e) == (F \ {e.tgid_wrote}) \cup e.tgid_fired

(* f replays the first n entries of the history h, the way InFlight does. *)
Replays(f, h, n) ==
    f = [k \in 0..n |-> IF k = 0 THEN {}
           ELSE (f[k - 1] \ {h[k].tgid_wrote}) \cup h[k].tgid_fired]

(* f is a function on 0..n. *)
IsOn(f, n) == f = [k \in 0..n |-> f[k]]

(* Functions on 0..n that agree there are equal. *)
LEMMA OnEqual ==
    ASSUME NEW n, NEW f, NEW g, IsOn(f, n), IsOn(g, n), \A k \in 0..n : f[k] = g[k]
    PROVE  f = g
  <1>1. [k \in 0..n |-> f[k]] = [k \in 0..n |-> g[k]]
    OBVIOUS
  <1> QED
    BY <1>1 DEF IsOn

(* A replay starts with nothing in flight and follows the entries one by one. *)
LEMMA ReplaySteps ==
    ASSUME NEW h, NEW n \in Nat, NEW f
    PROVE  Replays(f, h, n) <=>
              /\ IsOn(f, n)
              /\ f[0] = {}
              /\ \A k \in 1..n : f[k] = Following(f[k - 1], h[k])
  <1>1. ASSUME Replays(f, h, n)
        PROVE  /\ IsOn(f, n)
               /\ f[0] = {}
               /\ \A k \in 1..n : f[k] = Following(f[k - 1], h[k])
    BY <1>1 DEF Replays, Following, IsOn
  <1>2. ASSUME IsOn(f, n), f[0] = {},
               \A k \in 1..n : f[k] = Following(f[k - 1], h[k])
        PROVE  Replays(f, h, n)
    <2>1. \A k \in 0..n : f[k] = IF k = 0 THEN {} ELSE Following(f[k - 1], h[k])
      BY <1>2
    <2>2. [k \in 0..n |-> f[k]] = [k \in 0..n |-> IF k = 0 THEN {} ELSE Following(f[k - 1], h[k])]
      BY <2>1
    <2> QED
      BY <1>2, <2>2 DEF Replays, Following, IsOn
  <1> QED
    BY <1>1, <1>2

(* A history has at most one replay ... *)
LEMMA ReplayUnique ==
    ASSUME NEW h, NEW n \in Nat, NEW f, NEW g, Replays(f, h, n), Replays(g, h, n)
    PROVE  f = g
  <1>1. /\ IsOn(f, n) /\ IsOn(g, n)
        /\ f[0] = {} /\ g[0] = {}
        /\ \A k \in 1..n : /\ f[k] = Following(f[k - 1], h[k])
                           /\ g[k] = Following(g[k - 1], h[k])
    BY ReplaySteps
  <1> DEFINE D == {k \in 0..n : f[k] # g[k]}
  <1>2. ASSUME D # {} PROVE FALSE
    <2>0. D \in SUBSET Nat
      OBVIOUS
    <2>1. PICK k \in D : \A j \in D : k <= j
      BY <1>2, <2>0, LeastElement
    <2>2. k \in 1..n /\ k - 1 \in 0..n /\ k - 1 \notin D
      BY <1>1, <2>1
    <2> QED
      BY <1>1, <2>1, <2>2
  <1>3. \A k \in 0..n : f[k] = g[k]
    BY <1>2
  <1> QED
    BY <1>1, <1>3, OnEqual

(* ... which can be continued by one entry ... *)
LEMMA ReplayExtends ==
    ASSUME NEW h, NEW n \in Nat, NEW f, Replays(f, h, n)
    PROVE  \E g : Replays(g, h, n + 1) /\ g[n + 1] = Following(f[n], h[n + 1])
  <1> DEFINE g == [k \in 0..(n + 1) |-> IF k <= n THEN f[k]
                                        ELSE Following(f[n], h[n + 1])]
  <1>1. /\ f[0] = {}
        /\ \A k \in 1..n : f[k] = Following(f[k - 1], h[k])
    BY ReplaySteps
  <1>2. /\ IsOn(g, n + 1)
        /\ \A k \in 0..n : g[k] = f[k]
        /\ g[n + 1] = Following(f[n], h[n + 1])
    BY DEF IsOn
  <1> HIDE DEF g
  <1>3. \A k \in 1..(n + 1) : g[k] = Following(g[k - 1], h[k])
    BY <1>1, <1>2
  <1>4. Replays(g, h, n + 1)
    BY <1>1, <1>2, <1>3, ReplaySteps
  <1> QED
    BY <1>2, <1>4

(* ... and so always exists. *)
LEMMA ReplayExists ==
    ASSUME NEW h, NEW n \in Nat
    PROVE  \E f : Replays(f, h, n)
  <1> DEFINE D == {m \in Nat : ~\E f : Replays(f, h, m)}
  <1>1. ASSUME D # {} PROVE FALSE
    <2>1. PICK m \in D : \A j \in D : m <= j
      BY <1>1, LeastElement
    <2>2. m # 0
      <3> DEFINE z == [k \in 0..0 |-> {}]
      <3>1. IsOn(z, 0) /\ z[0] = {}
        BY DEF IsOn
      <3> HIDE DEF z
      <3>2. \A k \in 1..0 : z[k] = Following(z[k - 1], h[k])
        OBVIOUS
      <3>3. Replays(z, h, 0)
        BY <3>1, <3>2, ReplaySteps
      <3> QED
        BY <2>1, <3>3
    <2>3. m - 1 \in Nat /\ m - 1 \notin D
      BY <2>1, <2>2
    <2>4. PICK f : Replays(f, h, m - 1)
      BY <2>3
    <2>5. \E g : Replays(g, h, (m - 1) + 1)
      BY <2>3, <2>4, ReplayExtends
    <2> QED
      BY <2>1, <2>5
  <1> QED
    BY <1>1

(* InFlight is the last value of the replay. *)
LEMMA InFlightValue ==
    ASSUME NEW h, NEW n \in Nat, NEW f, Replays(f, h, n)
    PROVE  InFlight(h, n) = f[n]
  <1> DEFINE r == CHOOSE g : Replays(g, h, n)
  <1>1. InFlight(h, n) = r[n]
    BY DEF InFlight, Replays
  <1>2. Replays(r, h, n)
    OBVIOUS
  <1> QED
    BY <1>1, <1>2, ReplayUnique

(***************************************************************************)
(* InFlight by steps: nothing is in flight before the first entry, and an  *)
(* entry takes out the trigger that wrote it and puts in those it fired.   *)
(***************************************************************************)
LEMMA InFlightSteps ==
    ASSUME NEW h, NEW n \in Nat
    PROVE  /\ InFlight(h, 0) = {}
           /\ InFlight(h, n + 1) = Following(InFlight(h, n), h[n + 1])
  <1>1. PICK z : Replays(z, h, 0)
    BY ReplayExists
  <1>2. InFlight(h, 0) = {}
    BY <1>1, InFlightValue, ReplaySteps
  <1>3. PICK f : Replays(f, h, n)
    BY ReplayExists
  <1>4. PICK g : /\ Replays(g, h, n + 1)
                 /\ g[n + 1] = Following(f[n], h[n + 1])
    BY <1>3, ReplayExtends
  <1>5. InFlight(h, n) = f[n]
    BY <1>3, InFlightValue
  <1>6. InFlight(h, n + 1) = g[n + 1]
    BY <1>4, InFlightValue
  <1> QED
    BY <1>2, <1>4, <1>5, <1>6

(* What was in flight after an entry does not depend on later entries. *)
LEMMA InFlightPrefix ==
    ASSUME NEW h, NEW i, NEW n \in Nat, \A k \in 1..n : h[k] = i[k]
    PROVE  \A k \in 0..n : InFlight(h, k) = InFlight(i, k)
  <1> DEFINE D == {k \in 0..n : InFlight(h, k) # InFlight(i, k)}
  <1>1. ASSUME D # {} PROVE FALSE
    <2>0. D \in SUBSET Nat
      OBVIOUS
    <2>1. PICK k \in D : \A j \in D : k <= j
      BY <1>1, <2>0, LeastElement
    <2>2. k # 0
      BY InFlightSteps
    <2>3. k - 1 \in Nat /\ k \in 1..n /\ k - 1 \notin D
      BY <2>1, <2>2
    <2>4. /\ InFlight(h, (k - 1) + 1) = Following(InFlight(h, k - 1), h[(k - 1) + 1])
          /\ InFlight(i, (k - 1) + 1) = Following(InFlight(i, k - 1), i[(k - 1) + 1])
      BY <2>3, InFlightSteps
    <2>5. (k - 1) + 1 = k /\ InFlight(h, k - 1) = InFlight(i, k - 1) /\ h[k] = i[k]
      BY <2>3
    <2> QED
      BY <2>4, <2>5
  <1> QED
    BY <1>1
-----------------------------------------------------------------------------
(* The invariant *)

InFlightOf(w) == InFlight(wed_trace[w], Len(wed_trace[w]))

AbortedOf(w) == {job_pool[t].tgid : t \in {u \in JobsOf(w) : job_pool[u].aborted}}

(* The last entry of the history has the excpt of st_status. *)
TraceHead ==
    \A w \in Wid :
       /\ wed_flow[w] = NoRow <=> Len(wed_trace[w]) = 0
       /\ wed_flow[w] # NoRow => wed_trace[w][Len(wed_trace[w])].excpt = st_status[w].excpt

(* A withdrawn trigger is in flight as far as the history knows. *)
WithdrawnInFlight ==
    \A t \in withdrawn : /\ IsJob(t) /\ job_pool[t].aborted
                         /\ job_pool[t].tgid \in InFlightOf(job_pool[t].wid)

TraceInv ==
    /\ TraceHead
    /\ TraceAccountsForJobs
    /\ TraceIsCausal
    /\ WithdrawnInFlight

(* The definition of TraceAccountsForJobs with the names used here. *)
LEMMA Accounts ==
    TraceAccountsForJobs <=>
       \A w \in Wid : /\ running_triggers(w, {}) \subseteq InFlightOf(w)
                      /\ InFlightOf(w) \ running_triggers(w, {}) \subseteq AbortedOf(w)
    BY DEF TraceAccountsForJobs, InFlightOf, AbortedOf

(* An entry e is appended to the history of w and to no other. *)
Appended(w, e) ==
    /\ Len(wed_trace'[w]) = Len(wed_trace[w]) + 1
    /\ wed_trace'[w][Len(wed_trace[w]) + 1] = e
    /\ \A n \in 1..Len(wed_trace[w]) : wed_trace'[w][n] = wed_trace[w][n]
    /\ \A v \in Wid \ {w} : wed_trace'[v] = wed_trace[v]

(* What new_trace_entry does to the histories. *)
LEMMA EntryAppended ==
    ASSUME TypeOK, NEW w \in Wid, NEW s, NEW wrote, NEW fired, NEW fin, NEW ex,
           new_trace_entry(w, s, wrote, fired, fin, ex)
    PROVE  Appended(w, [st |-> s, tgid_wrote |-> wrote, tgid_fired |-> fired,
                        final |-> fin, excpt |-> ex])
  <1> DEFINE e == [st |-> s, tgid_wrote |-> wrote, tgid_fired |-> fired,
                   final |-> fin, excpt |-> ex]
  <1>1. wed_trace' = [wed_trace EXCEPT ![w] = Append(wed_trace[w], e)]
    BY DEF new_trace_entry
  <1> HIDE DEF e
  <1>2. wed_trace[w] \in Seq(Entry)
    BY DEF TypeOK
  <1>3. wed_trace'[w] = Append(wed_trace[w], e)
    BY <1>1 DEF TypeOK
  <1>4. /\ Len(Append(wed_trace[w], e)) = Len(wed_trace[w]) + 1
        /\ Append(wed_trace[w], e)[Len(wed_trace[w]) + 1] = e
        /\ \A n \in 1..Len(wed_trace[w]) : Append(wed_trace[w], e)[n] = wed_trace[w][n]
    BY <1>2
  <1>5. \A v \in Wid \ {w} : wed_trace'[v] = wed_trace[v]
    BY <1>1 DEF TypeOK
  <1>6. Appended(w, e)
    BY <1>3, <1>4, <1>5 DEF Appended
  <1> QED
    BY <1>6 DEF e

(* What is in flight after an entry was appended. *)
LEMMA InFlightAppended ==
    ASSUME TypeOK, NEW w \in Wid, NEW e, Appended(w, e)
    PROVE  /\ \A n \in 0..Len(wed_trace[w]) :
                 InFlight(wed_trace'[w], n) = InFlight(wed_trace[w], n)
           /\ InFlightOf(w)' = Following(InFlightOf(w), e)
           /\ \A v \in Wid \ {w} : InFlightOf(v)' = InFlightOf(v)
  <1> DEFINE h == wed_trace[w]
             i == wed_trace'[w]
             n == Len(wed_trace[w])
  <1>1. n \in Nat
    BY DEF TypeOK
  <1>2. \A k \in 1..n : i[k] = h[k]
    BY DEF Appended
  <1> HIDE DEF h, i, n
  <1>3. \A k \in 0..n : InFlight(i, k) = InFlight(h, k)
    BY <1>1, <1>2, InFlightPrefix
  <1>4. InFlight(i, n + 1) = Following(InFlight(i, n), i[n + 1])
    BY <1>1, InFlightSteps
  <1>5. i[n + 1] = e /\ Len(i) = n + 1 /\ n \in 0..n
    BY <1>1 DEF Appended, i, n
  <1>6. InFlight(i, Len(i)) = Following(InFlight(h, n), e)
    BY <1>3, <1>4, <1>5
  <1>7. \A v \in Wid \ {w} : InFlightOf(v)' = InFlightOf(v)
    BY DEF Appended, InFlightOf
  <1> QED
    BY <1>3, <1>6, <1>7 DEF InFlightOf, h, i, n

(* An entry that is anonymous or signed as it should be keeps the history causal. *)
LEMMA CausalAppended ==
    ASSUME TypeOK, TypeOK', TraceIsCausal, NEW w \in Wid, NEW e, Appended(w, e),
           IF Len(wed_trace[w]) = 0 \/ wed_trace[w][Len(wed_trace[w])].excpt
           THEN e.tgid_wrote = NULL ELSE e.tgid_wrote \in InFlightOf(w)
    PROVE  TraceIsCausal'
  <1> DEFINE Causal(h, n) ==
                IF n = 1 \/ h[n - 1].excpt THEN h[n].tgid_wrote = NULL
                ELSE h[n].tgid_wrote \in InFlight(h, n - 1)
  <1>1. Len(wed_trace[w]) \in Nat /\ \A v \in Wid : DOMAIN wed_trace[v] = 1..Len(wed_trace[v])
    BY DEF TypeOK
  <1>2. \A v \in Wid : \A n \in DOMAIN wed_trace[v] : Causal(wed_trace[v], n)
    BY DEF TraceIsCausal
  <1>3. \A n \in 0..Len(wed_trace[w]) : InFlight(wed_trace'[w], n) = InFlight(wed_trace[w], n)
    BY InFlightAppended
  <1>4. ASSUME NEW n \in 1..Len(wed_trace[w])
        PROVE  Causal(wed_trace'[w], n)
    <2>1. wed_trace'[w][n] = wed_trace[w][n] /\ Causal(wed_trace[w], n)
      BY <1>1, <1>2 DEF Appended
    <2>2. n - 1 \in 0..Len(wed_trace[w])
      BY <1>1
    <2>3. n # 1 => n - 1 \in 1..Len(wed_trace[w])
      BY <1>1
    <2>4. n # 1 => wed_trace'[w][n - 1] = wed_trace[w][n - 1]
      BY <2>3 DEF Appended
    <2> QED
      BY <1>3, <2>1, <2>2, <2>4
  <1>5. Causal(wed_trace'[w], Len(wed_trace[w]) + 1)
    <2> DEFINE n == Len(wed_trace[w])
    <2>1. n \in Nat /\ wed_trace'[w][n + 1] = e /\ (n + 1) - 1 = n
      BY <1>1 DEF Appended
    <2>2. n # 0 => wed_trace'[w][n] = wed_trace[w][n]
      BY <1>1 DEF Appended
    <2>3. InFlight(wed_trace'[w], n) = InFlightOf(w)
      BY <1>1, <1>3 DEF InFlightOf
    <2> QED
      BY <2>1, <2>2, <2>3
  <1>6. Len(wed_trace'[w]) = Len(wed_trace[w]) + 1
    BY DEF Appended
  <1> HIDE DEF Causal
  <1>7. \A n \in 1..Len(wed_trace'[w]) : Causal(wed_trace'[w], n)
    BY <1>1, <1>4, <1>5, <1>6
  <1>8. \A v \in Wid \ {w} : \A n \in DOMAIN wed_trace'[v] : Causal(wed_trace'[v], n)
    BY <1>2 DEF Appended
  <1>9. DOMAIN wed_trace'[w] = 1..Len(wed_trace'[w])
    BY DEF TypeOK
  <1> QED
    BY <1>7, <1>8, <1>9 DEF TraceIsCausal, Causal

-----------------------------------------------------------------------------
(* Kernel writes *)

(* A kernel write of w completes the jobs of done and inserts one per trigger of G. *)
WriteRows(w, done, G) ==
    /\ RowsAfter(w, done)
    /\ \A t \in Uptkn : ~IsJob(t) /\ job_pool'[t] # NoRow => \E g \in G : job_pool'[t] = NewJob(g, w)
    /\ \A g \in G : \E t \in Uptkn : ~IsJob(t) /\ job_pool'[t] # NoRow /\ job_pool'[t] = NewJob(g, w)

(* PoolAfter does that. *)
LEMMA PoolWriteRows ==
    ASSUME TypeOK, NEW w \in Wid, NEW done \in SUBSET OpenJobsOf(w), NEW G \in SUBSET Tgid,
           NEW b \in Draws(G), job_pool' = PoolAfter(w, done, b)
    PROVE  WriteRows(w, done, G)
  <1>1. RowsAfter(w, done)
    BY PoolRows
  <1>2. /\ DOMAIN b \subseteq Uptkn
        /\ \A t \in DOMAIN b : ~IsJob(t) /\ b[t] \in G
        /\ \A g \in G : \E t \in DOMAIN b : b[t] = g
    BY DrawFacts
  <1>3. \A t \in DOMAIN b : job_pool'[t] = NewJob(b[t], w)
    BY <1>2 DEF PoolAfter
  <1>4. \A g \in G : NewJob(g, w) # NoRow
    BY NewJobFacts
  <1>5. \A t \in done : IsJob(t)
    BY DEF OpenJobsOf, JobsOf
  <1>6. ASSUME NEW t \in Uptkn, ~IsJob(t), job_pool'[t] # NoRow
        PROVE  t \in DOMAIN b
    BY <1>5, <1>6 DEF IsJob, PoolAfter
  <1> QED
    BY <1>1, <1>2, <1>3, <1>4, <1>6 DEF WriteRows

(* The triggers that run, and those that had a job aborted, after a kernel write. *)
LEMMA WriteTriggers ==
    ASSUME TypeOK, NEW w \in Wid, NEW done \in SUBSET OpenJobsOf(w),
           NEW G \in SUBSET Tgid, WriteRows(w, done, G)
    PROVE  /\ running_triggers(w, {})' = running_triggers(w, done) \cup G
           /\ \A v \in Wid \ {w} : running_triggers(v, {})' = running_triggers(v, {})
           /\ \A v \in Wid : AbortedOf(v) \subseteq AbortedOf(v)'
  <1>0. \A t \in done : t \in Uptkn /\ IsJob(t) /\ job_pool[t].wid = w /\ job_pool'[t] # NoRow
    BY KernelAssumption DEF OpenJobsOf, JobsOf, RowsAfter, WriteRows
  <1>1. \A t \in Uptkn : ~IsJob(t) /\ job_pool'[t] # NoRow =>
           /\ job_pool'[t].wid = w /\ ~job_pool'[t].tf /\ job_pool'[t].tgid \in G
    BY NewJobFacts DEF WriteRows
  <1>2. \A g \in G : \E t \in Uptkn : /\ ~IsJob(t) /\ job_pool'[t] # NoRow
                                      /\ job_pool'[t].wid = w /\ ~job_pool'[t].tf
                                      /\ job_pool'[t].tgid = g
    BY NewJobFacts DEF WriteRows
  <1>3. \A t \in Uptkn \ done : IsJob(t) => job_pool'[t] = job_pool[t]
    BY DEF WriteRows, RowsAfter
  <1>4. \A t \in done : /\ job_pool'[t].tf /\ job_pool'[t].tgid = job_pool[t].tgid
                        /\ job_pool'[t].wid = job_pool[t].wid
                        /\ job_pool'[t].aborted = job_pool[t].aborted
    BY DEF WriteRows, RowsAfter
  <1>5. ASSUME NEW g
        PROVE  g \in running_triggers(w, {})' <=> g \in running_triggers(w, done) \cup G
    BY <1>0, <1>1, <1>2, <1>3, <1>4
       DEF running_triggers, OpenJobsOf, JobsOf, Open, IsJob
  <1>6. ASSUME NEW v \in Wid \ {w}, NEW g
        PROVE  g \in running_triggers(v, {})' <=> g \in running_triggers(v, {})
    BY <1>0, <1>1, <1>3, <1>4 DEF running_triggers, OpenJobsOf, JobsOf, Open, IsJob
  <1>7. ASSUME NEW v \in Wid, NEW g \in AbortedOf(v)
        PROVE  g \in AbortedOf(v)'
    BY <1>0, <1>3, <1>4 DEF AbortedOf, JobsOf, IsJob
  <1> QED
    BY <1>5, <1>6, <1>7

(***************************************************************************)
(* A kernel write keeps the account: the trigger that wrote leaves, what   *)
(* is fired enters, and everything else is as before.                      *)
(***************************************************************************)
LEMMA WriteTraceInv ==
    ASSUME TypeOK, TypeOK', TraceInv,
           NEW w \in Wid, NEW s \in State, NEW wrote, NEW G \in SUBSET Tgid, NEW fin, NEW ex,
           NEW done \in SUBSET OpenJobsOf(w), WriteRows(w, done, G),
           new_trace_entry(w, s, wrote, G, fin, ex), set_st_status(w, fin, ex),
           wed_flow' = [wed_flow EXCEPT ![w] = s],
           withdrawn' = withdrawn \ JobsOf(w),
           IF Len(wed_trace[w]) = 0 \/ wed_trace[w][Len(wed_trace[w])].excpt
           THEN wrote = NULL ELSE wrote \in InFlightOf(w),
           running_triggers(w, done) \subseteq InFlightOf(w) \ {wrote},
           (InFlightOf(w) \ {wrote}) \ running_triggers(w, done) \subseteq AbortedOf(w)
    PROVE  TraceInv'
  <1> DEFINE e == [st |-> s, tgid_wrote |-> wrote, tgid_fired |-> G,
                   final |-> fin, excpt |-> ex]
  <1>1. e.tgid_wrote = wrote /\ e.tgid_fired = G /\ e.excpt = ex
    OBVIOUS
  <1>2. Appended(w, e)
    BY EntryAppended
  <1> HIDE DEF e
  <1>3. /\ InFlightOf(w)' = (InFlightOf(w) \ {wrote}) \cup G
        /\ \A v \in Wid \ {w} : InFlightOf(v)' = InFlightOf(v)
    BY <1>1, <1>2, InFlightAppended DEF Following
  <1>4. TraceIsCausal'
    BY <1>1, <1>2, CausalAppended DEF TraceInv
  <1>5. TraceHead'
    <2>1. /\ wed_flow'[w] = s /\ s # NoRow
          /\ st_status'[w] = [final |-> fin, excpt |-> ex] /\ st_status'[w].excpt = ex
          /\ \A v \in Wid \ {w} : wed_flow'[v] = wed_flow[v] /\ st_status'[v] = st_status[v]
      BY KernelAssumption DEF TypeOK, set_st_status
    <2>2. Len(wed_trace[w]) \in Nat
      BY DEF TypeOK
    <2>3. /\ Len(wed_trace'[w]) # 0
          /\ wed_trace'[w][Len(wed_trace'[w])].excpt = st_status'[w].excpt
      <3>1. /\ Len(wed_trace'[w]) = Len(wed_trace[w]) + 1
            /\ wed_trace'[w][Len(wed_trace[w]) + 1] = e
        BY <1>2 DEF Appended
      <3>2. \A n \in Nat : n + 1 # 0
        OBVIOUS
      <3>3. Len(wed_trace'[w]) # 0
        BY <2>2, <3>1, <3>2, Zenon
      <3> QED
        BY <1>1, <2>1, <3>1, <3>3
    <2>4. \A v \in Wid \ {w} : wed_trace'[v] = wed_trace[v]
      BY <1>2 DEF Appended
    <2> QED
      BY <2>1, <2>3, <2>4 DEF TraceInv, TraceHead
  <1>6. TraceAccountsForJobs'
    <2>1. /\ running_triggers(w, {})' = running_triggers(w, done) \cup G
          /\ \A v \in Wid \ {w} : running_triggers(v, {})' = running_triggers(v, {})
          /\ \A v \in Wid : AbortedOf(v) \subseteq AbortedOf(v)'
      BY WriteTriggers
    <2>2. \A v \in Wid : /\ running_triggers(v, {}) \subseteq InFlightOf(v)
                         /\ InFlightOf(v) \ running_triggers(v, {}) \subseteq AbortedOf(v)
      BY Accounts DEF TraceInv
    <2>3. ASSUME NEW v \in Wid
          PROVE  /\ running_triggers(v, {})' \subseteq InFlightOf(v)'
                 /\ InFlightOf(v)' \ running_triggers(v, {})' \subseteq AbortedOf(v)'
      <3>1. CASE v = w
        BY <1>3, <2>1, <3>1
      <3>2. CASE v # w
        BY <1>3, <2>1, <2>2, <3>2
      <3> QED
        BY <3>1, <3>2
    <2> QED
      BY <2>3 DEF TraceAccountsForJobs, InFlightOf, AbortedOf
  <1>7. WithdrawnInFlight'
    <2> SUFFICES ASSUME NEW t \in withdrawn \ JobsOf(w)
                 PROVE  \E v \in Wid : /\ job_pool'[t] # NoRow /\ job_pool'[t].aborted
                                       /\ v = job_pool'[t].wid
                                       /\ job_pool'[t].tgid \in InFlightOf(v)'
      BY DEF WithdrawnInFlight, IsJob, InFlightOf
    <2>1. PICK v \in Wid \ {w} : /\ t \in Uptkn /\ IsJob(t) /\ job_pool[t].aborted
                                 /\ v = job_pool[t].wid
                                 /\ job_pool[t].tgid \in InFlightOf(v)
      BY DEF TraceInv, WithdrawnInFlight, TypeOK, JobsOf, Job, IsJob
    <2>2. t \notin done
      BY DEF OpenJobsOf
    <2>3. job_pool'[t] = job_pool[t]
      BY <2>1, <2>2 DEF WriteRows, RowsAfter
    <2> QED
      BY <1>3, <2>1, <2>3 DEF IsJob
  <1> QED
    BY <1>4, <1>5, <1>6, <1>7 DEF TraceInv

(* An instance that has not ended has a history that does not end in an exception. *)
LEMMA LiveHistory ==
    ASSUME Inv, TraceInv, NEW w \in Wid, Live(w)
    PROVE  Len(wed_trace[w]) # 0 /\ ~wed_trace[w][Len(wed_trace[w])].excpt
    BY DEF Inv, RowsAgree, TraceInv, TraceHead, Live

(* The first entry of an instance. *)
LEMMA InsertTraceInv ==
    ASSUME Inv, TypeOK', TraceInv, NEW w \in Wid, NEW s \in State,
           InsertRunning(w, s) \/ InsertFinal(w, s)
    PROVE  TraceInv'
  <1>1. TypeOK /\ wed_flow[w] = NoRow
    BY DEF Inv, InsertRunning, InsertFinal, NewInstance
  <1>2. JobsOf(w) = {} /\ OpenJobsOf(w) = {}
    BY <1>1 DEF Inv, RowsAgree, JobsOf, OpenJobsOf
  <1>3. running_triggers(w, {}) = {}
    BY <1>2 DEF running_triggers
  <1>4. Len(wed_trace[w]) = 0 /\ InFlightOf(w) = {}
    BY <1>1, InFlightSteps DEF TraceInv, TraceHead, InFlightOf
  <1>5. /\ wed_flow' = [wed_flow EXCEPT ![w] = s]
        /\ withdrawn' = withdrawn \ JobsOf(w)
    BY <1>2 DEF InsertRunning, InsertFinal, NewInstance
  <1>6. \E G \in SUBSET Tgid : \E fin, ex :
           /\ WriteRows(w, {}, G)
           /\ new_trace_entry(w, s, NULL, G, fin, ex) /\ set_st_status(w, fin, ex)
    <2>1. CASE InsertRunning(w, s)
      <3> DEFINE G == squeeze_the_trigger(pred_match(s), {})
      <3>1. G \in SUBSET Tgid
        BY DEF squeeze_the_trigger
      <3>2. PICK b \in Draws(G) : job_pool' = PoolAfter(w, {}, b)
        BY <2>1 DEF InsertRunning
      <3>3. new_trace_entry(w, s, NULL, G, FALSE, FALSE) /\ set_st_status(w, FALSE, FALSE)
        BY <2>1 DEF InsertRunning
      <3> HIDE DEF G
      <3>4. WriteRows(w, {}, G)
        BY <1>1, <3>1, <3>2, PoolWriteRows
      <3> QED
        BY <3>1, <3>3, <3>4
    <2>2. CASE InsertFinal(w, s)
      <3>1. /\ job_pool' = job_pool
            /\ new_trace_entry(w, s, NULL, {}, TRUE, FALSE) /\ set_st_status(w, TRUE, FALSE)
        BY <2>2 DEF InsertFinal
      <3>2. WriteRows(w, {}, {})
        BY <3>1 DEF WriteRows, RowsAfter, IsJob
      <3> QED
        BY <3>1, <3>2
    <2> QED
      BY <2>1, <2>2
  <1> QED
    BY <1>1, <1>2, <1>3, <1>4, <1>5, <1>6, WriteTraceInv

(* An UPDATE, whose outcome is one of three: it fires the triggers of some G. *)
LEMMA UpdateWrites ==
    ASSUME TypeOK, NEW w \in Wid, NEW s \in State, NEW wrote,
           NEW done \in SUBSET OpenJobsOf(w), Update(w, s, wrote, done)
    PROVE  \E G \in SUBSET Tgid : \E fin, ex :
              /\ WriteRows(w, done, G)
              /\ new_trace_entry(w, s, wrote, G, fin, ex) /\ set_st_status(w, fin, ex)
  <1>1. CASE FireTriggers(w, s, wrote, done)
    <2> DEFINE G == squeeze_the_trigger(pred_match(s), running_triggers(w, done))
    <2>1. G \in SUBSET Tgid
      BY DEF squeeze_the_trigger
    <2>2. PICK b \in Draws(G) : job_pool' = PoolAfter(w, done, b)
      BY <1>1 DEF FireTriggers
    <2>3. new_trace_entry(w, s, wrote, G, FALSE, FALSE) /\ set_st_status(w, FALSE, FALSE)
      BY <1>1 DEF FireTriggers
    <2> HIDE DEF G
    <2>4. WriteRows(w, done, G)
      BY <2>1, <2>2, PoolWriteRows
    <2> QED
      BY <2>1, <2>3, <2>4
  <1>2. CASE Inconsistent(w, s, wrote, done) \/ ReachFinal(w, s, wrote, done)
    <2>1. WriteRows(w, done, {})
      BY <1>2, EmptyDraw, PoolWriteRows DEF Inconsistent, ReachFinal
    <2>2. \E ex : new_trace_entry(w, s, wrote, {}, TRUE, ex) /\ set_st_status(w, TRUE, ex)
      BY <1>2 DEF Inconsistent, ReachFinal
    <2> QED
      BY <2>1, <2>2
  <1> QED
    BY <1>1, <1>2 DEF Update

(* A write with the token of job t: t's trigger leaves. *)
LEMMA TokenTraceInv ==
    ASSUME Inv, TypeOK', TraceInv, NEW w \in Wid, NEW s \in State, NEW t \in Uptkn,
           UpdateWithToken(w, s, t)
    PROVE  TraceInv'
  <1> DEFINE g == job_pool[t].tgid
  <1>1. /\ TypeOK /\ t \in OpenJobsOf(w) /\ {t} \in SUBSET OpenJobsOf(w)
        /\ Update(w, s, g, {t})
    BY TokenJob DEF Inv
  <1>2. Live(w)
    BY <1>1 DEF Inv, FinalIsQuiet
  <1>3. /\ running_triggers(w, {}) \subseteq InFlightOf(w)
        /\ InFlightOf(w) \ running_triggers(w, {}) \subseteq AbortedOf(w)
    BY Accounts DEF TraceInv
  <1>4. g \in running_triggers(w, {})
    BY <1>1 DEF running_triggers
  <1>5. running_triggers(w, {t}) = running_triggers(w, {}) \ {g}
    BY <1>1 DEF running_triggers, Inv, OneOpenJobPerTrigger
  <1>6. wed_flow' = [wed_flow EXCEPT ![w] = s] /\ withdrawn' = withdrawn \ JobsOf(w)
    BY <1>1 DEF Update
  <1>7. Len(wed_trace[w]) # 0 /\ ~wed_trace[w][Len(wed_trace[w])].excpt
    BY <1>2, LiveHistory
  <1> HIDE DEF g
  <1>8. PICK G \in SUBSET Tgid : \E fin, ex :
           /\ WriteRows(w, {t}, G)
           /\ new_trace_entry(w, s, g, G, fin, ex) /\ set_st_status(w, fin, ex)
    BY <1>1, UpdateWrites
  <1>9. /\ g \in InFlightOf(w)
        /\ running_triggers(w, {t}) \subseteq InFlightOf(w) \ {g}
        /\ (InFlightOf(w) \ {g}) \ running_triggers(w, {t}) \subseteq AbortedOf(w)
    BY <1>3, <1>4, <1>5
  <1> QED
    BY <1>1, <1>6, <1>7, <1>8, <1>9, WriteTraceInv

(* A write with the token 'exception': nothing was running. *)
LEMMA ExceptionTraceInv ==
    ASSUME Inv, TypeOK', TraceInv, NEW w \in Wid, NEW s \in State, UpdateException(w, s)
    PROVE  TraceInv'
  <1>1. /\ TypeOK /\ Update(w, s, NULL, {}) /\ {} \in SUBSET OpenJobsOf(w)
        /\ wed_flow[w] # NoRow /\ st_status[w].excpt
    BY DEF UpdateException, Inv
  <1>2. ~Live(w) /\ OpenJobsOf(w) = {}
    BY <1>1 DEF Inv, RowsAgree, FinalIsQuiet, Live
  <1>3. running_triggers(w, {}) = {}
    BY <1>2 DEF running_triggers
  <1>4. InFlightOf(w) \subseteq AbortedOf(w)
    BY <1>3, Accounts DEF TraceInv
  <1>5. wed_trace[w][Len(wed_trace[w])].excpt
    BY <1>1 DEF TraceInv, TraceHead
  <1>6. wed_flow' = [wed_flow EXCEPT ![w] = s] /\ withdrawn' = withdrawn \ JobsOf(w)
    BY <1>1 DEF Update
  <1>7. PICK G \in SUBSET Tgid : \E fin, ex :
           /\ WriteRows(w, {}, G)
           /\ new_trace_entry(w, s, NULL, G, fin, ex) /\ set_st_status(w, fin, ex)
    BY <1>1, UpdateWrites
  <1>8. /\ running_triggers(w, {}) \subseteq InFlightOf(w) \ {NULL}
        /\ (InFlightOf(w) \ {NULL}) \ running_triggers(w, {}) \subseteq AbortedOf(w)
    BY <1>3, <1>4
  <1> QED
    BY <1>1, <1>5, <1>6, <1>7, <1>8, WriteTraceInv

-----------------------------------------------------------------------------
(* Steps that write no history *)

(* Without a new entry, only the rows of job_pool need an account. *)
LEMMA QuietTraceInv ==
    ASSUME TraceInv, UNCHANGED <<wed_flow, st_status, wed_trace>>,
           \A w \in Wid : /\ running_triggers(w, {})' \subseteq InFlightOf(w)
                          /\ InFlightOf(w) \ running_triggers(w, {})' \subseteq AbortedOf(w)',
           \A t \in withdrawn' : /\ job_pool'[t] # NoRow /\ job_pool'[t].aborted
                                 /\ job_pool'[t].tgid \in InFlightOf(job_pool'[t].wid)
    PROVE  TraceInv'
  <1>1. TraceHead' /\ TraceIsCausal'
    BY DEF TraceInv, TraceHead, TraceIsCausal
  <1>2. \A w : InFlightOf(w)' = InFlightOf(w)
    BY DEF InFlightOf
  <1>3. TraceAccountsForJobs'
    BY DEF TraceAccountsForJobs, InFlightOf, AbortedOf
  <1>4. WithdrawnInFlight'
    BY DEF WithdrawnInFlight, IsJob, InFlightOf
  <1> QED
    BY <1>1, <1>3, <1>4 DEF TraceInv

(* The triggers that run, by the rows that say so ... *)
LEMMA RunningByRow ==
    ASSUME NEW w \in Wid, NEW g
    PROVE  g \in running_triggers(w, {}) <=>
             \E t \in Uptkn : /\ job_pool[t] # NoRow /\ ~job_pool[t].tf
                              /\ job_pool[t].wid = w /\ job_pool[t].tgid = g
    BY DEF running_triggers, AbortedOf, OpenJobsOf, JobsOf, Open, IsJob

(* ... also after a step. *)
LEMMA RunningByRowNext ==
    ASSUME NEW w \in Wid, NEW g
    PROVE  g \in running_triggers(w, {})' <=>
             \E t \in Uptkn : /\ job_pool'[t] # NoRow /\ ~job_pool'[t].tf
                              /\ job_pool'[t].wid = w /\ job_pool'[t].tgid = g
    BY DEF running_triggers, AbortedOf, OpenJobsOf, JobsOf, Open, IsJob

(* The triggers that had a job aborted, by the rows that say so ... *)
LEMMA AbortedByRow ==
    ASSUME NEW w \in Wid, NEW g
    PROVE  g \in AbortedOf(w) <=>
             \E t \in Uptkn : /\ job_pool[t] # NoRow /\ job_pool[t].aborted
                              /\ job_pool[t].wid = w /\ job_pool[t].tgid = g
    BY DEF running_triggers, AbortedOf, OpenJobsOf, JobsOf, Open, IsJob

(* ... also after a step. *)
LEMMA AbortedByRowNext ==
    ASSUME NEW w \in Wid, NEW g
    PROVE  g \in AbortedOf(w)' <=>
             \E t \in Uptkn : /\ job_pool'[t] # NoRow /\ job_pool'[t].aborted
                              /\ job_pool'[t].wid = w /\ job_pool'[t].tgid = g
    BY DEF running_triggers, AbortedOf, OpenJobsOf, JobsOf, Open, IsJob

(* The triggers that run, and those that had a job aborted, after a step of one row. *)
LEMMA RowTriggers ==
    ASSUME NEW t \in Uptkn, job_pool[t] # NoRow, job_pool'[t] # NoRow,
           job_pool'[t].tgid = job_pool[t].tgid, job_pool'[t].wid = job_pool[t].wid,
           job_pool[t].tf => job_pool'[t].tf, job_pool[t].aborted => job_pool'[t].aborted,
           ~job_pool[t].tf /\ job_pool'[t].tf => job_pool'[t].aborted,
           \A u \in Uptkn \ {t} : job_pool'[u] = job_pool[u], NEW w \in Wid
    PROVE  /\ running_triggers(w, {})' \subseteq running_triggers(w, {})
           /\ running_triggers(w, {}) \subseteq running_triggers(w, {})' \cup AbortedOf(w)'
           /\ AbortedOf(w) \subseteq AbortedOf(w)'
  <1>1. ASSUME NEW g \in running_triggers(w, {})'
        PROVE  g \in running_triggers(w, {})
    <2>1. PICK u \in Uptkn : /\ job_pool'[u] # NoRow /\ ~job_pool'[u].tf
                             /\ job_pool'[u].wid = w /\ job_pool'[u].tgid = g
      BY RunningByRowNext
    <2>2. /\ job_pool[u] # NoRow /\ ~job_pool[u].tf
          /\ job_pool[u].wid = w /\ job_pool[u].tgid = g
      BY <2>1
    <2> QED
      BY <2>2, RunningByRow
  <1>2. ASSUME NEW g \in running_triggers(w, {})
        PROVE  g \in running_triggers(w, {})' \cup AbortedOf(w)'
    <2>1. PICK u \in Uptkn : /\ job_pool[u] # NoRow /\ ~job_pool[u].tf
                             /\ job_pool[u].wid = w /\ job_pool[u].tgid = g
      BY RunningByRow
    <2>2. /\ job_pool'[u] # NoRow /\ (~job_pool'[u].tf \/ job_pool'[u].aborted)
          /\ job_pool'[u].wid = w /\ job_pool'[u].tgid = g
      BY <2>1
    <2> QED
      <3>1. CASE ~job_pool'[u].tf
        <4>1. \E x \in Uptkn : /\ job_pool'[x] # NoRow /\ ~job_pool'[x].tf
                               /\ job_pool'[x].wid = w /\ job_pool'[x].tgid = g
          BY <2>2, <3>1
        <4> QED
          BY <4>1, RunningByRowNext
      <3>2. CASE job_pool'[u].aborted
        <4>1. \E x \in Uptkn : /\ job_pool'[x] # NoRow /\ job_pool'[x].aborted
                               /\ job_pool'[x].wid = w /\ job_pool'[x].tgid = g
          BY <2>2, <3>2
        <4> QED
          BY <4>1, AbortedByRowNext
      <3> QED
        BY <2>2, <3>1, <3>2
  <1>3. ASSUME NEW g \in AbortedOf(w)
        PROVE  g \in AbortedOf(w)'
    <2>1. PICK u \in Uptkn : /\ job_pool[u] # NoRow /\ job_pool[u].aborted
                             /\ job_pool[u].wid = w /\ job_pool[u].tgid = g
      BY AbortedByRow
    <2>2. /\ job_pool'[u] # NoRow /\ job_pool'[u].aborted
          /\ job_pool'[u].wid = w /\ job_pool'[u].tgid = g
      BY <2>1
    <2> QED
      BY <2>2, AbortedByRowNext
  <1> QED
    BY <1>1, <1>2, <1>3

(* A step of one row, by which it may become aborted and then closed. *)
LEMMA RowTraceInv ==
    ASSUME Inv, TraceInv, UNCHANGED <<wed_flow, st_status, wed_trace>>,
           NEW t \in Uptkn, IsJob(t), NEW row \in Job,
           job_pool' = [job_pool EXCEPT ![t] = row],
           row.tgid = job_pool[t].tgid, row.wid = job_pool[t].wid,
           job_pool[t].tf => row.tf, job_pool[t].aborted => row.aborted,
           Open(t) /\ row.tf => row.aborted,
           withdrawn' = IF Open(t) /\ row.tf THEN withdrawn \cup {t} ELSE withdrawn
    PROVE  TraceInv'
  <1>1. /\ job_pool'[t] = row /\ job_pool'[t] # NoRow
        /\ \A u \in Uptkn \ {t} : job_pool'[u] = job_pool[u]
    BY KernelAssumption DEF Inv, TypeOK
  <1>2. \A w \in Wid : /\ running_triggers(w, {}) \subseteq InFlightOf(w)
                       /\ InFlightOf(w) \ running_triggers(w, {}) \subseteq AbortedOf(w)
    BY Accounts DEF TraceInv
  <1>3. \A w \in Wid :
           /\ running_triggers(w, {})' \subseteq running_triggers(w, {})
           /\ running_triggers(w, {}) \subseteq running_triggers(w, {})' \cup AbortedOf(w)'
           /\ AbortedOf(w) \subseteq AbortedOf(w)'
    BY <1>1, RowTriggers DEF IsJob, Open
  <1>6. \A u \in withdrawn : /\ u \in Uptkn /\ job_pool[u] # NoRow /\ job_pool[u].aborted
                             /\ job_pool[u].tgid \in InFlightOf(job_pool[u].wid)
    BY DEF TraceInv, WithdrawnInFlight, IsJob, Inv, TypeOK
  <1>7. Open(t) => job_pool[t].tgid \in InFlightOf(job_pool[t].wid)
    <2>1. job_pool[t].wid \in Wid
      BY DEF Inv, TypeOK, Job, IsJob
    <2>2. Open(t) => job_pool[t].tgid \in running_triggers(job_pool[t].wid, {})
      BY DEF running_triggers, OpenJobsOf, JobsOf
    <2> QED
      BY <1>2, <2>1, <2>2
  <1>8. \A u \in withdrawn' : /\ job_pool'[u] # NoRow /\ job_pool'[u].aborted
                              /\ job_pool'[u].tgid \in InFlightOf(job_pool'[u].wid)
    <2> SUFFICES ASSUME NEW u \in withdrawn'
                 PROVE  /\ job_pool'[u] # NoRow /\ job_pool'[u].aborted
                        /\ job_pool'[u].tgid \in InFlightOf(job_pool'[u].wid)
      OBVIOUS
    <2>1. CASE u = t
      BY <1>1, <1>6, <1>7, <2>1
    <2>2. CASE u # t
      BY <1>1, <1>6, <2>2
    <2> QED
      BY <2>1, <2>2
  <1>9. \A w \in Wid : /\ running_triggers(w, {})' \subseteq InFlightOf(w)
                       /\ InFlightOf(w) \ running_triggers(w, {})' \subseteq AbortedOf(w)'
    BY <1>2, <1>3
  <1> QED
    BY <1>8, <1>9, QuietTraceInv

(* job_lock, job_abort and the clock. *)
LEMMA JobTraceInv ==
    ASSUME Inv, TraceInv, NEW t \in Uptkn, job_lock(t) \/ job_abort(t) \/ Timeout(t)
    PROVE  TraceInv'
  <1>1. IsJob(t) /\ job_pool[t] \in Job /\ UNCHANGED <<wed_flow, st_status, wed_trace>>
    BY DEF job_lock, job_abort, Timeout, Open, Inv, TypeOK, IsJob
  <1>2. CASE job_lock(t)
    <2> DEFINE row == LockedRow(job_pool[t])
    <2>1. job_pool' = [job_pool EXCEPT ![t] = row] /\ withdrawn' = withdrawn
      BY <1>2 DEF job_lock
    <2>2. ~job_pool[t].aborted
      BY <1>1, <1>2 DEF job_lock, CanLock, Inv, RowsAgree, JobColumnsAgree
    <2>3. /\ row \in Job /\ row.tgid = job_pool[t].tgid /\ row.wid = job_pool[t].wid
          /\ row.tf = job_pool[t].tf
      BY <1>1 DEF LockedRow, Job, Ti
    <2> HIDE DEF row
    <2> QED
      BY <1>1, <2>1, <2>2, <2>3, RowTraceInv DEF Open
  <1>3. CASE job_abort(t)
    <2> DEFINE row == AbortedRow(job_pool[t])
    <2>1. /\ job_pool' = [job_pool EXCEPT ![t] = row]
          /\ withdrawn' = IF Open(t) THEN withdrawn \cup {t} ELSE withdrawn
      BY <1>3 DEF job_abort
    <2>2. /\ row \in Job /\ row.tgid = job_pool[t].tgid /\ row.wid = job_pool[t].wid
          /\ row.tf /\ row.aborted
      BY <1>1 DEF AbortedRow, Job
    <2> HIDE DEF row
    <2> QED
      BY <1>1, <2>1, <2>2, RowTraceInv
  <1>4. CASE Timeout(t)
    <2> DEFINE row == [job_pool[t] EXCEPT !.ti = "expired"]
    <2>1. job_pool' = [job_pool EXCEPT ![t] = row] /\ withdrawn' = withdrawn
      BY <1>4 DEF Timeout
    <2>2. /\ row \in Job /\ row.tgid = job_pool[t].tgid /\ row.wid = job_pool[t].wid
          /\ row.tf = job_pool[t].tf /\ row.aborted = job_pool[t].aborted
      BY <1>1 DEF Job, Ti
    <2> HIDE DEF row
    <2> QED
      BY <1>1, <2>1, <2>2, RowTraceInv DEF Open
  <1> QED
    BY <1>2, <1>3, <1>4

(* A re-queue: what an inspector selected is in flight, and stays so. *)
LEMMA RequeueTraceInv ==
    ASSUME Inv, TraceInv, NEW i \in Inspector, InspectorRequeue(i)
    PROVE  TraceInv'
  <1> DEFINE rows == inspector[i].rows
  <1>1. PICK b \in Draws(rows) : job_pool' = Requeued(rows, b)
    BY DEF InspectorRequeue
  <1>2. /\ DOMAIN b \subseteq Uptkn
        /\ \A t \in DOMAIN b : job_pool[t] = NoRow /\ b[t] \in rows
        /\ \A r \in rows : \E t \in DOMAIN b : b[t] = r
    BY DrawFacts DEF IsJob
  <1>3. /\ \A t \in Uptkn \ rows : IsJob(t) => job_pool'[t] = job_pool[t]
        /\ \A r \in rows : /\ r \in Uptkn /\ job_pool'[r] # NoRow
                           /\ job_pool'[r].tf /\ job_pool'[r].aborted
                           /\ job_pool'[r].tgid = job_pool[r].tgid
                           /\ job_pool'[r].wid = job_pool[r].wid
    BY RequeueRows
  <1>4. \A r \in rows : /\ IsJob(r) /\ job_pool[r].tgid \in Tgid /\ job_pool[r].wid \in Wid
                        /\ Open(r) \/ r \in withdrawn
    <2>1. \A r \in rows : IsJob(r) /\ (Open(r) \/ r \in withdrawn)
      BY DEF Inv, SelectionStaysValid, SelectedOK
    <2>2. \A r \in rows : job_pool[r] \in Job
      BY <1>3, <2>1 DEF Inv, TypeOK, IsJob
    <2>3. \A j \in Job : j.tgid \in Tgid /\ j.wid \in Wid
      BY DEF Job
    <2> QED
      BY <2>1, <2>2, <2>3
  <1>5. \A w \in Wid : /\ running_triggers(w, {}) \subseteq InFlightOf(w)
                       /\ InFlightOf(w) \ running_triggers(w, {}) \subseteq AbortedOf(w)
    BY Accounts DEF TraceInv
  <1>6. \A r \in rows : job_pool[r].tgid \in InFlightOf(job_pool[r].wid)
    <2> SUFFICES ASSUME NEW r \in rows
                 PROVE  job_pool[r].tgid \in InFlightOf(job_pool[r].wid)
      OBVIOUS
    <2>1. CASE Open(r)
      <3>1. job_pool[r].tgid \in running_triggers(job_pool[r].wid, {})
        BY <1>3, <2>1 DEF running_triggers, OpenJobsOf, JobsOf, Open
      <3> QED
        BY <1>4, <1>5, <3>1
    <2>2. CASE r \in withdrawn
      BY <2>2 DEF TraceInv, WithdrawnInFlight
    <2> QED
      BY <1>4, <2>1, <2>2
  <1>7. \A t \in DOMAIN b : /\ job_pool'[t] # NoRow /\ ~job_pool'[t].tf
                            /\ job_pool'[t].tgid = job_pool[b[t]].tgid
                            /\ job_pool'[t].wid = job_pool[b[t]].wid
    <2> SUFFICES ASSUME NEW t \in DOMAIN b
                 PROVE  /\ job_pool'[t] # NoRow /\ ~job_pool'[t].tf
                        /\ job_pool'[t].tgid = job_pool[b[t]].tgid
                        /\ job_pool'[t].wid = job_pool[b[t]].wid
      OBVIOUS
    <2>1. job_pool'[t] = NewJob(job_pool[b[t]].tgid, job_pool[b[t]].wid)
      BY <1>1, <1>2 DEF Requeued
    <2>2. job_pool[b[t]].tgid \in Tgid /\ job_pool[b[t]].wid \in Wid
      BY <1>2, <1>4
    <2> DEFINE g == job_pool[b[t]].tgid
               w == job_pool[b[t]].wid
    <2>3. g \in Tgid /\ w \in Wid /\ job_pool'[t] = NewJob(g, w)
      BY <2>1, <2>2
    <2> HIDE DEF g, w
    <2>4. /\ job_pool'[t] # NoRow /\ ~job_pool'[t].tf
          /\ job_pool'[t].tgid = g /\ job_pool'[t].wid = w
      BY <2>3, NewJobFacts
    <2> QED
      BY <2>4 DEF g, w
  <1>8. \A t \in Uptkn : job_pool[t] = NoRow /\ job_pool'[t] # NoRow => t \in DOMAIN b
    BY <1>1, <1>4 DEF Requeued, IsJob
  <1> HIDE DEF rows
  <1>9. ASSUME NEW w \in Wid, NEW g \in running_triggers(w, {})'
        PROVE  g \in InFlightOf(w)
    <2>1. PICK t \in Uptkn : /\ job_pool'[t] # NoRow /\ ~job_pool'[t].tf
                             /\ job_pool'[t].wid = w /\ job_pool'[t].tgid = g
      BY RunningByRowNext
    <2>2. CASE t \in DOMAIN b
      <3>1. /\ b[t] \in rows /\ job_pool[b[t]].tgid = g /\ job_pool[b[t]].wid = w
        BY <1>2, <1>7, <2>1, <2>2
      <3> QED
        BY <1>6, <3>1
    <2>3. CASE t \notin DOMAIN b
      <3>1. t \notin rows /\ job_pool[t] # NoRow /\ job_pool'[t] = job_pool[t]
        BY <1>3, <1>8, <2>1, <2>3 DEF IsJob
      <3>2. g \in running_triggers(w, {})
        BY <2>1, <3>1, RunningByRow
      <3> QED
        BY <1>5, <3>2
    <2> QED
      BY <2>2, <2>3
  <1>10. ASSUME NEW w \in Wid, NEW g \in running_triggers(w, {})
         PROVE  g \in running_triggers(w, {})'
    <2>1. PICK t \in Uptkn : /\ job_pool[t] # NoRow /\ ~job_pool[t].tf
                             /\ job_pool[t].wid = w /\ job_pool[t].tgid = g
      BY RunningByRow
    <2>2. \E u \in Uptkn : /\ job_pool'[u] # NoRow /\ ~job_pool'[u].tf
                           /\ job_pool'[u].wid = w /\ job_pool'[u].tgid = g
      <3>1. CASE t \in rows
        <4>1. PICK u \in DOMAIN b : b[u] = t
          BY <1>2, <3>1
        <4>2. /\ u \in Uptkn /\ job_pool'[u] # NoRow /\ ~job_pool'[u].tf
              /\ job_pool'[u].wid = w /\ job_pool'[u].tgid = g
          BY <1>2, <1>7, <2>1, <4>1
        <4> QED
          BY <4>2
      <3>2. CASE t \notin rows
        BY <1>3, <2>1, <3>2 DEF IsJob
      <3> QED
        BY <3>1, <3>2
    <2> QED
      BY <2>2, RunningByRowNext
  <1>11. ASSUME NEW w \in Wid, NEW g \in AbortedOf(w)
         PROVE  g \in AbortedOf(w)'
    <2>1. PICK u \in Uptkn : /\ job_pool[u] # NoRow /\ job_pool[u].aborted
                             /\ job_pool[u].wid = w /\ job_pool[u].tgid = g
      BY AbortedByRow
    <2>2. /\ job_pool'[u] # NoRow /\ job_pool'[u].aborted
          /\ job_pool'[u].wid = w /\ job_pool'[u].tgid = g
      BY <1>3, <2>1 DEF IsJob
    <2> QED
      BY <2>2, AbortedByRowNext
  <1>12. \A w \in Wid : /\ running_triggers(w, {})' \subseteq InFlightOf(w)
                        /\ InFlightOf(w) \ running_triggers(w, {})' \subseteq AbortedOf(w)'
    BY <1>5, <1>9, <1>10, <1>11
  <1>13. \A t \in withdrawn' : /\ job_pool'[t] # NoRow /\ job_pool'[t].aborted
                               /\ job_pool'[t].tgid \in InFlightOf(job_pool'[t].wid)
    <2>1. \A t \in withdrawn \ rows : /\ t \in Uptkn /\ job_pool[t] # NoRow
                                      /\ job_pool[t].aborted
                                      /\ job_pool[t].tgid \in InFlightOf(job_pool[t].wid)
      BY DEF TraceInv, WithdrawnInFlight, IsJob, Inv, TypeOK
    <2>2. withdrawn' = withdrawn \ rows
      BY DEF InspectorRequeue, rows
    <2> QED
      BY <1>3, <2>1, <2>2 DEF IsJob
  <1>14. UNCHANGED <<wed_flow, st_status, wed_trace>>
    BY DEF InspectorRequeue
  <1> QED
    BY <1>12, <1>13, <1>14, QuietTraceInv

-----------------------------------------------------------------------------
(* At first there is no history and no job. *)
LEMMA TraceInit == Init => TraceInv
  <1> SUFFICES ASSUME Init PROVE TraceInv
    OBVIOUS
  <1>1. \A w \in Wid : wed_trace[w] = <<>> /\ wed_flow[w] = NoRow
    BY DEF Init
  <1>2. \A w \in Wid : Len(wed_trace[w]) = 0 /\ DOMAIN wed_trace[w] = {}
    BY <1>1
  <1>3. \A w \in Wid : InFlightOf(w) = {}
    BY <1>2, InFlightSteps DEF InFlightOf
  <1>4. \A w \in Wid : running_triggers(w, {}) = {}
    BY DEF Init, running_triggers, OpenJobsOf, JobsOf, IsJob
  <1>5. TraceAccountsForJobs
    BY <1>3, <1>4, Accounts
  <1>6. TraceIsCausal
    BY <1>2 DEF TraceIsCausal
  <1> QED
    BY <1>1, <1>2, <1>5, <1>6 DEF TraceInv, TraceHead, WithdrawnInFlight, Init

(* Every step keeps the account. *)
LEMMA TraceStep == Inv /\ Inv' /\ TraceInv /\ [Next]_vars => TraceInv'
  <1> SUFFICES ASSUME Inv, Inv', TraceInv, [Next]_vars PROVE TraceInv'
    OBVIOUS
  <1>0. TypeOK'
    BY DEF Inv
  <1>1. ASSUME NEW w \in Wid, NEW s \in State, InsertRunning(w, s) \/ InsertFinal(w, s)
        PROVE  TraceInv'
    BY <1>0, <1>1, InsertTraceInv
  <1>2. ASSUME NEW w \in Wid, NEW s \in State, UpdateException(w, s)
        PROVE  TraceInv'
    BY <1>0, <1>2, ExceptionTraceInv
  <1>3. ASSUME NEW w \in Wid, NEW s \in State, NEW t \in Uptkn, UpdateWithToken(w, s, t)
        PROVE  TraceInv'
    BY <1>0, <1>3, TokenTraceInv
  <1>4. ASSUME NEW t \in Uptkn, job_lock(t) \/ job_abort(t) \/ Timeout(t)
        PROVE  TraceInv'
    BY <1>4, JobTraceInv
  <1>5. ASSUME NEW i \in Inspector, InspectorRequeue(i)
        PROVE  TraceInv'
    BY <1>5, RequeueTraceInv
  <1>6. ASSUME UNCHANGED <<wed_flow, st_status, wed_trace, job_pool, withdrawn>>
        PROVE  TraceInv'
    <2>1. \A w : running_triggers(w, {})' = running_triggers(w, {}) /\ AbortedOf(w)' = AbortedOf(w)
      BY <1>6 DEF running_triggers, OpenJobsOf, AbortedOf, JobsOf, Open, IsJob
    <2>2. \A w \in Wid : /\ running_triggers(w, {}) \subseteq InFlightOf(w)
                         /\ InFlightOf(w) \ running_triggers(w, {}) \subseteq AbortedOf(w)
      BY Accounts DEF TraceInv
    <2>3. \A t \in withdrawn' : /\ job_pool'[t] # NoRow /\ job_pool'[t].aborted
                                /\ job_pool'[t].tgid \in InFlightOf(job_pool'[t].wid)
      BY <1>6 DEF TraceInv, WithdrawnInFlight, IsJob
    <2> QED
      BY <1>6, <2>1, <2>2, <2>3, QuietTraceInv
  <1> QED
    BY <1>1, <1>2, <1>3, <1>4, <1>5, <1>6
       DEF Next, vars, InspectorSelect, InspectorWait, InspectorDeadlock

(* The inductive invariant about histories, on top of Inv. *)
THEOREM TraceSafety == Spec => []TraceInv
  <1>1. Inv /\ Inv' /\ TraceInv /\ [Next]_vars => TraceInv'
    BY TraceStep
  <1> QED
    BY Safety, TraceInit, <1>1, PTL DEF Spec

(***************************************************************************)
(* However long it gets, the history of an instance accounts for its jobs: *)
(* replaying who wrote and what was fired gives the triggers with an open  *)
(* job, and beyond those only triggers of which a job was aborted.         *)
(***************************************************************************)
THEOREM HistoryExplainsJobs == Spec => []TraceAccountsForJobs
  <1>1. TraceInv => TraceAccountsForJobs
    BY DEF TraceInv
  <1> QED
    BY TraceSafety, <1>1, PTL

(***************************************************************************)
(* Every entry of every history is anonymous where it should be, and else  *)
(* signed by a trigger that an earlier entry fired and that had not yet    *)
(* written.                                                                *)
(***************************************************************************)
THEOREM HistoryIsCausal == Spec => []TraceIsCausal
  <1>1. TraceInv => TraceIsCausal
    BY DEF TraceInv
  <1> QED
    BY TraceSafety, <1>1, PTL
=============================================================================
