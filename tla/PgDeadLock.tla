----------------------------- MODULE PgDeadLock -----------------------------
(***************************************************************************)
(* The deadlock checker of PostgreSQL (storage/lmgr/deadlock.c), as        *)
(* operators on a snapshot of the lock table.  CheckDeadLock runs it with  *)
(* every partition of the table locked, so a snapshot is what it sees.     *)
(*                                                                         *)
(* A snapshot T has                                                        *)
(*   T.lock[l]  the LOCK: procLocks (the processes with a PROCLOCK, in     *)
(*              list order), holdMask (per process) and waitProcs (the     *)
(*              wait queue);                                               *)
(*   T.tag[p], T.mode[p]  the lock and mode process p asked for last: p    *)
(*              waits when it is in the queue of T.lock[T.tag[p]].         *)
(* An edge <<w, b>> is a waiter and the process that blocks it.  It is     *)
(* hard when b holds a conflicting mode, soft when b only waits ahead of w *)
(* for one: a soft edge can be reversed by reordering the queue.           *)
(***************************************************************************)
EXTENDS PgLockMode, SequencesExt, FiniteSets

Waits(T, p) == Contains(T.lock[T.tag[p]].waitProcs, p)

(* The wait orders found so far stand for the queues they cover. *)
Queue(T, orders, l) ==
    IF l \in DOMAIN orders THEN orders[l] ELSE T.lock[l].waitProcs

(* Whom p waits for, in the order the checker scans them: first the        *)
(* holders of conflicting modes, then the conflicting requests ahead.      *)
Holders(T, p) ==
    LET L == T.lock[T.tag[p]]
        Blocks(q) == q # p /\ L.holdMask[q] \cap LockConflicts[T.mode[p]] # {}
    IN  SelectSeq(L.procLocks, Blocks)

Ahead(T, orders, p) ==
    LET queue == Queue(T, orders, T.tag[p])
        Blocks(q) == T.mode[q] \in LockConflicts[T.mode[p]]
    IN  SelectSeq(SubSeq(queue, 1, SelectInSeq(queue, LAMBDA q : q = p) - 1), Blocks)

(* FindLockCycleRecurse: depth-first from p.  S carries the visited        *)
(* processes (the first is the start), whether the start was met again,    *)
(* and the soft edges of the cycle found.                                  *)
RECURSIVE FindLockCycleRecurse(_, _, _, _)
FindLockCycleRecurse(T, orders, p, S) ==
    IF Contains(S.visited, p) THEN [S EXCEPT !.found = p = Head(S.visited)]
    ELSE LET S1 == [S EXCEPT !.visited = Append(@, p)]
             Hard(R, q) == IF R.found THEN R
                           ELSE FindLockCycleRecurse(T, orders, q, R)
             Soft(R, q) ==
                 LET Q == FindLockCycleRecurse(T, orders, q, R)
                 IN  IF R.found THEN R
                     ELSE IF Q.found
                          THEN [Q EXCEPT !.soft = Append(@, <<p, q>>)] ELSE Q
         IN  IF ~Waits(T, p) THEN S1
             ELSE FoldLeft(Soft, FoldLeft(Hard, S1, Holders(T, p)),
                           Ahead(T, orders, p))

(* Mutant: a wait behind another request is no wait. *)
FindHardCycle(T, orders, p) ==
    FindLockCycleRecurse(T, [l \in DOMAIN T.lock |-> <<>>], p,
                         [visited |-> <<>>, found |-> FALSE, soft |-> <<>>])

FindLockCycle(T, orders, p) ==
    FindLockCycleRecurse(T, orders, p,
                         [visited |-> <<>>, found |-> FALSE, soft |-> <<>>])

(* TopoSort: the queue with every constraint's waiter moved ahead of its   *)
(* blocker, filled from the back with the last process nothing left must   *)
(* follow; it fails when no process is left that may come last.            *)
NoOrder == [left |-> <<>>, out |-> <<>>, ok |-> FALSE]

TopoSort(queue, constraints) ==
    LET Free(R, q) == \A b \in ToSet(R.left) : <<q, b>> \notin constraints
        Step(R, i) ==
            LET j == SelectLastInSeq(R.left, LAMBDA q : Free(R, q))
            IN  IF ~R.ok \/ j = 0 THEN NoOrder
                ELSE [R EXCEPT !.left = RemoveAt(@, j),
                               !.out = <<R.left[j]>> \o @]
    IN  FoldLeft(Step, [left |-> queue, out |-> <<>>, ok |-> TRUE], queue)

(* ExpandConstraints: one sorted queue for each lock a constraint is about. *)
ExpandConstraints(T, constraints) ==
    [l \in {T.tag[e[1]] : e \in constraints} |->
        TopoSort(T.lock[l].waitProcs, {e \in constraints : T.tag[e[1]] = l})]

(* TestConfiguration: do the constraints leave a cycle?  "good" says no,   *)
(* "bad" that they contradict each other or leave a cycle of hard edges    *)
(* only, "soft" that the edges of the last cycle found may be tried.       *)
TestConfiguration(T, constraints, start) ==
    LET sorts  == ExpandConstraints(T, ToSet(constraints))
        orders == [l \in DOMAIN sorts |-> sorts[l].out]
        procs  == FlattenSeq(constraints) \o <<start>>
        cycles == SelectSeq([i \in DOMAIN procs |->
                                FindLockCycle(T, orders, procs[i])],
                            LAMBDA C : C.found)
    IN  IF \/ \E l \in DOMAIN sorts : ~sorts[l].ok
           \/ \E C \in ToSet(cycles) : C.soft = <<>>
        THEN [state |-> "bad", edges |-> <<>>, orders |-> <<>>]
        ELSE IF cycles = <<>>
        THEN [state |-> "good", edges |-> <<>>, orders |-> orders]
        ELSE [state |-> "soft", edges |-> Last(cycles).soft, orders |-> <<>>]

(* DeadLockCheckRecurse: the first set of reversed soft edges, depth       *)
(* first, that leaves no cycle; no set may grow past the number of         *)
(* processes.                                                              *)
RECURSIVE DeadLockCheckRecurse(_, _, _)
DeadLockCheckRecurse(T, constraints, start) ==
    LET test == TestConfiguration(T, constraints, start)
        Try(R, e) == IF R.state = "good" THEN R
                     ELSE DeadLockCheckRecurse(T, Append(constraints, e), start)
    IN  IF test.state # "soft" THEN test
        ELSE IF Len(constraints) >= Cardinality(DOMAIN T.tag)
        THEN [test EXCEPT !.state = "bad"]
        ELSE FoldLeft(Try, [test EXCEPT !.state = "bad"], test.edges)

(* Mutant: a soft deadlock counts as a hard one. *)
DeadLockCheckHasty(T, p) ==
    LET r == TestConfiguration(T, <<>>, p)
    IN  [hard |-> r.state # "good", orders |-> r.orders]

(* DeadLockCheck: the new queue orders, or that p must give up. *)
DeadLockCheck(T, p) ==
    LET r == DeadLockCheckRecurse(T, <<>>, p)
    IN  [hard |-> r.state # "good", orders |-> r.orders]
-----------------------------------------------------------------------------
(* The reference: the waits-for relation under given queue orders, and the *)
(* processes that reach themselves in it.                                  *)
WaitsFor(T, orders, p) ==
    IF Waits(T, p)
    THEN ToSet(Holders(T, p)) \cup ToSet(Ahead(T, orders, p)) ELSE {}

RECURSIVE Reached(_, _, _)
Reached(T, orders, S) ==
    LET S1 == S \cup UNION {WaitsFor(T, orders, p) : p \in S}
    IN  IF S1 = S THEN S ELSE Reached(T, orders, S1)

InCycle(T, orders, p) == p \in Reached(T, orders, WaitsFor(T, orders, p))

(* Every way to order every wait queue. *)
AllOrders(T) ==
    LET Perms(l) == LET q == T.lock[l].waitProcs
                    IN  {[i \in DOMAIN q |-> q[f[i]]] :
                            f \in Permutations(DOMAIN q)}
        all == UNION {Perms(l) : l \in DOMAIN T.lock}
    IN  {f \in [DOMAIN T.lock -> all] : \A l \in DOMAIN f : f[l] \in Perms(l)}
=============================================================================
