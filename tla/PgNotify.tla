------------------------------ MODULE PgNotify ------------------------------
(***************************************************************************)
(* LISTEN and NOTIFY in the PostgreSQL of the repository (async.c), the    *)
(* way kernel_function announces new jobs and workers hear of them.  A     *)
(* committing transaction puts its notifications in a shared queue of      *)
(* pages, page by page, commits, signals the listeners that are behind and *)
(* reads the queue itself; a signalled backend reads the queue when it is  *)
(* idle.  The tail is the position of the slowest listener, and pages      *)
(* before the tail's segment are removed.                                  *)
(* One action is one critical section of AsyncQueueLock, one entry read    *)
(* without it, one step of the transaction, or one volatile access of the  *)
(* code that races with its own signal handler.                            *)
(***************************************************************************)
EXTENDS Integers, Sequences, SequencesExt, TLC

CONSTANTS
    Backend,        \* backends of one database
    Channel,        \* channel names
    len,            \* length of a channel's entries
    script,         \* per backend, the statement lists its transactions may have
    MaxXact,        \* bound: transactions
    QUEUE_MAX_PAGE, \* last page number; the page after it is page 0
    QUEUE_PAGESIZE, \* room on a page, in units of the shortest entry
    SLRU_PAGES_PER_SEGMENT,
    NoPage, NoPos, NULL

Page == 0..QUEUE_MAX_PAGE
Pos(p, o) == [page |-> p, offset |-> o]

ASSUME QueueAssumption ==
    /\ len \in [Channel -> 1..QUEUE_PAGESIZE]
    /\ SLRU_PAGES_PER_SEGMENT \in 1..(QUEUE_MAX_PAGE + 1)
    /\ (QUEUE_MAX_PAGE + 1) % SLRU_PAGES_PER_SEGMENT = 0

VARIABLES
    head, tail,     \* QUEUE_HEAD, QUEUE_TAIL
    pages,          \* the entries on each page, by offset; NoPage when removed
    backend,        \* QUEUE_BACKEND_POS of a registered backend, else NoPos
    xact,           \* transactions so far: "running", "committed" or "aborted"
    lock,           \* holder of the heavyweight lock on database 0, or NULL
    be,             \* local state of each backend
    published,      \* history: notifications in the order of commit
    due, got,       \* history: per backend, what it must hear and what it heard
    audience        \* history: transactions that notified while it was registered

shared == <<head, tail, pages, backend>>
history == <<published, due, got, audience>>
vars == <<shared, xact, lock, be, history>>

(***************************************************************************)
(* Local state.  pc is where the backend is, ret where a read of the queue *)
(* returns to and resume where the signal handler does; pos, oldpos, stop  *)
(* and newtail are the local variables of asyncQueueReadAllNotifications   *)
(* and asyncQueueAdvanceTail; signal is a delivered, unhandled signal.     *)
(***************************************************************************)
Fresh == [pc |-> "idle", ret |-> "idle", resume |-> NULL, xid |-> 0,
          pendingActions |-> <<>>, pendingNotifies |-> <<>>, next |-> <<>>,
          listenChannels |-> {}, sent |-> FALSE, enabled |-> TRUE,
          occurred |-> FALSE, signal |-> FALSE,
          pos |-> NoPos, oldpos |-> NoPos, stop |-> NoPos, newtail |-> NULL]

Goto(b, r) == be' = [be EXCEPT ![b] = r]

-----------------------------------------------------------------------------
(* Queue positions *)

asyncQueuePagePrecedes(p, q) ==
    LET half == (QUEUE_MAX_PAGE + 1) \div 2
        diff == p - q
    IN  IF diff >= half THEN diff - (QUEUE_MAX_PAGE + 1) < 0
        ELSE IF diff < -half THEN diff + QUEUE_MAX_PAGE + 1 < 0
        ELSE diff < 0

QUEUE_POS_MIN(x, y) ==
    IF asyncQueuePagePrecedes(x.page, y.page) THEN x
    ELSE IF x.page # y.page THEN y
    ELSE IF x.offset < y.offset THEN x ELSE y

NextPage(p) == (p + 1) % (QUEUE_MAX_PAGE + 1)

asyncQueueAdvance(p, length) ==
    IF p.offset + length + 1 > QUEUE_PAGESIZE
    THEN Pos(NextPage(p.page), 0)
    ELSE Pos(p.page, p.offset + length)

SegmentStart(p) == p - (p % SLRU_PAGES_PER_SEGMENT)


asyncQueueIsFull == asyncQueuePagePrecedes(NextPage(head.page), SegmentStart(tail.page))

-----------------------------------------------------------------------------
(***************************************************************************)
(* The statements of a transaction, run on its pending lists: Async_Notify *)
(* drops a notification its own (sub)transaction already has, LISTEN and   *)
(* UNLISTEN are only recorded, and a subtransaction keeps lists of its own *)
(* (upper) that are appended to its parent's or thrown away.               *)
(***************************************************************************)
Async_Notify(s, c) ==
    IF Contains(s.msgs, c) THEN s ELSE [s EXCEPT !.msgs = Append(@, c)]

queue_listen(s, a) == [s EXCEPT !.acts = Append(@, a)]

AtSubStart_Notify(s) ==
    [acts |-> <<>>, msgs |-> <<>>, upper |-> <<[acts |-> s.acts, msgs |-> s.msgs]>> \o s.upper]

AtSubCommit_Notify(s) ==
    [acts |-> Head(s.upper).acts \o s.acts, msgs |-> Head(s.upper).msgs \o s.msgs,
     upper |-> Tail(s.upper)]

AtSubAbort_Notify(s) ==
    [acts |-> Head(s.upper).acts, msgs |-> Head(s.upper).msgs, upper |-> Tail(s.upper)]

Statement(s, stmt) ==
    CASE stmt[1] = "notify"   -> Async_Notify(s, stmt[2])
      [] stmt[1] = "begin"    -> AtSubStart_Notify(s)
      [] stmt[1] = "release"  -> AtSubCommit_Notify(s)
      [] stmt[1] = "rollback" -> AtSubAbort_Notify(s)
      [] OTHER                -> queue_listen(s, stmt)

Run(stmts) ==
    FoldLeft(Statement, [acts |-> <<>>, msgs |-> <<>>, upper |-> <<>>], stmts)

-----------------------------------------------------------------------------
(* A transaction, from the command that starts it to PreCommit_Notify *)

StartXact(b) ==
    LET r == be[b] IN
    /\ r.pc = "idle" /\ Len(xact) < MaxXact
    /\ xact' = Append(xact, "running")
    /\ \E stmts \in script[b] :
          Goto(b, [r EXCEPT !.pc = "precommit", !.enabled = FALSE, !.xid = Len(xact) + 1,
                            !.pendingActions = Run(stmts).acts,
                            !.pendingNotifies = Run(stmts).msgs, !.next = Run(stmts).msgs])
    /\ UNCHANGED <<shared, lock, history>>

Rollback(b) ==
    /\ be[b].pc = "precommit"
    /\ Goto(b, [be[b] EXCEPT !.pc = "abort"])
    /\ UNCHANGED <<shared, xact, lock, history>>

Listens(acts) == \E i \in DOMAIN acts : acts[i][1] = "listen"

Exec_ListenPreCommit(b) ==
    LET r == be[b] IN
    /\ r.pc = "precommit" /\ Listens(r.pendingActions) /\ backend[b] = NoPos
    /\ backend' = [backend EXCEPT ![b] = tail]
    /\ Goto(b, [r EXCEPT !.pc = "read", !.ret = "lock"])
    /\ UNCHANGED <<head, tail, pages, xact, lock, history>>

NoPreflight(b) ==
    /\ be[b].pc = "precommit"
    /\ ~Listens(be[b].pendingActions) \/ backend[b] # NoPos
    /\ Goto(b, [be[b] EXCEPT !.pc = "lock"])
    /\ UNCHANGED <<shared, xact, lock, history>>

LockDatabase0(b) ==
    LET r == be[b] IN
    /\ r.pc = "lock"
    /\ \/ /\ r.pendingNotifies = <<>>
          /\ Goto(b, [r EXCEPT !.pc = "commit"])
          /\ UNCHANGED lock
       \/ /\ r.pendingNotifies # <<>> /\ lock = NULL
          /\ lock' = b
          /\ Goto(b, [r EXCEPT !.pc = "add", !.sent = TRUE])
    /\ UNCHANGED <<shared, xact, history>>

(***************************************************************************)
(* asyncQueueAddEntries writes the first n notifications left, as many as  *)
(* the page has room for, and fills the page with a dummy entry when the   *)
(* next one does not fit.                                                  *)
(***************************************************************************)
asyncQueueAddEntries(b) ==
    LET left    == be[b].next
        at(k)   == head.offset + MapThenSumSet(LAMBDA i : len[left[i]], 1..k)
        n       == Max({k \in 0..Len(left) : at(k) <= QUEUE_PAGESIZE})
        room    == QUEUE_PAGESIZE - at(n)
        dummy   == n < Len(left) /\ room > 0
        entry(i) == IF i > n THEN [xid |-> be[b].xid, left |-> 0, ch |-> NULL, length |-> room]
                   ELSE [xid |-> be[b].xid, left |-> Len(left) - i + 1, ch |-> left[i],
                         length |-> len[left[i]]]
        last    == IF dummy THEN n + 1 ELSE n
        new     == {at(i - 1) : i \in 1..last}
    IN  [head |-> asyncQueueAdvance(Pos(head.page, at(last - 1)), entry(last).length),
         page |-> [o \in new |-> entry(CHOOSE i \in 1..last : at(i - 1) = o)] @@ pages[head.page],
         left |-> SubSeq(left, n + 1, Len(left))]

AddEntries(b) ==
    /\ be[b].pc = "add" /\ be[b].next # <<>> /\ ~asyncQueueIsFull
    /\ LET f == asyncQueueAddEntries(b) IN   \* a new head page is zeroed
          /\ head' = f.head
          /\ pages' = [pages EXCEPT ![f.head.page] = <<>>, ![head.page] = f.page]
          /\ Goto(b, [be[b] EXCEPT !.next = f.left])
    /\ audience' = IF be[b].next # be[b].pendingNotifies THEN audience
                   ELSE [t \in Backend |-> IF backend[t] = NoPos THEN audience[t]
                                           ELSE audience[t] \cup {be[b].xid}]
    /\ UNCHANGED <<tail, backend, xact, lock, published, due, got>>

(* "too many notifications in the NOTIFY queue" *)
QueueFull(b) ==
    /\ be[b].pc = "add" /\ be[b].next # <<>> /\ asyncQueueIsFull
    /\ Goto(b, [be[b] EXCEPT !.pc = "abort"])
    /\ UNCHANGED <<shared, xact, lock, history>>

Added(b) ==
    /\ be[b].pc = "add" /\ be[b].next = <<>>
    /\ Goto(b, [be[b] EXCEPT !.pc = "commit"])
    /\ UNCHANGED <<shared, xact, lock, history>>

-----------------------------------------------------------------------------
(* Commit and abort *)

Unlocked(b) == IF lock = b THEN NULL ELSE lock

(* Exec_ListenCommit, Exec_UnlistenCommit and Exec_UnlistenAllCommit, in order. *)
Act(channels, a) ==
    CASE a[1] = "listen"     -> channels \cup {a[2]}
      [] a[1] = "unlisten"   -> channels \ {a[2]}
      [] a[1] = "unlistenall" -> {}

Channels(b) == FoldLeft(Act, be[b].listenChannels, be[b].pendingActions)

Messages(r) ==
    [i \in DOMAIN r.pendingNotifies |->
        [xid |-> r.xid, left |-> Len(r.pendingNotifies) - i + 1, ch |-> r.pendingNotifies[i]]]

(* RecordTransactionCommit, ProcArrayEndTransaction and the release of locks. *)
RecordTransactionCommit(b) ==
    LET r == be[b] IN
    /\ r.pc = "commit"
    /\ xact' = [xact EXCEPT ![r.xid] = "committed"]
    /\ lock' = Unlocked(b)
    /\ Goto(b, [r EXCEPT !.pc = "atcommit"])
    /\ published' = published \o Messages(r)
    /\ due' = [t \in Backend |->
           LET hears(m) == m.ch \in IF t = b THEN Channels(b) ELSE be[t].listenChannels
           IN  due[t] \o SelectSeq(Messages(r), hears)]
    /\ UNCHANGED <<shared, got, audience>>

(* asyncQueueUnregister, then on to pc, by way of the tail for the slowest listener. *)
asyncQueueUnregister(b, r, pc) ==
    /\ backend' = [backend EXCEPT ![b] = NoPos]
    /\ audience' = [audience EXCEPT ![b] = {}]
    /\ Goto(b, IF backend[b] = tail THEN [r EXCEPT !.pc = "tail", !.ret = pc]
               ELSE [r EXCEPT !.pc = pc])

(* The end of AtCommit_Notify and AtAbort_Notify; r has the new channel list. *)
Cleanup(b, r, pc) ==
    LET clean == [r EXCEPT !.pendingActions = <<>>, !.pendingNotifies = <<>>, !.next = <<>>]
    IN  \/ /\ backend[b] # NoPos /\ r.listenChannels = {}
           /\ asyncQueueUnregister(b, clean, pc)
        \/ /\ backend[b] = NoPos \/ r.listenChannels # {}
           /\ Goto(b, [clean EXCEPT !.pc = pc])
           /\ UNCHANGED <<backend, audience>>

AtCommit_Notify(b) ==
    /\ be[b].pc = "atcommit"
    /\ Cleanup(b, [be[b] EXCEPT !.listenChannels = Channels(b)], "complete")
    /\ LET hears(m) == m.ch \in Channels(b) IN
          due' = [due EXCEPT ![b] = SelectSeq(@, hears)]
    /\ UNCHANGED <<head, tail, pages, xact, lock, published, got>>

AtAbort_Notify(b) ==
    /\ be[b].pc = "abort"
    /\ Cleanup(b, be[b], "aborted")
    /\ UNCHANGED <<head, tail, pages, xact, lock, published, due, got>>

RecordTransactionAbort(b) ==
    /\ be[b].pc = "aborted"
    /\ xact' = [xact EXCEPT ![be[b].xid] = "aborted"]
    /\ lock' = Unlocked(b)
    /\ Goto(b, [be[b] EXCEPT !.pc = "complete"])
    /\ UNCHANGED <<shared, history>>

-----------------------------------------------------------------------------
(* Signals, and reading the queue *)

SignalBackends(b) == {t \in Backend \ {b} : backend[t] # NoPos /\ backend[t] # head}

(***************************************************************************)
(* ProcessCompletedNotifies, before the backend goes idle: also after an   *)
(* abort, because entries of the aborted transaction may be in the queue.  *)
(***************************************************************************)
(* Mutant: a sender whom nobody listens to leaves the tail alone. *)
ProcessCompletedQuietly(b) ==
    LET r == [be[b] EXCEPT !.sent = FALSE, !.xid = 0] IN
    /\ r.pc = "complete"
    /\ be' = [t \in Backend |->
           IF t = b
           THEN IF be[b].sent /\ r.listenChannels # {}
                THEN [r EXCEPT !.pc = "read", !.ret = "enable1"]
                ELSE [r EXCEPT !.pc = "enable1"]
           ELSE IF be[b].sent /\ t \in SignalBackends(b) THEN [be[t] EXCEPT !.signal = TRUE]
           ELSE be[t]]
    /\ UNCHANGED <<shared, xact, lock, history>>

ProcessCompletedNotifies(b) ==
    LET r == [be[b] EXCEPT !.sent = FALSE, !.xid = 0] IN
    /\ r.pc = "complete"
    /\ be' = [t \in Backend |->
           IF t = b
           THEN IF ~be[b].sent THEN [r EXCEPT !.pc = "enable1"]
                ELSE IF r.listenChannels # {} THEN [r EXCEPT !.pc = "read", !.ret = "enable1"]
                ELSE IF SignalBackends(b) = {} THEN [r EXCEPT !.pc = "tail", !.ret = "enable1"]
                ELSE [r EXCEPT !.pc = "enable1"]
           ELSE IF be[b].sent /\ t \in SignalBackends(b) THEN [be[t] EXCEPT !.signal = TRUE]
           ELSE be[t]]
    /\ UNCHANGED <<shared, xact, lock, history>>

ReadStart(b) ==
    LET r == be[b] IN
    /\ r.pc = "read"
    /\ Goto(b, IF backend[b] = head THEN [r EXCEPT !.pc = r.ret]
               ELSE [r EXCEPT !.pc = "entry", !.pos = backend[b], !.oldpos = backend[b],
                              !.stop = head])
    /\ UNCHANGED <<shared, xact, lock, history>>

EntryAt(p) == pages[p.page][p.offset]

(* TransactionIdIsInProgress: never of a dummy entry, which no database owns. *)
InProgress(e) == e.ch # NULL /\ xact[e.xid] = "running"

(* One entry of asyncQueueProcessPageEntries that can be passed. *)
ProcessEntry(b) ==
    LET r == be[b]
        e == EntryAt(r.pos)
    IN  /\ r.pc = "entry" /\ r.pos # r.stop /\ ~InProgress(e)
        /\ Goto(b, [r EXCEPT !.pos = asyncQueueAdvance(r.pos, e.length)])
        /\ got' = IF e.ch \in r.listenChannels /\ xact[e.xid] = "committed"
                  THEN [got EXCEPT ![b] = Append(@, [xid |-> e.xid, left |-> e.left, ch |-> e.ch])]
                  ELSE got
        /\ UNCHANGED <<shared, xact, lock, published, due, audience>>

(* Mutant: the position is not written back. *)
ReadStopForgets(b) ==
    LET r == [be[b] EXCEPT !.pos = NoPos, !.oldpos = NoPos, !.stop = NoPos] IN
    /\ be[b].pc = "entry"
    /\ be[b].pos # be[b].stop => InProgress(EntryAt(be[b].pos))
    /\ Goto(b, [r EXCEPT !.pc = r.ret])
    /\ UNCHANGED <<shared, xact, lock, history>>

(* It stops at the head it saw or at an entry of a running transaction. *)
ReadStop(b) ==
    LET r == [be[b] EXCEPT !.pos = NoPos, !.oldpos = NoPos, !.stop = NoPos] IN
    /\ be[b].pc = "entry"
    /\ be[b].pos # be[b].stop => InProgress(EntryAt(be[b].pos))
    /\ backend' = [backend EXCEPT ![b] = be[b].pos]
    /\ Goto(b, [r EXCEPT !.pc = IF be[b].oldpos = tail THEN "tail" ELSE r.ret])
    /\ UNCHANGED <<head, tail, pages, xact, lock, history>>

Registered == {t \in Backend : backend[t] # NoPos}

asyncQueueAdvanceTail(b) ==
    LET r   == be[b]
        min == FoldSet(QUEUE_POS_MIN, head, {backend[t] : t \in Registered})
    IN  /\ r.pc = "tail"
        /\ tail' = min
        /\ Goto(b, IF asyncQueuePagePrecedes(tail.page, SegmentStart(min.page))
                   THEN [r EXCEPT !.pc = "truncate", !.newtail = min.page]
                   ELSE [r EXCEPT !.pc = r.ret])
        /\ UNCHANGED <<head, pages, backend, xact, lock, history>>

(* Without AsyncQueueLock: the segments before the one of newtail go. *)
SimpleLruTruncate(b) ==
    LET r      == be[b]
        cutoff == SegmentStart(r.newtail)
    IN  /\ r.pc = "truncate"
        /\ pages' = IF asyncQueuePagePrecedes(head.page, cutoff) THEN pages
                    ELSE [p \in Page |-> IF asyncQueuePagePrecedes(p, cutoff) THEN NoPage
                                         ELSE pages[p]]
        /\ Goto(b, [r EXCEPT !.pc = r.ret, !.newtail = NULL])
        /\ UNCHANGED <<head, tail, backend, xact, lock, history>>

-----------------------------------------------------------------------------
(***************************************************************************)
(* Going idle.  EnableNotifyInterrupt and the signal handler run the same  *)
(* loop; the handler, which interrupts the backend while it is enabled, is *)
(* not interrupted itself (resume is set while it runs).                   *)
(***************************************************************************)
EnableFlag(b) ==
    /\ be[b].pc = "enable1"
    /\ Goto(b, [be[b] EXCEPT !.pc = "enable2", !.enabled = TRUE])
    /\ UNCHANGED <<shared, xact, lock, history>>

(* Mutant: the flag is set without testing for an interrupt that came before. *)
EnableTestNever(b) ==
    LET r == be[b] IN
    /\ r.pc = "enable2"
    /\ Goto(b, [r EXCEPT !.pc = IF r.resume = NULL THEN "idle" ELSE r.resume, !.resume = NULL])
    /\ UNCHANGED <<shared, xact, lock, history>>

EnableTest(b) ==
    LET r == be[b] IN
    /\ r.pc = "enable2"
    /\ Goto(b, IF r.occurred THEN [r EXCEPT !.pc = "enable3", !.enabled = FALSE]
               ELSE [r EXCEPT !.pc = IF r.resume = NULL THEN "idle" ELSE r.resume,
                              !.resume = NULL])
    /\ UNCHANGED <<shared, xact, lock, history>>

ProcessIncomingNotify(b) ==
    LET r == be[b] IN
    /\ r.pc = "enable3"
    /\ Goto(b, IF r.occurred /\ r.listenChannels # {}
               THEN [r EXCEPT !.pc = "read", !.ret = "enable1", !.occurred = FALSE]
               ELSE [r EXCEPT !.pc = "enable1", !.occurred = FALSE])
    /\ UNCHANGED <<shared, xact, lock, history>>

HandleNotifyInterrupt(b) ==
    LET r == be[b] IN
    /\ r.signal /\ r.resume = NULL
    /\ Goto(b, IF r.pc = "gone" THEN [r EXCEPT !.signal = FALSE]
               ELSE IF r.enabled
               THEN [r EXCEPT !.signal = FALSE, !.occurred = TRUE, !.enabled = FALSE,
                              !.resume = r.pc, !.pc = "enable1"]
               ELSE [r EXCEPT !.signal = FALSE, !.occurred = TRUE])
    /\ UNCHANGED <<shared, xact, lock, history>>

(* The client of a listener leaves: Async_UnlistenOnExit; later another comes. *)
Async_UnlistenOnExit(b) ==
    /\ be[b].pc = "idle" /\ backend[b] # NoPos
    /\ asyncQueueUnregister(b, [be[b] EXCEPT !.listenChannels = {}, !.enabled = FALSE], "gone")
    /\ due' = [due EXCEPT ![b] = <<>>]
    /\ UNCHANGED <<head, tail, pages, xact, lock, published, got>>

Reconnect(b) ==
    /\ be[b].pc = "gone"
    /\ Goto(b, Fresh)
    /\ got' = [got EXCEPT ![b] = <<>>]
    /\ UNCHANGED <<shared, xact, lock, published, due, audience>>

-----------------------------------------------------------------------------
Init ==
    /\ head = Pos(0, 0) /\ tail = Pos(0, 0)
    /\ pages = [p \in Page |-> IF p = 0 THEN <<>> ELSE NoPage]
    /\ backend = [b \in Backend |-> NoPos]
    /\ xact = <<>>
    /\ lock = NULL
    /\ be = [b \in Backend |-> Fresh]
    /\ published = <<>>
    /\ due = [b \in Backend |-> <<>>] /\ got = [b \in Backend |-> <<>>]
    /\ audience = [b \in Backend |-> {}]

(* What a backend does once a command has started it, or a signal has. *)
Step(b) ==
    \/ Exec_ListenPreCommit(b) \/ NoPreflight(b) \/ LockDatabase0(b)
    \/ AddEntries(b) \/ QueueFull(b) \/ Added(b)
    \/ RecordTransactionCommit(b) \/ AtCommit_Notify(b)
    \/ AtAbort_Notify(b) \/ RecordTransactionAbort(b)
    \/ ProcessCompletedNotifies(b)
    \/ ReadStart(b) \/ ProcessEntry(b) \/ ReadStop(b)
    \/ asyncQueueAdvanceTail(b) \/ SimpleLruTruncate(b)
    \/ EnableFlag(b) \/ EnableTest(b) \/ ProcessIncomingNotify(b)
    \/ HandleNotifyInterrupt(b)

Next ==
    \E b \in Backend : \/ StartXact(b) \/ Rollback(b) \/ Step(b)
                       \/ Async_UnlistenOnExit(b) \/ Reconnect(b)

Spec == Init /\ [][Next]_vars

(* A backend at work goes on, and a signal sent is delivered. *)
FairSpec == Spec /\ \A b \in Backend : WF_vars(Step(b))

-----------------------------------------------------------------------------
(* Properties *)

Has(s, m) == \E i \in DOMAIN s : s[i] = m

IndexOf(m) == CHOOSE i \in DOMAIN published : published[i] = m

(***************************************************************************)
(* A listener hears only notifications of committed transactions, each at  *)
(* most once, and in the order of commit, although it reads the queue      *)
(* without a lock while transactions add to it and abort.                  *)
(***************************************************************************)
HeardInCommitOrder ==
    \A b \in Backend :
        /\ \A i \in DOMAIN got[b] : Has(published, got[b][i])
        /\ \A i, j \in DOMAIN got[b] : i < j => IndexOf(got[b][i]) < IndexOf(got[b][j])

(* b has nothing more to do, and nobody has a signal to send it. *)
Quiet(b) == be[b].pc = "idle" /\ ~be[b].signal /\ \A w \in Backend : ~be[w].sent

(* b has heard what was put in the queue with b registered and committed with b listening. *)
HasHeardAll(b) ==
    \A i \in DOMAIN due[b] : due[b][i].xid \in audience[b] => Has(got[b], due[b][i])

(***************************************************************************)
(* No lost wakeup: when a listener is idle with no signal on its way, and  *)
(* every transaction that committed has sent its signals, the listener has *)
(* heard everything that was put in the queue since it registered and      *)
(* committed since it began to listen.                                     *)
(***************************************************************************)
IdleHasHeardAll == \A b \in Backend : Quiet(b) => HasHeardAll(b)

(* How far position p lies behind the head, in pages, then in offsets. *)
PagesBehind(p) == (head.page - p.page) % (QUEUE_MAX_PAGE + 1)

NotAfter(p, q) ==
    PagesBehind(p) > PagesBehind(q) \/ (p.page = q.page /\ p.offset <= q.offset)

(* What the reader b is about to read is there. *)
FindsEntry(b) ==
    /\ be[b].pc = "read" => backend[b] # NoPos
    /\ be[b].pc = "entry" /\ be[b].pos # be[b].stop =>
          /\ pages[be[b].pos.page] # NoPage
          /\ be[b].pos.offset \in DOMAIN pages[be[b].pos.page]


(***************************************************************************)
(* A full queue does not stay full: a transaction refused for it signals   *)
(* the slow listeners all the same, or moves the tail itself.              *)
(***************************************************************************)
FullQueueDrains == asyncQueueIsFull ~> ~asyncQueueIsFull
=============================================================================
