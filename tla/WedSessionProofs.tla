-------------------------- MODULE WedSessionProofs --------------------------
(***************************************************************************)
(* Proofs about the kernel trigger query by query.  The invariant says     *)
(* what each query of a call has established and that nothing another      *)
(* session commits takes it away again: other calls work on other          *)
(* instances, and edits of the catalog come with their triggers, where     *)
(* that matters.                                                           *)
(***************************************************************************)
EXTENDS WedSession, TLAPS

-----------------------------------------------------------------------------
(* The invariant *)

RunningOf(w, done) == {job_pool[t].tgid : t \in OpenJobs(w) \ done}

(* What the queries up to c.pc have established about call c. *)
CallOK(c) ==
    /\ c.event = "INSERT" =>
          /\ wed_flow[c.wid] = NoRow
          /\ c.rtrg = {} /\ c.done = {} /\ c.tok = NULL
          /\ c.pc \notin {"status", "find", "running"}
    /\ c.event = "UPDATE" => wed_flow[c.wid] # NoRow
    /\ \/ c.tok = c.given
       \/ c.given = NULL /\ c.event = "UPDATE" /\ c.tok = wed_flow[c.wid].var_uptkn
    /\ c.pc = "find" => c.tok \in Uptkn
    /\ c.done \subseteq {c.tok}
    /\ c.pc \in {"running", "match", "fire", "commit"} /\ c.tok \in Uptkn => c.tok \in c.done
    /\ \A t \in c.done : job_pool[t] # NoRow /\ ~job_pool[t].tf /\ job_pool[t].wid = c.wid
    /\ c.pc \in {"match", "fire", "commit"} => c.rtrg = RunningOf(c.wid, c.done)
    /\ c.pc \in {"fire", "commit"} =>
          /\ c.final => c.cond_set # {}
          /\ Outcome(c.event, c.cond_set, c.final, c.rtrg) # "error"

CallsOK == \A s \in Session : At(s, "idle") \/ CallOK(sess[s])

(* The row lock of wed_flow: one call per instance. *)
OneCall ==
    \A s, r \in Session : ~At(s, "idle") /\ ~At(r, "idle") /\ sess[s].wid = sess[r].wid => s = r

(* Every job belongs to an instance, and every instance has a status. *)
JobsHaveRows == \A t \in Uptkn : job_pool[t] # NoRow => wed_flow[job_pool[t].wid] # NoRow

(* The token a row keeps is that of a completed job. *)
KeptTokenUsed ==
    \A w \in Wid : wed_flow[w] # NoRow /\ wed_flow[w].var_uptkn \in Uptkn =>
       job_pool[wed_flow[w].var_uptkn] # NoRow /\ job_pool[wed_flow[w].var_uptkn].tf

SessionInv ==
    /\ SessionTypeOK
    /\ CallsOK
    /\ OneCall
    /\ JobsHaveRows
    /\ KeptTokenUsed
    /\ EndedHasNoJobs
    /\ CompletedByItsToken

(* The same for a catalog that only grows: k is the catalog c might have read. *)
ReadOnce(c, k) ==
    /\ c.cond_set = pred_match(k, c.val)
    /\ c.final <=> final_match(k, c.val)
    /\ c.pc = "fire" => wed_trig(k, c.cond_set) = wed_trig(cat, c.cond_set)
    /\ c.pc = "commit" => c.trigs = IF c.final THEN {} ELSE wed_trig(k, c.cond_set)

GrownOK(c, read) ==
    /\ cat \in read
    /\ c.pc \in {"status", "find", "running", "match", "fire", "commit"} => wed_trig_validation(cat)
    /\ c.pc \in {"fire", "commit"} =>
          /\ c.cond_set \subseteq cat.cond
          /\ ~c.final => c.cond_set \cap cat.final = {}
          /\ \E k \in read : ReadOnce(c, k)
    /\ c.pc = "commit" /\ ~c.final /\ c.cond_set # {} => c.trigs # {}

GrownCalls == \A s \in Session : At(s, "idle") \/ GrownOK(sess[s], seen[s])

LiveHasJob == \A w \in Wid : (wed_flow[w] # NoRow /\ ~st_status[w].final) => OpenJobs(w) # {}

GrownInv ==
    /\ seen \in [Session -> SUBSET Catalog] /\ edits \in Seq(Edits)
    /\ OnlyGrown => GrownCalls /\ LiveHasJob /\ last.ok

-----------------------------------------------------------------------------
(* Steps of one call *)

(* A call has a record of its own kind. *)
LEMMA CallTyped ==
    ASSUME SessionTypeOK, NEW s \in Session
    PROVE  /\ ~At(s, "idle") => sess[s] \in Calls
           /\ sess[s] \in Calls => ~At(s, "idle")
  <1>1. Idle.pc = "idle" /\ \A c \in Calls : c.pc # "idle"
    BY DEF Idle, Calls
  <1>2. sess[s] = Idle \/ sess[s] \in Calls
    BY DEF SessionTypeOK
  <1> QED
    BY <1>1, <1>2 DEF At

(* What is known of a call does not change while rows and jobs do not. *)
LEMMA CallKept ==
    ASSUME UNCHANGED <<wed_flow, job_pool>>, NEW c, CallOK(c)
    PROVE  CallOK(c)'
    BY DEF CallOK, RunningOf, OpenJobs

(* A step of one call that writes no table. *)
LEMMA CallStep ==
    ASSUME SessionInv, NEW s \in Session, NEW r \in {Idle} \cup Calls,
           sess' = [sess EXCEPT ![s] = r],
           UNCHANGED <<cat, wed_flow, st_status, job_pool, last>>,
           r # Idle => /\ CallOK(r)
                       /\ \A q \in Session \ {s} : At(q, "idle") \/ sess[q].wid # r.wid
    PROVE  SessionInv'
  <1>1. sess'[s] = r /\ \A q \in Session \ {s} : sess'[q] = sess[q]
    BY DEF SessionInv, SessionTypeOK
  <1>2. SessionTypeOK'
    BY DEF SessionInv, SessionTypeOK
  <1>3. CallsOK'
    <2> SUFFICES ASSUME NEW q \in Session, ~At(q, "idle")'
                 PROVE  CallOK(sess[q])'
      BY DEF CallsOK
    <2>1. PICK c : c = sess'[q]
      OBVIOUS
    <2>2. CallOK(c)
      BY <1>1, <2>1 DEF SessionInv, CallsOK, At, Idle
    <2>3. CallOK(c)'
      BY <2>2, CallKept
    <2> QED
      BY <2>1, <2>3
  <1>4. OneCall'
    BY <1>1 DEF SessionInv, OneCall, At, Idle
  <1>5. JobsHaveRows' /\ KeptTokenUsed' /\ EndedHasNoJobs' /\ CompletedByItsToken'
    BY DEF SessionInv, JobsHaveRows, KeptTokenUsed, EndedHasNoJobs, CompletedByItsToken, OpenJobs
  <1> QED
    BY <1>2, <1>3, <1>4, <1>5 DEF SessionInv

(* An error leaves nothing behind. *)
LEMMA AbortInv ==
    ASSUME SessionInv, NEW s \in Session, Abort(s)
    PROVE  SessionInv'
    BY CallStep DEF Abort

(* A query of a call, which goes on with c or ends in an error. *)
LEMMA StepInv ==
    ASSUME SessionInv, NEW s \in Session, NEW from, from # "idle", NEW ok, NEW c \in Calls,
           c.wid = sess[s].wid, ok => CallOK(c), Step(s, from, ok, c)
    PROVE  SessionInv'
  <1>1. CASE ok
    <2>1. sess' = [sess EXCEPT ![s] = c] /\ UNCHANGED <<cat, wed_flow, st_status, job_pool, last>>
      BY <1>1 DEF Step, Goto, Tables
    <2>2. \A q \in Session \ {s} : At(q, "idle") \/ sess[q].wid # c.wid
      BY DEF Step, At, SessionInv, OneCall
    <2> QED
      BY <1>1, <2>1, <2>2, CallStep
  <1>2. CASE ~ok
    BY <1>2, AbortInv DEF Step
  <1> QED
    BY <1>1, <1>2

(* The statement arrives. *)
LEMMA BeginInv ==
    ASSUME SessionInv, NEW s \in Session, NEW event \in {"INSERT", "UPDATE"}, NEW w \in Wid,
           NEW v \in Val, NEW given \in Token, Begin(s, event, w, v, given)
    PROVE  SessionInv'
  <1> DEFINE tok == IF event = "UPDATE" /\ given = NULL THEN wed_flow[w].var_uptkn ELSE given
             c == Call(event, w, v, given, tok)
  <1>1. /\ sess' = [sess EXCEPT ![s] = c] /\ UNCHANGED <<cat, wed_flow, st_status, job_pool, last>>
        /\ Unlocked(w)
        /\ IF event = "INSERT" THEN wed_flow[w] = NoRow /\ given = NULL ELSE wed_flow[w] # NoRow
    BY DEF Begin, Goto
  <1>2. tok \in Token
    <2>1. CASE event = "UPDATE" /\ given = NULL
      <3>1. wed_flow[w] \in Row
        BY <1>1, <2>1 DEF SessionInv, SessionTypeOK
      <3> QED
        BY <2>1, <3>1 DEF Row
    <2>2. CASE ~(event = "UPDATE" /\ given = NULL)
      BY <2>2
    <2> QED
      BY <2>1, <2>2
  <1>3. \/ tok = given
        \/ given = NULL /\ event = "UPDATE" /\ tok = wed_flow[w].var_uptkn
    OBVIOUS
  <1>4. event = "INSERT" => tok = NULL
    BY <1>1
  <1> HIDE DEF tok
  <1>5. c \in Calls
    BY <1>2 DEF Call, Calls, Token
  <1>6. CallOK(c)
    BY <1>1, <1>3, <1>4 DEF CallOK, Call
  <1>7. \A q \in Session \ {s} : At(q, "idle") \/ sess[q].wid # c.wid
    BY <1>1 DEF Unlocked, Call
  <1> HIDE DEF c
  <1> QED
    BY <1>1, <1>5, <1>6, <1>7, CallStep

(* The validations. *)
LEMMA ValidateInv ==
    ASSUME SessionInv, NEW s \in Session, ValidateFinal(s) \/ ValidateCond(s) \/ ValidateTrig(s)
    PROVE  SessionInv'
  <1>1. ~At(s, "idle")
    BY DEF ValidateFinal, ValidateCond, ValidateTrig, Step, At
  <1>2. sess[s] \in Calls /\ CallOK(sess[s])
    BY <1>1, CallTyped DEF SessionInv, CallsOK
  <1>3. ASSUME NEW pc \in {"cond", "trig", "match", "status"},
               sess[s].pc \in {"final", "cond", "trig"},
               pc = "match" <=> sess[s].pc = "trig" /\ sess[s].event = "INSERT",
               pc = "status" <=> sess[s].pc = "trig" /\ sess[s].event # "INSERT"
        PROVE  [sess[s] EXCEPT !.pc = pc] \in Calls /\ CallOK([sess[s] EXCEPT !.pc = pc])
    <2> DEFINE c == [sess[s] EXCEPT !.pc = pc]
    <2>1. /\ c \in Calls /\ c.pc = pc /\ c.event = sess[s].event /\ c.wid = sess[s].wid
          /\ c.tok = sess[s].tok /\ c.given = sess[s].given /\ c.done = sess[s].done
          /\ c.rtrg = sess[s].rtrg
      BY <1>2 DEF Calls
    <2> HIDE DEF c
    <2>2. c.event = "INSERT" => RunningOf(c.wid, c.done) = {}
      BY <1>2, <2>1 DEF CallOK, RunningOf, OpenJobs, SessionInv, JobsHaveRows
    <2>3. sess[s].event \in {"INSERT", "UPDATE"}
      BY <1>2 DEF Calls
    <2>4. c.pc = "match" => c.event = "INSERT" /\ c.tok = NULL /\ c.rtrg = {}
      BY <1>2, <1>3, <2>1 DEF CallOK
    <2>5. CallOK(c)
      BY <1>2, <1>3, <2>1, <2>2, <2>3, <2>4, SessionAssumption DEF CallOK
    <2> QED
      BY <2>1, <2>5 DEF c
  <1>4. CASE ValidateFinal(s)
    <2> DEFINE c == [sess[s] EXCEPT !.pc = "cond"]
    <2>1. c \in Calls /\ CallOK(c) /\ c.wid = sess[s].wid
      BY <1>2, <1>3, <1>4 DEF ValidateFinal, Step, At, Calls
    <2> QED
      BY <1>4, <2>1, StepInv DEF ValidateFinal
  <1>5. CASE ValidateCond(s)
    <2> DEFINE c == [sess[s] EXCEPT !.pc = "trig"]
    <2>1. c \in Calls /\ CallOK(c) /\ c.wid = sess[s].wid
      BY <1>2, <1>3, <1>5 DEF ValidateCond, Step, At, Calls
    <2> QED
      BY <1>5, <2>1, StepInv DEF ValidateCond
  <1>6. CASE ValidateTrig(s)
    <2> DEFINE pc == IF sess[s].event = "INSERT" THEN "match" ELSE "status"
               c == [sess[s] EXCEPT !.pc = pc]
    <2>1. sess[s].pc = "trig" /\ pc \in {"match", "status"}
      BY <1>6 DEF ValidateTrig, Step, At
    <2>2. c \in Calls /\ CallOK(c)
      BY <1>3, <2>1
    <2>3. c.wid = sess[s].wid
      BY <1>2 DEF Calls
    <2> QED
      BY <1>6, <2>2, <2>3, StepInv DEF ValidateTrig
  <1> QED
    BY <1>4, <1>5, <1>6

(* The status and the token of an UPDATE. *)
LEMMA StatusInv ==
    ASSUME SessionInv, NEW s \in Session, get_st_status(s)
    PROVE  SessionInv'
  <1> DEFINE pc == IF sess[s].tok = "exception" THEN "running" ELSE "find"
             c == [sess[s] EXCEPT !.pc = pc]
             ok == /\ st_status[sess[s].wid].final => st_status[sess[s].wid].excpt
                   /\ sess[s].tok # NULL
                   /\ sess[s].tok = "exception" => st_status[sess[s].wid].excpt
  <1>1. Step(s, "status", ok, c) /\ At(s, "status")
    BY DEF get_st_status, Step
  <1>2. sess[s] \in Calls /\ CallOK(sess[s])
    BY <1>1, CallTyped DEF SessionInv, CallsOK, At
  <1>3. /\ c \in Calls /\ c.pc = pc /\ c.event = sess[s].event /\ c.wid = sess[s].wid
        /\ c.tok = sess[s].tok /\ c.given = sess[s].given /\ c.done = sess[s].done
        /\ c.rtrg = sess[s].rtrg /\ sess[s].tok \in Token
    BY <1>2 DEF Calls
  <1>4. c.event # "INSERT"
    BY <1>1, <1>2, <1>3 DEF At, CallOK
  <1>5. /\ pc = "find" /\ ok => sess[s].tok \in Uptkn
        /\ pc = "running" => sess[s].tok \notin Uptkn
        /\ pc \in {"find", "running"}
    BY <1>3, SessionAssumption DEF Token
  <1> HIDE DEF c, pc, ok
  <1>6. ok => CallOK(c)
    BY <1>2, <1>3, <1>4, <1>5 DEF CallOK
  <1> QED
    BY <1>1, <1>3, <1>6, StepInv

(* The token of a job: the job is open, and the call's own. *)
LEMMA FindInv ==
    ASSUME SessionInv, NEW s \in Session, find_job(s)
    PROVE  SessionInv'
  <1> DEFINE tok == sess[s].tok
             c == [sess[s] EXCEPT !.pc = "running", !.done = {tok}, !.wrote = job_pool[tok].tgid]
             ok == /\ job_pool[tok] # NoRow /\ job_pool[tok].locked /\ ~job_pool[tok].tf
                   /\ job_pool[tok].wid = sess[s].wid
  <1>1. Step(s, "find", ok, c) /\ At(s, "find")
    BY DEF find_job, Step
  <1>2. sess[s] \in Calls /\ CallOK(sess[s])
    BY <1>1, CallTyped DEF SessionInv, CallsOK, At
  <1>3. tok \in Uptkn
    BY <1>1, <1>2 DEF CallOK, At
  <1>4. CASE ok
    <2>1. job_pool[tok].tgid \in Tgid
      BY <1>3, <1>4 DEF SessionInv, SessionTypeOK, Job
    <2>2. /\ c \in Calls /\ c.pc = "running" /\ c.event = sess[s].event /\ c.wid = sess[s].wid
          /\ c.tok = sess[s].tok /\ c.given = sess[s].given /\ c.done = {tok}
          /\ c.rtrg = sess[s].rtrg
      BY <1>2, <1>3, <2>1 DEF Calls
    <2>3. c.event # "INSERT"
      BY <1>1, <1>2, <2>2 DEF At, CallOK
    <2> HIDE DEF c
    <2>4. CallOK(c)
      BY <1>2, <1>4, <2>2, <2>3 DEF CallOK
    <2> QED
      BY <1>1, <2>2, <2>4, StepInv
  <1>5. CASE ~ok
    BY <1>1, <1>5, AbortInv DEF Step
  <1> QED
    BY <1>4, <1>5

(* The triggers that run. *)
LEMMA RunningInv ==
    ASSUME SessionInv, NEW s \in Session, running_triggers(s)
    PROVE  SessionInv'
  <1> DEFINE R == {job_pool[t].tgid : t \in OpenJobs(sess[s].wid) \ sess[s].done}
             c == [sess[s] EXCEPT !.pc = "match", !.rtrg = R]
  <1>1. Step(s, "running", TRUE, c) /\ At(s, "running")
    BY DEF running_triggers, Step
  <1>2. sess[s] \in Calls /\ CallOK(sess[s])
    BY <1>1, CallTyped DEF SessionInv, CallsOK, At
  <1>3. R \in SUBSET Tgid
    BY DEF SessionInv, SessionTypeOK, OpenJobs, Job
  <1>4. R = RunningOf(sess[s].wid, sess[s].done)
    BY DEF RunningOf
  <1> HIDE DEF R
  <1>5. /\ c \in Calls /\ c.pc = "match" /\ c.event = sess[s].event /\ c.wid = sess[s].wid
        /\ c.tok = sess[s].tok /\ c.given = sess[s].given /\ c.done = sess[s].done
        /\ c.rtrg = R
    BY <1>2, <1>3 DEF Calls
  <1>6. c.event # "INSERT"
    BY <1>1, <1>2, <1>5 DEF At, CallOK
  <1> HIDE DEF c
  <1>7. CallOK(c)
    BY <1>1, <1>2, <1>4, <1>5, <1>6 DEF CallOK, At
  <1> QED
    BY <1>1, <1>5, <1>7, StepInv

(* The conditions the new state matches. *)
LEMMA MatchInv ==
    ASSUME SessionInv, NEW s \in Session, MatchPredicates(s)
    PROVE  SessionInv'
  <1> DEFINE conds == pred_match(cat, sess[s].val)
             fin == final_match(cat, sess[s].val)
             ok == Outcome(sess[s].event, conds, fin, sess[s].rtrg) # "error"
             c == [sess[s] EXCEPT !.pc = "fire", !.cond_set = conds, !.final = fin]
  <1>1. Step(s, "match", ok, c) /\ At(s, "match")
    BY DEF MatchPredicates, Step
  <1>2. sess[s] \in Calls /\ CallOK(sess[s])
    BY <1>1, CallTyped DEF SessionInv, CallsOK, At
  <1>3. /\ conds \in SUBSET Cid /\ fin \in BOOLEAN
        /\ fin => conds # {}
    BY DEF pred_match, final_match, SessionInv, SessionTypeOK, Catalog
  <1> HIDE DEF conds, fin
  <1>4. /\ c \in Calls /\ c.pc = "fire" /\ c.event = sess[s].event /\ c.wid = sess[s].wid
        /\ c.tok = sess[s].tok /\ c.given = sess[s].given /\ c.done = sess[s].done
        /\ c.rtrg = sess[s].rtrg /\ c.cond_set = conds /\ c.final = fin
    BY <1>2, <1>3 DEF Calls
  <1>5. ok <=> Outcome(c.event, c.cond_set, c.final, c.rtrg) # "error"
    BY <1>4
  <1> HIDE DEF c, ok
  <1>6. ok => CallOK(c)
    BY <1>1, <1>2, <1>3, <1>4, <1>5 DEF CallOK, At
  <1> QED
    BY <1>1, <1>4, <1>6, StepInv

(* The triggers of these conditions. *)
LEMMA FireInv ==
    ASSUME SessionInv, NEW s \in Session, squeeze_the_trigger(s)
    PROVE  SessionInv'
  <1> DEFINE G == IF sess[s].final THEN {} ELSE wed_trig(cat, sess[s].cond_set)
             c == [sess[s] EXCEPT !.pc = "commit", !.trigs = G]
  <1>1. Step(s, "fire", TRUE, c) /\ At(s, "fire")
    BY DEF squeeze_the_trigger, Step
  <1>2. sess[s] \in Calls /\ CallOK(sess[s])
    BY <1>1, CallTyped DEF SessionInv, CallsOK, At
  <1>3. G \in SUBSET Tgid
    BY DEF wed_trig
  <1> HIDE DEF G
  <1>4. /\ c \in Calls /\ c.pc = "commit" /\ c.event = sess[s].event /\ c.wid = sess[s].wid
        /\ c.tok = sess[s].tok /\ c.given = sess[s].given /\ c.done = sess[s].done
        /\ c.rtrg = sess[s].rtrg /\ c.cond_set = sess[s].cond_set /\ c.final = sess[s].final
    BY <1>2, <1>3 DEF Calls
  <1> HIDE DEF c
  <1>5. CallOK(c)
    BY <1>1, <1>2, <1>4 DEF CallOK, At
  <1> QED
    BY <1>1, <1>4, <1>5, StepInv

-----------------------------------------------------------------------------
(* Steps that write job_pool *)

(* The jobs of instance w stay what they are, except that they may be locked. *)
JobsKept(w) ==
    \A t \in Uptkn :
       /\ (job_pool'[t] # NoRow /\ job_pool'[t].wid = w) <=> (job_pool[t] # NoRow /\ job_pool[t].wid = w)
       /\ (job_pool[t] # NoRow /\ job_pool[t].wid = w) =>
             job_pool'[t].tgid = job_pool[t].tgid /\ (job_pool'[t].tf <=> job_pool[t].tf)

(* Then the open ones are the same ... *)
LEMMA OpenKept ==
    ASSUME NEW w \in Wid, JobsKept(w)
    PROVE  OpenJobs(w)' = OpenJobs(w) /\ \A done : RunningOf(w, done)' = RunningOf(w, done)
  <1>1. OpenJobs(w)' = OpenJobs(w)
    BY DEF OpenJobs, JobsKept
  <1>2. \A t \in OpenJobs(w) : job_pool'[t].tgid = job_pool[t].tgid
    BY DEF OpenJobs, JobsKept
  <1> QED
    BY <1>1, <1>2 DEF RunningOf

(* ... and so is all that a call of w knows. *)
LEMMA CallUndisturbed ==
    ASSUME NEW c \in Calls, CallOK(c), JobsKept(c.wid), wed_flow'[c.wid] = wed_flow[c.wid]
    PROVE  CallOK(c)'
  <1>1. c.wid \in Wid /\ c.done \in SUBSET Uptkn
    BY DEF Calls
  <1>2. RunningOf(c.wid, c.done)' = RunningOf(c.wid, c.done)
    BY <1>1, OpenKept
  <1>3. \A t \in c.done : /\ job_pool'[t] # NoRow /\ ~job_pool'[t].tf
                          /\ job_pool'[t].wid = c.wid
    BY <1>1 DEF CallOK, JobsKept
  <1> QED
    BY <1>2, <1>3 DEF CallOK

(* job_lock keeps the jobs of every instance. *)
LEMMA LockFacts ==
    ASSUME SessionTypeOK, NEW t \in Uptkn, job_lock(t)
    PROVE  /\ UNCHANGED <<cat, wed_flow, st_status, sess, last>>
           /\ job_pool[t] # NoRow
           /\ job_pool' \in [Uptkn -> Job \cup {NoRow}]
           /\ job_pool'[t] # NoRow /\ job_pool'[t].wid = job_pool[t].wid
           /\ job_pool'[t].tf = job_pool[t].tf
           /\ \A u \in Uptkn \ {t} : job_pool'[u] = job_pool[u]
           /\ \A w \in Wid : JobsKept(w)
  <1>1. /\ job_pool[t] # NoRow /\ job_pool[t] \in Job
        /\ job_pool' = [job_pool EXCEPT ![t] = [job_pool[t] EXCEPT !.locked = TRUE]]
        /\ UNCHANGED <<cat, wed_flow, st_status, sess, last>>
    BY DEF job_lock, SessionTypeOK
  <1>2. /\ [job_pool[t] EXCEPT !.locked = TRUE] \in Job
        /\ [job_pool[t] EXCEPT !.locked = TRUE].tgid = job_pool[t].tgid
        /\ [job_pool[t] EXCEPT !.locked = TRUE].wid = job_pool[t].wid
        /\ [job_pool[t] EXCEPT !.locked = TRUE].tf = job_pool[t].tf
    BY <1>1 DEF Job
  <1>3. /\ job_pool' \in [Uptkn -> Job \cup {NoRow}]
        /\ job_pool'[t] # NoRow /\ job_pool'[t].tgid = job_pool[t].tgid
        /\ job_pool'[t].wid = job_pool[t].wid /\ job_pool'[t].tf = job_pool[t].tf
        /\ \A u \in Uptkn \ {t} : job_pool'[u] = job_pool[u]
    BY <1>1, <1>2, SessionAssumption DEF SessionTypeOK
  <1>4. \A w \in Wid : JobsKept(w)
    BY <1>1, <1>3 DEF JobsKept
  <1> QED
    BY <1>1, <1>3, <1>4

(* job_lock. *)
LEMMA LockInv ==
    ASSUME SessionInv, NEW t \in Uptkn, job_lock(t)
    PROVE  SessionInv'
  <1>1. /\ UNCHANGED <<cat, wed_flow, st_status, sess, last>>
        /\ job_pool[t] # NoRow
        /\ job_pool' \in [Uptkn -> Job \cup {NoRow}]
        /\ job_pool'[t] # NoRow /\ job_pool'[t].wid = job_pool[t].wid
        /\ job_pool'[t].tf = job_pool[t].tf
        /\ \A u \in Uptkn \ {t} : job_pool'[u] = job_pool[u]
        /\ \A w \in Wid : JobsKept(w)
    BY LockFacts DEF SessionInv
  <1>2. SessionTypeOK'
    BY <1>1 DEF SessionInv, SessionTypeOK
  <1>3. CallsOK'
    <2> SUFFICES ASSUME NEW q \in Session, ~At(q, "idle")'
                 PROVE  CallOK(sess[q])'
      BY DEF CallsOK
    <2>1. PICK c : c = sess[q] /\ c = sess'[q]
      BY <1>1
    <2>2. c \in Calls /\ CallOK(c)
      BY <2>1, CallTyped DEF SessionInv, CallsOK, At
    <2>3. c.wid \in Wid
      BY <2>2 DEF Calls
    <2>4. CallOK(c)'
      BY <1>1, <2>2, <2>3, CallUndisturbed
    <2> QED
      BY <2>1, <2>4
  <1>4. OneCall' /\ CompletedByItsToken'
    BY <1>1 DEF SessionInv, OneCall, CompletedByItsToken, At
  <1>5. JobsHaveRows'
    BY <1>1 DEF SessionInv, JobsHaveRows
  <1>6. KeptTokenUsed'
    BY <1>1 DEF SessionInv, KeptTokenUsed
  <1>7. EndedHasNoJobs'
    BY <1>1, OpenKept DEF SessionInv, EndedHasNoJobs
  <1> QED
    BY <1>2, <1>3, <1>4, <1>5, <1>6, <1>7 DEF SessionInv

(* Drawing tokens: unused ones, one for each trigger. *)
LEMMA DrawFacts ==
    ASSUME NEW G, NEW b \in Draws(G)
    PROVE  /\ DOMAIN b \subseteq Uptkn
           /\ \A t \in DOMAIN b : job_pool[t] = NoRow /\ b[t] \in G
           /\ \A g \in G : \E t \in DOMAIN b : b[t] = g
  <1>1. PICK T \in SUBSET {t \in Uptkn : job_pool[t] = NoRow} : b \in Bijection(T, G)
    BY DEF Draws
  <1>2. b \in [T -> G] /\ \A g \in G : \E t \in T : b[t] = g
    BY <1>1 DEF Bijection, Injection, Surjection
  <1> QED
    BY <1>1, <1>2

(* What a commit does to the rows of job_pool: c's job is completed, fired gets new ones. *)
CommitRows(c, fired) ==
    /\ job_pool' \in [Uptkn -> Job \cup {NoRow}]
    /\ \A t \in Uptkn \ c.done : job_pool[t] # NoRow => job_pool'[t] = job_pool[t]
    /\ \A t \in c.done : /\ t \in Uptkn /\ job_pool'[t] # NoRow /\ job_pool'[t].tf
                         /\ job_pool'[t].tgid = job_pool[t].tgid
                         /\ job_pool'[t].wid = job_pool[t].wid
    /\ \A t \in Uptkn : job_pool[t] = NoRow /\ job_pool'[t] # NoRow =>
          job_pool'[t].wid = c.wid /\ ~job_pool'[t].tf /\ job_pool'[t].tgid \in fired
    /\ \A g \in fired : \E t \in Uptkn : /\ job_pool[t] = NoRow /\ job_pool'[t] # NoRow
                                         /\ job_pool'[t].wid = c.wid /\ ~job_pool'[t].tf

(* Call c of session s commits with this outcome. *)
Committed(s, c, out, fired) ==
    /\ c \in Calls /\ CallOK(c) /\ c.pc = "commit"
    /\ CommitRows(c, fired)
    /\ \A q \in Session \ {s} : At(q, "idle") \/ sess[q].wid # c.wid
    /\ wed_flow' = [wed_flow EXCEPT ![c.wid] = [val |-> c.val, var_uptkn |-> c.tok]]
    /\ st_status' = [st_status EXCEPT ![c.wid] =
                        [final |-> out \in {"final", "exception"}, excpt |-> out = "exception"]]
    /\ sess' = [sess EXCEPT ![s] = Idle]
    /\ UNCHANGED cat

(* So does the call that CommitCall commits. *)
LEMMA CommitFacts ==
    ASSUME SessionInv, NEW s \in Session, CommitCall(s), NEW c, c = sess[s],
           NEW out, out = Outcome(c.event, c.cond_set, c.final, c.rtrg),
           NEW fired, fired = Fired(out, c.rtrg, c.trigs)
    PROVE  Committed(s, c, out, fired)
  <1>1. At(s, "commit") /\ ~At(s, "idle")
    BY DEF CommitCall, At
  <1>2. c \in Calls /\ CallOK(c) /\ c.pc = "commit"
    BY <1>1, CallTyped DEF SessionInv, CallsOK, At
  <1>3. \A q \in Session \ {s} : At(q, "idle") \/ sess[q].wid # c.wid
    BY <1>1 DEF SessionInv, OneCall
  <1>4. PICK b \in Draws(fired) :
           job_pool' = [t \in Uptkn |->
               IF t \in DOMAIN b
               THEN [tgid |-> b[t], wid |-> c.wid, locked |-> FALSE, tf |-> FALSE]
               ELSE IF t \in c.done THEN [job_pool[t] EXCEPT !.tf = TRUE]
               ELSE job_pool[t]]
    <2> DEFINE d == sess[s]
               o == Outcome(d.event, d.cond_set, d.final, d.rtrg)
               Pool(r, b) == [t \in Uptkn |->
                   IF t \in DOMAIN b
                   THEN [tgid |-> b[t], wid |-> r.wid, locked |-> FALSE, tf |-> FALSE]
                   ELSE IF t \in r.done THEN [job_pool[t] EXCEPT !.tf = TRUE]
                   ELSE job_pool[t]]
    <2>1. \E b \in Draws(Fired(o, d.rtrg, d.trigs)) : job_pool' = Pool(d, b)
      BY DEF CommitCall
    <2> HIDE DEF Pool
    <2>2. \E b \in Draws(fired) : job_pool' = Pool(c, b)
      BY <2>1
    <2> QED
      BY <2>2 DEF Pool
  <1>5. /\ DOMAIN b \subseteq Uptkn
        /\ \A t \in DOMAIN b : job_pool[t] = NoRow /\ b[t] \in fired
        /\ \A g \in fired : \E t \in DOMAIN b : b[t] = g
    BY DrawFacts
  <1>6. c.wid \in Wid /\ fired \subseteq Tgid /\ c.done \subseteq Uptkn
    BY <1>2 DEF Calls, Fired
  <1>7. \A t \in DOMAIN b : /\ job_pool'[t] \in Job /\ job_pool'[t].tgid = b[t]
                            /\ job_pool'[t].wid = c.wid /\ ~job_pool'[t].tf
    <2> SUFFICES ASSUME NEW t \in DOMAIN b
                 PROVE  /\ job_pool'[t] \in Job /\ job_pool'[t].tgid = b[t]
                        /\ job_pool'[t].wid = c.wid /\ ~job_pool'[t].tf
      OBVIOUS
    <2>1. job_pool'[t] = [tgid |-> b[t], wid |-> c.wid, locked |-> FALSE, tf |-> FALSE]
      BY <1>4, <1>5
    <2>2. b[t] \in Tgid
      BY <1>5, <1>6
    <2> QED
      BY <1>6, <2>1, <2>2 DEF Job
  <1>8. \A t \in c.done : /\ t \in Uptkn /\ job_pool[t] # NoRow /\ job_pool[t] \in Job
    BY <1>2, <1>6 DEF CallOK, SessionInv, SessionTypeOK
  <1>9. \A t \in c.done : /\ job_pool'[t] \in Job /\ job_pool'[t].tf
                          /\ job_pool'[t].tgid = job_pool[t].tgid
                          /\ job_pool'[t].wid = job_pool[t].wid
    <2> SUFFICES ASSUME NEW t \in c.done
                 PROVE  /\ job_pool'[t] \in Job /\ job_pool'[t].tf
                        /\ job_pool'[t].tgid = job_pool[t].tgid
                        /\ job_pool'[t].wid = job_pool[t].wid
      OBVIOUS
    <2>1. t \in Uptkn /\ t \notin DOMAIN b /\ job_pool[t] \in Job
      BY <1>5, <1>8
    <2>2. job_pool'[t] = [job_pool[t] EXCEPT !.tf = TRUE]
      BY <1>4, <2>1
    <2> QED
      BY <2>1, <2>2 DEF Job
  <1>10. \A t \in Uptkn \ (c.done \cup DOMAIN b) : job_pool'[t] = job_pool[t]
    BY <1>4
  <1>11. job_pool' \in [Uptkn -> Job \cup {NoRow}]
    <2>1. \A t \in Uptkn : job_pool'[t] \in Job \cup {NoRow}
      BY <1>7, <1>9, <1>10 DEF SessionInv, SessionTypeOK
    <2>2. job_pool' = [t \in Uptkn |-> job_pool'[t]]
      BY <1>4
    <2> QED
      BY <2>1, <2>2
  <1>12. CommitRows(c, fired)
    <2>1. \A t \in Uptkn \ c.done : job_pool[t] # NoRow => job_pool'[t] = job_pool[t]
      BY <1>5, <1>10
    <2>2. \A t \in c.done : /\ t \in Uptkn /\ job_pool'[t] # NoRow /\ job_pool'[t].tf
                            /\ job_pool'[t].tgid = job_pool[t].tgid
                            /\ job_pool'[t].wid = job_pool[t].wid
      BY <1>8, <1>9, SessionAssumption
    <2>3. \A t \in Uptkn : job_pool[t] = NoRow /\ job_pool'[t] # NoRow => t \in DOMAIN b
      BY <1>8, <1>10
    <2>4. \A t \in Uptkn : job_pool[t] = NoRow /\ job_pool'[t] # NoRow =>
             job_pool'[t].wid = c.wid /\ ~job_pool'[t].tf /\ job_pool'[t].tgid \in fired
      BY <1>5, <1>7, <2>3
    <2>5. ASSUME NEW g \in fired
          PROVE  \E t \in Uptkn : /\ job_pool[t] = NoRow /\ job_pool'[t] # NoRow
                                  /\ job_pool'[t].wid = c.wid /\ ~job_pool'[t].tf
      <3>1. PICK t \in DOMAIN b : b[t] = g
        BY <1>5
      <3>2. t \in Uptkn /\ job_pool[t] = NoRow /\ job_pool'[t] # NoRow
        BY <1>5, <1>7, SessionAssumption
      <3> QED
        BY <1>7, <3>2
    <2> QED
      BY <1>11, <2>1, <2>2, <2>4, <2>5 DEF CommitRows
  <1>13. /\ wed_flow' = [wed_flow EXCEPT ![c.wid] = [val |-> c.val, var_uptkn |-> c.tok]]
         /\ st_status' = [st_status EXCEPT ![c.wid] =
                             [final |-> out \in {"final", "exception"},
                              excpt |-> out = "exception"]]
         /\ sess' = [sess EXCEPT ![s] = Idle]
         /\ UNCHANGED cat
    BY DEF CommitCall, Goto
  <1> QED
    BY <1>2, <1>3, <1>12, <1>13 DEF Committed

(* What follows from the outcome of a call that is not refused. *)
LEMMA OutcomeFacts ==
    ASSUME NEW c \in Calls, CallOK(c), c.pc = "commit",
           NEW out, out = Outcome(c.event, c.cond_set, c.final, c.rtrg)
    PROVE  /\ out \in {"final", "exception", "run"}
           /\ out # "run" => c.rtrg = {}
           /\ out = "run" => ~c.final /\ (c.rtrg # {} \/ c.cond_set # {})
  <1>1. /\ c.event \in {"INSERT", "UPDATE"} /\ c.final \in BOOLEAN
        /\ c.final => c.cond_set # {}
        /\ c.event = "INSERT" => c.rtrg = {}
        /\ out # "error"
    BY DEF Calls, CallOK
  <1>2. CASE c.event = "INSERT"
    BY <1>1, <1>2 DEF Outcome
  <1>3. CASE c.event = "UPDATE"
    BY <1>1, <1>3 DEF Outcome
  <1> QED
    BY <1>1, <1>2, <1>3

(* The open jobs of the instances after a commit of c. *)
LEMMA CommitOpen ==
    ASSUME SessionTypeOK, NEW c \in Calls, CallOK(c), NEW fired, CommitRows(c, fired)
    PROVE  /\ \A w \in Wid \ {c.wid} : JobsKept(w)
           /\ OpenJobs(c.wid) \ c.done \subseteq OpenJobs(c.wid)'
           /\ fired # {} => OpenJobs(c.wid)' # {}
           /\ fired = {} => OpenJobs(c.wid)' \subseteq OpenJobs(c.wid) \ c.done
  <1>1. /\ \A t \in Uptkn \ c.done : job_pool[t] # NoRow => job_pool'[t] = job_pool[t]
        /\ \A t \in c.done : /\ t \in Uptkn /\ job_pool'[t] # NoRow /\ job_pool'[t].tf
                             /\ job_pool'[t].wid = job_pool[t].wid
        /\ \A t \in Uptkn : job_pool[t] = NoRow /\ job_pool'[t] # NoRow =>
              job_pool'[t].wid = c.wid /\ ~job_pool'[t].tf /\ job_pool'[t].tgid \in fired
        /\ \A g \in fired : \E t \in Uptkn : /\ job_pool[t] = NoRow /\ job_pool'[t] # NoRow
                                             /\ job_pool'[t].wid = c.wid /\ ~job_pool'[t].tf
    BY DEF CommitRows
  <1>2. \A t \in c.done : job_pool[t] # NoRow /\ job_pool[t].wid = c.wid
    BY DEF CallOK
  <1>3. ASSUME NEW w \in Wid \ {c.wid}
        PROVE  JobsKept(w)
    BY <1>1, <1>2 DEF JobsKept
  <1>4. OpenJobs(c.wid) \ c.done \subseteq OpenJobs(c.wid)'
    BY <1>1 DEF OpenJobs
  <1>5. fired # {} => OpenJobs(c.wid)' # {}
    BY <1>1 DEF OpenJobs
  <1>6. fired = {} => OpenJobs(c.wid)' \subseteq OpenJobs(c.wid) \ c.done
    BY <1>1 DEF OpenJobs
  <1> QED
    BY <1>3, <1>4, <1>5, <1>6

(* The commit of a call. *)
LEMMA CommitInv ==
    ASSUME SessionInv, NEW s \in Session, CommitCall(s)
    PROVE  SessionInv'
  <1>1. PICK c : c = sess[s]
    OBVIOUS
  <1>2. PICK out : out = Outcome(c.event, c.cond_set, c.final, c.rtrg)
    OBVIOUS
  <1>3. PICK fired : fired = Fired(out, c.rtrg, c.trigs)
    OBVIOUS
  <1>4. /\ c \in Calls /\ CallOK(c) /\ c.pc = "commit"
        /\ CommitRows(c, fired)
        /\ \A q \in Session \ {s} : At(q, "idle") \/ sess[q].wid # c.wid
        /\ wed_flow' = [wed_flow EXCEPT ![c.wid] = [val |-> c.val, var_uptkn |-> c.tok]]
        /\ st_status' = [st_status EXCEPT ![c.wid] =
                            [final |-> out \in {"final", "exception"},
                             excpt |-> out = "exception"]]
        /\ sess' = [sess EXCEPT ![s] = Idle]
        /\ UNCHANGED cat
    <2>1. Committed(s, c, out, fired)
      BY <1>1, <1>2, <1>3, CommitFacts
    <2> QED
      BY <2>1 DEF Committed
  <1>5. SessionTypeOK /\ c.wid \in Wid /\ c.val \in Val /\ c.tok \in Token
    BY <1>4 DEF SessionInv, Calls
  <1>6. /\ sess'[s] = Idle /\ Idle.pc = "idle"
        /\ \A q \in Session \ {s} : sess'[q] = sess[q]
    BY <1>4, <1>5 DEF SessionTypeOK, Idle
  <1>7. [val |-> c.val, var_uptkn |-> c.tok] \in Row
    BY <1>5 DEF Row
  <1>8. /\ wed_flow'[c.wid] # NoRow /\ wed_flow'[c.wid].var_uptkn = c.tok
        /\ \A w \in Wid \ {c.wid} : wed_flow'[w] = wed_flow[w] /\ st_status'[w] = st_status[w]
        /\ st_status'[c.wid].final <=> out \in {"final", "exception"}
    BY <1>4, <1>5, <1>7, SessionAssumption DEF SessionTypeOK
  <1>9. /\ \A w \in Wid \ {c.wid} : JobsKept(w)
        /\ OpenJobs(c.wid) \ c.done \subseteq OpenJobs(c.wid)'
        /\ fired = {} => OpenJobs(c.wid)' \subseteq OpenJobs(c.wid) \ c.done
    BY <1>4, <1>5, CommitOpen
  <1>10. SessionTypeOK'
    <2>1. wed_flow' \in [Wid -> Row \cup {NoRow}]
      BY <1>4, <1>5, <1>7 DEF SessionTypeOK
    <2>2. st_status' \in [Wid -> Status \cup {NoRow}]
      <3>1. [final |-> out \in {"final", "exception"}, excpt |-> out = "exception"] \in Status
        BY DEF Status
      <3> QED
        BY <1>4, <1>5, <3>1 DEF SessionTypeOK
    <2>3. sess' \in [Session -> {Idle} \cup Calls] /\ cat' \in Catalog
      BY <1>4, <1>5 DEF SessionTypeOK
    <2> QED
      BY <1>4, <2>1, <2>2, <2>3 DEF SessionTypeOK, CommitRows
  <1>11. CallsOK'
    <2> SUFFICES ASSUME NEW q \in Session, ~At(q, "idle")'
                 PROVE  CallOK(sess[q])'
      BY DEF CallsOK
    <2>1. q # s
      BY <1>6 DEF At
    <2>2. PICK d : d = sess[q] /\ d = sess'[q]
      BY <1>6, <2>1
    <2>3. d \in Calls /\ CallOK(d) /\ d.wid # c.wid
      BY <1>4, <1>5, <2>1, <2>2, CallTyped DEF SessionInv, CallsOK, At
    <2>4. d.wid \in Wid
      BY <2>3 DEF Calls
    <2>5. CallOK(d)'
      BY <1>8, <1>9, <2>3, <2>4, CallUndisturbed
    <2> QED
      BY <2>2, <2>5
  <1>12. OneCall'
    BY <1>6 DEF SessionInv, OneCall, At
  <1>13. JobsHaveRows'
    <2> SUFFICES ASSUME NEW t \in Uptkn, job_pool'[t] # NoRow
                 PROVE  wed_flow'[job_pool'[t].wid] # NoRow
      BY DEF JobsHaveRows
    <2>1. job_pool'[t].wid \in Wid
      BY <1>10 DEF SessionTypeOK, Job
    <2>2. CASE job_pool'[t].wid = c.wid
      BY <1>8, <2>2
    <2>3. CASE job_pool'[t].wid # c.wid
      <3>1. job_pool[t] # NoRow /\ job_pool[t].wid = job_pool'[t].wid
        BY <1>4, <2>3 DEF CommitRows
      <3> QED
        BY <1>8, <2>1, <2>3, <3>1 DEF SessionInv, JobsHaveRows
    <2> QED
      BY <2>2, <2>3
  <1>14. KeptTokenUsed'
    <2> SUFFICES ASSUME NEW w \in Wid, wed_flow'[w] # NoRow, wed_flow'[w].var_uptkn \in Uptkn
                 PROVE  /\ job_pool'[wed_flow'[w].var_uptkn] # NoRow
                        /\ job_pool'[wed_flow'[w].var_uptkn].tf
      BY DEF KeptTokenUsed
    <2>1. CASE w = c.wid
      <3>1. c.tok \in c.done
        BY <1>4, <1>8, <2>1 DEF CallOK
      <3>2. job_pool'[c.tok] # NoRow /\ job_pool'[c.tok].tf
        BY <1>4, <3>1 DEF CommitRows
      <3> QED
        BY <1>8, <2>1, <3>2
    <2>2. CASE w # c.wid
      <3>1. PICK t : t = wed_flow[w].var_uptkn /\ t = wed_flow'[w].var_uptkn
        BY <1>8, <2>2
      <3>2. t \in Uptkn /\ job_pool[t] # NoRow /\ job_pool[t].tf
        BY <1>8, <2>2, <3>1 DEF SessionInv, KeptTokenUsed
      <3>3. job_pool'[t] # NoRow /\ job_pool'[t].tf
        BY <1>4, <3>2 DEF CommitRows
      <3> QED
        BY <3>1, <3>3
    <2> QED
      BY <2>1, <2>2
  <1>15. EndedHasNoJobs'
    <2> SUFFICES ASSUME NEW w \in Wid, wed_flow'[w] # NoRow, st_status'[w].final
                 PROVE  OpenJobs(w)' = {}
      BY DEF EndedHasNoJobs
    <2>1. CASE w = c.wid
      <3>1. out # "run" /\ c.rtrg = {}
        BY <1>2, <1>4, <1>8, <2>1, OutcomeFacts
      <3>2. fired = {}
        BY <1>3, <3>1 DEF Fired
      <3>3. OpenJobs(c.wid) \ c.done = {}
        <4>1. RunningOf(c.wid, c.done) = {}
          BY <1>4, <3>1 DEF CallOK
        <4> QED
          BY <4>1 DEF RunningOf
      <3> QED
        BY <1>9, <2>1, <3>2, <3>3
    <2>2. CASE w # c.wid
      BY <1>8, <1>9, <2>2, OpenKept DEF SessionInv, EndedHasNoJobs
    <2> QED
      BY <2>1, <2>2
  <1>16. CompletedByItsToken'
    <2>1. last'.done = c.done /\ last'.given = c.given
      BY <1>1 DEF CommitCall
    <2>2. c.done \subseteq {c.tok}
      BY <1>4 DEF CallOK
    <2>3. CASE c.tok = c.given
      BY <2>1, <2>2, <2>3 DEF CompletedByItsToken
    <2>4. CASE c.tok # c.given
      <3>1. wed_flow[c.wid] # NoRow /\ c.tok = wed_flow[c.wid].var_uptkn
        BY <1>4, <2>4 DEF CallOK
      <3>2. c.done = {}
        <4> SUFFICES ASSUME c.tok \in c.done PROVE FALSE
          BY <2>2
        <4>1. c.tok \in Uptkn /\ ~job_pool[c.tok].tf
          BY <1>4 DEF Calls, CallOK
        <4> QED
          BY <1>5, <3>1, <4>1 DEF SessionInv, KeptTokenUsed
      <3> QED
        BY <2>1, <3>2 DEF CompletedByItsToken
    <2> QED
      BY <2>3, <2>4
  <1> QED
    BY <1>10, <1>11, <1>12, <1>13, <1>14, <1>15, <1>16 DEF SessionInv

-----------------------------------------------------------------------------
(* Edits of the catalog give a catalog. *)
LEMMA EditType ==
    ASSUME SessionTypeOK, Edit
    PROVE  cat' \in Catalog /\ UNCHANGED <<wed_flow, st_status, job_pool, sess, last>>
  <1>1. UNCHANGED <<wed_flow, st_status, job_pool, sess, last>>
    <2>1. \A kind, new : Commits(kind, new) =>
             UNCHANGED <<wed_flow, st_status, job_pool, sess, last>>
      BY DEF Commits
    <2>2. ASSUME NEW c \in Cid, InsertCond(c) \/ SetFinal(c)
          PROVE  UNCHANGED <<wed_flow, st_status, job_pool, sess, last>>
      BY <2>1, <2>2 DEF InsertCond, SetFinal
    <2>3. ASSUME NEW c \in Cid, NEW v \in Val, InsertPred(c, v)
          PROVE  UNCHANGED <<wed_flow, st_status, job_pool, sess, last>>
      BY <2>1, <2>3 DEF InsertPred
    <2>4. ASSUME NEW c \in Cid, NEW v \in Val, NEW g \in Tgid, AddCondition(c, v, g)
          PROVE  UNCHANGED <<wed_flow, st_status, job_pool, sess, last>>
      BY <2>1, <2>4 DEF AddCondition
    <2>5. ASSUME NEW c \in Cid, NEW g \in Tgid, InsertTrig(g, c) \/ MoveTrig(g, c)
          PROVE  UNCHANGED <<wed_flow, st_status, job_pool, sess, last>>
      BY <2>1, <2>5 DEF InsertTrig, MoveTrig
    <2> QED
      BY <2>2, <2>3, <2>4, <2>5 DEF Edit
  <1>2. cat \in Catalog
    BY DEF SessionTypeOK
  <1>3. ASSUME NEW c \in Cid, InsertCond(c)
        PROVE  cat' \in Catalog
    BY <1>2, <1>3 DEF InsertCond, Commits, Catalog
  <1>4. ASSUME NEW c \in Cid, SetFinal(c)
        PROVE  cat' \in Catalog
    <2>1. (IF c \in cat.final THEN {} ELSE {c}) \in SUBSET Cid
      OBVIOUS
    <2> QED
      BY <1>2, <1>4, <2>1 DEF SetFinal, Commits, Catalog
  <1>5. ASSUME NEW c \in Cid, NEW v \in Val, InsertPred(c, v)
        PROVE  cat' \in Catalog
    <2>1. cat' = [cat EXCEPT !.pred = cat.pred \cup {<<c, v>>}]
      BY <1>2, <1>5 DEF InsertPred, Commits, Catalog
    <2>2. cat.pred \cup {<<c, v>>} \in SUBSET (Cid \X Val)
      BY <1>2 DEF Catalog
    <2> QED
      BY <1>2, <2>1, <2>2 DEF Catalog
  <1>6. ASSUME NEW c \in Cid, NEW v \in Val, NEW g \in Tgid, AddCondition(c, v, g)
        PROVE  cat' \in Catalog
    <2>1. cat' = [cat EXCEPT !.cond = cat.cond \cup {c}, !.pred = cat.pred \cup {<<c, v>>},
                             !.trig = [cat.trig EXCEPT ![g] = c]]
      BY <1>2, <1>6 DEF AddCondition, Commits, Catalog
    <2>2. /\ cat.cond \cup {c} \in SUBSET Cid
          /\ cat.pred \cup {<<c, v>>} \in SUBSET (Cid \X Val)
          /\ [cat.trig EXCEPT ![g] = c] \in [Tgid -> Cid \cup {NoRow}]
      BY <1>2 DEF Catalog
    <2> QED
      BY <1>2, <2>1, <2>2 DEF Catalog
  <1>7. ASSUME NEW c \in Cid, NEW g \in Tgid, InsertTrig(g, c) \/ MoveTrig(g, c)
        PROVE  cat' \in Catalog
    BY <1>2, <1>7 DEF InsertTrig, MoveTrig, Commits, Catalog
  <1> QED
    BY <1>1, <1>3, <1>4, <1>5, <1>6, <1>7 DEF Edit

(* No edit of the catalog disturbs what calls know of rows and jobs. *)
LEMMA EditInv ==
    ASSUME SessionInv, cat' \in Catalog, UNCHANGED <<wed_flow, st_status, job_pool, sess, last>>
    PROVE  SessionInv'
  <1>1. SessionTypeOK'
    BY DEF SessionInv, SessionTypeOK
  <1>2. CallsOK'
    <2> SUFFICES ASSUME NEW q \in Session, ~At(q, "idle")'
                 PROVE  CallOK(sess[q])'
      BY DEF CallsOK
    <2>1. PICK c : c = sess[q] /\ c = sess'[q]
      OBVIOUS
    <2>2. CallOK(c)
      BY <2>1 DEF SessionInv, CallsOK, At
    <2>3. CallOK(c)'
      BY <2>2, CallKept
    <2> QED
      BY <2>1, <2>3
  <1>3. OneCall' /\ JobsHaveRows' /\ KeptTokenUsed' /\ EndedHasNoJobs' /\ CompletedByItsToken'
    BY DEF SessionInv, OneCall, JobsHaveRows, KeptTokenUsed, EndedHasNoJobs,
       CompletedByItsToken, OpenJobs, At
  <1> QED
    BY <1>1, <1>2, <1>3 DEF SessionInv

(* At first there is nothing. *)
LEMMA SessionInitInv == SessionInit => SessionInv
  <1> SUFFICES ASSUME SessionInit PROVE SessionInv
    OBVIOUS
  <1>1. SessionTypeOK
    BY SessionAssumption DEF SessionInit, SessionTypeOK
  <1>2. CallsOK /\ OneCall
    BY DEF SessionInit, CallsOK, OneCall, At, Idle
  <1>3. JobsHaveRows /\ KeptTokenUsed /\ EndedHasNoJobs /\ CompletedByItsToken
    BY DEF SessionInit, JobsHaveRows, KeptTokenUsed, EndedHasNoJobs, CompletedByItsToken
  <1> QED
    BY <1>1, <1>2, <1>3 DEF SessionInv

(* Every step keeps the invariant. *)
LEMMA SessionNextInv == SessionInv /\ [SessionNext]_sessionVars => SessionInv'
  <1> SUFFICES ASSUME SessionInv, [SessionNext]_sessionVars PROVE SessionInv'
    OBVIOUS
  <1>1. ASSUME NEW s \in Session, Kernel(s)
        PROVE  SessionInv'
    BY <1>1, ValidateInv, StatusInv, FindInv, RunningInv, MatchInv, FireInv, CommitInv DEF Kernel
  <1>2. ASSUME NEW s \in Session, NEW event \in {"INSERT", "UPDATE"}, NEW w \in Wid,
               NEW v \in Val, NEW given \in Token, Begin(s, event, w, v, given)
        PROVE  SessionInv'
    BY <1>2, BeginInv
  <1>3. ASSUME NEW t \in Uptkn, job_lock(t)
        PROVE  SessionInv'
    BY <1>3, LockInv
  <1>4. CASE Edit
    BY <1>4, EditType, EditInv DEF SessionInv
  <1>5. CASE UNCHANGED sessionVars
    BY <1>5, EditInv DEF sessionVars, SessionInv, SessionTypeOK
  <1> QED
    BY <1>1, <1>2, <1>3, <1>4, <1>5 DEF SessionNext

(* The invariant of the calls, whatever is done to the catalog. *)
THEOREM SessionSafety == SessionSpec => []SessionInv
  BY SessionInitInv, SessionNextInv, PTL DEF SessionSpec

(***************************************************************************)
(* However many sessions call the kernel and whatever commits between two  *)
(* of its queries, an instance that has ended, or is in an exception, has  *)
(* no open job.                                                            *)
(***************************************************************************)
THEOREM EndedStaysQuiet == SessionSpec => []EndedHasNoJobs
  <1>1. SessionInv => EndedHasNoJobs
    BY DEF SessionInv
  <1> QED
    BY SessionSafety, <1>1, PTL

(***************************************************************************)
(* A statement that does not set var_uptkn never completes a job with the  *)
(* token that the row kept from its last write.                            *)
(***************************************************************************)
THEOREM TokensAreNotReused == SessionSpec => []CompletedByItsToken
  <1>1. SessionInv => CompletedByItsToken
    BY DEF SessionInv
  <1> QED
    BY SessionSafety, <1>1, PTL

-----------------------------------------------------------------------------
(* A catalog that only grows *)

(* A step of call s that commits nothing leaves it as c. *)
LEMMA GrownCall ==
    ASSUME SessionTypeOK, GrownInv, NEW s \in Session, NEW c, NEW read \in SUBSET Catalog,
           sess' = [sess EXCEPT ![s] = c], seen' = [seen EXCEPT ![s] = read],
           UNCHANGED <<cat, wed_flow, st_status, job_pool, last, edits>>,
           OnlyGrown => c.pc = "idle" \/ GrownOK(c, read)
    PROVE  GrownInv'
  <1>1. seen' \in [Session -> SUBSET Catalog] /\ edits' \in Seq(Edits)
    BY DEF GrownInv
  <1>2. ASSUME OnlyGrown'
        PROVE  GrownCalls' /\ LiveHasJob' /\ last'.ok
    <2>1. OnlyGrown
      BY <1>2 DEF OnlyGrown
    <2>2. LiveHasJob' /\ last'.ok
      BY <2>1 DEF GrownInv, LiveHasJob, OpenJobs
    <2>3. ASSUME NEW q \in Session, ~At(q, "idle")'
          PROVE  GrownOK(sess[q], seen[q])'
      <3>1. PICK d, r : d = sess'[q] /\ r = seen'[q]
        OBVIOUS
      <3>2. GrownOK(d, r)
        BY <2>1, <2>3, <3>1 DEF GrownInv, GrownCalls, At, SessionTypeOK
      <3>3. GrownOK(d, r)'
        BY <3>2 DEF GrownOK, ReadOnce
      <3> QED
        BY <3>1, <3>3
    <2> QED
      BY <2>2, <2>3 DEF GrownCalls
  <1> QED
    BY <1>1, <1>2 DEF GrownInv

(* A query that succeeds moves the call on; one that fails aborts it. *)
LEMMA GrownStep ==
    ASSUME SessionTypeOK, GrownInv, NEW s \in Session, NEW from, NEW ok, NEW c,
           Step(s, from, ok, c), OnlyGrown /\ ok => GrownOK(c, seen[s])
    PROVE  GrownInv'
  <1>1. seen[s] \in SUBSET Catalog /\ seen = [seen EXCEPT ![s] = seen[s]]
    BY DEF GrownInv
  <1>2. CASE ok
    <2>1. /\ sess' = [sess EXCEPT ![s] = c] /\ seen' = seen
          /\ UNCHANGED <<cat, wed_flow, st_status, job_pool, last, edits>>
      BY <1>2 DEF Step, Goto, Tables
    <2> QED
      BY <1>1, <1>2, <2>1, GrownCall
  <1>3. CASE ~ok
    <2>1. /\ sess' = [sess EXCEPT ![s] = Idle] /\ seen' = [seen EXCEPT ![s] = {}]
          /\ UNCHANGED <<cat, wed_flow, st_status, job_pool, last, edits>>
      BY <1>3 DEF Step, Abort
    <2>2. Idle.pc = "idle" /\ {} \in SUBSET Catalog
      BY DEF Idle
    <2> QED
      BY <2>1, <2>2, GrownCall
  <1> QED
    BY <1>2, <1>3

(* A call has read one catalog when it begins. *)
LEMMA GrownBegin ==
    ASSUME SessionTypeOK, GrownInv, NEW s \in Session, NEW event, NEW w, NEW v, NEW given,
           Begin(s, event, w, v, given)
    PROVE  GrownInv'
  <1> DEFINE tok == IF event = "UPDATE" /\ given = NULL THEN wed_flow[w].var_uptkn ELSE given
             c == Call(event, w, v, given, tok)
  <1>1. /\ sess' = [sess EXCEPT ![s] = c] /\ seen' = [seen EXCEPT ![s] = {cat}]
        /\ UNCHANGED <<cat, wed_flow, st_status, job_pool, last, edits>>
    BY DEF Begin, Goto
  <1>2. c.pc = "final" /\ {cat} \in SUBSET Catalog
    BY DEF Call, SessionTypeOK
  <1> HIDE DEF c
  <1>3. GrownOK(c, {cat})
    BY <1>2 DEF GrownOK
  <1> QED
    BY <1>1, <1>2, <1>3, GrownCall

(* The queries up to the match: a catalog in which every condition that is *)
(* not final has a trigger stays one.                                      *)
LEMMA GrownEarly ==
    ASSUME SessionInv, GrownInv, NEW s \in Session, NEW from, NEW ok, NEW c,
           Step(s, from, ok, c), from # "idle", c.pc \notin {"fire", "commit"},
           ok /\ c.pc \in {"status", "find", "running", "match"} =>
              wed_trig_validation(cat) \/ from \in {"status", "find", "running"}
    PROVE  GrownInv'
  <1>1. OnlyGrown => GrownOK(sess[s], seen[s]) /\ sess[s].pc = from
    BY DEF Step, At, GrownInv, GrownCalls
  <1>2. OnlyGrown /\ ok => GrownOK(c, seen[s])
    BY <1>1 DEF GrownOK
  <1> QED
    BY <1>2, GrownStep DEF SessionInv

(* The queries that validate the row and look at its status and jobs. *)
LEMMA GrownQueries ==
    ASSUME SessionInv, GrownInv, NEW s \in Session,
           \/ ValidateFinal(s) \/ ValidateCond(s) \/ ValidateTrig(s) \/ get_st_status(s)
           \/ find_job(s) \/ running_triggers(s)
    PROVE  GrownInv'
  <1>1. sess[s].pc # "idle" => sess[s] \in Calls
    BY CallTyped DEF SessionInv, At
  <1>2. CASE ValidateFinal(s)
    <2> DEFINE c == [sess[s] EXCEPT !.pc = "cond"]
    <2>1. Step(s, "final", wed_final_cond_validation(cat), c)
      BY <1>2 DEF ValidateFinal
    <2>2. c.pc = "cond"
      BY <1>1, <2>1 DEF Step, At, Calls
    <2> QED
      BY <2>1, <2>2, GrownEarly
  <1>3. CASE ValidateCond(s)
    <2> DEFINE c == [sess[s] EXCEPT !.pc = "trig"]
    <2>1. Step(s, "cond", wed_cond_validation(cat), c)
      BY <1>3 DEF ValidateCond
    <2>2. c.pc = "trig"
      BY <1>1, <2>1 DEF Step, At, Calls
    <2> QED
      BY <2>1, <2>2, GrownEarly
  <1>4. CASE ValidateTrig(s)
    <2> DEFINE pc == IF sess[s].event = "INSERT" THEN "match" ELSE "status"
               c == [sess[s] EXCEPT !.pc = pc]
    <2>1. Step(s, "trig", wed_trig_validation(cat), c)
      BY <1>4 DEF ValidateTrig
    <2>2. c.pc \in {"match", "status"}
      BY <1>1, <2>1 DEF Step, At, Calls
    <2> QED
      BY <2>1, <2>2, GrownEarly
  <1>5. CASE get_st_status(s)
    <2> DEFINE pc == IF sess[s].tok = "exception" THEN "running" ELSE "find"
               c == [sess[s] EXCEPT !.pc = pc]
               ok == /\ st_status[sess[s].wid].final => st_status[sess[s].wid].excpt
                     /\ sess[s].tok # NULL
                     /\ sess[s].tok = "exception" => st_status[sess[s].wid].excpt
    <2>1. Step(s, "status", ok, c)
      BY <1>5 DEF get_st_status
    <2>2. c.pc \in {"running", "find"}
      BY <1>1, <2>1 DEF Step, At, Calls
    <2> HIDE DEF c, ok
    <2> QED
      BY <2>1, <2>2, GrownEarly
  <1>6. CASE find_job(s)
    <2> DEFINE tok == sess[s].tok
               c == [sess[s] EXCEPT !.pc = "running", !.done = {tok},
                                    !.wrote = job_pool[tok].tgid]
               ok == /\ job_pool[tok] # NoRow /\ job_pool[tok].locked /\ ~job_pool[tok].tf
                     /\ job_pool[tok].wid = sess[s].wid
    <2>1. Step(s, "find", ok, c)
      BY <1>6 DEF find_job
    <2>2. c.pc = "running"
      BY <1>1, <2>1 DEF Step, At, Calls
    <2> HIDE DEF c, ok
    <2> QED
      BY <2>1, <2>2, GrownEarly
  <1>7. CASE running_triggers(s)
    <2> DEFINE R == {job_pool[t].tgid : t \in OpenJobs(sess[s].wid) \ sess[s].done}
               c == [sess[s] EXCEPT !.pc = "match", !.rtrg = R]
    <2>1. Step(s, "running", TRUE, c)
      BY <1>7 DEF running_triggers
    <2>2. c.pc = "match"
      BY <1>1, <2>1 DEF Step, At, Calls
    <2> HIDE DEF c
    <2> QED
      BY <2>1, <2>2, GrownEarly
  <1> QED
    BY <1>2, <1>3, <1>4, <1>5, <1>6, <1>7

(* The match reads the catalog the call could have read alone. *)
LEMMA GrownMatch ==
    ASSUME SessionInv, GrownInv, NEW s \in Session, MatchPredicates(s)
    PROVE  GrownInv'
  <1> DEFINE conds == pred_match(cat, sess[s].val)
             fin == final_match(cat, sess[s].val)
             ok == Outcome(sess[s].event, conds, fin, sess[s].rtrg) # "error"
             c == [sess[s] EXCEPT !.pc = "fire", !.cond_set = conds, !.final = fin]
  <1>1. Step(s, "match", ok, c) /\ At(s, "match")
    BY DEF MatchPredicates, Step
  <1>2. sess[s] \in Calls
    BY <1>1, CallTyped DEF SessionInv, At
  <1>3. /\ conds \subseteq cat.cond
        /\ ~fin => conds \cap cat.final = {}
    BY DEF pred_match, final_match
  <1>4. c.pc = "fire" /\ c.cond_set = conds /\ c.final = fin /\ c.val = sess[s].val
    BY <1>2 DEF Calls
  <1>5. conds = pred_match(cat, c.val) /\ fin = final_match(cat, c.val)
    BY <1>4
  <1> HIDE DEF c, conds, fin, ok
  <1>6. ReadOnce(c, cat)
    BY <1>4, <1>5 DEF ReadOnce
  <1>7. OnlyGrown => cat \in seen[s] /\ wed_trig_validation(cat)
    BY <1>1 DEF GrownInv, GrownCalls, GrownOK, At
  <1>8. OnlyGrown => GrownOK(c, seen[s])
    BY <1>3, <1>4, <1>6, <1>7 DEF GrownOK
  <1> QED
    BY <1>1, <1>8, GrownStep DEF SessionInv

(* The conditions matched are not final and have triggers: some are fired. *)
LEMMA GrownFire ==
    ASSUME SessionInv, GrownInv, NEW s \in Session, squeeze_the_trigger(s)
    PROVE  GrownInv'
  <1> DEFINE G == IF sess[s].final THEN {} ELSE wed_trig(cat, sess[s].cond_set)
             c == [sess[s] EXCEPT !.pc = "commit", !.trigs = G]
  <1>1. Step(s, "fire", TRUE, c) /\ At(s, "fire")
    BY DEF squeeze_the_trigger, Step
  <1>2. sess[s] \in Calls
    BY <1>1, CallTyped DEF SessionInv, At
  <1> HIDE DEF G
  <1>3. /\ c.pc = "commit" /\ c.trigs = G /\ c.cond_set = sess[s].cond_set
        /\ c.final = sess[s].final /\ c.val = sess[s].val
    BY <1>2 DEF Calls
  <1> HIDE DEF c
  <1>4. ASSUME OnlyGrown
        PROVE  GrownOK(c, seen[s])
    <2>1. GrownOK(sess[s], seen[s]) /\ sess[s].pc = "fire"
      BY <1>1, <1>4 DEF GrownInv, GrownCalls, At
    <2>2. PICK k \in seen[s] : ReadOnce(sess[s], k)
      BY <2>1 DEF GrownOK
    <2>3. ReadOnce(c, k)
      BY <1>3, <2>1, <2>2 DEF ReadOnce, G
    <2>4. ASSUME ~c.final, c.cond_set # {}
          PROVE  c.trigs # {}
      <3>1. PICK d \in c.cond_set : d \in cat.cond \ cat.final
        BY <1>3, <2>1, <2>4 DEF GrownOK
      <3>2. PICK g \in Tgid : cat.trig[g] = d
        BY <2>1, <3>1 DEF GrownOK, wed_trig_validation
      <3> QED
        BY <1>3, <2>4, <3>1, <3>2 DEF G, wed_trig
    <2> QED
      BY <1>3, <2>1, <2>2, <2>3, <2>4 DEF GrownOK
  <1> QED
    BY <1>1, <1>4, GrownStep DEF SessionInv

(* A call whose reads agree with one catalog does what one read would do. *)
LEMMA ReadOnceAgrees ==
    ASSUME NEW s \in Session, NEW k, sess[s] \in Calls, CallOK(sess[s]), At(s, "commit"),
           ReadOnce(sess[s], k)
    PROVE  AsOneRead(s, k)
  <1> DEFINE c == sess[s]
             conds == pred_match(k, c.val)
             out == Outcome(c.event, c.cond_set, c.final, c.rtrg)
             one == Outcome(c.event, conds, final_match(k, c.val), c.rtrg)
  <1>1. c.cond_set = conds /\ c.final = final_match(k, c.val)
    BY DEF ReadOnce, Calls, final_match
  <1>2. c.trigs = IF c.final THEN {} ELSE wed_trig(k, conds)
    BY <1>1 DEF ReadOnce, At
  <1>3. out = one
    BY <1>1
  <1>4. out = "run" => ~c.final
    BY OutcomeFacts DEF At
  <1> HIDE DEF conds, out, one
  <1>5. Fired(out, c.rtrg, c.trigs) = Fired(one, c.rtrg, wed_trig(k, conds))
    BY <1>2, <1>3, <1>4 DEF Fired
  <1> QED
    BY <1>3, <1>5 DEF AsOneRead, out, one, conds

(* The commit: what was fired is what one catalog fires. *)
LEMMA GrownCommit ==
    ASSUME SessionInv, GrownInv, NEW s \in Session, CommitCall(s)
    PROVE  GrownInv'
  <1>1. PICK c : c = sess[s]
    OBVIOUS
  <1>2. PICK out : out = Outcome(c.event, c.cond_set, c.final, c.rtrg)
    OBVIOUS
  <1>3. PICK fired : fired = Fired(out, c.rtrg, c.trigs)
    OBVIOUS
  <1>4. /\ c \in Calls /\ CallOK(c) /\ c.pc = "commit"
        /\ CommitRows(c, fired)
        /\ wed_flow' = [wed_flow EXCEPT ![c.wid] = [val |-> c.val, var_uptkn |-> c.tok]]
        /\ st_status' = [st_status EXCEPT ![c.wid] =
                            [final |-> out \in {"final", "exception"},
                             excpt |-> out = "exception"]]
        /\ sess' = [sess EXCEPT ![s] = Idle]
        /\ UNCHANGED cat
    <2>1. Committed(s, c, out, fired)
      BY <1>1, <1>2, <1>3, CommitFacts
    <2> QED
      BY <2>1 DEF Committed
  <1>5. SessionTypeOK /\ c.wid \in Wid
    BY <1>4 DEF SessionInv, Calls
  <1>6. /\ \A w \in Wid \ {c.wid} : JobsKept(w)
        /\ OpenJobs(c.wid) \ c.done \subseteq OpenJobs(c.wid)'
        /\ fired # {} => OpenJobs(c.wid)' # {}
    BY <1>4, <1>5, CommitOpen
  <1>7. /\ edits' = edits /\ seen' = [seen EXCEPT ![s] = {}]
        /\ last'.ok = \E k \in seen[s] : AsOneRead(s, k)
    BY DEF CommitCall
  <1>8. seen' \in [Session -> SUBSET Catalog] /\ edits' \in Seq(Edits)
    BY <1>7 DEF GrownInv
  <1>9. ASSUME OnlyGrown'
        PROVE  GrownCalls' /\ LiveHasJob' /\ last'.ok
    <2>1. OnlyGrown
      BY <1>7, <1>9 DEF OnlyGrown
    <2>2. GrownOK(c, seen[s])
      BY <1>1, <1>4, <2>1 DEF GrownInv, GrownCalls, At
    <2>3. last'.ok
      <3>1. PICK k \in seen[s] : ReadOnce(c, k)
        BY <1>4, <2>2 DEF GrownOK
      <3>2. AsOneRead(s, k)
        BY <1>1, <1>4, <3>1, ReadOnceAgrees DEF At
      <3> QED
        BY <1>7, <3>2
    <2>4. ASSUME NEW q \in Session, ~At(q, "idle")'
          PROVE  GrownOK(sess[q], seen[q])'
      <3>1. q # s
        BY <1>4, <1>5, <2>4 DEF At, Idle, SessionTypeOK
      <3>2. PICK d, r : d = sess[q] /\ d = sess'[q] /\ r = seen[q] /\ r = seen'[q]
        BY <1>4, <1>5, <1>7, <3>1 DEF SessionTypeOK, GrownInv
      <3>3. GrownOK(d, r)
        BY <2>1, <2>4, <3>2 DEF GrownInv, GrownCalls, At
      <3>4. GrownOK(d, r)'
        BY <1>4, <3>3 DEF GrownOK, ReadOnce
      <3> QED
        BY <3>2, <3>4
    <2>5. ASSUME NEW w \in Wid, wed_flow'[w] # NoRow, ~st_status'[w].final
          PROVE  OpenJobs(w)' # {}
      <3>1. CASE w = c.wid
        <4>1. out \notin {"final", "exception"}
          BY <1>4, <1>5, <2>5, <3>1 DEF SessionTypeOK
        <4>2. out = "run" /\ ~c.final /\ (c.rtrg # {} \/ c.cond_set # {})
          BY <1>2, <1>4, <4>1, OutcomeFacts
        <4>3. CASE c.rtrg # {}
          <5>1. RunningOf(c.wid, c.done) # {}
            BY <1>4, <4>3 DEF CallOK
          <5>2. OpenJobs(c.wid) \ c.done # {}
            BY <5>1 DEF RunningOf
          <5> QED
            BY <1>6, <3>1, <5>2
        <4>4. CASE c.rtrg = {}
          <5>1. c.trigs # {}
            BY <1>4, <2>2, <4>2, <4>4 DEF GrownOK
          <5>2. fired # {}
            BY <1>3, <4>2, <4>4, <5>1 DEF Fired
          <5> QED
            BY <1>6, <3>1, <5>2
        <4> QED
          BY <4>3, <4>4
      <3>2. CASE w # c.wid
        <4>1. wed_flow'[w] = wed_flow[w] /\ st_status'[w] = st_status[w]
          BY <1>4, <1>5, <3>2 DEF SessionTypeOK
        <4> QED
          BY <1>6, <2>1, <2>5, <3>2, <4>1, OpenKept DEF GrownInv, LiveHasJob
      <3> QED
        BY <3>1, <3>2
    <2> QED
      BY <2>3, <2>4, <2>5 DEF GrownCalls, LiveHasJob
  <1> QED
    BY <1>8, <1>9 DEF GrownInv

(* Locking a job changes nothing a call has read. *)
LEMMA GrownLock ==
    ASSUME SessionInv, GrownInv, NEW t \in Uptkn, job_lock(t)
    PROVE  GrownInv'
  <1>1. /\ UNCHANGED <<cat, wed_flow, st_status, sess, last, seen, edits>>
        /\ \A w \in Wid : JobsKept(w)
    BY LockFacts DEF SessionInv, job_lock
  <1>2. LiveHasJob => LiveHasJob'
    BY <1>1, OpenKept DEF LiveHasJob
  <1>3. GrownCalls => GrownCalls'
    <2> SUFFICES ASSUME GrownCalls, NEW q \in Session, ~At(q, "idle")'
                 PROVE  GrownOK(sess[q], seen[q])'
      BY DEF GrownCalls
    <2>1. PICK d, r : d = sess[q] /\ d = sess'[q] /\ r = seen[q] /\ r = seen'[q]
      BY <1>1
    <2>2. GrownOK(d, r)
      BY <2>1 DEF GrownCalls, At
    <2>3. GrownOK(d, r)'
      BY <1>1, <2>2 DEF GrownOK, ReadOnce
    <2> QED
      BY <2>1, <2>3
  <1> QED
    BY <1>1, <1>2, <1>3 DEF GrownInv, OnlyGrown

(* A condition that comes with its predicate and its trigger: calls that   *)
(* have matched the others fire the same triggers.                         *)
LEMMA GrownAdd ==
    ASSUME SessionTypeOK, NEW x \in Cid, NEW v \in Val, NEW g \in Tgid, AddCondition(x, v, g),
           NEW d, NEW read, GrownOK(d, read), NEW more, more = read \cup {cat'}
    PROVE  GrownOK(d, more)'
  <1>1. /\ cat \in Catalog
        /\ x \notin cat.cond /\ cat.trig[g] = NoRow
        /\ cat' = [cat EXCEPT !.cond = cat.cond \cup {x}, !.pred = cat.pred \cup {<<x, v>>},
                              !.trig = [cat.trig EXCEPT ![g] = x]]
    BY DEF AddCondition, Commits, SessionTypeOK, Catalog
  <1>2. /\ cat'.cond = cat.cond \cup {x} /\ cat'.final = cat.final
        /\ cat'.trig = [cat.trig EXCEPT ![g] = x]
    BY <1>1 DEF Catalog
  <1>3. /\ cat'.trig[g] = x
        /\ \A h \in Tgid \ {g} : cat'.trig[h] = cat.trig[h]
    BY <1>1, <1>2 DEF Catalog
  <1>4. cat.cond \subseteq Cid /\ NoRow \notin cat.cond
    BY <1>1, SessionAssumption DEF Catalog
  <1>5. wed_trig_validation(cat) => wed_trig_validation(cat')
    <2> SUFFICES ASSUME wed_trig_validation(cat), NEW e \in cat'.cond \ cat'.final
                 PROVE  \E h \in Tgid : cat'.trig[h] = e
      BY DEF wed_trig_validation
    <2>1. CASE e = x
      BY <1>3, <2>1
    <2>2. CASE e # x
      <3>1. PICK h \in Tgid : cat.trig[h] = e
        BY <1>2, <2>2 DEF wed_trig_validation
      <3>2. h # g
        BY <1>1, <1>2, <1>4, <2>2, <3>1
      <3> QED
        BY <1>3, <3>1, <3>2
    <2> QED
      BY <2>1, <2>2
  <1>6. ASSUME d.cond_set \subseteq cat.cond
        PROVE  wed_trig(cat', d.cond_set) = wed_trig(cat, d.cond_set)
    <2>1. cat.trig[g] \notin d.cond_set /\ cat'.trig[g] \notin d.cond_set
      BY <1>1, <1>3, <1>4, <1>6
    <2>2. \A h \in Tgid : cat'.trig[h] \in d.cond_set <=> cat.trig[h] \in d.cond_set
      BY <1>3, <2>1
    <2> QED
      BY <2>2 DEF wed_trig
  <1>7. ASSUME NEW k \in read, ReadOnce(d, k), d.cond_set \subseteq cat.cond
        PROVE  ReadOnce(d, k)'
    BY <1>6, <1>7 DEF ReadOnce
  <1>8. d.pc \in {"fire", "commit"} =>
           /\ d.cond_set \subseteq cat'.cond
           /\ ~d.final => d.cond_set \cap cat'.final = {}
           /\ \E k \in more : ReadOnce(d, k)'
    BY <1>2, <1>7 DEF GrownOK
  <1> QED
    BY <1>5, <1>8 DEF GrownOK

(* Other edits end the growth. *)
LEMMA GrownEdit ==
    ASSUME SessionInv, GrownInv, Edit
    PROVE  GrownInv'
  <1>1. cat' \in Catalog /\ UNCHANGED <<wed_flow, st_status, job_pool, sess, last>>
    BY EditType DEF SessionInv
  <1>2. PICK kind \in Edits :
           /\ edits' = Append(edits, kind)
           /\ seen' = [s \in Session |-> IF At(s, "idle") THEN {} ELSE seen[s] \cup {cat'}]
           /\ kind = "add" => \E x \in Cid, v \in Val, g \in Tgid : AddCondition(x, v, g)
    <2> DEFINE Logs(kind) ==
                  /\ kind \in Edits /\ edits' = Append(edits, kind)
                  /\ seen' = [s \in Session |-> IF At(s, "idle") THEN {} ELSE seen[s] \cup {cat'}]
    <2>1. ASSUME NEW kind, NEW new, Commits(kind, new)
          PROVE  Logs(kind)
      BY <2>1 DEF Commits
    <2> HIDE DEF Logs
    <2>2. ASSUME NEW x \in Cid, InsertCond(x)
          PROVE  Logs("insert")
      BY <2>1, <2>2 DEF InsertCond
    <2>3. ASSUME NEW x \in Cid, SetFinal(x)
          PROVE  Logs("final")
      BY <2>1, <2>3 DEF SetFinal
    <2>4. ASSUME NEW x \in Cid, NEW v \in Val, InsertPred(x, v)
          PROVE  Logs("insert")
      BY <2>1, <2>4 DEF InsertPred
    <2>5. ASSUME NEW x \in Cid, NEW v \in Val, NEW g \in Tgid, AddCondition(x, v, g)
          PROVE  Logs("add")
      BY <2>1, <2>5 DEF AddCondition
    <2>6. ASSUME NEW x \in Cid, NEW g \in Tgid, InsertTrig(g, x)
          PROVE  Logs("insert")
      BY <2>1, <2>6 DEF InsertTrig
    <2>7. ASSUME NEW x \in Cid, NEW g \in Tgid, MoveTrig(g, x)
          PROVE  Logs("move")
      BY <2>1, <2>7 DEF MoveTrig
    <2>8. \/ Logs("insert") \/ Logs("final") \/ Logs("move")
          \/ Logs("add") /\ \E x \in Cid, v \in Val, g \in Tgid : AddCondition(x, v, g)
      BY <2>2, <2>3, <2>4, <2>5, <2>6, <2>7 DEF Edit
    <2> QED
      BY <2>8 DEF Logs
  <1>3. seen' \in [Session -> SUBSET Catalog] /\ edits' \in Seq(Edits)
    BY <1>1, <1>2 DEF GrownInv
  <1>4. ASSUME OnlyGrown'
        PROVE  OnlyGrown /\ kind = "add"
    <2>1. /\ Len(edits) \in Nat /\ DOMAIN edits = 1 .. Len(edits)
          /\ DOMAIN edits' = 1 .. (Len(edits) + 1)
          /\ edits'[Len(edits) + 1] = kind
          /\ \A i \in 1 .. Len(edits) : edits'[i] = edits[i]
      BY <1>2 DEF GrownInv
    <2>2. \A i \in DOMAIN edits' : edits'[i] = "add"
      BY <1>4 DEF OnlyGrown, Range
    <2>3. kind = "add" /\ \A i \in DOMAIN edits : edits[i] = "add"
      BY <2>1, <2>2
    <2> QED
      BY <2>3 DEF OnlyGrown, Range
  <1>5. ASSUME OnlyGrown'
        PROVE  GrownCalls' /\ LiveHasJob' /\ last'.ok
    <2>1. OnlyGrown /\ kind = "add"
      BY <1>4, <1>5
    <2>2. PICK x \in Cid, v \in Val, g \in Tgid : AddCondition(x, v, g)
      BY <1>2, <2>1
    <2>3. LiveHasJob' /\ last'.ok
      BY <1>1, <2>1 DEF GrownInv, LiveHasJob, OpenJobs
    <2>4. ASSUME NEW q \in Session, ~At(q, "idle")'
          PROVE  GrownOK(sess[q], seen[q])'
      <3>1. PICK d, r, more : d = sess[q] /\ d = sess'[q] /\ r = seen[q] /\ more = seen'[q]
        BY <1>1
      <3>2. GrownOK(d, r) /\ more = r \cup {cat'}
        BY <1>1, <1>2, <2>1, <2>4, <3>1 DEF GrownInv, GrownCalls, At
      <3>3. GrownOK(d, more)'
        BY <2>2, <3>2, GrownAdd DEF SessionInv
      <3> QED
        BY <3>1, <3>3
    <2> QED
      BY <2>3, <2>4 DEF GrownCalls
  <1> QED
    BY <1>3, <1>5 DEF GrownInv

(* Every step keeps the invariant. *)
LEMMA GrownNext == SessionInv /\ GrownInv /\ [SessionNext]_sessionVars => GrownInv'
  <1> SUFFICES ASSUME SessionInv, GrownInv, [SessionNext]_sessionVars PROVE GrownInv'
    OBVIOUS
  <1>1. ASSUME NEW s \in Session, Kernel(s)
        PROVE  GrownInv'
    BY <1>1, GrownQueries, GrownMatch, GrownFire, GrownCommit DEF Kernel
  <1>2. ASSUME NEW s \in Session, NEW event \in {"INSERT", "UPDATE"}, NEW w \in Wid,
               NEW v \in Val, NEW given \in Token, Begin(s, event, w, v, given)
        PROVE  GrownInv'
    BY <1>2, GrownBegin DEF SessionInv
  <1>3. ASSUME NEW t \in Uptkn, job_lock(t)
        PROVE  GrownInv'
    BY <1>3, GrownLock
  <1>4. CASE Edit
    BY <1>4, GrownEdit
  <1>5. CASE UNCHANGED sessionVars
    <2>1. UNCHANGED <<cat, wed_flow, st_status, job_pool, sess, seen, last, edits>>
      BY <1>5 DEF sessionVars
    <2>2. GrownCalls => GrownCalls'
      <3> SUFFICES ASSUME GrownCalls, NEW q \in Session, ~At(q, "idle")'
                   PROVE  GrownOK(sess[q], seen[q])'
        BY DEF GrownCalls
      <3>1. PICK d, r : d = sess[q] /\ d = sess'[q] /\ r = seen[q] /\ r = seen'[q]
        BY <2>1
      <3>2. GrownOK(d, r)
        BY <3>1 DEF GrownCalls, At
      <3>3. GrownOK(d, r)'
        BY <2>1, <3>2 DEF GrownOK, ReadOnce
      <3> QED
        BY <3>1, <3>3
    <2>3. LiveHasJob => LiveHasJob'
      BY <2>1 DEF LiveHasJob, OpenJobs
    <2> QED
      BY <2>1, <2>2, <2>3 DEF GrownInv, OnlyGrown
  <1> QED
    BY <1>1, <1>2, <1>3, <1>4, <1>5 DEF SessionNext

(* The invariant of the calls, where the catalog only grows. *)
THEOREM GrownSafety == SessionSpec => []GrownInv
  <1>1. SessionInit => GrownInv
    <2> SUFFICES ASSUME SessionInit PROVE GrownInv
      OBVIOUS
    <2>1. seen \in [Session -> SUBSET Catalog]
      BY DEF SessionInit
    <2>2. edits \in Seq(Edits)
      BY DEF SessionInit
    <2>3. GrownCalls
      BY DEF SessionInit, GrownCalls, At, Idle
    <2>4. LiveHasJob /\ last.ok
      BY DEF SessionInit, LiveHasJob
    <2> QED
      BY <2>1, <2>2, <2>3, <2>4 DEF GrownInv
  <1> QED
    BY <1>1, SessionSafety, GrownNext, PTL DEF SessionSpec

(***************************************************************************)
(* As long as conditions are added with their predicate and their trigger  *)
(* in one transaction, an instance that is neither final nor an exception  *)
(* has an open job: what the check of kernel_function on the instances     *)
(* nobody works on promises, however the edits fall between its queries.   *)
(***************************************************************************)
THEOREM NoSilentInconsistency == SessionSpec => []InconsistentIsDetected
  <1>1. GrownInv => InconsistentIsDetected
    BY DEF GrownInv, InconsistentIsDetected, LiveHasJob
  <1> QED
    BY GrownSafety, <1>1, PTL

(***************************************************************************)
(* As long as the catalog so grows, every call committed fires what it     *)
(* would fire had it read the catalog once, though it reads it five times. *)
(***************************************************************************)
THEOREM CallsReadOnce == SessionSpec => []CatalogReadOnce
  <1>1. GrownInv => CatalogReadOnce
    BY DEF GrownInv, CatalogReadOnce
  <1> QED
    BY GrownSafety, <1>1, PTL
=============================================================================
