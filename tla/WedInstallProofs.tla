-------------------------- MODULE WedInstallProofs --------------------------
(***************************************************************************)
(* Proofs about WedInstall: what winstall.sh and wremove.sh promise for    *)
(* any number of administrators and databases and any command failing or   *)
(* being interrupted, as long as one script runs at a time.  The scripts   *)
(* take no lock, and two at once lose an update of postgresql.conf.        *)
(***************************************************************************)
EXTENDS WedInstall, TLAPS

Scripts == [pc : {"none", "create", "role", "schema", "make", "read", "write", "undo",
                  "restart", "unread", "unwrite", "unlink", "unload", "drop"},
            db : DB \cup {""}, read : SUBSET DB]

OneAtATime == \A a, b \in Admin : ~At(a, "none") /\ ~At(b, "none") => a = b

Made(d) == d \in failed \/ database[d] = "full"

(* What holds when the script is about to give its next command. *)
ScriptOK(a) ==
    LET d == script[a].db
        pc == script[a].pc
    IN /\ pc = "role" => database[d] # "full"
       /\ pc \in {"make", "read", "write"} => Made(d)
       /\ pc \in {"read", "write"} => d \in library \cup failed
       /\ pc \in {"write", "unwrite"} => script[a].read = conf
       /\ pc \in {"unlink", "unload", "drop"} => d \notin conf
       /\ pc = "drop" => d \notin loaded

(***************************************************************************)
(* The inductive invariant.  A worker that is loaded was registered, so    *)
(* WorkersHaveDatabase is about postgresql.conf as well: the next restart  *)
(* loads what it says.                                                     *)
(***************************************************************************)
InstallInv ==
    /\ InstallTypeOK /\ script \in [Admin -> Scripts]
    /\ \A a \in Admin : ScriptOK(a)
    /\ ServerCanRestart
    /\ \A d \in conf \cup loaded : Made(d)

-----------------------------------------------------------------------------
(* The step of a script while no other one runs. *)
LEMMA AfterCommand ==
    ASSUME InstallInv, OneAtATime, NEW a \in Admin, ~At(a, "none"),
           NEW s \in Scripts, script' = [script EXCEPT ![a] = s],
           database' \in [DB -> {"absent", "empty", "partial", "full"}],
           role' \subseteq DB, library' \subseteq DB, conf' \subseteq DB, loaded' \subseteq DB,
           up' \in BOOLEAN, failed' \subseteq DB,
           ScriptOK(a)', ServerCanRestart', \A d \in conf' \cup loaded' : Made(d)'
    PROVE  InstallInv'
  <1>1. script \in [Admin -> Scripts]
    BY DEF InstallInv
  <1>2. script' \in [Admin -> Scripts]
    BY <1>1
  <1>3. InstallTypeOK'
    BY <1>2 DEF InstallTypeOK, Scripts
  <1>4. ASSUME NEW b \in Admin, b # a PROVE ScriptOK(b)'
    <2>1. script'[b] = script[b] /\ script[b].pc = "none"
      BY <1>1, <1>4 DEF OneAtATime, At
    <2> QED
      BY <2>1 DEF ScriptOK
  <1> QED
    BY <1>2, <1>3, <1>4 DEF InstallInv

(* What the invariant says of the types and of script a at a command. *)
LEMMA Before ==
    ASSUME InstallInv, NEW a \in Admin
    PROVE  /\ database \in [DB -> {"absent", "empty", "partial", "full"}]
           /\ role \subseteq DB /\ library \subseteq DB /\ conf \subseteq DB /\ loaded \subseteq DB
           /\ up \in BOOLEAN /\ failed \subseteq DB
           /\ script \in [Admin -> Scripts] /\ script[a] \in Scripts
           /\ ScriptOK(a) /\ conf \subseteq library \cup failed
           /\ \A d \in conf \cup loaded : Made(d)
  BY DEF InstallInv, InstallTypeOK, ServerCanRestart

(* The steps Goto and End take. *)
LEMMA NextCommand ==
    ASSUME NEW a \in Admin, script \in [Admin -> Scripts],
           NEW pc \in {"create", "role", "schema", "make", "read", "write", "undo", "restart",
                       "unread", "unwrite", "unlink", "unload", "drop"}, Goto(a, pc)
    PROVE  \E s \in Scripts : /\ script' = [script EXCEPT ![a] = s]
                              /\ s.pc = pc /\ s.db = script[a].db /\ s.read = script[a].read
  <1> PICK s : s = [script[a] EXCEPT !.pc = pc]
    OBVIOUS
  <1>1. s \in Scripts /\ s.pc = pc /\ s.db = script[a].db /\ s.read = script[a].read
    BY DEF Scripts
  <1>2. script' = [script EXCEPT ![a] = s]
    BY DEF Goto
  <1> QED
    BY <1>1, <1>2

(* The step of a script that ends. *)
LEMMA LastCommand ==
    ASSUME NEW a \in Admin, End(a)
    PROVE  \E s \in Scripts : script' = [script EXCEPT ![a] = s] /\ s.pc = "none"
  <1>1. NoScript \in Scripts /\ NoScript.pc = "none"
    BY DEF NoScript, Scripts
  <1> QED
    BY <1>1 DEF End

(* Whatever a script leaves behind when it ends or is interrupted. *)
LEMMA EndInv ==
    ASSUME InstallInv, OneAtATime, NEW a \in Admin, ~At(a, "none"), End(a),
           database' \in [DB -> {"absent", "empty", "partial", "full"}],
           role' \subseteq DB, library' \subseteq DB, conf' \subseteq DB, loaded' \subseteq DB,
           up' \in BOOLEAN, failed' \subseteq DB,
           ServerCanRestart', \A d \in conf' \cup loaded' : Made(d)'
    PROVE  InstallInv'
  <1>1. PICK s \in Scripts : script' = [script EXCEPT ![a] = s] /\ s.pc = "none"
    BY LastCommand
  <1>2. script'[a].pc = "none"
    BY <1>1, Before
  <1>3. ScriptOK(a)'
    BY <1>2 DEF ScriptOK
  <1> QED
    BY <1>1, <1>3, AfterCommand

(* A command that goes on to the next. *)
LEMMA GoInv ==
    ASSUME InstallInv, OneAtATime, NEW a \in Admin, ~At(a, "none"),
           NEW pc \in {"create", "role", "schema", "make", "read", "write", "undo", "restart",
                       "unread", "unwrite", "unlink", "unload", "drop"}, Goto(a, pc),
           database' \in [DB -> {"absent", "empty", "partial", "full"}],
           role' \subseteq DB, library' \subseteq DB, conf' \subseteq DB, loaded' \subseteq DB,
           up' \in BOOLEAN, failed' \subseteq DB,
           NEW d, script[a].db = d,
           pc = "role" => database'[d] # "full",
           pc \in {"make", "read", "write"} => Made(d)',
           pc \in {"read", "write"} => d \in library' \cup failed',
           pc \in {"write", "unwrite"} => script[a].read = conf',
           pc \in {"unlink", "unload", "drop"} => d \notin conf',
           pc = "drop" => d \notin loaded',
           ServerCanRestart', \A e \in conf' \cup loaded' : Made(e)'
    PROVE  InstallInv'
  <1>1. script \in [Admin -> Scripts]
    BY DEF InstallInv
  <1>2. PICK s \in Scripts : /\ script' = [script EXCEPT ![a] = s]
                             /\ s.pc = pc /\ s.db = script[a].db /\ s.read = script[a].read
    BY <1>1, NextCommand
  <1>3. script'[a] = s
    BY <1>1, <1>2
  <1>4. ScriptOK(a)'
    BY <1>2, <1>3 DEF ScriptOK, Made
  <1> QED
    BY <1>2, <1>4, AfterCommand

-----------------------------------------------------------------------------
(* winstall.sh *)

(* CREATE DATABASE makes an empty one of an absent one. *)
LEMMA CreateDatabaseInv ==
    ASSUME InstallInv, OneAtATime, NEW a \in Admin, NEW d \in DB, CreateDatabase(a, d)
    PROVE  InstallInv'
  <1>1. /\ ~At(a, "none") /\ script[a].db = d
        /\ UNCHANGED <<role, failed, library, conf, loaded, up>>
    BY DEF CreateDatabase, Files, At
  <1>2. CASE /\ database[d] = "absent" /\ database' = [database EXCEPT ![d] = "empty"]
             /\ Goto(a, "role")
    <2>1. /\ database' \in [DB -> {"absent", "empty", "partial", "full"}]
          /\ database'[d] = "empty"
          /\ \A e \in DB : database[e] = "full" => database'[e] = "full"
      BY <1>2, Before
    <2>2. ServerCanRestart' /\ \A e \in conf' \cup loaded' : Made(e)'
      BY <1>1, <2>1, Before DEF ServerCanRestart, Made
    <2> QED
      BY <1>1, <1>2, <2>1, <2>2, Before, GoInv
  <1>3. CASE End(a) /\ UNCHANGED database
    <2>1. ServerCanRestart' /\ \A e \in conf' \cup loaded' : Made(e)'
      BY <1>1, <1>3, Before DEF ServerCanRestart, Made
    <2> QED
      BY <1>1, <1>3, <2>1, Before, EndInv
  <1> QED
    BY <1>2, <1>3 DEF CreateDatabase

(* CREATE ROLE; when it fails a database is dropped that has no schema. *)
LEMMA CreateRoleInv ==
    ASSUME InstallInv, OneAtATime, NEW a \in Admin, NEW d \in DB, CreateRole(a, d)
    PROVE  InstallInv'
  <1>1. /\ At(a, "role") /\ ~At(a, "none") /\ script[a].db = d
        /\ UNCHANGED <<failed, library, conf, loaded, up>>
    BY DEF CreateRole, Files, At
  <1>2. database[d] # "full"
    BY <1>1, Before DEF ScriptOK, At
  <1>3. CASE role' = role \cup {d} /\ Goto(a, "schema") /\ UNCHANGED database
    <2>1. role' \subseteq DB
      BY <1>3, Before
    <2>2. ServerCanRestart' /\ \A e \in conf' \cup loaded' : Made(e)'
      BY <1>1, <1>3, Before DEF ServerCanRestart, Made
    <2> QED
      BY <1>1, <1>3, <2>1, <2>2, Before, GoInv
  <1>4. CASE /\ database' = [database EXCEPT ![d] = IF up THEN "absent" ELSE @]
             /\ End(a) /\ UNCHANGED role
    <2>1. /\ database' \in [DB -> {"absent", "empty", "partial", "full"}]
          /\ \A e \in DB : database[e] = "full" => database'[e] = "full"
      BY <1>2, <1>4, Before
    <2>2. ServerCanRestart' /\ \A e \in conf' \cup loaded' : Made(e)'
      BY <1>1, <2>1, Before DEF ServerCanRestart, Made
    <2> QED
      BY <1>1, <1>4, <2>1, <2>2, Before, EndInv
  <1> QED
    BY <1>3, <1>4 DEF CreateRole

(* The schema is loaded, or the database counts as failed. *)
LEMMA LoadSchemaInv ==
    ASSUME InstallInv, OneAtATime, NEW a \in Admin, NEW d \in DB, LoadSchema(a, d)
    PROVE  InstallInv'
  <1>1. /\ ~At(a, "none") /\ script[a].db = d /\ Goto(a, "make")
        /\ UNCHANGED <<library, conf, loaded, up>>
    BY DEF LoadSchema, Files, At
  <1>2. /\ database' \in [DB -> {"absent", "empty", "partial", "full"}]
        /\ \A e \in DB \ {d} : database'[e] = database[e]
        /\ role' \subseteq DB
    BY Before DEF LoadSchema
  <1>3. /\ failed \subseteq failed' /\ failed' \subseteq DB
        /\ d \in failed' \/ database'[d] = "full"
    BY Before DEF LoadSchema
  <1>4. ServerCanRestart' /\ \A e \in conf' \cup loaded' : Made(e)'
    BY <1>1, <1>2, <1>3, Before DEF ServerCanRestart, Made
  <1> QED
    BY <1>1, <1>2, <1>3, <1>4, Before, GoInv DEF Made

(* The library is built, or the database counts as failed. *)
LEMMA MakeInv ==
    ASSUME InstallInv, OneAtATime, NEW a \in Admin, NEW d \in DB, Make(a, d)
    PROVE  InstallInv'
  <1>1. /\ At(a, "make") /\ ~At(a, "none") /\ script[a].db = d /\ Goto(a, "read")
        /\ UNCHANGED <<database, role, conf, loaded, up>>
    BY DEF Make, At
  <1>2. Made(d)
    BY <1>1, Before DEF ScriptOK, At
  <1>3. /\ library \subseteq library' /\ library' \subseteq DB
        /\ failed \subseteq failed' /\ failed' \subseteq DB
        /\ d \in library' \cup failed'
    BY Before DEF Make
  <1>4. ServerCanRestart' /\ Made(d)' /\ \A e \in conf' \cup loaded' : Made(e)'
    BY <1>1, <1>2, <1>3, Before DEF ServerCanRestart, Made
  <1> QED
    BY <1>1, <1>3, <1>4, Before, GoInv

(* pg_worker_register reads what the file says now. *)
LEMMA RegisterReadInv ==
    ASSUME InstallInv, OneAtATime, NEW a \in Admin, NEW d \in DB, RegisterRead(a, d)
    PROVE  InstallInv'
  <1>1. /\ At(a, "read") /\ ~At(a, "none") /\ script[a].db = d
        /\ UNCHANGED <<database, role, failed, library, conf, loaded, up>>
    BY DEF RegisterRead, Files, At
  <1>2. Made(d) /\ d \in library \cup failed
    BY <1>1, Before DEF ScriptOK, At
  <1>3. ServerCanRestart' /\ Made(d)' /\ \A e \in conf' \cup loaded' : Made(e)'
    BY <1>1, <1>2, Before DEF ServerCanRestart, Made
  <1>4. CASE Goto(a, "undo")
    BY <1>1, <1>3, <1>4, Before, GoInv
  <1>5. CASE script' = [script EXCEPT ![a].pc = IF d \in conf THEN "restart" ELSE "write",
                                      ![a].read = conf]
    <2> PICK pc \in {"restart", "write"} : pc = IF d \in conf THEN "restart" ELSE "write"
      OBVIOUS
    <2> PICK s : s = [script[a] EXCEPT !.pc = pc, !.read = conf]
      OBVIOUS
    <2>1. s \in Scripts /\ s.pc = pc /\ s.db = d /\ s.read = conf
      BY <1>1, Before DEF Scripts
    <2>2. script' = [script EXCEPT ![a] = s]
      BY <1>5, Before
    <2>3. script'[a] = s
      BY <2>2, Before
    <2>4. ScriptOK(a)'
      BY <1>1, <1>2, <1>3, <2>1, <2>3 DEF ScriptOK
    <2> QED
      BY <1>1, <1>3, <2>1, <2>2, <2>4, Before, AfterCommand
  <1> QED
    BY <1>4, <1>5 DEF RegisterRead

(* pg_worker_register adds a worker whose library and database are made. *)
LEMMA RegisterWriteInv ==
    ASSUME InstallInv, OneAtATime, NEW a \in Admin, NEW d \in DB, RegisterWrite(a, d)
    PROVE  InstallInv'
  <1>1. /\ At(a, "write") /\ ~At(a, "none") /\ script[a].db = d /\ Goto(a, "restart")
        /\ conf' = script[a].read \cup {d}
        /\ UNCHANGED <<database, role, failed, library, loaded, up>>
    BY DEF RegisterWrite, At
  <1>2. Made(d) /\ d \in library \cup failed /\ script[a].read = conf
    BY <1>1, Before DEF ScriptOK, At
  <1>3. conf' = conf \cup {d} /\ conf' \subseteq DB
    BY <1>1, <1>2, Before
  <1>4. ServerCanRestart' /\ \A e \in conf' \cup loaded' : Made(e)'
    BY <1>1, <1>2, <1>3, Before DEF ServerCanRestart, Made
  <1> QED
    BY <1>1, <1>3, <1>4, Before, GoInv

(* winstall.sh gives up: the role may go, nothing else. *)
LEMMA UndoInv ==
    ASSUME InstallInv, OneAtATime, NEW a \in Admin, NEW d \in DB, Undo(a, d)
    PROVE  InstallInv'
  <1>1. /\ ~At(a, "none") /\ End(a)
        /\ UNCHANGED <<database, failed, library, conf, loaded, up>>
    BY DEF Undo, Files, At
  <1>2. role' \subseteq DB
    BY Before DEF Undo
  <1>3. ServerCanRestart' /\ \A e \in conf' \cup loaded' : Made(e)'
    BY <1>1, Before DEF ServerCanRestart, Made
  <1> QED
    BY <1>1, <1>2, <1>3, Before, EndInv

(* The restarted server loads what the file says. *)
LEMMA RestartInv ==
    ASSUME InstallInv, OneAtATime, NEW a \in Admin, NEW d \in DB, RestartAndSayDone(a, d)
    PROVE  InstallInv'
  <1>1. /\ ~At(a, "none") /\ End(a) /\ Restarted
        /\ UNCHANGED <<database, role, failed, library, conf>>
    BY DEF RestartAndSayDone, At
  <1>2. up' \in BOOLEAN /\ loaded' \subseteq conf /\ loaded' \subseteq DB
    BY <1>1, Before DEF Restarted
  <1>3. ServerCanRestart' /\ \A e \in conf' \cup loaded' : Made(e)'
    BY <1>1, <1>2, Before DEF ServerCanRestart, Made
  <1> QED
    BY <1>1, <1>2, <1>3, Before, EndInv

-----------------------------------------------------------------------------
(* wremove.sh *)

(* pg_worker_unregister reads what the file says now. *)
LEMMA UnregisterReadInv ==
    ASSUME InstallInv, OneAtATime, NEW a \in Admin, NEW d \in DB, UnregisterRead(a, d)
    PROVE  InstallInv'
  <1>1. /\ ~At(a, "none") /\ UNCHANGED <<database, role, failed, library, conf, loaded, up>>
    BY DEF UnregisterRead, Files, At
  <1>2. ServerCanRestart' /\ \A e \in conf' \cup loaded' : Made(e)'
    BY <1>1, Before DEF ServerCanRestart, Made
  <1>3. CASE End(a)
    BY <1>1, <1>2, <1>3, Before, EndInv
  <1>4. CASE script' = [script EXCEPT ![a] = [pc |-> "unwrite", db |-> d, read |-> conf]]
    <2> PICK s : s = [pc |-> "unwrite", db |-> d, read |-> conf]
      OBVIOUS
    <2>1. s \in Scripts /\ s.pc = "unwrite" /\ s.read = conf
      BY Before DEF Scripts
    <2>2. script' = [script EXCEPT ![a] = s]
      BY <1>4
    <2>3. script'[a] = s
      BY <2>2, Before
    <2>4. ScriptOK(a)'
      BY <1>1, <2>1, <2>3 DEF ScriptOK
    <2> QED
      BY <1>1, <1>2, <2>1, <2>2, <2>4, Before, AfterCommand
  <1> QED
    BY <1>3, <1>4 DEF UnregisterRead, End

(* pg_worker_unregister takes the worker out of the file. *)
LEMMA UnregisterWriteInv ==
    ASSUME InstallInv, OneAtATime, NEW a \in Admin, NEW d \in DB, UnregisterWrite(a, d)
    PROVE  InstallInv'
  <1>1. /\ At(a, "unwrite") /\ ~At(a, "none") /\ script[a].db = d /\ Goto(a, "unlink")
        /\ conf' = script[a].read \ {d}
        /\ UNCHANGED <<database, role, failed, library, loaded, up>>
    BY DEF UnregisterWrite, At
  <1>2. script[a].read = conf
    BY <1>1, Before DEF ScriptOK, At
  <1>3. conf' = conf \ {d} /\ conf' \subseteq DB
    BY <1>1, <1>2, Before
  <1>4. ServerCanRestart' /\ \A e \in conf' \cup loaded' : Made(e)'
    BY <1>1, <1>3, Before DEF ServerCanRestart, Made
  <1> QED
    BY <1>1, <1>3, <1>4, Before, GoInv

(* The library goes once the file does not name it. *)
LEMMA RemoveLibraryInv ==
    ASSUME InstallInv, OneAtATime, NEW a \in Admin, NEW d \in DB, RemoveLibrary(a, d)
    PROVE  InstallInv'
  <1>1. /\ At(a, "unlink") /\ ~At(a, "none") /\ script[a].db = d /\ Goto(a, "unload")
        /\ library' = library \ {d}
        /\ UNCHANGED <<database, role, failed, conf, loaded, up>>
    BY DEF RemoveLibrary, At
  <1>2. d \notin conf
    BY <1>1, Before DEF ScriptOK, At
  <1>3. library' \subseteq DB
    BY <1>1, Before
  <1>4. ServerCanRestart' /\ \A e \in conf' \cup loaded' : Made(e)'
    BY <1>1, <1>2, Before DEF ServerCanRestart, Made
  <1> QED
    BY <1>1, <1>2, <1>3, <1>4, Before, GoInv

(* After this restart the worker is not loaded. *)
LEMMA RestartWithoutInv ==
    ASSUME InstallInv, OneAtATime, NEW a \in Admin, NEW d \in DB, RestartWithout(a, d)
    PROVE  InstallInv'
  <1>1. /\ At(a, "unload") /\ ~At(a, "none") /\ script[a].db = d /\ Goto(a, "drop")
        /\ Restarted /\ UNCHANGED <<database, role, failed, library, conf>>
    BY DEF RestartWithout, At
  <1>2. d \notin conf
    BY <1>1, Before DEF ScriptOK, At
  <1>3. up' \in BOOLEAN /\ loaded' \subseteq conf /\ loaded' \subseteq DB
    BY <1>1, Before DEF Restarted
  <1>4. ServerCanRestart' /\ \A e \in conf' \cup loaded' : Made(e)'
    BY <1>1, <1>3, Before DEF ServerCanRestart, Made
  <1> QED
    BY <1>1, <1>2, <1>3, <1>4, Before, GoInv

(* The database goes once its worker does not run. *)
LEMMA DropAllInv ==
    ASSUME InstallInv, OneAtATime, NEW a \in Admin, NEW d \in DB, DropAll(a, d)
    PROVE  InstallInv'
  <1>1. /\ At(a, "drop") /\ ~At(a, "none") /\ script[a].db = d /\ End(a)
        /\ UNCHANGED <<library, conf, loaded, up>>
    BY DEF DropAll, Files, At
  <1>2. d \notin conf \cup loaded
    BY <1>1, Before DEF ScriptOK, At
  <1>3. /\ database' \in [DB -> {"absent", "empty", "partial", "full"}]
        /\ \A e \in DB \ {d} : database'[e] = database[e]
        /\ role' \subseteq DB /\ failed' \subseteq DB /\ failed \ {d} \subseteq failed'
    BY Before DEF DropAll
  <1>4. ServerCanRestart' /\ \A e \in conf' \cup loaded' : Made(e)'
    BY <1>1, <1>2, <1>3, Before DEF ServerCanRestart, Made
  <1> QED
    BY <1>1, <1>3, <1>4, Before, EndInv

-----------------------------------------------------------------------------
(* Starting and interrupting a script; the theorems *)

(* A script starts and has done nothing yet. *)
LEMMA StartInv ==
    ASSUME InstallInv, NEW a \in Admin, NEW d \in DB, NEW pc \in {"create", "unread"},
           Start(a, d, pc)
    PROVE  InstallInv'
  <1> PICK s : s = [pc |-> pc, db |-> d, read |-> {}]
    OBVIOUS
  <1>1. script' = [script EXCEPT ![a] = s] /\ s \in Scripts /\ s.pc = pc
    BY DEF Start, Scripts
  <1>2. UNCHANGED <<database, role, library, conf, loaded, up, failed>>
    BY DEF Start
  <1>3. script' \in [Admin -> Scripts] /\ script'[a] = s /\ \A b \in Admin \ {a} : script'[b] = script[b]
    BY <1>1, Before
  <1>4. \A b \in Admin : ScriptOK(b)'
    <2>1. ScriptOK(a)'
      BY <1>1, <1>3 DEF ScriptOK
    <2>2. ASSUME NEW b \in Admin, b # a PROVE ScriptOK(b)'
      BY <1>2, <1>3, <2>2 DEF InstallInv, ScriptOK, Made
    <2> QED
      BY <2>1, <2>2
  <1>5. InstallTypeOK'
    BY <1>2, <1>3, Before DEF InstallTypeOK, Scripts
  <1>6. ServerCanRestart' /\ \A e \in conf' \cup loaded' : Made(e)'
    BY <1>2, Before DEF ServerCanRestart, Made
  <1> QED
    BY <1>3, <1>4, <1>5, <1>6 DEF InstallInv

(* An interrupted script leaves everything as it is. *)
LEMMA InterruptInv ==
    ASSUME InstallInv, OneAtATime, NEW a \in Admin, Interrupt(a)
    PROVE  InstallInv'
  <1>1. ~At(a, "none") /\ End(a) /\ UNCHANGED <<database, role, library, conf, loaded, up, failed>>
    BY DEF Interrupt
  <1>2. ServerCanRestart' /\ \A e \in conf' \cup loaded' : Made(e)'
    BY <1>1, Before DEF ServerCanRestart, Made
  <1> QED
    BY <1>1, <1>2, Before, EndInv

(* Nothing is installed and no script runs. *)
LEMMA InstallInitInv == InstallInit => InstallInv
  <1> SUFFICES ASSUME InstallInit PROVE InstallInv
    OBVIOUS
  <1>1. NoScript \in Scripts /\ NoScript.pc = "none"
    BY DEF NoScript, Scripts
  <1>2. script \in [Admin -> Scripts] /\ \A a \in Admin : script[a].pc = "none"
    BY <1>1 DEF InstallInit
  <1>3. InstallTypeOK
    BY <1>2 DEF InstallInit, InstallTypeOK
  <1>4. \A a \in Admin : ScriptOK(a)
    BY <1>2 DEF ScriptOK
  <1>5. ServerCanRestart /\ \A d \in conf \cup loaded : Made(d)
    BY DEF InstallInit, ServerCanRestart
  <1> QED
    BY <1>2, <1>3, <1>4, <1>5 DEF InstallInv

(* Every step keeps the invariant while one script runs at a time. *)
LEMMA InstallNextInv == InstallInv /\ OneAtATime /\ [InstallNext]_installVars => InstallInv'
  <1> SUFFICES ASSUME InstallInv, OneAtATime, [InstallNext]_installVars PROVE InstallInv'
    OBVIOUS
  <1>1. ASSUME NEW a \in Admin, NEW d \in DB, Start(a, d, "create") \/ Start(a, d, "unread")
        PROVE  InstallInv'
    BY <1>1, StartInv
  <1>2. ASSUME NEW a \in Admin, NEW d \in DB, winstall(a, d)
        PROVE  InstallInv'
    BY <1>2, CreateDatabaseInv, CreateRoleInv, LoadSchemaInv, MakeInv, RegisterReadInv,
       RegisterWriteInv, UndoInv, RestartInv DEF winstall
  <1>3. ASSUME NEW a \in Admin, NEW d \in DB, wremove(a, d)
        PROVE  InstallInv'
    BY <1>3, UnregisterReadInv, UnregisterWriteInv, RemoveLibraryInv, RestartWithoutInv,
       DropAllInv DEF wremove
  <1>4. ASSUME NEW a \in Admin, Interrupt(a)
        PROVE  InstallInv'
    BY <1>4, InterruptInv
  <1>5. CASE UNCHANGED installVars
    <2>1. UNCHANGED <<database, role, library, conf, loaded, up, script, failed>>
      BY <1>5 DEF installVars
    <2>2. InstallTypeOK' /\ ServerCanRestart'
      BY <2>1 DEF InstallInv, InstallTypeOK, ServerCanRestart
    <2>3. \A a \in Admin : ScriptOK(a)'
      BY <2>1 DEF InstallInv, ScriptOK, Made
    <2> QED
      BY <2>1, <2>2, <2>3 DEF InstallInv, Made
  <1> QED
    BY <1>1, <1>2, <1>3, <1>4, <1>5 DEF InstallNext

(***************************************************************************)
(* The invariant of winstall.sh and wremove.sh, whichever of their         *)
(* commands fail and wherever they are interrupted.                        *)
(***************************************************************************)
THEOREM InstallSafety == InstallSpec /\ []OneAtATime => []InstallInv
  BY InstallInitInv, InstallNextInv, PTL DEF InstallSpec

(* The type invariant, for the scripts' state and the server's files. *)
THEOREM InstallTypes == InstallSpec /\ []OneAtATime => []InstallTypeOK
  <1>1. InstallInv => InstallTypeOK
    BY DEF InstallInv
  <1> QED
    BY InstallSafety, <1>1, PTL

(***************************************************************************)
(* wremove.sh takes a worker out of postgresql.conf before it removes the  *)
(* library, and winstall.sh builds the library before it registers it: no  *)
(* crash or reboot in between finds a library missing that make had built. *)
(***************************************************************************)
THEOREM RestartAlwaysPossible == InstallSpec /\ []OneAtATime => []ServerCanRestart
  <1>1. InstallInv => ServerCanRestart
    BY DEF InstallInv
  <1> QED
    BY InstallSafety, <1>1, PTL

(***************************************************************************)
(* No worker is loaded for a database that winstall.sh did not fill or     *)
(* that wremove.sh has dropped.                                            *)
(***************************************************************************)
THEOREM NoOrphanWorker == InstallSpec /\ []OneAtATime => []WorkersHaveDatabase
  <1>1. InstallInv => WorkersHaveDatabase
    BY DEF InstallInv, Made, WorkersHaveDatabase
  <1> QED
    BY InstallSafety, <1>1, PTL
=============================================================================
