----------------------------- MODULE WedInstall -----------------------------
(***************************************************************************)
(* Installing and removing a WED-flow: winstall.sh and wremove.sh, with    *)
(* pg_worker_register.py and pg_worker_unregister.py, command by command.  *)
(* They make or drop the database, its role and its worker's library, edit *)
(* shared_preload_libraries in postgresql.conf and restart the server,     *)
(* which does not come up when a library it should preload is missing.     *)
(* psql -f ends with status 0 whatever errors the SQL in the file raised.  *)
(***************************************************************************)
EXTENDS Naturals, FiniteSets

CONSTANTS Admin,       \* people who run the scripts
          DB,          \* databases; each has a worker and a user of its own
          Faults,      \* what may go wrong: "sql", "psql", "make", "conf", "busy", "kill"
          MaxScript    \* bound: scripts started

ASSUME InstallAssumption ==
    /\ Faults \subseteq {"sql", "psql", "make", "conf", "busy", "kill"}
    /\ MaxScript \in Nat

VARIABLES database,   \* "absent", "empty", "partial" or "full" schema
          role,       \* the users that exist
          library,    \* the workers whose .so is installed
          conf,       \* shared_preload_libraries
          loaded,     \* the workers of the running server
          up,         \* the server runs
          script,     \* per administrator: the script, its database and next command
          failed,     \* history: databases whose schema or library was not made,
                      \* since they were last dropped
          scripts

installVars == <<database, role, library, conf, loaded, up, script, failed, scripts>>

(* Type invariant. *)
InstallTypeOK ==
    /\ database \in [DB -> {"absent", "empty", "partial", "full"}]
    /\ role \subseteq DB /\ library \subseteq DB /\ conf \subseteq DB /\ loaded \subseteq DB
    /\ up \in BOOLEAN /\ failed \subseteq DB
    /\ \A a \in Admin : script[a].pc \in
         {"none", "create", "role", "schema", "make", "read", "write", "undo", "restart",
          "unread", "unwrite", "unlink", "unload", "drop"}

NoScript == [pc |-> "none", db |-> "", read |-> {}]

InstallInit ==
    /\ database = [d \in DB |-> "absent"]
    /\ role = {} /\ library = {} /\ conf = {} /\ loaded = {} /\ up = TRUE
    /\ script = [a \in Admin |-> NoScript]
    /\ failed = {} /\ scripts = 0

-----------------------------------------------------------------------------
At(a, pc) == script[a].pc = pc
Goto(a, pc) == script' = [script EXCEPT ![a].pc = pc]
End(a) == script' = [script EXCEPT ![a] = NoScript]
May(fault) == fault \in Faults

Start(a, d, pc) == /\ At(a, "none") /\ scripts < MaxScript
                   /\ script' = [script EXCEPT ![a] = [pc |-> pc, db |-> d, read |-> {}]]
                   /\ scripts' = scripts + 1
                   /\ UNCHANGED <<database, role, library, conf, loaded, up, failed>>

(* A command of the script for database d that leaves the files alone. *)
Files == <<library, conf, loaded, up, scripts>>

CreateDatabase(a, d) ==
    /\ At(a, "create") /\ script[a].db = d
    /\ \/ /\ up /\ database[d] = "absent"
          /\ database' = [database EXCEPT ![d] = "empty"] /\ Goto(a, "role")
       \/ /\ ~up \/ database[d] # "absent" \/ May("psql")
          /\ End(a) /\ UNCHANGED database
    /\ UNCHANGED <<role, failed, Files>>

CreateRole(a, d) ==
    /\ At(a, "role") /\ script[a].db = d
    /\ \/ /\ up /\ d \notin role
          /\ role' = role \cup {d} /\ Goto(a, "schema") /\ UNCHANGED database
       \/ /\ ~up \/ d \in role \/ May("psql")
          /\ database' = [database EXCEPT ![d] = IF up THEN "absent" ELSE @]
          /\ End(a) /\ UNCHANGED role
    /\ UNCHANGED <<failed, Files>>

(* When psql fails the database and the role are dropped, and the script   *)
(* goes on.                                                                *)
LoadSchema(a, d) ==
    /\ At(a, "schema") /\ script[a].db = d
    /\ Goto(a, "make")
    /\ \/ /\ up /\ database[d] # "absent"
          /\ database' = [database EXCEPT ![d] = "full"] /\ UNCHANGED <<role, failed>>
       \/ /\ up /\ database[d] # "absent" /\ May("sql")
          /\ database' = [database EXCEPT ![d] = "partial"] /\ UNCHANGED role
          /\ failed' = failed \cup {d}
       \/ /\ up /\ (database[d] = "absent" \/ May("psql"))
          /\ database' = [database EXCEPT ![d] = "absent"] /\ role' = role \ {d}
          /\ failed' = failed \cup {d}
       \/ /\ ~up /\ UNCHANGED <<database, role>>
          /\ failed' = failed \cup {d}
    /\ UNCHANGED Files

Make(a, d) ==
    /\ At(a, "make") /\ script[a].db = d
    /\ Goto(a, "read")
    /\ \/ library' = library \cup {d} /\ UNCHANGED failed
       \/ May("make") /\ failed' = failed \cup {d} /\ UNCHANGED library
    /\ UNCHANGED <<database, role, conf, loaded, up, scripts>>

(* pg_worker_register: the file is read, and written from what was read; a *)
(* worker that is there already is fine, a file without the parameter not. *)
RegisterRead(a, d) ==
    /\ At(a, "read") /\ script[a].db = d
    /\ \/ script' = [script EXCEPT ![a].pc = IF d \in conf THEN "restart" ELSE "write",
                                   ![a].read = conf]
       \/ May("conf") /\ Goto(a, "undo")
    /\ UNCHANGED <<database, role, failed, Files>>

RegisterWrite(a, d) ==
    /\ At(a, "write") /\ script[a].db = d
    /\ conf' = script[a].read \cup {d} /\ Goto(a, "restart")
    /\ UNCHANGED <<database, role, library, loaded, up, failed, scripts>>

(* DROP DATABASE is sent from a session in that very database, and fails. *)
Undo(a, d) == /\ At(a, "undo") /\ script[a].db = d
              /\ role' = IF up /\ database[d] # "absent" THEN role \ {d} ELSE role
              /\ End(a)
              /\ UNCHANGED <<database, failed, Files>>

(* systemctl restart postgresql. *)
Restarted == /\ up' = (conf \subseteq library)
             /\ loaded' = IF conf \subseteq library THEN conf ELSE {}

RestartAndSayDone(a, d) ==
    /\ At(a, "restart") /\ script[a].db = d
    /\ Restarted
    /\ End(a)
    /\ UNCHANGED <<database, role, library, conf, failed, scripts>>

-----------------------------------------------------------------------------
(* wremove.sh; nothing is done when the worker is not registered.          *)

UnregisterRead(a, d) ==
    /\ At(a, "unread") /\ script[a].db = d
    /\ script' = [script EXCEPT ![a] = IF d \in conf
                                       THEN [pc |-> "unwrite", db |-> d, read |-> conf]
                                       ELSE NoScript]
    /\ UNCHANGED <<database, role, failed, Files>>

(* Mutant: the library goes first. *)
UnregisterLate(a, d) ==
    /\ At(a, "unwrite") /\ script[a].db = d
    /\ library' = library \ {d} /\ Goto(a, "unlink")
    /\ UNCHANGED <<database, role, conf, loaded, up, failed, scripts>>

UnregisterWrite(a, d) ==
    /\ At(a, "unwrite") /\ script[a].db = d
    /\ conf' = script[a].read \ {d} /\ Goto(a, "unlink")
    /\ UNCHANGED <<database, role, library, loaded, up, failed, scripts>>

RemoveLibrary(a, d) ==
    /\ At(a, "unlink") /\ script[a].db = d
    /\ library' = library \ {d} /\ Goto(a, "unload")
    /\ UNCHANGED <<database, role, conf, loaded, up, failed, scripts>>

(* Mutant: the server keeps running with what it has. *)
NoRestart(a, d) ==
    /\ At(a, "unload") /\ script[a].db = d
    /\ Goto(a, "drop")
    /\ UNCHANGED <<database, role, library, conf, loaded, up, failed, scripts>>

RestartWithout(a, d) ==
    /\ At(a, "unload") /\ script[a].db = d
    /\ Restarted /\ Goto(a, "drop")
    /\ UNCHANGED <<database, role, library, conf, failed, scripts>>

(* DROP OWNED, DROP DATABASE and DROP ROLE in one file; a database that    *)
(* somebody is connected to stays, and so does the role that may connect.  *)
DropAll(a, d) ==
    /\ At(a, "drop") /\ script[a].db = d
    /\ \/ /\ up
          /\ database' = [database EXCEPT ![d] = "absent"] /\ role' = role \ {d}
          /\ failed' = failed \ {d}
       \/ /\ ~up \/ May("busy")
          /\ UNCHANGED <<database, role, failed>>
    /\ End(a)
    /\ UNCHANGED Files

(* The script is interrupted. *)
Interrupt(a) == /\ May("kill") /\ ~At(a, "none") /\ End(a)
                /\ UNCHANGED <<database, role, library, conf, loaded, up, failed, scripts>>

winstall(a, d) == \/ CreateDatabase(a, d) \/ CreateRole(a, d) \/ LoadSchema(a, d) \/ Make(a, d)
                  \/ RegisterRead(a, d) \/ RegisterWrite(a, d) \/ Undo(a, d)
                  \/ RestartAndSayDone(a, d)

wremove(a, d) == \/ UnregisterRead(a, d) \/ UnregisterWrite(a, d) \/ RemoveLibrary(a, d)
                 \/ RestartWithout(a, d) \/ DropAll(a, d)

InstallNext ==
    \E a \in Admin :
       \/ \E d \in DB : \/ Start(a, d, "create") \/ Start(a, d, "unread")
                        \/ winstall(a, d) \/ wremove(a, d)
       \/ Interrupt(a)

InstallSpec == InstallInit /\ [][InstallNext]_installVars

-----------------------------------------------------------------------------
(* The server can be restarted at any moment, also after a script was      *)
(* interrupted: it finds every library it is told to preload.  The         *)
(* exception is a library that make did not build, since winstall.sh goes  *)
(* on to register it.                                                      *)
ServerCanRestart == conf \subseteq library \cup failed

(* A worker runs only for a database that exists and has its tables, so    *)
(* that it can connect and call job_inspector; unless psql failed, which   *)
(* does not stop winstall.sh either.                                       *)
WorkersHaveDatabase == \A d \in loaded \ failed : database[d] = "full"

=============================================================================
