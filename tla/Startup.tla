------------------------------ MODULE Startup ------------------------------
(***************************************************************************)
(* ghostd from its first line to a serving daemon: main() of               *)
(* core/daemon.py with check_integrity and get_connection of               *)
(* memory/database.py, run_migrations of memory/migrations/runner.py in    *)
(* the lifespan of core/app.py, and the socket path that safe_socket_path  *)
(* hands to the clients through a pointer file.                            *)
(*                                                                         *)
(* A script commits statement by statement (executescript) and its row in  *)
(* schema_version is a write of its own: a process may die between any two *)
(* of them.  DaemonLifecycle has the steps of the single-instance guard and *)
(* of the cleanup apart; here each is one step.  What SIGTERM does there it *)
(* does here: a served daemon goes through its lifespan's shutdown and      *)
(* never reaches the finally of main().                                     *)
(***************************************************************************)
EXTENDS Naturals, Sequences

CONSTANTS
  Starts,      \* bound: ghostd processes, started in this order
  Statements,  \* Statements[v]: statements in the script of migration v
  Optional,    \* migrations skipped on "no such module"
  MaxFaults    \* bound: crashes, early stops, damaged files, failing checks and
               \* statements, reused PIDs

Proc == 1..Starts
Version == DOMAIN Statements
Statement == {vs \in Version \X (Nat \ {0}) : vs[2] <= Statements[vs[1]]}

\* 001_initial and 002_vectors: the optional migration is the last one.  It
\* has to be: the runner compares versions with MAX(version).
ASSUME StartupAssumption ==
  /\ Starts \in Nat /\ MaxFaults \in Nat
  /\ Statements \in Seq(Nat \ {0})
  /\ Optional \subseteq Version
  /\ \A v \in Optional, u \in Version : u <= v

Last == Len(Statements) + 1   \* past the last file
Absent == 0
File == Proc \cup {Absent}   \* a database file is named by who created it

VARIABLES
  pc,        \* where each process is
  conn,      \* conn[p]: the file its connection has open
  todo,      \* todo[p]: versions above MAX(version) when p looked
  at, stmt,  \* the migration p is at, and the next statement of its script
  long,      \* long[p]: its configuration has, or had, a socket path above the
             \* OS limit
  vec,       \* external; vec[p]: its SQLite knows the module vec0
  path,      \* the file at ghost.db
  damaged,   \* files integrity_check does not accept
  objects,   \* objects[f]: statements whose table, index or trigger exists
  versions,  \* versions[f]: rows of schema_version
  owner,     \* the PID in ghost.pid
  pointer,   \* ~/.ghost/socket_path exists
  sockets,   \* socket files: "configured", "fallback"
  faults

vars == <<pc, conn, todo, at, stmt, long, vec, path, damaged, objects,
          versions, owner, pointer, sockets, faults>>
disk == <<path, damaged, objects, versions>>
socket == <<pointer, sockets>>
setup == <<long, vec>>
locals == <<conn, todo, at, stmt>>

Ended == {"refused", "failed", "stopped", "crashed"}
Starting == {"check", "guard", "resolve", "connect", "version", "migrate", "record"}
Alive(p) == p \in Proc /\ pc[p] \in Starting \cup {"serve"}
PastGuard(p) == Alive(p) /\ pc[p] \notin {"check", "guard"}

Typed ==
  /\ pc \in [Proc -> {"off", "serve"} \cup Starting \cup Ended]
  /\ conn \in [Proc -> File]
  /\ todo \in [Proc -> SUBSET Version]
  /\ at \in [Proc -> Version \cup {Last}] /\ stmt \in [Proc -> Nat \ {0}]
  /\ long \in [Proc -> BOOLEAN] /\ vec \in [Proc -> BOOLEAN]
  /\ path \in File /\ damaged \subseteq Proc
  /\ objects \in [Proc -> SUBSET Statement]
  /\ versions \in [Proc -> SUBSET Version]
  /\ owner \in File /\ pointer \in BOOLEAN
  /\ sockets \subseteq {"configured", "fallback"}
  /\ faults \in 0..MaxFaults

\* ... and whoever is past the guard has its PID in the file, so it is alone.
TypeOK == Typed /\ \A p \in Proc : PastGuard(p) => owner = p

Init ==
  /\ pc = [p \in Proc |-> "off"] /\ conn = [p \in Proc |-> Absent]
  /\ todo = [p \in Proc |-> {}]
  /\ at = [p \in Proc |-> 1] /\ stmt = [p \in Proc |-> 1]
  /\ long = [p \in Proc |-> FALSE] /\ vec = [p \in Proc |-> FALSE]
  /\ path = Absent /\ damaged = {}
  /\ objects = [p \in Proc |-> {}] /\ versions = [p \in Proc |-> {}]
  /\ owner = Absent /\ pointer = FALSE /\ sockets = {}
  /\ faults = 0

Goto(p, point) == pc' = [pc EXCEPT ![p] = point]
\* What the process had in memory is gone with it.
Ends(p, how) ==
  /\ Goto(p, how)
  /\ conn' = [conn EXCEPT ![p] = Absent] /\ todo' = [todo EXCEPT ![p] = {}]
  /\ at' = [at EXCEPT ![p] = 1] /\ stmt' = [stmt EXCEPT ![p] = 1]
  /\ vec' = [vec EXCEPT ![p] = FALSE] /\ UNCHANGED long

Fault == faults < MaxFaults /\ faults' = faults + 1

-----------------------------------------------------------------------------
(* main(), up to uvicorn.                                                  *)

\* load_config(); the user types `ghost start` or ghostd at any time, and may
\* have edited config.toml since the last time.
Launch(p) ==
  /\ pc[p] = "off" /\ \A q \in 1..(p - 1) : pc[q] # "off"
  /\ Goto(p, "check")
  /\ \E b \in BOOLEAN : long' = [long EXCEPT ![p] = b]
  /\ UNCHANGED <<locals, vec, disk, owner, socket, faults>>

\* check_integrity: a damaged file is renamed, and main() goes on.
CheckIntegrity(p) ==
  /\ pc[p] = "check"
  /\ path' = IF path \in damaged THEN Absent ELSE path
  /\ Goto(p, "guard")
  /\ UNCHANGED <<locals, setup, damaged, objects, versions,
                 owner, socket, faults>>

\* The check raises, whatever the file is like and whoever uses it: the file
\* is renamed all the same, unless that raises too.
CheckRaises(p) ==
  /\ pc[p] = "check" /\ path # Absent
  /\ Fault
  /\ path' \in {path, Absent}
  /\ Goto(p, "guard")
  /\ UNCHANGED <<locals, setup, damaged, objects, versions,
                 owner, socket>>

\* Mutant: the PID is never written.
GuardUnclaimed(p) ==
  /\ pc[p] = "guard"
  /\ IF Alive(owner)
       THEN Ends(p, "refused")
       ELSE Goto(p, "resolve") /\ UNCHANGED <<locals, setup>>
  /\ UNCHANGED <<owner, sockets, disk, pointer, faults>>

\* ensure_single_instance: sys.exit(1), or the PID file and the configured
\* socket of a dead daemon are replaced.
Guard(p) ==
  /\ pc[p] = "guard"
  /\ IF Alive(owner)
       THEN Ends(p, "refused") /\ UNCHANGED <<owner, sockets>>
       ELSE /\ Goto(p, "resolve")
            /\ owner' = p
            /\ sockets' = IF long[p] THEN sockets ELSE sockets \ {"configured"}
            /\ UNCHANGED <<locals, setup>>
  /\ UNCHANGED <<disk, pointer, faults>>

\* Another process of the user has got the PID of the dead daemon.
GuardMistaken(p) ==
  /\ pc[p] = "guard" /\ owner # Absent /\ ~Alive(owner)
  /\ Fault
  /\ Ends(p, "refused")
  /\ UNCHANGED <<disk, owner, socket>>

\* Mutant: the fallback is used and nobody is told.
ResolveSilently(p) ==
  /\ pc[p] = "resolve"
  /\ Goto(p, "connect")
  /\ UNCHANGED <<locals, setup, disk, owner, socket, faults>>

\* safe_socket_path: a path that is too long is replaced by one in /tmp, and
\* the pointer file is written.  Nothing ever removes it.
ResolveSocket(p) ==
  /\ pc[p] = "resolve"
  /\ pointer' = (pointer \/ long[p])
  /\ Goto(p, "connect")
  /\ UNCHANGED <<locals, setup, disk, owner, sockets, faults>>

Bound(p) == IF long[p] THEN "fallback" ELSE "configured"

-----------------------------------------------------------------------------
(* The lifespan: get_connection, run_migrations, bind.                     *)

\* Opening a file that is not there creates it; the extension is loaded if the
\* SQLite at hand can.
Connect(p) ==
  /\ pc[p] = "connect"
  /\ path' = IF path = Absent THEN p ELSE path
  /\ conn' = [conn EXCEPT ![p] = path']
  /\ \E b \in BOOLEAN : vec' = [vec EXCEPT ![p] = b]
  /\ Goto(p, "version")
  /\ UNCHANGED <<todo, at, stmt, long, damaged, objects, versions, owner,
                 socket, faults>>

\* Mutant: a database that has tables counts as migrated.
ReadTables(p) ==
  /\ pc[p] = "version"
  /\ todo' = [todo EXCEPT ![p] = {v \in Version : \A vs \in objects[conn[p]] : vs[1] # v}]
  /\ at' = [at EXCEPT ![p] = 1] /\ stmt' = [stmt EXCEPT ![p] = 1]
  /\ Goto(p, "migrate")
  /\ UNCHANGED <<conn, setup, disk, owner, socket, faults>>

\* CREATE TABLE IF NOT EXISTS schema_version, then SELECT MAX(version).
ReadVersion(p) ==
  /\ pc[p] = "version"
  /\ todo' = [todo EXCEPT ![p] = {v \in Version : \A u \in versions[conn[p]] : u < v}]
  /\ at' = [at EXCEPT ![p] = 1] /\ stmt' = [stmt EXCEPT ![p] = 1]
  /\ Goto(p, "migrate")
  /\ UNCHANGED <<conn, setup, disk, owner, socket, faults>>

\* "no such module": the statement of an optional migration cannot run, unless
\* its table is there already.
Unsupported(p) ==
  at[p] \in Optional /\ ~vec[p] /\ <<at[p], stmt[p]>> \notin objects[conn[p]]

NextFile(p) ==
  /\ at' = [at EXCEPT ![p] = @ + 1] /\ stmt' = [stmt EXCEPT ![p] = 1]

\* Mutant: the skipped script is recorded as applied.
PassOverRecorded(p) ==
  /\ pc[p] = "migrate" /\ at[p] \in Version
  /\ at[p] \notin todo[p] \/ Unsupported(p)
  /\ versions' = [versions EXCEPT ![conn[p]] = @ \cup {at[p]}]
  /\ NextFile(p)
  /\ UNCHANGED <<pc, conn, todo, setup, path, damaged, objects, owner, socket,
                 faults>>

\* A version that is not above the current one is passed over; so is a script
\* that fails for its module, without a row in schema_version.
PassOver(p) ==
  /\ pc[p] = "migrate" /\ at[p] \in Version
  /\ at[p] \notin todo[p] \/ Unsupported(p)
  /\ NextFile(p)
  /\ UNCHANGED <<pc, conn, todo, setup, disk, owner, socket, faults>>

\* Mutant: CREATE TABLE without IF NOT EXISTS.
RunStatementOnce(p) ==
  /\ pc[p] = "migrate" /\ at[p] \in todo[p] /\ ~Unsupported(p)
  /\ <<at[p], stmt[p]>> \notin objects[conn[p]]
  /\ objects' = [objects EXCEPT ![conn[p]] = @ \cup {<<at[p], stmt[p]>>}]
  /\ IF stmt[p] = Statements[at[p]]
       THEN Goto(p, "record") /\ UNCHANGED stmt
       ELSE stmt' = [stmt EXCEPT ![p] = @ + 1] /\ UNCHANGED pc
  /\ UNCHANGED <<conn, todo, at, setup, path, damaged, versions, owner,
                 socket, faults>>

\* One statement of execute_script; all are IF NOT EXISTS.
RunStatement(p) ==
  /\ pc[p] = "migrate" /\ at[p] \in todo[p] /\ ~Unsupported(p)
  /\ objects' = [objects EXCEPT ![conn[p]] = @ \cup {<<at[p], stmt[p]>>}]
  /\ IF stmt[p] = Statements[at[p]]
       THEN Goto(p, "record") /\ UNCHANGED stmt
       ELSE stmt' = [stmt EXCEPT ![p] = @ + 1] /\ UNCHANGED pc
  /\ UNCHANGED <<conn, todo, at, setup, path, damaged, versions, owner,
                 socket, faults>>

\* INSERT INTO schema_version.
RecordVersion(p) ==
  /\ pc[p] = "record"
  /\ versions' = [versions EXCEPT ![conn[p]] = @ \cup {at[p]}]
  /\ NextFile(p)
  /\ Goto(p, "migrate")
  /\ UNCHANGED <<conn, todo, setup, path, damaged, objects, owner, socket, faults>>

\* No file is left: the services are built and uvicorn binds the socket.
Serve(p) ==
  /\ pc[p] = "migrate" /\ at[p] = Last
  /\ sockets' = sockets \cup {Bound(p)}
  /\ Goto(p, "serve")
  /\ UNCHANGED <<locals, setup, disk, owner, pointer, faults>>

-----------------------------------------------------------------------------
(* The end of a process, and what happens around it.                       *)

\* A statement or the connection fails: the lifespan raises, uvicorn exits and
\* the finally block of main() runs.
StartFails(p) ==
  /\ pc[p] \in {"connect", "version", "migrate", "record"}
  /\ Fault
  /\ owner' = Absent /\ sockets' = sockets \ {Bound(p)}
  /\ Ends(p, "failed")
  /\ UNCHANGED <<disk, pointer>>

\* SIGTERM: the shutdown half of the lifespan unlinks the PID file and the
\* configured path, then the signal ends the process.  The fallback socket
\* stays, except where asyncio removes it (Python 3.13 on).
Stop(p) ==
  /\ pc[p] = "serve"
  /\ owner' = Absent
  /\ sockets' = sockets \ {Bound(p)} \/ (long[p] /\ sockets' = sockets)
  /\ Ends(p, "stopped")
  /\ UNCHANGED <<disk, pointer, faults>>

\* SIGTERM before that: it ends the process at once, or, in the lifespan, when
\* the socket is bound; nothing is cleaned up.
StopEarly(p) ==
  /\ \/ pc[p] \in {"check", "guard", "resolve"} /\ UNCHANGED sockets
     \/ pc[p] = "migrate" /\ at[p] = Last /\ sockets' = sockets \cup {Bound(p)}
  /\ Fault
  /\ Ends(p, "stopped")
  /\ UNCHANGED <<disk, owner, pointer>>

Crash(p) ==
  /\ Alive(p) /\ Fault
  /\ Ends(p, "crashed")
  /\ UNCHANGED <<disk, owner, socket>>

Damage ==
  /\ path # Absent /\ Fault
  /\ damaged' = damaged \cup {path}
  /\ UNCHANGED <<pc, locals, setup, path, objects, versions,
                 owner, socket>>

Step(p) ==
  \/ CheckIntegrity(p) \/ CheckRaises(p) \/ Guard(p) \/ GuardMistaken(p) \/ ResolveSocket(p)
  \/ Connect(p) \/ ReadVersion(p) \/ PassOver(p) \/ RunStatement(p)
  \/ RecordVersion(p) \/ Serve(p) \/ StartFails(p)

Next ==
  \/ \E p \in Proc : Launch(p) \/ Step(p) \/ Stop(p) \/ StopEarly(p) \/ Crash(p)
  \/ Damage

\* The operating system runs a process that was started.
Spec == Init /\ [][Next]_vars /\ \A p \in Proc : WF_vars(Step(p))

-----------------------------------------------------------------------------
(* Properties                                                              *)

Complete(f, v) == \A s \in 1..Statements[v] : <<v, s>> \in objects[f]

\* runner.py:52-58: a version that is recorded was applied to its last
\* statement, however often starts died or failed half-way.
RecordedIsComplete ==
  \A f \in Proc : \A v \in versions[f] : Complete(f, v)

\* app.py:49-52, runner.py:44-69: a daemon that serves has every migration in
\* the database it has open, the optional one too if its SQLite has the
\* module: skipping it once does not skip it for good.
ServesMigrated ==
  \A p \in Proc : pc[p] = "serve" =>
    \A v \in Version :
      v \in versions[conn[p]] \/ (v \in Optional /\ ~vec[p])

\* daemon.py:101-128, runner.py:16-69: a start ends in a serving daemon, and it
\* is given up only because another process lives or by a stop, a crash or a
\* failure of that very moment (a PID that was reused counts): what earlier
\* starts left half-done, damaged or behind never blocks it.
StartsUnlessFaulted ==
  /\ \A p \in Proc : pc[p] = "check" ~> pc[p] \in {"serve"} \cup Ended
  /\ [][\A p \in Proc :
         pc[p] \in Starting /\ pc'[p] \in Ended =>
           faults' > faults \/ \E q \in Proc \ {p} : Alive(q)]_vars

\* GhostClient._resolve_socket, in a command with the daemon's configuration.
ClientPath == IF pointer /\ "fallback" \in sockets THEN "fallback" ELSE "configured"

\* daemon.py:26-53, client.py:26-39: a command that loads the configuration the
\* daemon was started with reaches its socket, unless the path was shortened
\* after a daemon with a long one was stopped or died: its fallback socket and
\* the pointer may be there still, and lead the clients astray.
ClientFindsDaemon ==
  \A p \in Proc : pc[p] = "serve" =>
    \/ ClientPath = Bound(p) /\ Bound(p) \in sockets
    \/ ~long[p] /\ \E q \in Proc : long[q] /\ pc[q] \in {"crashed", "stopped"}
=============================================================================
