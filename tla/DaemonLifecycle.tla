-------------------------- MODULE DaemonLifecycle ---------------------------
(***************************************************************************)
(* Starting and stopping ghostd: core/daemon.py and the ends of the        *)
(* lifespan in core/app.py on one side, `ghost start|stop|restart` of      *)
(* cli/commands/start.py on the other.  They share ghost.pid and the       *)
(* socket path, which any of them reads, writes and unlinks at any time.   *)
(*                                                                         *)
(* A daemon stands for its PID.  When it is dead the system may give the   *)
(* PID to another process, of the same user or of another one.  The socket *)
(* path belongs to whoever bound it last; a client that connects reaches   *)
(* that daemon while it is serving.                                        *)
(*                                                                         *)
(* uvicorn (>= 0.30) takes SIGTERM from its start until serve() ends and   *)
(* then raises it again with the default action: a daemon stopped by the   *)
(* signal dies after its lifespan's shutdown and never reaches the finally *)
(* of main().  Ctrl-C in a terminal is left out: the commands detach the   *)
(* daemon and send SIGTERM.                                                *)
(***************************************************************************)
EXTENDS Naturals, FiniteSets

CONSTANTS
  Daemons,      \* every ghostd process a behaviour launches
  Users,        \* terminals running ghost commands
  NoDaemon,     \* no such file
  Garbage,      \* a PID file that holds no number
  Patient,      \* TRUE: commands wait until every ghostd process has settled
  Slow,         \* TRUE: a command's wait (5 s to start, 3 s to stop) may run out
  MaxCrashes,   \* bound: kill -9, and SIGTERM from elsewhere
  MaxReused     \* bound: PIDs of dead daemons that other processes have

ASSUME DaemonAssumption ==
  /\ NoDaemon \notin Daemons /\ Garbage \notin Daemons /\ Garbage # NoDaemon
  /\ Patient \in BOOLEAN /\ Slow \in BOOLEAN
  /\ MaxCrashes \in Nat /\ MaxReused \in Nat

VARIABLES
  pc,         \* where each daemon is
  term,       \* daemons that were asked to stop
  streams,    \* daemons in which an /api/events handler waits for an event
  pidFile,    \* content of ~/.ghost/ghost.pid
  sock,       \* who bound the socket path last
  holder,     \* who has the PID of a dead daemon
  cmd,        \* the command each user is running
  refused,    \* history: daemons that found another one running
  alone,      \* history: daemons launched while no other one lived
  crashes

vars == <<pc, term, streams, pidFile, sock, holder, cmd, refused, alone, crashes>>
files == <<pidFile, sock>>
system == <<holder, crashes>>
users == <<cmd, alone>>

Steps == {"unborn", "check", "unstale", "look", "unsock", "claim", "claimed", "starting",
          "serving", "closing", "cleanpid", "cleansock", "finalpid", "finalsock", "dead"}
Commands == {"idle", "stop", "stopping", "force", "clean", "cleansock", "start", "starting"}

TypeOK ==
  /\ pc \in [Daemons -> Steps]
  /\ term \subseteq Daemons /\ streams \subseteq Daemons
  /\ pidFile \in Daemons \cup {NoDaemon, Garbage}
  /\ sock \in Daemons \cup {NoDaemon}
  /\ holder \in [Daemons -> {"nobody", "user", "other"}]
  /\ cmd \in [Users -> [at : Commands, restart : BOOLEAN]]
  /\ refused \subseteq Daemons /\ alone \subseteq Daemons
  /\ crashes \in 0..MaxCrashes

Init ==
  /\ pc = [d \in Daemons |-> "unborn"]
  /\ term = {} /\ streams = {} /\ refused = {} /\ alone = {}
  /\ pidFile = NoDaemon /\ sock = NoDaemon
  /\ holder = [d \in Daemons |-> "nobody"]
  /\ cmd = [u \in Users |-> [at |-> "idle", restart |-> FALSE]]
  /\ crashes = 0

\* On the way to uvicorn.run.
Unguarded == {"check", "unstale", "look", "unsock", "claim", "claimed"}

Alive(d) == pc[d] \notin {"unborn", "dead"}
\* GhostClient.is_daemon_running
Running == sock # NoDaemon /\ pc[sock] = "serving"

\* Every process has claimed the PID file or ended, and none was asked to stop.
Settled ==
  \A d \in Daemons :
    Alive(d) => pc[d] \in {"claimed", "starting", "serving"} /\ d \notin term

-----------------------------------------------------------------------------
(* ensure_single_instance reads, unlinks and writes in separate steps.     *)

\* Daemon d goes on; its step says what becomes of the files and of `refused`.
Goto(d, from, to) ==
  /\ pc[d] = from /\ pc' = [pc EXCEPT ![d] = to]
  /\ UNCHANGED <<term, streams, system, users>>

\* os.kill(pid, 0) succeeds: a process of this user has the PID, ghostd or not.
Signalled(p) == p \in Daemons /\ (Alive(p) \/ holder[p] = "user")

\* Mutant: a PID of another user's process counts as a running daemon
\* (PermissionError not caught as stale).
CheckDenied(d) ==
  /\ \/ /\ pidFile = NoDaemon
        /\ Goto(d, "check", "look") /\ UNCHANGED refused
     \/ /\ Signalled(pidFile) \/ (pidFile \in Daemons /\ holder[pidFile] = "other")
        /\ Goto(d, "check", "dead") /\ refused' = refused \cup {d}
     \/ /\ pidFile # NoDaemon /\ ~Signalled(pidFile)
        /\ pidFile \in Daemons => holder[pidFile] # "other"
        /\ Goto(d, "check", "unstale") /\ UNCHANGED refused
  /\ UNCHANGED files

\* Mutant: the socket file is cleaned before the PID file is examined.
CheckCleansFirst(d) ==
  /\ sock' = NoDaemon
  /\ IF Signalled(pidFile)
       THEN Goto(d, "check", "dead") /\ refused' = refused \cup {d}
       ELSE Goto(d, "check", "unstale") /\ UNCHANGED refused
  /\ UNCHANGED pidFile

\* A PID of nobody, of another user's process (PermissionError) and a file
\* without a number (ValueError) are stale.
Check(d) ==
  /\ \/ /\ pidFile = NoDaemon
        /\ Goto(d, "check", "look") /\ UNCHANGED refused
     \/ /\ Signalled(pidFile)
        /\ Goto(d, "check", "dead") /\ refused' = refused \cup {d}
     \/ /\ pidFile # NoDaemon /\ ~Signalled(pidFile)
        /\ Goto(d, "check", "unstale") /\ UNCHANGED refused
  /\ UNCHANGED files

UnlinkStalePid(d) ==
  /\ Goto(d, "unstale", "look")
  /\ pidFile' = NoDaemon
  /\ UNCHANGED <<sock, refused>>

\* sock_file.exists()
LookForSocket(d) ==
  /\ Goto(d, "look", IF sock = NoDaemon THEN "claim" ELSE "unsock")
  /\ UNCHANGED <<files, refused>>

\* sock_file.unlink() raises when the file went in between: ghostd dies of it.
UnlinkStaleSocket(d) ==
  /\ Goto(d, "unsock", IF sock = NoDaemon THEN "dead" ELSE "claim")
  /\ sock' = NoDaemon
  /\ UNCHANGED <<pidFile, refused>>

\* Mutant: the PID is never written.
ClaimNothing(d) ==
  Goto(d, "claim", "claimed") /\ UNCHANGED <<files, refused>>

WritePid(d) ==
  /\ Goto(d, "claim", "claimed")
  /\ pidFile' = d
  /\ UNCHANGED <<sock, refused>>

-----------------------------------------------------------------------------
(* uvicorn.run: the lifespan starts, the socket is bound, and SIGTERM      *)
(* leads through the lifespan's clean-up to the signal's default action.   *)

\* uvicorn's signal handlers are in place.
Launch(d) ==
  /\ Goto(d, "claimed", "starting")
  /\ UNCHANGED <<files, refused>>

\* SIGTERM where uvicorn does not hold it: the process ends on the spot.
KilledUnguarded(d) ==
  /\ d \in term /\ pc[d] \in Unguarded \cup {"finalpid", "finalsock"}
  /\ pc' = [pc EXCEPT ![d] = "dead"]
  /\ UNCHANGED <<term, streams, files, system, users, refused>>

\* Binding replaces a socket file that is already there.  When the signal came
\* during start-up, serve() ends here, without the lifespan's shutdown.
Bind(d) ==
  /\ Goto(d, "starting", IF d \in term THEN "dead" ELSE "serving")
  /\ sock' = d
  /\ UNCHANGED <<pidFile, refused>>

\* The lifespan or the bind raises: the finally of main() runs, unless a signal
\* is raised again first.
StartFails(d) ==
  /\ Goto(d, "starting", IF d \in term THEN "dead" ELSE "finalpid")
  /\ UNCHANGED <<files, refused>>

\* GET /api/events: the handler subscribes and waits for an event.
OpenStream(d) ==
  /\ pc[d] = "serving"
  /\ streams' = streams \cup {d}
  /\ UNCHANGED <<pc, term, files, system, users, refused>>

\* Only the next event ends the handlers whose clients are gone.
EndStreams(d) ==
  /\ pc[d] \in {"serving", "closing"}
  /\ d \in streams /\ streams' = streams \ {d}
  /\ UNCHANGED <<pc, term, files, system, users, refused>>

\* Mutant: only the daemon the PID file names obeys.
TerminateOwner(d) ==
  /\ d \in term /\ pidFile = d
  /\ Goto(d, "serving", "closing")
  /\ UNCHANGED <<files, refused>>

\* The server stops accepting; asyncio removes its socket file from Python 3.13 on.
Terminate(d) ==
  /\ d \in term
  /\ Goto(d, "serving", "closing")
  /\ sock' = sock \/ (sock = d /\ sock' = NoDaemon)
  /\ UNCHANGED <<pidFile, refused>>

\* Every request and stream handler has ended; tasks and bus drain, the writer
\* stops, the database closes.
Close(d) ==
  /\ Goto(d, "closing", "cleanpid")
  /\ d \notin streams
  /\ UNCHANGED <<files, refused>>

LifespanUnlinkPid(d) ==
  /\ Goto(d, "cleanpid", "cleansock")
  /\ pidFile' = NoDaemon
  /\ UNCHANGED <<sock, refused>>

\* ... and the signal is raised again.
LifespanUnlinkSocket(d) ==
  /\ Goto(d, "cleansock", "dead")
  /\ sock' = NoDaemon
  /\ UNCHANGED <<pidFile, refused>>

MainUnlinkPid(d) ==
  /\ Goto(d, "finalpid", "finalsock")
  /\ pidFile' = NoDaemon
  /\ UNCHANGED <<sock, refused>>

MainUnlinkSocket(d) ==
  /\ Goto(d, "finalsock", "dead")
  /\ sock' = NoDaemon
  /\ UNCHANGED <<pidFile, refused>>

\* kill -9, a power cut or an exception outside the try: both files stay.  In
\* the middle of write_text the PID file is left empty.
Crash(d) ==
  /\ crashes < MaxCrashes /\ Alive(d)
  /\ crashes' = crashes + 1
  /\ pc' = [pc EXCEPT ![d] = "dead"] /\ streams' = streams \ {d}
  /\ pidFile' = pidFile \/ (pc[d] = "claim" /\ pidFile' = Garbage)
  /\ UNCHANGED <<term, sock, holder, users, refused>>

\* SIGTERM from elsewhere: kill, or the system going down.
Signal(d) ==
  /\ crashes < MaxCrashes /\ Alive(d)
  /\ crashes' = crashes + 1
  /\ term' = term \cup {d}
  /\ UNCHANGED <<pc, streams, files, holder, users, refused>>

\* The system gives the PID of a dead daemon to another process, and that ends.
PidReused(d) ==
  /\ pc[d] = "dead" /\ holder[d] = "nobody"
  /\ Cardinality({e \in Daemons : holder[e] # "nobody"}) < MaxReused
  /\ \E who \in {"user", "other"} : holder' = [holder EXCEPT ![d] = who]
  /\ UNCHANGED <<pc, term, streams, files, users, refused, crashes>>

PidFreed(d) ==
  /\ holder[d] # "nobody"
  /\ holder' = [holder EXCEPT ![d] = "nobody"]
  /\ UNCHANGED <<pc, term, streams, files, users, refused, crashes>>

-----------------------------------------------------------------------------
(* The commands.  Their polls are bounded (5 s to start, 3 s to stop), so  *)
(* each wait ends by seeing what it waits for or by giving up.             *)

At(u, step) == cmd[u].at = step
Step(u, to) ==
  cmd' = [cmd EXCEPT ![u].at = to] /\ UNCHANGED <<streams, system, refused>>
EndStop(u) == Step(u, IF cmd[u].restart THEN "start" ELSE "idle")

Command(u) ==
  /\ At(u, "idle")
  /\ Patient => Settled
  /\ cmd' \in {[cmd EXCEPT ![u] = [at |-> "start", restart |-> FALSE]],
               [cmd EXCEPT ![u] = [at |-> "stop", restart |-> FALSE]],
               [cmd EXCEPT ![u] = [at |-> "stop", restart |-> TRUE]]}
  /\ UNCHANGED <<pc, term, streams, files, system, refused, alone>>

StopCmd(u) ==
  /\ At(u, "stop")
  /\ IF Running THEN Step(u, "stopping") /\ term' = term \cup {sock}
                ELSE EndStop(u) /\ UNCHANGED term
  /\ UNCHANGED <<pc, files, alone>>

StopSeen(u) ==
  /\ At(u, "stopping") /\ ~Running
  /\ EndStop(u)
  /\ UNCHANGED <<pc, term, files, alone>>

StopTimeout(u) ==
  /\ Slow /\ At(u, "stopping") /\ Running
  /\ Step(u, "force")
  /\ UNCHANGED <<pc, term, files, alone>>

\* Mutant: no pid_file.exists().
StopForceUnchecked(u) ==
  /\ At(u, "force")
  /\ Step(u, "clean")
  /\ term' = term \cup {pidFile}
  /\ UNCHANGED <<pc, files, alone>>

\* A file without a number is passed over.
StopForce(u) ==
  /\ At(u, "force")
  /\ Step(u, "clean")
  /\ term' = IF pidFile \in Daemons THEN term \cup {pidFile} ELSE term
  /\ UNCHANGED <<pc, files, alone>>

StopUnlinkPid(u) ==
  /\ At(u, "clean")
  /\ Step(u, "cleansock")
  /\ pidFile' = NoDaemon
  /\ UNCHANGED <<pc, term, sock, alone>>

StopUnlinkSocket(u) ==
  /\ At(u, "cleansock")
  /\ EndStop(u)
  /\ sock' = NoDaemon
  /\ UNCHANGED <<pc, term, pidFile, alone>>

StartCmd(u) ==
  /\ At(u, "start")
  /\ Patient => Settled
  /\ IF Running THEN Step(u, "idle") /\ UNCHANGED <<pc, alone>>
     ELSE /\ \E d \in Daemons : pc[d] = "unborn"
          /\ LET d == CHOOSE d \in Daemons : pc[d] = "unborn"
             IN  /\ pc' = [pc EXCEPT ![d] = "check"]
                 /\ alone' = IF \E e \in Daemons : Alive(e) THEN alone ELSE alone \cup {d}
          /\ Step(u, "starting")
  /\ UNCHANGED <<term, files>>

\* Up, or "Daemon failed to start" after the last poll.
StartEnds(u) ==
  /\ At(u, "starting")
  /\ Slow \/ Running \/ \A d \in Daemons : pc[d] \notin Unguarded \cup {"starting"}
  /\ Step(u, "idle")
  /\ UNCHANGED <<pc, term, files, alone>>

\* is_daemon_running lets a read timeout of a busy daemon escape.
CommandAborts(u) ==
  /\ cmd[u].at \in {"stop", "stopping", "start", "starting"} /\ Running
  /\ Step(u, "idle")
  /\ UNCHANGED <<pc, term, files, alone>>

Live(d) ==
  \/ Check(d) \/ UnlinkStalePid(d) \/ LookForSocket(d) \/ UnlinkStaleSocket(d) \/ WritePid(d)
  \/ Launch(d) \/ KilledUnguarded(d) \/ Bind(d) \/ StartFails(d) \/ Terminate(d) \/ Close(d)
  \/ LifespanUnlinkPid(d) \/ LifespanUnlinkSocket(d) \/ MainUnlinkPid(d) \/ MainUnlinkSocket(d)

\* What nobody owes a daemon: clients, events, crashes, signals and the PIDs of
\* others.
Meet(d) ==
  OpenStream(d) \/ EndStreams(d) \/ Crash(d) \/ Signal(d) \/ PidReused(d) \/ PidFreed(d)

Use(u) ==
  \/ Command(u) \/ StopCmd(u) \/ StopSeen(u) \/ StopTimeout(u) \/ StopForce(u)
  \/ StopUnlinkPid(u) \/ StopUnlinkSocket(u) \/ StartCmd(u) \/ StartEnds(u) \/ CommandAborts(u)

Next ==
  \/ \E d \in Daemons : Live(d) \/ Meet(d)
  \/ \E u \in Users : Use(u)

\* The operating system runs every process; nobody has to type a command, to
\* publish an event or to close a stream.
Spec == Init /\ [][Next]_vars /\ \A d \in Daemons : WF_vars(Live(d))

-----------------------------------------------------------------------------
\* Processes that have the database open and a writer running.
Active == {d \in Daemons : pc[d] \in {"starting", "serving", "closing"}}

(* README.md:473 "Single instance: PID file prevents duplicate daemons".   *)
(* Under Patient use it does, whatever crashes and leaves files behind.    *)
SingleInstance == Cardinality(Active) <= 1

(* A serving daemon nobody asked to stop has its PID in the file, and when *)
(* it was launched with no other one alive the socket path leads to it, so *)
(* the next command finds it.  (One launched beside another may lose its   *)
(* socket to the finally of main() of that one, daemon.py:132.)            *)
FilesLeadToDaemon ==
  \A d \in Daemons : pc[d] = "serving" /\ d \notin term =>
    pidFile = d /\ (d \in alone => sock = d)

(* A daemon gives way only to a live process of its user, ghostd or one    *)
(* that got the PID of a dead ghostd: a leftover file whose PID is free or *)
(* another user's, or without a number, never keeps it from starting       *)
(* (daemon.py:60-61, README.md:474).                                       *)
RefusedOnlyForLive ==
  [][\A d \in refused' \ refused :
       \E e \in Daemons \ {d} : Alive(e) \/ holder[e] = "user"]_vars

(* A daemon asked to stop is gone in the end, unless the handler of an     *)
(* event stream waits for an event that never comes (events.py:34).        *)
StopEnds ==
  \A d \in Daemons :
    d \in term ~> (pc[d] = "dead" \/ [](pc[d] = "closing" /\ d \in streams))
=============================================================================
