----------------------- MODULE DaemonLifecycleProofs ------------------------
(***************************************************************************)
(* Proofs about DaemonLifecycle, for any number of processes, crashes and  *)
(* reused PIDs.  Typing, and that only a live process blocks a start, hold *)
(* for every use; that there is one instance and that the files lead to    *)
(* it, for one patient user (PatientUse), whether or not the time limits   *)
(* run out.  The argument: of two live daemons the second one still has to *)
(* check, and will find the PID of the first, or the first one has removed *)
(* that and has only the socket left to unlink (First).                    *)
(***************************************************************************)
EXTENDS DaemonLifecycle, FiniteSetTheorems, TLAPS

PatientUse == Patient /\ \A u, v \in Users : u = v

\* Whose PID the file holds has written it.
Checking(d) == pc[d] \in {"check", "unstale", "look", "unsock", "claim"}
Up(d) == pc[d] \in {"claimed", "starting", "serving", "closing", "cleanpid", "finalpid"}
Leaving(d) == pc[d] \in {"cleansock", "finalsock"}
PidWritten == pidFile \in Daemons => pc[pidFile] # "unborn" /\ ~Checking(pidFile)

BInv == TypeOK /\ PidWritten

\* Daemon e was launched while d was up, and d was first to claim the files.
First(d, e) == e \notin alone /\ ((pc[e] = "check" /\ Up(d)) \/ Leaving(d))

OneOwner ==
  \A d, e \in Daemons : d # e /\ Alive(d) /\ Alive(e) => First(d, e) \/ First(e, d)

\* The files are those of the daemon that is up, unless a command removed them
\* from one that it told to stop, with no other one there to see it.
Files ==
  \A d \in Daemons :
    /\ Up(d) /\ (d \notin term \/ \E e \in Daemons \ {d} : Alive(e)) => pidFile = d
    /\ pc[d] = "serving" /\ d \notin term /\ d \in alone => sock = d
    /\ pc[d] = "unborn" => d \notin alone /\ d \notin term

\* A command begins with one daemon at most; while a stop is under way, it
\* was told.
Commanded ==
  \A u \in Users :
    /\ cmd[u].at \notin {"idle", "starting"} =>
         \A d, e \in Daemons : Alive(d) /\ Alive(e) => d = e
    /\ cmd[u].at \in {"stopping", "force", "clean", "cleansock"} =>
         \A d \in Daemons : Alive(d) => d \in term

IInv == BInv /\ OneOwner /\ Files /\ Commanded

-----------------------------------------------------------------------------
(* Any use                                                                 *)

(* A process starts with nobody's files.                                   *)
LEMMA InitBInv == Init => BInv
BY DaemonAssumption DEF DaemonAssumption, Init, BInv, TypeOK, PidWritten, Steps, Commands

(* No step of a daemon writes the PID of another one, and every variable   *)
(* keeps its type.                                                         *)
LEMMA LiveBInv ==
  ASSUME BInv, NEW d \in Daemons, Live(d)
  PROVE  BInv'
<1> USE DaemonAssumption DEF DaemonAssumption, BInv, TypeOK, PidWritten, Checking,
        Goto, Steps, system, users, files
<1>1. CASE Check(d)
  BY <1>1 DEF Check
<1>2. CASE UnlinkStalePid(d) \/ LookForSocket(d) \/ UnlinkStaleSocket(d)
  BY <1>2 DEF UnlinkStalePid, LookForSocket, UnlinkStaleSocket
<1>3. CASE WritePid(d)
  BY <1>3 DEF WritePid
<1>4. CASE Launch(d) \/ KilledUnguarded(d)
  BY <1>4 DEF Launch, KilledUnguarded
<1>5. CASE Bind(d) \/ StartFails(d)
  BY <1>5 DEF Bind, StartFails
<1>6. CASE Terminate(d) \/ Close(d)
  BY <1>6 DEF Terminate, Close
<1>7. CASE LifespanUnlinkPid(d) \/ LifespanUnlinkSocket(d)
  BY <1>7 DEF LifespanUnlinkPid, LifespanUnlinkSocket
<1>8. CASE MainUnlinkPid(d) \/ MainUnlinkSocket(d)
  BY <1>8 DEF MainUnlinkPid, MainUnlinkSocket
<1> QED BY <1>1, <1>2, <1>3, <1>4, <1>5, <1>6, <1>7, <1>8 DEF Live

(* Neither do streams, crashes, signals and other processes, nor commands. *)
LEMMA NextBInv == BInv /\ [Next]_vars => BInv'
<1> SUFFICES ASSUME BInv, [Next]_vars PROVE BInv'
  OBVIOUS
<1> USE DaemonAssumption DEF DaemonAssumption, BInv, TypeOK, PidWritten, Checking,
        system, users, files
<1>1. ASSUME NEW d \in Daemons, Live(d) PROVE BInv'
  BY <1>1, LiveBInv
<1>2. ASSUME NEW d \in Daemons, Meet(d) PROVE BInv'
  <2>1. CASE OpenStream(d) \/ EndStreams(d)
    BY <2>1 DEF OpenStream, EndStreams
  <2>2. CASE Crash(d) \/ Signal(d)
    BY <2>2 DEF Crash, Signal, Steps
  <2>3. CASE PidReused(d) \/ PidFreed(d)
    BY <2>3 DEF PidReused, PidFreed
  <2> QED BY <1>2, <2>1, <2>2, <2>3 DEF Meet
<1>3. ASSUME NEW u \in Users, Use(u) PROVE BInv'
  <2> USE DEF At, Step, EndStop, Commands
  <2>1. CASE Command(u)
    <3>1. PICK at \in {"start", "stop"}, restart \in BOOLEAN :
            cmd' = [cmd EXCEPT ![u] = [at |-> at, restart |-> restart]]
      BY <2>1 DEF Command
    <3>2. cmd' \in [Users -> [at : Commands, restart : BOOLEAN]]
      BY <3>1
    <3>3. UNCHANGED <<pc, term, streams, files, system, refused, alone>>
      BY <2>1 DEF Command
    <3> QED BY <3>2, <3>3
  <2>2. CASE StopCmd(u)
    <3>1. CASE Running
      <4>1. sock \in Daemons
        BY <3>1 DEF Running
      <4>2. /\ cmd' = [cmd EXCEPT ![u].at = "stopping"] /\ term' = term \cup {sock}
            /\ UNCHANGED <<pc, streams, files, system, refused, alone>>
        BY <2>2, <3>1 DEF StopCmd
      <4> QED BY <1>3, <4>1, <4>2
    <3>2. CASE ~Running
      BY <1>3, <2>2, <3>2 DEF StopCmd
    <3> QED BY <3>1, <3>2
  <2>3. CASE StopSeen(u) \/ StopTimeout(u)
    BY <1>3, <2>3 DEF StopSeen, StopTimeout
  <2>4. CASE StopForce(u)
    BY <1>3, <2>4 DEF StopForce
  <2>5. CASE StopUnlinkPid(u) \/ StopUnlinkSocket(u)
    BY <1>3, <2>5 DEF StopUnlinkPid, StopUnlinkSocket
  <2>6. CASE StartCmd(u)
    <3>1. CASE Running
      BY <1>3, <2>6, <3>1 DEF StartCmd
    <3>2. CASE ~Running
      <4>1. PICK d \in Daemons :
              /\ pc[d] = "unborn" /\ pc' = [pc EXCEPT ![d] = "check"]
              /\ alone' \in {alone, alone \cup {d}}
        BY <2>6, <3>2 DEF StartCmd
      <4>2. pc' \in [Daemons -> Steps] /\ alone' \subseteq Daemons
        BY <4>1 DEF Steps
      <4>3. /\ cmd' = [cmd EXCEPT ![u].at = "starting"]
            /\ UNCHANGED <<term, streams, files, system, refused>>
        BY <2>6, <3>2 DEF StartCmd
      <4> QED BY <1>3, <4>1, <4>2, <4>3
    <3> QED BY <3>1, <3>2
  <2>7. CASE StartEnds(u) \/ CommandAborts(u)
    BY <1>3, <2>7 DEF StartEnds, CommandAborts
  <2> QED BY <1>3, <2>1, <2>2, <2>3, <2>4, <2>5, <2>6, <2>7 DEF Use
<1>4. CASE UNCHANGED vars
  BY <1>4 DEF vars
<1> QED BY <1>1, <1>2, <1>3, <1>4 DEF Next

(* Every variable keeps its type.                                          *)
THEOREM TypeCorrect == Spec => []TypeOK
<1>1. BInv => TypeOK
  BY DEF BInv
<1> QED BY <1>1, InitBInv, NextBInv, PTL DEF Spec

(* daemon.py:66-78: a start is refused only for a process that lives, a    *)
(* daemon or one of the same user that got the PID of a dead daemon; files *)
(* left behind are not enough.                                             *)
THEOREM OnlyLiveRefuse == Spec => RefusedOnlyForLive
<1> DEFINE Refusal ==
      \A d \in refused' \ refused : \E e \in Daemons \ {d} : Alive(e) \/ holder[e] = "user"
<1>1. ASSUME BInv, [Next]_vars PROVE Refusal
  <2>1. CASE UNCHANGED refused
    BY <2>1
  <2>2. ASSUME NEW d \in Daemons, Check(d) PROVE Refusal
    <3>1. pc[d] = "check"
      BY <2>2 DEF Check, Goto
    <3>2. refused' # refused => refused' = refused \cup {d} /\ Signalled(pidFile)
      BY <2>2 DEF Check
    <3>3. pidFile # d
      BY <1>1, <3>1 DEF BInv, PidWritten, Checking
    <3> QED BY <3>2, <3>3 DEF Signalled
  <2>3. ASSUME NEW d \in Daemons, Live(d), ~Check(d) PROVE UNCHANGED refused
    BY <2>3 DEF Live, UnlinkStalePid, LookForSocket, UnlinkStaleSocket, WritePid, Launch,
       KilledUnguarded, Bind, StartFails, Terminate, Close, LifespanUnlinkPid,
       LifespanUnlinkSocket, MainUnlinkPid, MainUnlinkSocket
  <2>4. ASSUME NEW d \in Daemons, Meet(d) PROVE UNCHANGED refused
    BY <2>4 DEF Meet, OpenStream, EndStreams, Crash, Signal, PidReused, PidFreed
  <2>5. ASSUME NEW u \in Users, Use(u) PROVE UNCHANGED refused
    BY <2>5 DEF Use, Step, EndStop, Command, StopCmd, StopSeen, StopTimeout, StopForce,
       StopUnlinkPid, StopUnlinkSocket, StartCmd, StartEnds, CommandAborts
  <2> QED BY <1>1, <2>1, <2>2, <2>3, <2>4, <2>5 DEF Next, vars
<1>2. BInv /\ [Next]_vars => [Refusal]_vars
  BY <1>1
<1> QED BY <1>2, InitBInv, NextBInv, PTL DEF Spec, RefusedOnlyForLive

-----------------------------------------------------------------------------
(* Patient use                                                             *)

(* A process that ends, or a step that changes no daemon and no file,      *)
(* disturbs nothing.                                                       *)
LEMMA EndKeeps ==
  ASSUME IInv, NEW d \in Daemons,
         pc' = [pc EXCEPT ![d] = "dead"] \/ UNCHANGED pc,
         UNCHANGED <<term, alone, cmd, files>>
  PROVE  OneOwner' /\ Files' /\ Commanded'
<1> USE DEF IInv, BInv, TypeOK, Alive, Up, Checking, files
<1>1. OneOwner'
  BY DEF OneOwner, First, Leaving
<1>2. Files'
  BY DEF Files
<1>3. Commanded'
  BY DEF Commanded
<1> QED BY <1>1, <1>2, <1>3

(* The steps before the PID is written: whoever takes them finds the PID   *)
(* of the other one, or that one has only the socket to unlink.            *)
LEMMA CheckKeeps ==
  ASSUME IInv, NEW d \in Daemons,
         \/ Check(d) \/ UnlinkStalePid(d) \/ LookForSocket(d) \/ UnlinkStaleSocket(d)
         \/ WritePid(d) \/ Launch(d)
  PROVE  OneOwner' /\ Files' /\ Commanded'
<1> USE DaemonAssumption DEF DaemonAssumption, IInv, BInv, TypeOK, Goto, users
<1>1. PICK to \in {"dead", "unstale", "look", "unsock", "claim", "claimed", "starting"} :
        pc' = [pc EXCEPT ![d] = to] /\ UNCHANGED <<term, cmd, alone>>
  BY DEF Check, UnlinkStalePid, LookForSocket, UnlinkStaleSocket, WritePid, Launch
<1>2. /\ Checking(d) \/ pc[d] = "claimed"
      /\ pc[d] = "claimed" <=> to = "starting"
      /\ to = "claimed" => pidFile' = d
      /\ to = "starting" => UNCHANGED <<pidFile, sock>>
  BY <1>1 DEF Check, UnlinkStalePid, LookForSocket, UnlinkStaleSocket, WritePid, Launch,
     Checking, files
<1>3. pc[d] = "check" => UNCHANGED <<pidFile, sock>> /\ (to # "dead" => ~Signalled(pidFile))
  <2>1. pc[d] = "check" => Check(d)
    BY DEF UnlinkStalePid, LookForSocket, UnlinkStaleSocket, WritePid, Launch
  <2> QED BY <1>1, <2>1 DEF Check, Signalled, files
<1>4. Commanded'
  BY <1>1, <1>2 DEF Commanded, Alive, Checking
<1>5. ASSUME to \notin {"dead", "starting"}
      PROVE  \A e \in Daemons \ {d} : Alive(e) => Leaving(e) /\ d \notin alone
  <2>1. \A e \in Daemons \ {d} : Alive(e) /\ Up(e) => pc[d] = "check"
    BY <1>2, <1>5 DEF OneOwner, First, Leaving, Up, Checking, Alive
  <2>2. \A e \in Daemons \ {d} : Alive(e) => ~Up(e)
    BY <1>3, <1>5, <2>1 DEF OneOwner, Files, Signalled, Alive, Up
  <2> QED BY <1>2, <1>5, <2>2 DEF OneOwner, First, Leaving, Alive, Up, Checking
<1>6. CASE to = "dead"
  <2>1. OneOwner'
    BY <1>1, <1>6 DEF OneOwner, First, Leaving, Alive, Up
  <2>2. pidFile' = pidFile /\ (sock' = sock \/ sock = NoDaemon)
    BY <1>1, <1>6 DEF Check, UnlinkStalePid, LookForSocket, UnlinkStaleSocket, WritePid, Launch, files
  <2>3. Files'
    BY <1>1, <1>6, <2>2 DEF Files, Up, Alive
  <2> QED BY <1>4, <2>1, <2>3
<1>7. CASE to = "starting"
  <2>1. OneOwner' /\ Files'
    BY <1>1, <1>2, <1>7 DEF OneOwner, First, Leaving, Files, Alive, Up, Checking
  <2> QED BY <1>4, <2>1
<1>8. CASE to \notin {"dead", "starting"}
  <2>1. OneOwner'
    BY <1>1, <1>2, <1>5, <1>8 DEF OneOwner, First, Leaving, Alive, Checking
  <2>2. ASSUME NEW e \in Daemons, Up(e)' PROVE e = d /\ pidFile' = d
    BY <1>1, <1>2, <1>5, <1>8, <2>2 DEF Alive, Up, Checking, Leaving
  <2>3. Files'
    BY <1>1, <1>8, <2>2 DEF Files, Up
  <2> QED BY <1>4, <2>1, <2>3
<1> QED BY <1>6, <1>7, <1>8

(* Binding, failing to start and being told to stop.                       *)
LEMMA ServeKeeps ==
  ASSUME IInv, NEW d \in Daemons, Bind(d) \/ StartFails(d) \/ Terminate(d) \/ Close(d)
  PROVE  OneOwner' /\ Files' /\ Commanded'
<1> USE DaemonAssumption DEF DaemonAssumption, IInv, BInv, TypeOK, Goto, users, files
<1>1. PICK to \in {"dead", "serving", "finalpid", "closing", "cleanpid"} :
        /\ pc' = [pc EXCEPT ![d] = to] /\ UNCHANGED <<term, cmd, alone, pidFile>>
        /\ pc[d] \in {"starting", "serving", "closing"}
        /\ to \in {"serving", "finalpid"} => pc[d] = "starting"
        /\ to = "serving" => sock' = d
  BY DEF Bind, StartFails, Terminate, Close
<1>2. OneOwner'
  BY <1>1 DEF OneOwner, First, Leaving, Alive, Up
<1>3. Commanded'
  BY <1>1 DEF Commanded, Alive
<1>4. ASSUME NEW e \in Daemons \ {d}, pc[e] = "serving", e \notin term, e \in alone
      PROVE  sock' = sock
  BY <1>1, <1>4 DEF OneOwner, First, Leaving, Alive, Up
<1>5. Files'
  BY <1>1, <1>4 DEF Files, Up, Alive
<1> QED BY <1>2, <1>3, <1>5

(* The files a daemon removes are its own, or nobody else is up: only the  *)
(* socket of one launched beside it may go.                                *)
LEMMA CleanKeeps ==
  ASSUME IInv, NEW d \in Daemons,
         \/ LifespanUnlinkPid(d) \/ LifespanUnlinkSocket(d)
         \/ MainUnlinkPid(d) \/ MainUnlinkSocket(d)
  PROVE  OneOwner' /\ Files' /\ Commanded'
<1> USE DaemonAssumption DEF DaemonAssumption, IInv, BInv, TypeOK, Goto, users, files
<1>1. PICK to \in {"cleansock", "finalsock", "dead"} :
        /\ pc' = [pc EXCEPT ![d] = to] /\ UNCHANGED <<term, cmd, alone>>
        /\ to = "cleansock" => pc[d] = "cleanpid" /\ sock' = sock
        /\ to = "finalsock" => pc[d] = "finalpid" /\ sock' = sock
        /\ to = "dead" => pc[d] \in {"cleansock", "finalsock"} /\ pidFile' = pidFile
  BY DEF LifespanUnlinkPid, LifespanUnlinkSocket, MainUnlinkPid, MainUnlinkSocket
<1>2. OneOwner'
  BY <1>1 DEF OneOwner, First, Leaving, Alive, Up
<1>3. Commanded'
  BY <1>1 DEF Commanded, Alive
<1>4. ASSUME NEW e \in Daemons \ {d}, Up(e)
      PROVE  pidFile' = pidFile /\ (e \in alone => sock' = sock)
  BY <1>1, <1>4 DEF OneOwner, First, Leaving, Alive, Up
<1>5. Files'
  BY <1>1, <1>4 DEF Files, Up, Alive
<1> QED BY <1>2, <1>3, <1>5

(* Clients, events, crashes, signals and other processes.                  *)
LEMMA MeetKeeps ==
  ASSUME IInv, NEW d \in Daemons, Meet(d) \/ KilledUnguarded(d)
  PROVE  OneOwner' /\ Files' /\ Commanded'
<1>1. CASE OpenStream(d) \/ EndStreams(d) \/ PidReused(d) \/ PidFreed(d) \/ KilledUnguarded(d)
  <2>1. /\ pc' = [pc EXCEPT ![d] = "dead"] \/ UNCHANGED pc
        /\ UNCHANGED <<term, alone, cmd, files>>
    BY <1>1 DEF OpenStream, EndStreams, PidReused, PidFreed, KilledUnguarded, users, files
  <2> QED BY <2>1, EndKeeps
<1>2. CASE Crash(d)
  <2> USE DEF IInv, BInv, TypeOK, users
  <2>1. /\ pc' = [pc EXCEPT ![d] = "dead"] /\ UNCHANGED <<term, alone, cmd, sock>>
        /\ Alive(d) /\ (pidFile' = pidFile \/ pc[d] = "claim")
    BY <1>2 DEF Crash
  <2>2. OneOwner'
    BY <2>1 DEF OneOwner, First, Leaving, Alive, Up
  <2>3. Commanded'
    BY <2>1 DEF Commanded, Alive
  <2>4. pidFile' # pidFile => \A e \in Daemons \ {d} : ~Up(e)
    BY <2>1 DEF OneOwner, First, Leaving, Alive, Up
  <2>5. Files'
    BY <2>1, <2>4 DEF Files, Up, Checking
  <2> QED BY <2>2, <2>3, <2>5
<1>3. CASE Signal(d)
  <2> USE DEF IInv, BInv, TypeOK, users, files
  <2>1. /\ term' = term \cup {d} /\ Alive(d)
        /\ UNCHANGED <<pc, alone, cmd, pidFile, sock>>
    BY <1>3 DEF Signal
  <2>2. OneOwner'
    BY <2>1 DEF OneOwner, First, Leaving, Alive, Up
  <2>3. Commanded'
    BY <2>1 DEF Commanded, Alive
  <2>4. Files'
    BY <2>1 DEF Files, Up, Alive
  <2> QED BY <2>2, <2>3, <2>4
<1> QED BY <1>1, <1>2, <1>3 DEF Meet

(* A command launches or stops a daemon only after the last one settled.   *)
LEMMA UseKeeps ==
  ASSUME PatientUse, IInv, NEW u \in Users, Use(u)
  PROVE  OneOwner' /\ Files' /\ Commanded'
<1> USE DaemonAssumption DEF DaemonAssumption, IInv, BInv, TypeOK, PatientUse, files
<1>1. \A v \in Users : v = u
  OBVIOUS
<1>2. ASSUME UNCHANGED <<pc, term, pidFile, sock, alone>> PROVE OneOwner' /\ Files'
  BY <1>2 DEF OneOwner, First, Leaving, Files, Alive, Up, Checking
<1>3. Settled => \A d, e \in Daemons : Alive(d) /\ Alive(e) => d = e
  BY DEF Settled, OneOwner, First, Leaving, Alive
<1>4. CASE Command(u)
  <2>1. Settled /\ UNCHANGED <<pc, term, pidFile, sock, alone>> /\ cmd'[u].at \in {"start", "stop"}
    BY <1>4 DEF Command
  <2>2. Commanded'
    BY <1>1, <1>3, <2>1 DEF Commanded, Alive
  <2> QED BY <1>2, <2>1, <2>2
<1>5. CASE StopCmd(u)
  <2>1. \A d, e \in Daemons : Alive(d) /\ Alive(e) => d = e
    BY <1>5 DEF StopCmd, At, Commanded
  <2>2. CASE ~Running
    <3>1. UNCHANGED <<pc, term, pidFile, sock, alone>> /\ cmd'[u].at \in {"start", "idle"}
      BY <1>5, <2>2 DEF StopCmd, Step, EndStop
    <3>2. Commanded'
      BY <1>1, <2>1, <3>1 DEF Commanded, Alive
    <3> QED BY <1>2, <3>1, <3>2
  <2>3. CASE Running
    <3>1. /\ UNCHANGED <<pc, pidFile, sock, alone>> /\ term' = term \cup {sock}
          /\ cmd'[u].at = "stopping" /\ sock \in Daemons /\ pc[sock] = "serving"
      BY <1>5, <2>3 DEF StopCmd, Step, Running
    <3>2. \A d \in Daemons : Alive(d) => d = sock
      BY <2>1, <3>1 DEF Alive
    <3>3. OneOwner' /\ Files'
      BY <3>1, <3>2 DEF OneOwner, Files, Alive, Up, Checking
    <3>4. Commanded'
      BY <1>1, <3>1, <3>2 DEF Commanded, Alive
    <3> QED BY <3>3, <3>4
  <2> QED BY <2>2, <2>3
<1>6. CASE StopSeen(u) \/ StopTimeout(u)
  <2>1. /\ UNCHANGED <<pc, term, pidFile, sock, alone>> /\ cmd[u].at = "stopping"
        /\ cmd'[u].at \in {"start", "idle", "force"}
    BY <1>6 DEF StopSeen, StopTimeout, At, Step, EndStop
  <2>2. Commanded'
    BY <1>1, <2>1 DEF Commanded, Alive
  <2> QED BY <1>2, <2>1, <2>2
<1>7. CASE StopForce(u) \/ StopUnlinkPid(u) \/ StopUnlinkSocket(u)
  <2>1. /\ UNCHANGED <<pc, alone>> /\ cmd[u].at \in {"force", "clean", "cleansock"}
        /\ cmd'[u].at \in {"clean", "cleansock", "start", "idle"} /\ term \subseteq term'
        /\ \A d \in term' \ term : d = pidFile
    BY <1>7 DEF StopForce, StopUnlinkPid, StopUnlinkSocket, At, Step, EndStop
  <2>2. /\ \A d \in Daemons : Alive(d) => d \in term
        /\ \A d, e \in Daemons : Alive(d) /\ Alive(e) => d = e
    BY <2>1 DEF Commanded
  <2>3. OneOwner'
    BY <2>1, <2>2 DEF OneOwner, Alive
  <2>4. Files'
    <3>1. \A d \in Daemons : pc[d] = "unborn" \/ Checking(d) => d # pidFile
      BY DEF PidWritten
    <3> QED BY <2>1, <2>2, <3>1 DEF Files, Alive, Up, Checking
  <2>5. Commanded'
    BY <1>1, <2>1, <2>2 DEF Commanded, Alive
  <2> QED BY <2>3, <2>4, <2>5
<1>8. CASE StartCmd(u)
  <2>1. Settled /\ UNCHANGED <<term, pidFile, sock>>
    BY <1>8 DEF StartCmd
  <2>2. CASE Running
    <3>1. UNCHANGED <<pc, alone>> /\ cmd'[u].at = "idle"
      BY <1>8, <2>2 DEF StartCmd, Step
    <3>2. Commanded'
      BY <1>1, <3>1 DEF Commanded
    <3> QED BY <1>2, <2>1, <3>1, <3>2
  <2>3. CASE ~Running
    <3>1. PICK d \in Daemons :
            /\ pc[d] = "unborn" /\ pc' = [pc EXCEPT ![d] = "check"]
            /\ alone' = IF \E e \in Daemons : Alive(e) THEN alone ELSE alone \cup {d}
      BY <1>8, <2>3 DEF StartCmd
    <3>2. cmd'[u].at = "starting"
      BY <1>8, <2>3 DEF StartCmd, Step
    <3>3. d \notin term /\ d \notin alone
      BY <3>1 DEF Files
    <3>4. OneOwner'
      BY <1>3, <2>1, <3>1, <3>3 DEF Settled, OneOwner, First, Alive, Up
    <3>5. Files'
      BY <2>1, <3>1, <3>3 DEF Settled, Files, Up, Alive
    <3>6. Commanded'
      BY <1>1, <3>2 DEF Commanded
    <3> QED BY <3>4, <3>5, <3>6
  <2> QED BY <2>2, <2>3
<1>9. CASE StartEnds(u) \/ CommandAborts(u)
  <2>1. UNCHANGED <<pc, term, pidFile, sock, alone>> /\ cmd'[u].at = "idle"
    BY <1>9 DEF StartEnds, CommandAborts, Step
  <2>2. Commanded'
    BY <1>1, <2>1 DEF Commanded
  <2> QED BY <1>2, <2>1, <2>2
<1> QED BY <1>4, <1>5, <1>6, <1>7, <1>8, <1>9 DEF Use

(* The invariant is inductive under patient use.                           *)
LEMMA PatientInvariant ==
  /\ Init => IInv
  /\ PatientUse /\ IInv /\ [Next]_vars => IInv'
<1>1. Init => IInv
  BY InitBInv DEF IInv, Init, OneOwner, Files, Commanded, Alive, Up, Checking
<1>2. ASSUME PatientUse, IInv, [Next]_vars PROVE IInv'
  <2>1. BInv'
    BY <1>2, NextBInv DEF IInv
  <2>2. ASSUME NEW d \in Daemons, Live(d) \/ Meet(d) PROVE OneOwner' /\ Files' /\ Commanded'
    BY <1>2, <2>2, CheckKeeps, ServeKeeps, CleanKeeps, MeetKeeps DEF Live
  <2>3. ASSUME NEW u \in Users, Use(u) PROVE OneOwner' /\ Files' /\ Commanded'
    BY <1>2, <2>3, UseKeeps
  <2>4. CASE UNCHANGED vars
    <3>1. OneOwner' /\ Files' /\ Commanded'
      BY <1>2, <2>4 DEF vars, IInv, OneOwner, First, Leaving, Files, Commanded, Alive, Up, Checking
    <3> QED BY <2>1, <3>1 DEF IInv
  <2> QED BY <1>2, <2>1, <2>2, <2>3, <2>4 DEF Next, IInv
<1> QED BY <1>1, <1>2

(* README.md:473: with one user who lets every process settle, no two      *)
(* daemons have the database open, whatever crashes, times out or is       *)
(* killed.                                                                 *)
THEOREM PatientUseIsSingle == PatientUse => (Spec => []SingleInstance)
<1> SUFFICES ASSUME PatientUse PROVE Spec => []SingleInstance
  OBVIOUS
<1>1. IInv => SingleInstance
  <2> SUFFICES ASSUME IInv PROVE Cardinality(Active) <= 1
    BY DEF SingleInstance
  <2>1. \A d, e \in Active : d = e
    BY DEF IInv, OneOwner, First, Leaving, Active, Alive
  <2>2. CASE Active = {}
    BY <2>2, FS_EmptySet
  <2>3. CASE Active # {}
    <3>1. PICK d \in Active : TRUE
      BY <2>3
    <3>2. Active = {d}
      BY <2>1, <3>1
    <3> QED BY <3>2, FS_Singleton
  <2> QED BY <2>2, <2>3
<1>2. Init => IInv
  BY PatientInvariant
<1>3. IInv /\ [Next]_vars => IInv'
  BY PatientInvariant
<1> QED BY <1>1, <1>2, <1>3, PTL DEF Spec

(* daemon.py:81-85, app.py:183-186: then the PID file names the daemon     *)
(* that serves, and the socket path leads to it if it was launched with no *)
(* other one alive.                                                        *)
THEOREM FilesLeadThere == PatientUse => (Spec => []FilesLeadToDaemon)
<1> SUFFICES ASSUME PatientUse PROVE Spec => []FilesLeadToDaemon
  OBVIOUS
<1>1. IInv => FilesLeadToDaemon
  BY DEF IInv, Files, Up, FilesLeadToDaemon
<1>2. Init => IInv
  BY PatientInvariant
<1>3. IInv /\ [Next]_vars => IInv'
  BY PatientInvariant
<1> QED BY <1>1, <1>2, <1>3, PTL DEF Spec

=============================================================================
