--------------------------- MODULE StartupProofs ----------------------------
(***************************************************************************)
(* Proofs about Startup, for any number of starts, migrations, statements  *)
(* and faults.  RecordedIsComplete and ServesMigrated are not inductive:   *)
(* they need what a process knows at each point of run_migrations (Local)  *)
(* and that schema_version has no gaps, so that MAX(version) tells which   *)
(* migrations are missing.                                                 *)
(***************************************************************************)
EXTENDS Startup, TLAPS

(* What a process knows: it has a file open from "version" on; the          *)
(* statements of the script it is at, up to the next one, were executed;    *)
(* what it does not intend to run is recorded; and what is behind it is     *)
(* recorded, or could not be run.                                           *)
HasFile(p) ==
  pc[p] \in {"version", "migrate", "record", "serve"} => conn[p] \in Proc

ScriptSoFar(p) ==
  /\ pc[p] = "migrate" /\ at[p] \in Version =>
       /\ stmt[p] <= Statements[at[p]]
       /\ at[p] \in todo[p] =>
            \A s \in 1..(stmt[p] - 1) : <<at[p], s>> \in objects[conn[p]]
  /\ pc[p] = "record" => at[p] \in Version /\ Complete(conn[p], at[p])

RestIsRecorded(p) ==
  pc[p] \in {"migrate", "record"} =>
    \A v \in Version : v \notin todo[p] => v \in versions[conn[p]]

PastIsRecorded(p) ==
  /\ pc[p] \in {"migrate", "record", "serve"} =>
       \A v \in Version : v < at[p] =>
         v \in versions[conn[p]] \/ (v \in Optional /\ ~vec[p])
  /\ pc[p] = "serve" => at[p] = Last

Local(p) ==
  HasFile(p) /\ ScriptSoFar(p) /\ RestIsRecorded(p) /\ PastIsRecorded(p)

(* Migrations are recorded without gaps.                                   *)
NoGaps ==
  \A f \in Proc : \A u \in versions[f], v \in Version : v < u => v \in versions[f]

Moves(p) == Launch(p) \/ Step(p) \/ Stop(p) \/ StopEarly(p) \/ Crash(p)

IInv == Typed /\ (\A p \in Proc : Local(p)) /\ NoGaps /\ RecordedIsComplete

-----------------------------------------------------------------------------
(* Versions are numbered from one, and every script has a statement.       *)
LEMMA Numbered ==
  /\ Starts \in Nat /\ MaxFaults \in Nat
  /\ Len(Statements) \in Nat /\ Version = 1..Len(Statements)
  /\ \A v \in Version : Statements[v] \in Nat \ {0}
  /\ \A v \in Version : v \in Nat \ {0} /\ v < Last /\ v + 1 \in Version \cup {Last}
  /\ 1 \in Version \cup {Last}
  /\ \A v \in Optional, u \in Version : u <= v
<1>1. Len(Statements) \in Nat /\ Version = 1..Len(Statements)
  BY StartupAssumption DEF StartupAssumption, Version
<1>2. \A v \in Version : Statements[v] \in Nat \ {0}
  BY StartupAssumption, <1>1 DEF StartupAssumption, Version
<1>3. \A v \in Version : v \in Nat \ {0} /\ v < Last /\ v + 1 \in Version \cup {Last}
  BY <1>1 DEF Last
<1>4. 1 \in Version \cup {Last}
  BY <1>1 DEF Last
<1> QED
  BY <1>1, <1>2, <1>3, <1>4, StartupAssumption DEF StartupAssumption

(* The initial state is typed.                                             *)
LEMMA TypeInit == Init => Typed
<1>1. 1 \in Version \cup {Last} /\ 0 \in 0..MaxFaults /\ 1 \in Nat \ {0}
  BY Numbered
<1> QED
  BY <1>1 DEF Init, Typed, File

(* Every step of every process, and damage, keeps the types.               *)
LEMMA TypeStep == IInv /\ [Next]_vars => Typed'
<1> SUFFICES ASSUME IInv, [Next]_vars PROVE Typed'
  OBVIOUS
<1> USE Numbered DEF Typed, File, IInv
<1>1. ASSUME NEW p \in Proc, NEW how \in Ended, Ends(p, how)
      PROVE  /\ pc' \in [Proc -> {"off", "serve"} \cup Starting \cup Ended]
             /\ conn' \in [Proc -> File] /\ todo' \in [Proc -> SUBSET Version]
             /\ at' \in [Proc -> Version \cup {Last}] /\ stmt' \in [Proc -> Nat \ {0}]
             /\ long' \in [Proc -> BOOLEAN] /\ vec' \in [Proc -> BOOLEAN]
  BY <1>1 DEF Ends, Goto
<1>2. ASSUME Fault PROVE faults' \in 0..MaxFaults
  BY <1>2 DEF Fault
<1>3. ASSUME NEW p \in Proc, NEW point \in {"serve"} \cup Starting, Goto(p, point)
      PROVE  pc' \in [Proc -> {"off", "serve"} \cup Starting \cup Ended]
  BY <1>3 DEF Goto
<1>4. ASSUME NEW p \in Proc, NextFile(p), at[p] \in Version
      PROVE  at' \in [Proc -> Version \cup {Last}] /\ stmt' \in [Proc -> Nat \ {0}]
  BY <1>4 DEF NextFile
<1>10. ASSUME NEW p \in Proc, Launch(p) PROVE Typed'
  BY <1>10, <1>3 DEF Launch, locals, disk, socket, Starting
<1>11. ASSUME NEW p \in Proc, CheckIntegrity(p) PROVE Typed'
  BY <1>11, <1>3 DEF CheckIntegrity, locals, setup, disk, socket, Starting
<1>12. ASSUME NEW p \in Proc, CheckRaises(p) PROVE Typed'
  BY <1>12, <1>2, <1>3 DEF CheckRaises, locals, setup, disk, socket, Starting
<1>13. ASSUME NEW p \in Proc, Guard(p) PROVE Typed'
  <2>1. CASE Alive(owner)
    BY <1>13, <2>1, <1>1 DEF Guard, disk, Ended
  <2>2. CASE ~Alive(owner)
    BY <1>13, <2>2, <1>3 DEF Guard, disk, locals, setup, Starting
  <2> QED BY <2>1, <2>2
<1>5. ASSUME NEW p \in Proc, GuardMistaken(p) PROVE Typed'
  BY <1>5, <1>1, <1>2 DEF GuardMistaken, disk, socket, Ended
<1>14. ASSUME NEW p \in Proc, ResolveSocket(p) PROVE Typed'
  BY <1>14, <1>3 DEF ResolveSocket, locals, setup, disk, socket, Starting
<1>15. ASSUME NEW p \in Proc, Connect(p) PROVE Typed'
  BY <1>15, <1>3 DEF Connect, socket, Starting
<1>16. ASSUME NEW p \in Proc, ReadVersion(p) PROVE Typed'
  <2>1. todo' \in [Proc -> SUBSET Version]
    BY <1>16 DEF ReadVersion
  <2>2. at' \in [Proc -> Version \cup {Last}] /\ stmt' \in [Proc -> Nat \ {0}]
    BY <1>16 DEF ReadVersion
  <2>3. pc' \in [Proc -> {"off", "serve"} \cup Starting \cup Ended]
    BY <1>16, <1>3 DEF ReadVersion, Starting
  <2> QED BY <1>16, <2>1, <2>2, <2>3 DEF ReadVersion, setup, disk, socket
<1>17. ASSUME NEW p \in Proc, PassOver(p) PROVE Typed'
  BY <1>17, <1>4 DEF PassOver, setup, disk, socket
<1>18. ASSUME NEW p \in Proc, RunStatement(p) PROVE Typed'
  <2>1. at[p] \in Version /\ conn[p] \in Proc /\ stmt[p] <= Statements[at[p]]
    BY <1>18 DEF RunStatement, Local, HasFile, ScriptSoFar
  <2>2. <<at[p], stmt[p]>> \in Statement
    BY <2>1 DEF Statement
  <2>3. objects' \in [Proc -> SUBSET Statement]
    BY <1>18, <2>1, <2>2 DEF RunStatement
  <2>4. stmt' \in [Proc -> Nat \ {0}]
    BY <1>18 DEF RunStatement
  <2>5. pc' \in [Proc -> {"off", "serve"} \cup Starting \cup Ended]
    BY <1>18, <1>3 DEF RunStatement, Starting
  <2> QED
    BY <1>18, <2>3, <2>4, <2>5 DEF RunStatement, setup, socket
<1>19. ASSUME NEW p \in Proc, RecordVersion(p) PROVE Typed'
  <2>1. at[p] \in Version
    BY <1>19 DEF RecordVersion, Local, ScriptSoFar
  <2> QED BY <1>19, <2>1, <1>3, <1>4 DEF RecordVersion, setup, socket, Starting
<1>20. ASSUME NEW p \in Proc, Serve(p) PROVE Typed'
  BY <1>20, <1>3 DEF Serve, locals, setup, disk, Bound
<1>21. ASSUME NEW p \in Proc, StartFails(p) PROVE Typed'
  BY <1>21, <1>1, <1>2 DEF StartFails, disk, Ended
<1>22. ASSUME NEW p \in Proc, Stop(p) PROVE Typed'
  BY <1>22, <1>1 DEF Stop, disk, Ended
<1>26. ASSUME NEW p \in Proc, StopEarly(p) PROVE Typed'
  BY <1>26, <1>1, <1>2 DEF StopEarly, disk, Ended, Bound
<1>23. ASSUME NEW p \in Proc, Crash(p) PROVE Typed'
  BY <1>23, <1>1, <1>2 DEF Crash, disk, socket, Ended
<1>24. CASE Damage
  <2>1. path \in Proc
    BY <1>24 DEF Damage
  <2> QED BY <1>24, <2>1, <1>2 DEF Damage, locals, setup, socket
<1>25. CASE UNCHANGED vars
  BY <1>25 DEF vars
<1> QED
  BY <1>5, <1>26, <1>10, <1>11, <1>12, <1>13, <1>14, <1>15, <1>16, <1>17, <1>18, <1>19, <1>20,
     <1>21, <1>22, <1>23, <1>24, <1>25 DEF Next, Step
-----------------------------------------------------------------------------
(* A step of one process leaves the others where they are.                 *)
LEMMA OneMoves ==
  ASSUME Typed, NEW p \in Proc, Moves(p),
         NEW q \in Proc, q # p
  PROVE  UNCHANGED <<pc[q], conn[q], todo[q], at[q], stmt[q], vec[q]>>
<1> USE DEF Typed, Goto
<1>1. CASE Launch(p)
  BY <1>1 DEF Launch, locals
<1>2. CASE CheckIntegrity(p) \/ CheckRaises(p)
  BY <1>2 DEF CheckIntegrity, CheckRaises, locals, setup
<1>3. CASE Guard(p) \/ GuardMistaken(p)
  BY <1>3 DEF Guard, GuardMistaken, Ends, locals, setup
<1>4. CASE ResolveSocket(p) \/ Connect(p) \/ ReadVersion(p)
  BY <1>4 DEF ResolveSocket, Connect, ReadVersion, locals, setup
<1>5. CASE PassOver(p) \/ RecordVersion(p)
  BY <1>5 DEF PassOver, RecordVersion, NextFile, setup
<1>6. CASE RunStatement(p)
  BY <1>6 DEF RunStatement, setup
<1>7. CASE Serve(p)
  BY <1>7 DEF Serve, locals, setup
<1>8. CASE StartFails(p) \/ Stop(p) \/ StopEarly(p) \/ Crash(p)
  BY <1>8 DEF StartFails, Stop, StopEarly, Crash, Ends
<1> QED
  BY <1>1, <1>2, <1>3, <1>4, <1>5, <1>6, <1>7, <1>8 DEF Moves, Step

(* Nothing that was executed or recorded is undone: a damaged file is put   *)
(* aside whole.                                                             *)
LEMMA DatabasesGrow ==
  ASSUME Typed, [Next]_vars, NEW f \in Proc
  PROVE  objects[f] \subseteq objects'[f] /\ versions[f] \subseteq versions'[f]
<1>1. ASSUME NEW p \in Proc, RunStatement(p)
      PROVE  objects[f] \subseteq objects'[f] /\ versions' = versions
  BY <1>1 DEF RunStatement, Typed
<1>2. ASSUME NEW p \in Proc, RecordVersion(p)
      PROVE  versions[f] \subseteq versions'[f] /\ objects' = objects
  BY <1>2 DEF RecordVersion, Typed
<1>3. ASSUME ~(\E p \in Proc : RunStatement(p) \/ RecordVersion(p))
      PROVE  objects' = objects /\ versions' = versions
  BY <1>3 DEF Next, Step, vars, Launch, CheckIntegrity, CheckRaises, Guard, GuardMistaken, ResolveSocket,
     Connect, ReadVersion, PassOver, Serve, StartFails, Stop, StopEarly, Crash, Damage, disk
<1> QED
  BY <1>1, <1>2, <1>3

(* A process that does not move keeps what it knows.                       *)
LEMMA OthersKeep ==
  ASSUME Typed, [Next]_vars, NEW q \in Proc, Local(q),
         UNCHANGED <<pc[q], conn[q], todo[q], at[q], stmt[q], vec[q]>>
  PROVE  Local(q)'
<1>1. HasFile(q)'
  BY DEF Local, HasFile
<1>2. ScriptSoFar(q)'
  <2>1. CASE pc[q] \in {"migrate", "record"}
    <3>1. objects[conn[q]] \subseteq objects'[conn[q]]
      BY <2>1, DatabasesGrow DEF Local, HasFile
    <3> QED BY <2>1, <3>1 DEF Local, ScriptSoFar, Complete
  <2> QED BY <2>1 DEF ScriptSoFar
<1>3. RestIsRecorded(q)' /\ PastIsRecorded(q)'
  <2>1. CASE pc[q] \in {"migrate", "record", "serve"}
    <3>1. versions[conn[q]] \subseteq versions'[conn[q]]
      BY <2>1, DatabasesGrow DEF Local, HasFile
    <3> QED BY <2>1, <3>1 DEF Local, RestIsRecorded, PastIsRecorded
  <2> QED BY <2>1 DEF RestIsRecorded, PastIsRecorded
<1> QED BY <1>1, <1>2, <1>3 DEF Local

(* The process that moves knows it at its next point too.                  *)
LEMMA MoverKnows ==
  ASSUME IInv, Typed', [Next]_vars, NEW p \in Proc,
         Moves(p)
  PROVE  Local(p)'
<1> USE Numbered DEF IInv, Typed
<1>1. ASSUME pc'[p] \in {"check", "guard", "resolve", "connect"} \cup Ended PROVE Local(p)'
  BY <1>1 DEF Local, HasFile, ScriptSoFar, RestIsRecorded, PastIsRecorded, Ended
<1>2. CASE Launch(p) \/ CheckIntegrity(p) \/ CheckRaises(p) \/ Guard(p) \/ ResolveSocket(p)
  BY <1>1, <1>2 DEF Launch, CheckIntegrity, CheckRaises, Guard, ResolveSocket, Goto, Ends, Ended
<1>3. CASE GuardMistaken(p) \/ StartFails(p) \/ Stop(p) \/ StopEarly(p) \/ Crash(p)
  BY <1>1, <1>3 DEF GuardMistaken, StartFails, Stop, StopEarly, Crash, Goto, Ends, Ended
<1>4. CASE Connect(p)
  <2>1. conn'[p] \in Proc /\ pc'[p] = "version"
    BY <1>4 DEF Connect, Goto, File
  <2> QED BY <2>1 DEF Local, HasFile, ScriptSoFar, RestIsRecorded, PastIsRecorded
<1>5. CASE ReadVersion(p)
  <2>1. /\ pc[p] = "version" /\ pc'[p] = "migrate" /\ at'[p] = 1 /\ stmt'[p] = 1
        /\ todo'[p] = {v \in Version : \A u \in versions[conn[p]] : u < v}
        /\ conn'[p] = conn[p] /\ versions' = versions
    BY <1>5 DEF ReadVersion, Goto, disk
  <2>2. conn[p] \in Proc
    BY <2>1 DEF Local, HasFile
  <2>3. RestIsRecorded(p)'
    <3> SUFFICES ASSUME NEW v \in Version, v \notin todo'[p] PROVE v \in versions[conn[p]]
      BY <2>1 DEF RestIsRecorded
    <3>1. PICK u \in versions[conn[p]] : ~(u < v)
      BY <2>1
    <3>2. u \in Version
      BY <2>2, <3>1
    <3>3. u = v \/ v < u
      BY <3>1, <3>2
    <3> QED BY <2>2, <3>1, <3>3 DEF NoGaps
  <2> QED
    BY <2>1, <2>2, <2>3 DEF Local, HasFile, ScriptSoFar, PastIsRecorded
<1>6. CASE PassOver(p)
  <2>1. /\ pc[p] = "migrate" /\ pc'[p] = "migrate" /\ at[p] \in Version
        /\ at'[p] = at[p] + 1 /\ stmt'[p] = 1
        /\ UNCHANGED <<conn, todo, versions, vec>>
        /\ at[p] \notin todo[p] \/ Unsupported(p)
    BY <1>6 DEF PassOver, NextFile, disk, setup
  <2>2. \A v \in Version : v < at[p] + 1 => v < at[p] \/ v = at[p]
    BY <2>1
  <2>3. at[p] \in versions[conn[p]] \/ (at[p] \in Optional /\ ~vec[p])
    BY <2>1 DEF Local, RestIsRecorded, Unsupported
  <2>4. PastIsRecorded(p)'
    BY <2>1, <2>2, <2>3 DEF Local, PastIsRecorded
  <2> QED
    BY <2>1, <2>4 DEF Local, HasFile, ScriptSoFar, RestIsRecorded
<1>7. CASE RunStatement(p)
  <2>1. /\ pc[p] = "migrate" /\ at[p] \in todo[p] /\ at[p] \in Version /\ conn[p] \in Proc
        /\ UNCHANGED <<conn, todo, at, versions, vec>>
        /\ stmt[p] <= Statements[at[p]]
        /\ \A s \in 1..(stmt[p] - 1) : <<at[p], s>> \in objects[conn[p]]
        /\ objects'[conn[p]] = objects[conn[p]] \cup {<<at[p], stmt[p]>>}
    BY <1>7 DEF RunStatement, setup, Local, HasFile, ScriptSoFar
  <2>2. \A s \in 1..stmt[p] : <<at[p], s>> \in objects'[conn[p]]
    BY <2>1
  <2>3. CASE stmt[p] = Statements[at[p]]
    <3>1. pc'[p] = "record"
      BY <1>7, <2>3 DEF RunStatement, Goto
    <3> QED
      BY <2>1, <2>2, <2>3, <3>1 DEF Local, HasFile, ScriptSoFar, RestIsRecorded,
         PastIsRecorded, Complete
  <2>4. CASE stmt[p] # Statements[at[p]]
    <3>1. pc'[p] = "migrate" /\ stmt'[p] = stmt[p] + 1
      BY <1>7, <2>1, <2>4 DEF RunStatement
    <3>2. ScriptSoFar(p)'
      BY <2>1, <2>2, <2>4, <3>1 DEF ScriptSoFar
    <3> QED
      BY <2>1, <3>1, <3>2 DEF Local, HasFile, RestIsRecorded, PastIsRecorded
  <2> QED BY <2>3, <2>4
<1>8. CASE RecordVersion(p)
  <2>1. /\ pc[p] = "record" /\ pc'[p] = "migrate" /\ at[p] \in Version /\ conn[p] \in Proc
        /\ at'[p] = at[p] + 1 /\ stmt'[p] = 1
        /\ UNCHANGED <<conn, todo, vec>>
        /\ versions'[conn[p]] = versions[conn[p]] \cup {at[p]}
    BY <1>8 DEF RecordVersion, NextFile, Goto, setup, Local, HasFile, ScriptSoFar
  <2>2. \A v \in Version : v < at[p] + 1 => v < at[p] \/ v = at[p]
    BY <2>1
  <2>3. PastIsRecorded(p)'
    BY <2>1, <2>2 DEF Local, PastIsRecorded
  <2> QED
    BY <2>1, <2>3 DEF Local, HasFile, ScriptSoFar, RestIsRecorded
<1>9. CASE Serve(p)
  BY <1>9 DEF Serve, Goto, locals, setup, disk, Local, HasFile,
     ScriptSoFar, RestIsRecorded, PastIsRecorded
<1> QED
  BY <1>2, <1>3, <1>4, <1>5, <1>6, <1>7, <1>8, <1>9 DEF Moves, Step

(* Recording a migration leaves no gap, since the only one that may be      *)
(* missing behind it is the last; and its script is complete.               *)
LEMMA RecordsKeep ==
  ASSUME IInv, [Next]_vars
  PROVE  NoGaps' /\ RecordedIsComplete'
<1> USE Numbered DEF IInv, Typed
<1>1. ASSUME versions' = versions PROVE NoGaps' /\ RecordedIsComplete'
  BY <1>1, DatabasesGrow DEF NoGaps, RecordedIsComplete, Complete
<1>2. ASSUME NEW p \in Proc, RecordVersion(p) PROVE NoGaps' /\ RecordedIsComplete'
  <2>1. /\ at[p] \in Version /\ conn[p] \in Proc /\ objects' = objects
        /\ Complete(conn[p], at[p])
        /\ versions' = [versions EXCEPT ![conn[p]] = @ \cup {at[p]}]
    BY <1>2 DEF RecordVersion, Local, HasFile, ScriptSoFar
  <2>2. \A v \in Version : v < at[p] => v \in versions[conn[p]]
    BY <1>2, <2>1 DEF RecordVersion, Local, PastIsRecorded
  <2>3. NoGaps'
    BY <2>1, <2>2 DEF NoGaps
  <2>4. RecordedIsComplete'
    BY <2>1 DEF RecordedIsComplete, Complete
  <2> QED BY <2>3, <2>4
<1>3. ASSUME ~(\E p \in Proc : RecordVersion(p)) PROVE versions' = versions
  BY <1>3 DEF Next, Step, vars, Launch, CheckIntegrity, CheckRaises, Guard, GuardMistaken, ResolveSocket,
     Connect, ReadVersion, PassOver, RunStatement, Serve, StartFails, Stop, StopEarly, Crash, Damage, disk
<1> QED
  BY <1>1, <1>2, <1>3

-----------------------------------------------------------------------------
Safe == Init /\ [][Next]_vars

(* The invariant holds in every reachable state.                           *)
THEOREM Inductive == Safe => []IInv
<1>1. Init => IInv
  <2>1. Init => Typed
    BY TypeInit
  <2> QED
    BY <2>1 DEF Init, IInv, Local, HasFile, ScriptSoFar, RestIsRecorded, PastIsRecorded,
       NoGaps, RecordedIsComplete
<1>2. IInv /\ [Next]_vars => IInv'
  <2> SUFFICES ASSUME IInv, [Next]_vars PROVE IInv'
    OBVIOUS
  <2>1. Typed'
    BY TypeStep
  <2>2. NoGaps' /\ RecordedIsComplete'
    BY RecordsKeep
  <2>3. ASSUME NEW q \in Proc PROVE Local(q)'
    <3>1. Typed /\ Local(q)
      BY DEF IInv
    <3>2. CASE UNCHANGED <<pc[q], conn[q], todo[q], at[q], stmt[q], vec[q]>>
      BY <3>1, <3>2, OthersKeep
    <3>3. CASE Moves(q)
      BY <2>1, <3>3, MoverKnows
    <3>4. ASSUME NEW p \in Proc, p # q, Moves(p)
          PROVE  Local(q)'
      BY <3>1, <3>2, <3>4, OneMoves
    <3>5. CASE Damage \/ UNCHANGED vars
      BY <3>2, <3>5 DEF Damage, vars, locals, setup
    <3> QED BY <3>3, <3>4, <3>5 DEF Moves, Next
  <2> QED BY <2>1, <2>2, <2>3 DEF IInv
<1> QED
  BY <1>1, <1>2, PTL DEF Safe

(* A recorded migration was executed to its last statement, whenever and    *)
(* however often a start died while applying it.                            *)
THEOREM RecordedMigrationsAreComplete == Spec => []RecordedIsComplete
<1>1. Spec => Safe
  BY PTL DEF Spec, Safe
<1>2. IInv => RecordedIsComplete
  BY DEF IInv
<1> QED BY <1>1, <1>2, Inductive, PTL

(* A daemon serves a database that has every migration its SQLite can run. *)
THEOREM DaemonsServeMigrated == Spec => []ServesMigrated
<1>1. Spec => Safe
  BY PTL DEF Spec, Safe
<1>2. IInv => ServesMigrated
  BY Numbered DEF IInv, Local, PastIsRecorded, ServesMigrated
<1> QED BY <1>1, <1>2, Inductive, PTL

-----------------------------------------------------------------------------
(* How a client finds the daemon.  A process past the guard is the owner of *)
(* the PID file, so there is one; the pointer is written before the socket  *)
(* is bound; and who leaves the fallback socket behind had a long path and  *)
(* was stopped or died.                                                     *)
Owned == \A p \in Proc : PastGuard(p) => owner = p

Pointed ==
  \A p \in Proc :
    /\ PastGuard(p) /\ pc[p] # "resolve" /\ long[p] => pointer
    /\ pc[p] = "serve" => Bound(p) \in sockets

FallbackExplained ==
  "fallback" \in sockets =>
    \E p \in Proc : long[p] /\ pc[p] \in {"crashed", "stopped", "serve"}

SInv == Typed /\ Owned /\ Pointed /\ FallbackExplained

(* No step of the owner or of anybody else misleads the clients.           *)
LEMMA SocketStep ==
  ASSUME SInv, IInv, IInv', [Next]_vars
  PROVE  SInv'
<1> USE DEF SInv, Typed, IInv, Goto, PastGuard, Alive, Starting
<1>1. ASSUME NEW p \in Proc, Launch(p) PROVE SInv'
  <2>1. /\ pc[p] = "off" /\ pc' = [pc EXCEPT ![p] = "check"] /\ UNCHANGED <<owner, pointer, sockets>>
        /\ \A q \in Proc \ {p} : long'[q] = long[q]
    BY <1>1 DEF Launch, socket
  <2> QED BY <2>1 DEF Owned, Pointed, FallbackExplained, Bound
<1>2. ASSUME NEW p \in Proc, NEW next \in {"guard", "refused", "version", "migrate", "record"},
             pc' = [pc EXCEPT ![p] = next] \/ pc' = pc,
             next \in {"version", "migrate", "record"} =>
               PastGuard(p) /\ pc[p] \notin {"resolve", "serve"},
             pc[p] \notin {"serve", "crashed", "stopped"},
             UNCHANGED <<owner, pointer, sockets, long>>
      PROVE  SInv'
  BY <1>2 DEF Owned, Pointed, FallbackExplained, Bound
<1>3. ASSUME NEW p \in Proc, CheckIntegrity(p) \/ CheckRaises(p) \/ GuardMistaken(p) PROVE SInv'
  BY <1>2, <1>3 DEF CheckIntegrity, CheckRaises, GuardMistaken, socket, setup, Ends
<1>4. ASSUME NEW p \in Proc, Guard(p) PROVE SInv'
  <2>1. CASE Alive(owner)
    BY <1>2, <1>4, <2>1 DEF Guard, Ends
  <2>2. CASE ~Alive(owner)
    <3>1. \A q \in Proc : ~PastGuard(q)
      BY <2>2 DEF Owned
    <3>2. /\ pc' = [pc EXCEPT ![p] = "resolve"] /\ owner' = p /\ UNCHANGED <<pointer, long>>
          /\ sockets' \subseteq sockets /\ pc[p] = "guard"
      BY <1>4, <2>2 DEF Guard, setup
    <3>3. Owned' /\ Pointed'
      BY <3>1, <3>2 DEF Owned, Pointed
    <3>4. FallbackExplained'
      BY <3>2 DEF FallbackExplained
    <3> QED BY <3>3, <3>4
  <2> QED BY <2>1, <2>2
<1>5. ASSUME NEW p \in Proc, ResolveSocket(p) PROVE SInv'
  <2>1. /\ pc[p] = "resolve" /\ pc' = [pc EXCEPT ![p] = "connect"]
        /\ UNCHANGED <<owner, sockets, long>>
        /\ pointer' = (pointer \/ long[p])
    BY <1>5 DEF ResolveSocket, setup
  <2>2. Owned' /\ FallbackExplained'
    BY <2>1 DEF Owned, FallbackExplained
  <2>3. \A q \in Proc : PastGuard(q)' /\ pc'[q] # "resolve" /\ long[q] => pointer'
    BY <2>1 DEF Pointed
  <2> QED BY <2>1, <2>2, <2>3 DEF Pointed, Bound
<1>6. ASSUME NEW p \in Proc, Connect(p) \/ ReadVersion(p) \/ PassOver(p) PROVE SInv'
  BY <1>2, <1>6 DEF Connect, ReadVersion, PassOver, setup, socket, disk
<1>7. ASSUME NEW p \in Proc, RunStatement(p) \/ RecordVersion(p) PROVE SInv'
  BY <1>2, <1>7 DEF RunStatement, RecordVersion, setup, socket
<1>8. ASSUME NEW p \in Proc, Serve(p) PROVE SInv'
  <2>1. /\ pc[p] = "migrate" /\ pc' = [pc EXCEPT ![p] = "serve"] /\ UNCHANGED <<owner, pointer, long>>
        /\ sockets' = sockets \cup {Bound(p)}
    BY <1>8 DEF Serve, setup
  <2>2. Owned' /\ Pointed'
    BY <2>1 DEF Owned, Pointed, Bound
  <2>3. FallbackExplained'
    BY <2>1 DEF FallbackExplained, Bound
  <2> QED BY <2>2, <2>3
<1>9. ASSUME NEW p \in Proc, StartFails(p) \/ Stop(p) PROVE SInv'
  <2>1. /\ PastGuard(p) /\ sockets' \subseteq sockets /\ UNCHANGED <<pointer, long>>
        /\ \E how \in {"failed", "stopped"} :
             /\ pc' = [pc EXCEPT ![p] = how]
             /\ how = "failed" => pc[p] # "serve"
    BY <1>9 DEF StartFails, Stop, Ends
  <2>2. \A q \in Proc \ {p} : ~PastGuard(q)
    BY <2>1 DEF Owned
  <2>3. Owned' /\ Pointed'
    <3>1. \A q \in Proc : ~PastGuard(q)'
      BY <2>1, <2>2
    <3> QED BY <3>1 DEF Owned, Pointed
  <2>4. FallbackExplained'
    BY <2>1 DEF FallbackExplained
  <2> QED BY <2>3, <2>4
<1>10. ASSUME NEW p \in Proc, StopEarly(p) \/ Crash(p) PROVE SInv'
  <2>1. /\ \E how \in {"crashed", "stopped"} : pc' = [pc EXCEPT ![p] = how]
        /\ UNCHANGED <<owner, pointer, long>>
        /\ sockets' \in {sockets, sockets \cup {Bound(p)}}
    BY <1>10 DEF StopEarly, Crash, Ends, socket
  <2>2. Owned' /\ Pointed'
    BY <2>1 DEF Owned, Pointed, Bound
  <2>3. FallbackExplained'
    BY <2>1 DEF FallbackExplained, Bound
  <2> QED BY <2>2, <2>3
<1>11. CASE Damage
  BY <1>11 DEF Damage, setup, socket, Owned, Pointed, FallbackExplained, Bound
<1>12. CASE UNCHANGED vars
  BY <1>12 DEF vars, Owned, Pointed, FallbackExplained, Bound
<1> QED
  BY <1>1, <1>3, <1>4, <1>5, <1>6, <1>7, <1>8, <1>9, <1>10, <1>11, <1>12 DEF Next, Step

(* Clients, owner and sockets agree in every reachable state.              *)
LEMMA SocketInvariant == Safe => []SInv
<1>1. Init => SInv
  BY TypeInit DEF Init, SInv, Owned, Pointed, FallbackExplained, PastGuard, Alive, Starting
<1>2. SInv /\ IInv /\ IInv' /\ [Next]_vars => SInv'
  BY SocketStep
<1> QED BY <1>1, <1>2, Inductive, PTL DEF Safe

(* Every variable of a start keeps its type, and past the guard there is   *)
(* one process, whose PID is in the file.                                  *)
THEOREM TypeCorrect == Spec => []TypeOK
<1>1. Spec => Safe
  BY PTL DEF Spec, Safe
<1>2. SInv => TypeOK
  BY DEF SInv, Owned, TypeOK
<1> QED BY <1>1, <1>2, SocketInvariant, PTL

(* A client with the daemon's configuration reaches its socket, unless the  *)
(* path was shortened after a daemon with a long one was stopped or died.   *)
THEOREM ClientsFindDaemons == Spec => []ClientFindsDaemon
<1>1. Spec => Safe
  BY PTL DEF Spec, Safe
<1>2. SInv => ClientFindsDaemon
  BY DEF SInv, Owned, Pointed, FallbackExplained, PastGuard, Alive, Starting,
     ClientFindsDaemon, ClientPath, Bound
<1> QED BY <1>1, <1>2, SocketInvariant, PTL
=============================================================================
