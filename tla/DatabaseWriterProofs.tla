------------------------ MODULE DatabaseWriterProofs ------------------------
(***************************************************************************)
(* What DatabaseWriter guarantees for any number of operations, rows and   *)
(* crashes.  AckedIsDurable is not inductive: that a commit covers the     *)
(* operation being answered depends on where the consumer is, and that no  *)
(* later submission disturbs it depends on the order of the queue.  IInv   *)
(* adds those facts.                                                       *)
(***************************************************************************)
EXTENDS DatabaseWriter, TLAPS

(* The queue is in submission order, behind the operation in progress.     *)
QueueOrder ==
  /\ op <= submitted
  /\ \A k \in DOMAIN queue :
       queue[k] # Sentinel => op < queue[k] /\ queue[k] <= submitted
  /\ \A k, l \in DOMAIN queue :
       k < l /\ queue[k] # Sentinel /\ queue[l] # Sentinel => queue[k] < queue[l]

(* Only submitted operations have rows, and none of them is still queued.  *)
RowOrder ==
  \A r \in uncommitted \cup durable :
    /\ r[1] <= submitted
    /\ \A k \in DOMAIN queue : queue[k] # Sentinel => r[1] < queue[k]

(* What the consumer's position says of the operation it is handling.      *)
Progress ==
  /\ pc = "commit" => RowsOf(op) \subseteq uncommitted \cup durable
  /\ pc = "resolve" /\ op \notin failed => RowsOf(op) \subseteq durable

IInv == TypeOK /\ QueueOrder /\ RowOrder /\ Progress /\ AckedIsDurable

-----------------------------------------------------------------------------
(* Rows of an operation are rows, whichever statement it runs.             *)
LEMMA RowsTyped ==
  ASSUME TypeOK
  PROVE  /\ \A i \in Ops : RowsOf(i) \subseteq Row
         /\ \A i \in Ops : \A n \in 0..(Size(stmt[i]) - 1) : FirstRows(i, n) \subseteq Row
<1>1. \A i \in Ops : Size(stmt[i]) \in 1..MaxRows
  BY WriterAssumption DEF TypeOK, Size, Stmts
<1> QED
  BY <1>1, WriterAssumption DEF RowsOf, FirstRows, Row

(* Every variable keeps its type: no step of a caller, of the consumer or  *)
(* of a crash leaves the consumer holding something that is no operation.  *)
LEMMA TypeInit == Init => TypeOK
<1> SUFFICES ASSUME Init PROVE TypeOK
  OBVIOUS
<1>1. <<>> \in Seq(Ops \cup {Sentinel})
  OBVIOUS
<1>2. submitted \in 0..MaxOps /\ crashes \in 0..MaxCrashes
  BY WriterAssumption DEF Init
<1> QED
  BY <1>1, <1>2 DEF Init, TypeOK, Stmts

(* A step of anybody keeps every variable in its type.                     *)
LEMMA TypeStep == TypeOK /\ [Next]_vars => TypeOK'
<1> SUFFICES ASSUME TypeOK, [Next]_vars PROVE TypeOK'
  OBVIOUS
<1> USE WriterAssumption
<1>1. ASSUME NEW s \in Stmts, NEW f \in {"pending", "none"}, Put(s, f) PROVE TypeOK'
  BY <1>1 DEF Put, TypeOK, Ops, Sentinel, store
<1>2. CASE Write
  BY <1>1, <1>2 DEF Write, Stmts
<1>3. CASE Enqueue
  BY <1>1, <1>3 DEF Enqueue, Stmts
<1>4. CASE ExecuteScript
  BY <1>1, <1>4 DEF ExecuteScript, Stmts
<1>5. CASE \E i \in Ops : Cancel(i)
  BY <1>5 DEF Cancel, TypeOK, caller, store
<1>6. CASE Start
  BY <1>6 DEF Start, TypeOK, caller, store
<1>7. CASE Stop
  <2>1. queue' \in Seq(Ops \cup {Sentinel})
    BY <1>7 DEF Stop, TypeOK
  <2> QED BY <1>7, <2>1 DEF Stop, TypeOK, caller, store
<1>8. CASE StopReturns
  BY <1>8 DEF StopReturns, TypeOK, caller, store
<1>9. CASE Get
  <2>1. Head(queue) \in Ops \cup {Sentinel} /\ Tail(queue) \in Seq(Ops \cup {Sentinel})
    BY <1>9 DEF Get, TypeOK
  <2> QED BY <1>9, <2>1 DEF Get, TypeOK, caller, store
<1>10. CASE ExecuteOk
  BY <1>10, RowsTyped DEF ExecuteOk, TypeOK, caller
<1>11. CASE ExecuteFails
  BY <1>11, RowsTyped DEF ExecuteFails, TypeOK, caller
<1>12. CASE CommitOk
  BY <1>12 DEF CommitOk, TypeOK, caller
<1>13. CASE CommitFails
  BY <1>13 DEF CommitFails, TypeOK, caller
<1>14. CASE Resolve
  BY <1>14 DEF Resolve, TypeOK, caller, store
<1>15. CASE Crash
  <2>1. queue' \in Seq(Ops \cup {Sentinel})
    BY <1>15 DEF Crash
  <2>2. crashes' \in 0..MaxCrashes
    BY <1>15 DEF Crash, TypeOK
  <2> QED BY <1>15, <2>1, <2>2 DEF Crash, TypeOK, caller
<1>16. CASE UNCHANGED vars
  BY <1>16 DEF vars, TypeOK
<1> QED
  BY <1>2, <1>3, <1>4, <1>5, <1>6, <1>7, <1>8, <1>9, <1>10, <1>11, <1>12, <1>13,
     <1>14, <1>15, <1>16 DEF Next

(* The writer's state is well typed in every reachable state.              *)
THEOREM TypeCorrect == Spec => []TypeOK
<1>1. Spec => Safe
  BY DEF Spec
<1> QED
  BY <1>1, TypeInit, TypeStep, PTL DEF Safe

-----------------------------------------------------------------------------
(* How a step changes the queue and the position of the consumer: nothing, *)
(* a fresh operation or the sentinel at the end, the head gone, or empty.  *)
LEMMA QueueMoves ==
  ASSUME TypeOK, [Next]_vars
  PROVE  \/ UNCHANGED <<queue, op, submitted>>
         \/ /\ queue' = Append(queue, submitted + 1) /\ submitted' = submitted + 1
            /\ submitted + 1 \in Ops /\ op' = op
         \/ queue' = Append(queue, Sentinel) /\ UNCHANGED <<op, submitted>>
         \/ /\ queue # <<>> /\ queue' = Tail(queue) /\ submitted' = submitted
            /\ op' = op \/ (op' = Head(queue) /\ op' # Sentinel)
         \/ queue' = <<>> /\ op' = Sentinel /\ submitted' = submitted
<1>1. CASE Write \/ Enqueue \/ ExecuteScript
  BY <1>1, WriterAssumption DEF Write, Enqueue, ExecuteScript, Put, TypeOK, Ops
<1>2. CASE Stop
  BY <1>2 DEF Stop, caller
<1>3. CASE Get
  BY <1>3 DEF Get, caller
<1>4. CASE Crash
  BY <1>4 DEF Crash, caller
<1>5. CASE (\E i \in Ops : Cancel(i)) \/ Start \/ StopReturns
  BY <1>5 DEF Cancel, Start, StopReturns, caller
<1>6. CASE ExecuteOk \/ ExecuteFails \/ CommitOk \/ CommitFails \/ Resolve
  BY <1>6 DEF ExecuteOk, ExecuteFails, CommitOk, CommitFails, Resolve, caller
<1>7. CASE UNCHANGED vars
  BY <1>7 DEF vars
<1> QED
  BY <1>1, <1>2, <1>3, <1>4, <1>5, <1>6, <1>7 DEF Next

(* asyncio.Queue is appended to at the end and read at the head: no step   *)
(* overtakes a queued operation, or the one in progress.                   *)
LEMMA QueueOrderStep ==
  ASSUME TypeOK, QueueOrder, [Next]_vars
  PROVE  QueueOrder'
<1> USE DEF TypeOK, QueueOrder, Ops, Sentinel
<1>1. CASE UNCHANGED <<queue, op, submitted>>
  BY <1>1
<1>2. CASE /\ queue' = Append(queue, submitted + 1) /\ submitted' = submitted + 1
           /\ submitted + 1 \in Ops /\ op' = op
  <2>1. \A k \in DOMAIN queue' :
          queue'[k] = IF k = Len(queue) + 1 THEN submitted + 1 ELSE queue[k]
    BY <1>2
  <2>2. DOMAIN queue' = 1..(Len(queue) + 1) /\ DOMAIN queue = 1..Len(queue)
    BY <1>2
  <2> QED BY <1>2, <2>1, <2>2
<1>3. CASE queue' = Append(queue, Sentinel) /\ UNCHANGED <<op, submitted>>
  <2>1. \A k \in DOMAIN queue' :
          queue'[k] = IF k = Len(queue) + 1 THEN Sentinel ELSE queue[k]
    BY <1>3
  <2>2. DOMAIN queue' = 1..(Len(queue) + 1) /\ DOMAIN queue = 1..Len(queue)
    BY <1>3
  <2> QED BY <1>3, <2>1, <2>2
<1>4. CASE /\ queue # <<>> /\ queue' = Tail(queue) /\ submitted' = submitted
           /\ op' = op \/ (op' = Head(queue) /\ op' # Sentinel)
  <2>1. /\ DOMAIN queue = 1..Len(queue) /\ 1 \in DOMAIN queue
        /\ Head(queue) = queue[1]
        /\ \A k \in DOMAIN queue' : k + 1 \in DOMAIN queue /\ queue'[k] = queue[k + 1]
    BY <1>4
  <2> QED BY <1>4, <2>1
<1>5. CASE queue' = <<>> /\ op' = Sentinel /\ submitted' = submitted
  BY <1>5
<1> QED
  BY <1>1, <1>2, <1>3, <1>4, <1>5, QueueMoves

(* A step adds rows of the operation in progress only.                     *)
LEMMA RowMoves ==
  ASSUME TypeOK, [Next]_vars
  PROVE  \/ (uncommitted \cup durable)' \subseteq uncommitted \cup durable
         \/ /\ UNCHANGED <<queue, op, submitted>> /\ op \in Ops
            /\ \A r \in (uncommitted \cup durable)' :
                 r \in uncommitted \cup durable \/ r[1] = op
<1>1. CASE ExecuteOk
  BY <1>1 DEF ExecuteOk, RowsOf, TypeOK, caller
<1>2. CASE ExecuteFails
  BY <1>2 DEF ExecuteFails, FirstRows, TypeOK, caller
<1>3. CASE CommitOk \/ CommitFails
  BY <1>3 DEF CommitOk, CommitFails
<1>4. CASE Crash
  BY <1>4 DEF Crash
<1>5. CASE Write \/ Enqueue \/ ExecuteScript \/ \E i \in Ops : Cancel(i)
  BY <1>5 DEF Write, Enqueue, ExecuteScript, Put, Cancel, store
<1>6. CASE Start \/ Stop \/ StopReturns \/ Get \/ Resolve
  BY <1>6 DEF Start, Stop, StopReturns, Get, Resolve, store
<1>7. CASE UNCHANGED vars
  BY <1>7 DEF vars
<1> QED
  BY <1>1, <1>2, <1>3, <1>4, <1>5, <1>6, <1>7 DEF Next

(* Rows appear only when their operation is taken from the queue.          *)
LEMMA RowOrderStep ==
  ASSUME TypeOK, QueueOrder, RowOrder, [Next]_vars
  PROVE  RowOrder'
<1>1. CASE UNCHANGED <<queue, op, submitted>> /\ op \in Ops
           /\ \A r \in (uncommitted \cup durable)' :
                r \in uncommitted \cup durable \/ r[1] = op
  BY <1>1 DEF RowOrder, QueueOrder
<1>2. CASE (uncommitted \cup durable)' \subseteq uncommitted \cup durable
  <2>1. SUFFICES ASSUME NEW r \in uncommitted \cup durable
        PROVE  /\ r[1] <= submitted'
               /\ \A k \in DOMAIN queue' : queue'[k] # Sentinel => r[1] < queue'[k]
    BY <1>2 DEF RowOrder
  <2>2. /\ r[1] \in Ops /\ r[1] <= submitted
        /\ \A k \in DOMAIN queue : queue[k] # Sentinel => r[1] < queue[k]
    BY DEF RowOrder, TypeOK, Row
  <2> USE <2>2 DEF TypeOK, Ops, Sentinel
  <2>3. CASE UNCHANGED <<queue, op, submitted>>
    BY <2>3
  <2>4. CASE queue' = Append(queue, submitted + 1) /\ submitted' = submitted + 1
    <3>1. \A k \in DOMAIN queue' :
            \/ queue'[k] = submitted + 1
            \/ k \in DOMAIN queue /\ queue'[k] = queue[k]
      BY <2>4
    <3> QED BY <2>4, <3>1
  <2>5. CASE queue' = Append(queue, Sentinel) /\ UNCHANGED <<op, submitted>>
    <3>1. \A k \in DOMAIN queue' :
            \/ queue'[k] = Sentinel
            \/ k \in DOMAIN queue /\ queue'[k] = queue[k]
      BY <2>5
    <3> QED BY <2>5, <3>1
  <2>6. CASE queue # <<>> /\ queue' = Tail(queue) /\ submitted' = submitted
    <3>1. \A k \in DOMAIN queue' : k + 1 \in DOMAIN queue /\ queue'[k] = queue[k + 1]
      BY <2>6
    <3> QED BY <2>6, <3>1
  <2>7. CASE queue' = <<>> /\ op' = Sentinel /\ submitted' = submitted
    BY <2>7
  <2> QED
    BY <2>3, <2>4, <2>5, <2>6, <2>7, QueueMoves
<1> QED
  BY <1>1, <1>2, RowMoves

(* The consumer answers only for what it has committed.  A submission      *)
(* renumbers nothing, because the operation in progress is an earlier one. *)
LEMMA ProgressStep ==
  ASSUME TypeOK, QueueOrder, Progress, AckedIsDurable, [Next]_vars
  PROVE  Progress' /\ AckedIsDurable'
<1> USE DEF Progress, AckedIsDurable, TypeOK
<1>1. ASSUME NEW s \in Stmts, NEW f \in {"pending", "none"}, Put(s, f)
      PROVE  Progress' /\ AckedIsDurable'
  <2>1. \A i \in Ops : i # submitted + 1 => RowsOf(i)' = RowsOf(i)
    BY <1>1 DEF Put, RowsOf, Size
  <2>2. pc \in {"commit", "resolve"} => RowsOf(op)' = RowsOf(op)
    BY <1>1, <2>1 DEF Put, QueueOrder, Ops, RowsOf, Size
  <2> QED BY <1>1, <2>1, <2>2 DEF Put, store, RowsOf, Size
<1>2. CASE Write \/ Enqueue \/ ExecuteScript
  BY <1>1, <1>2 DEF Write, Enqueue, ExecuteScript, Stmts
<1>3. ASSUME stmt' = stmt PROVE \A i : RowsOf(i)' = RowsOf(i)
  BY <1>3 DEF RowsOf, Size
<1>4. CASE (\E i \in Ops : Cancel(i)) \/ Start \/ Stop \/ StopReturns \/ Get
  BY <1>3, <1>4 DEF Cancel, Start, Stop, StopReturns, Get, caller, store, RowsOf, Size
<1>5. CASE ExecuteOk
  BY <1>3, <1>5 DEF ExecuteOk, caller, RowsOf, Size
<1>6. CASE ExecuteFails
  BY <1>3, <1>6 DEF ExecuteFails, caller, RowsOf, Size
<1>7. CASE CommitOk \/ CommitFails
  BY <1>3, <1>7 DEF CommitOk, CommitFails, caller, RowsOf, Size
<1>8. CASE Resolve
  BY <1>3, <1>8 DEF Resolve, caller, store, RowsOf, Size
<1>9. CASE Crash
  BY <1>3, <1>9 DEF Crash, caller, RowsOf, Size
<1>10. CASE UNCHANGED vars
  BY <1>10 DEF vars, RowsOf, Size
<1> QED
  BY <1>2, <1>4, <1>5, <1>6, <1>7, <1>8, <1>9, <1>10 DEF Next

(* IInv holds in every reachable state: the rows of an answered write()    *)
(* survive every later failure, submission, stop and crash.                *)
THEOREM Inductive == Spec => []IInv
<1>1. Init => IInv
  <2> SUFFICES ASSUME Init PROVE IInv
    OBVIOUS
  <2>1. TypeOK
    BY TypeInit
  <2> QED
    BY <2>1 DEF Init, IInv, QueueOrder, RowOrder, Progress, AckedIsDurable, Sentinel
<1>2. IInv /\ [Next]_vars => IInv'
  BY TypeStep, QueueOrderStep, RowOrderStep, ProgressStep DEF IInv
<1>3. Spec => Safe
  BY DEF Spec
<1> QED
  BY <1>1, <1>2, <1>3, PTL DEF Safe

(* A write() that returned normally is on disk and stays there.            *)
THEOREM AckedWritesAreDurable == Spec => []AckedIsDurable
<1>1. IInv => AckedIsDurable
  BY DEF IInv
<1> QED
  BY <1>1, Inductive, PTL

(* Nothing overtakes a queued operation.                                   *)
THEOREM WritesTakeEffectInOrder == Spec => []InOrder
<1>1. IInv => InOrder
  BY DEF IInv, RowOrder, InOrder, Queued
<1> QED
  BY <1>1, Inductive, PTL

-----------------------------------------------------------------------------
(* Until a crash, an operation that left the queue is the one in progress, *)
(* failed, or durable: the shape NothingUnreported has at every step.      *)
Accounted ==
  crashes = 0 =>
    \A i \in Ops :
      Taken(i) => \/ i \in failed
                  \/ RowsOf(i) \subseteq durable
                  \/ i = op /\ pc \in {"execute", "commit", "resolve"}

(* While the process lives, what was queued stays queued, but for the head *)
(* that the consumer takes; what is put is queued.                         *)
LEMMA QueuedMoves ==
  ASSUME TypeOK, [Next]_vars, crashes' = 0
  PROVE  /\ \/ submitted' = submitted
            \/ submitted' = submitted + 1 /\ submitted' \in Queued'
         /\ \/ Queued \subseteq Queued'
            \/ Get /\ pc' = "execute" /\ Queued \subseteq Queued' \cup {op'}
<1> USE DEF TypeOK, Sentinel, Ops
<1>1. ASSUME NEW s \in Stmts, NEW f \in {"pending", "none"}, Put(s, f)
      PROVE  submitted' = submitted + 1 /\ submitted' \in Queued' /\ Queued \subseteq Queued'
  <2>1. /\ Len(queue) + 1 \in DOMAIN queue'
        /\ queue'[Len(queue) + 1] = submitted + 1
    BY <1>1 DEF Put
  <2>2. \A k \in DOMAIN queue : k \in DOMAIN queue' /\ queue'[k] = queue[k]
    BY <1>1 DEF Put
  <2> QED BY <1>1, <2>1, <2>2 DEF Put, Queued
<1>2. CASE Write \/ Enqueue \/ ExecuteScript
  BY <1>1, <1>2 DEF Write, Enqueue, ExecuteScript, Stmts
<1>3. CASE Stop
  <2>1. \A k \in DOMAIN queue : k \in DOMAIN queue' /\ queue'[k] = queue[k]
    BY <1>3 DEF Stop
  <2> QED BY <1>3, <2>1 DEF Stop, Queued, caller
<1>4. CASE Get
  <2>1. \A k \in DOMAIN queue :
          queue[k] = Head(queue) \/ (k - 1 \in DOMAIN queue' /\ queue'[k - 1] = queue[k])
    BY <1>4 DEF Get
  <2>2. CASE Head(queue) = Sentinel
    BY <1>4, <2>1, <2>2 DEF Get, Queued, caller
  <2>3. CASE Head(queue) # Sentinel
    <3>1. pc' = "execute" /\ op' = Head(queue) /\ submitted' = submitted
      BY <1>4, <2>3 DEF Get, caller
    <3>2. Queued \subseteq Queued' \cup {op'}
      BY <2>1, <3>1 DEF Queued
    <3> QED BY <1>4, <3>1, <3>2
  <2> QED BY <2>2, <2>3
<1>5. CASE Crash
  BY <1>5 DEF Crash
<1>6. CASE (\E i \in Ops : Cancel(i)) \/ Start \/ StopReturns
  BY <1>6 DEF Cancel, Start, StopReturns, caller, Queued
<1>7. CASE ExecuteOk \/ ExecuteFails \/ CommitOk \/ CommitFails \/ Resolve
  BY <1>7 DEF ExecuteOk, ExecuteFails, CommitOk, CommitFails, Resolve, caller, Queued
<1>8. CASE UNCHANGED vars
  BY <1>8 DEF vars, Queued
<1> QED
  BY <1>2, <1>3, <1>4, <1>5, <1>6, <1>7, <1>8 DEF Next

(* An operation that was taken stays accounted for: durable, failed, or    *)
(* the one in progress.                                                    *)
LEMMA AccountedStep ==
  ASSUME IInv, Accounted, [Next]_vars
  PROVE  Accounted'
<1> SUFFICES ASSUME crashes' = 0, NEW i \in Ops, Taken(i)'
    PROVE  \/ i \in failed'
           \/ RowsOf(i)' \subseteq durable'
           \/ i = op' /\ pc' \in {"execute", "commit", "resolve"}
  BY DEF Accounted
<1> USE DEF IInv, Progress
<1>1. crashes = 0 /\ (Taken(i) \/ (Get /\ pc' = "execute" /\ i = op'))
  <2>1. crashes = 0
    BY DEF Next, Crash, Write, Enqueue, ExecuteScript, Put, Cancel, Start, Stop,
           StopReturns, Get, ExecuteOk, ExecuteFails, CommitOk, CommitFails, Resolve,
           vars, TypeOK
  <2> QED BY <2>1, QueuedMoves DEF Taken, TypeOK, Ops
<1>2. CASE Get /\ pc' = "execute" /\ i = op'
  BY <1>2
<1>3. CASE Taken(i)
  <2>1. \/ i \in failed
        \/ RowsOf(i) \subseteq durable
        \/ i = op /\ pc \in {"execute", "commit", "resolve"}
    BY <1>1, <1>3 DEF Accounted
  <2>2. RowsOf(i)' = RowsOf(i)
    <3>1. CASE Write \/ Enqueue \/ ExecuteScript
      <4>1. i # submitted + 1
        BY <1>3 DEF Taken, TypeOK, Ops
      <4>2. stmt'[i] = stmt[i]
        BY <3>1, <4>1 DEF Write, Enqueue, ExecuteScript, Put, TypeOK
      <4> QED BY <4>2 DEF RowsOf, Size
    <3>2. CASE ~(Write \/ Enqueue \/ ExecuteScript)
      <4>1. stmt' = stmt
        BY <3>2 DEF Next, Crash, Cancel, Start, Stop, StopReturns, Get, ExecuteOk,
           ExecuteFails, CommitOk, CommitFails, Resolve, vars, caller
      <4> QED BY <4>1 DEF RowsOf, Size
    <3> QED BY <3>1, <3>2
  <2>3. CASE Write \/ Enqueue \/ ExecuteScript \/ (\E j \in Ops : Cancel(j))
             \/ Start \/ Stop \/ StopReturns \/ UNCHANGED vars
    BY <2>1, <2>2, <2>3 DEF Write, Enqueue, ExecuteScript, Put, Cancel, Start, Stop,
       StopReturns, store, vars
  <2>4. CASE Get
    BY <2>1, <2>2, <2>4 DEF Get, store
  <2>5. CASE ExecuteOk \/ ExecuteFails
    BY <2>1, <2>2, <2>5 DEF ExecuteOk, ExecuteFails
  <2>6. CASE CommitOk \/ CommitFails
    BY <2>1, <2>2, <2>6 DEF CommitOk, CommitFails
  <2>7. CASE Resolve
    BY <2>1, <2>2, <2>7 DEF Resolve, store
  <2>8. CASE Crash
    BY <2>8 DEF Crash, TypeOK
  <2> QED
    BY <2>3, <2>4, <2>5, <2>6, <2>7, <2>8 DEF Next
<1> QED
  BY <1>1, <1>2, <1>3

(* An operation the consumer took is durable or was reported as failed,    *)
(* whether or not anyone was waiting for it.                               *)
THEOREM NothingGoesUnreported == Spec => []NothingUnreported
<1>1. Init => Accounted
  BY DEF Init, Accounted, Taken, Ops
<1>2. Spec => Safe
  BY DEF Spec
<1>3. Accounted => NothingUnreported
  BY DEF Accounted, NothingUnreported
<1>4. IInv /\ Accounted /\ [Next]_vars => Accounted'
  BY AccountedStep
<1> QED
  BY <1>1, <1>2, <1>3, <1>4, Inductive, PTL DEF Safe

-----------------------------------------------------------------------------
(***************************************************************************)
(* DatabaseWriter implements WriteLog, for any number of operations, rows  *)
(* and crashes.  Every step of a caller, the consumer or a crash is a step *)
(* of the log or leaves it alone.  What makes the steps of the consumer    *)
(* decide one operation and no other is Owned: a commit also writes rows   *)
(* that failed operations left in the transaction, and only those.         *)
(***************************************************************************)


(* The open transaction holds rows of failed operations and of the one in  *)
(* progress; that one is undecided until its commit.                       *)
Owned ==
  /\ \A r \in uncommitted : r[1] \in failed \/ (r[1] = op /\ pc = "commit")
  /\ \A i \in failed :
       /\ i <= submitted
       /\ \A k \in DOMAIN queue : queue[k] # Sentinel => i < queue[k]
  /\ pc \in {"execute", "commit"} => op \notin failed
  /\ pc = "execute" => \A r \in uncommitted \cup durable : r[1] # op
  /\ pc = "commit" =>
       IF stmt[op] = "script"
         THEN uncommitted = {} /\ RowsOf(op) \subseteq durable
         ELSE \A r \in durable : r[1] # op

-----------------------------------------------------------------------------
(* A submission, a stop and a crash leave the transaction to its owners.   *)
LEMMA OwnedByOthers ==
  ASSUME IInv, Owned,
         Write \/ Enqueue \/ ExecuteScript \/ (\E i \in Ops : Cancel(i)) \/ Start
           \/ Stop \/ StopReturns \/ Crash \/ UNCHANGED vars
  PROVE  Owned'
<1> USE DEF IInv, TypeOK, Owned, Ops, Sentinel
<1>1. ASSUME NEW s \in Stmts, NEW f \in {"pending", "none"}, Put(s, f)
      PROVE  Owned'
  <2>1. \A k \in DOMAIN queue' :
          \/ k \in DOMAIN queue /\ queue'[k] = queue[k]
          \/ queue'[k] = submitted + 1
    BY <1>1 DEF Put
  <2>2. op <= submitted
    BY DEF QueueOrder
  <2>3. pc = "commit" => stmt'[op] = stmt[op]
    BY <1>1, <2>2 DEF Put
  <2>4. pc = "commit" => RowsOf(op)' = RowsOf(op)
    BY <1>1, <2>3 DEF Put, RowsOf, Size
  <2>5. /\ UNCHANGED <<pc, op, failed, uncommitted, durable>>
        /\ submitted' = submitted + 1
    BY <1>1 DEF Put, store
  <2>6. \A i \in failed' :
          /\ i <= submitted'
          /\ \A k \in DOMAIN queue' : queue'[k] # Sentinel => i < queue'[k]
    BY <2>1, <2>5
  <2>7. pc' = "commit" =>
          IF stmt'[op'] = "script"
            THEN uncommitted' = {} /\ RowsOf(op)' \subseteq durable'
            ELSE \A r \in durable' : r[1] # op'
    BY <2>3, <2>4, <2>5
  <2> QED
    BY <2>5, <2>6, <2>7
<1>2. CASE Write \/ Enqueue \/ ExecuteScript
  BY <1>1, <1>2 DEF Write, Enqueue, ExecuteScript, Stmts
<1>3. CASE (\E i \in Ops : Cancel(i)) \/ Start \/ StopReturns
  BY <1>3 DEF Cancel, Start, StopReturns, caller, store, RowsOf, Size
<1>4. CASE Stop
  <2>1. \A k \in DOMAIN queue' :
          \/ k \in DOMAIN queue /\ queue'[k] = queue[k]
          \/ queue'[k] = Sentinel
    BY <1>4 DEF Stop
  <2> QED
    BY <1>4, <2>1 DEF Stop, caller, store, RowsOf, Size
<1>5. CASE Crash
  BY <1>5 DEF Crash, caller
<1>6. CASE UNCHANGED vars
  BY <1>6 DEF vars, RowsOf, Size
<1> QED
  BY <1>2, <1>3, <1>4, <1>5, <1>6

(* The consumer takes an operation that has no rows yet, and a failure     *)
(* hands its rows over to the failed ones.                                 *)
LEMMA OwnedByConsumer ==
  ASSUME IInv, Owned,
         Get \/ ExecuteOk \/ ExecuteFails \/ CommitOk \/ CommitFails \/ Resolve
  PROVE  Owned'
<1> USE DEF IInv, TypeOK, Owned, Ops, Sentinel
<1>1. CASE Get
  <2>1. \A k \in DOMAIN queue' : k + 1 \in DOMAIN queue /\ queue'[k] = queue[k + 1]
    BY <1>1 DEF Get
  <2>2. 1 \in DOMAIN queue /\ Head(queue) = queue[1]
    BY <1>1 DEF Get
  <2> QED
    BY <1>1, <2>1, <2>2 DEF Get, caller, store, RowOrder
<1>2. \A r \in RowsOf(op) : r[1] = op
  BY DEF RowsOf
<1>3. \A n \in Nat : \A r \in FirstRows(op, n) : r[1] = op
  BY DEF FirstRows
<1>4. CASE ExecuteOk
  BY <1>2, <1>4 DEF ExecuteOk, caller, RowsOf, Size
<1>5. CASE ExecuteFails
  <2>1. op <= submitted /\ \A k \in DOMAIN queue : queue[k] # Sentinel => op < queue[k]
    BY DEF QueueOrder
  <2>2. \A r \in uncommitted' : r[1] \in failed \/ r[1] = op
    <3>1. Size(stmt[op]) \in Nat
      BY WriterAssumption DEF Size
    <3>2. PICK n \in 0..(Size(stmt[op]) - 1) :
            uncommitted' = {} \/ uncommitted' = uncommitted \cup FirstRows(op, n)
      BY <1>5 DEF ExecuteFails
    <3> QED BY <1>3, <1>5, <3>1, <3>2 DEF ExecuteFails
  <2> QED
    BY <1>5, <2>1, <2>2 DEF ExecuteFails, caller
<1>6. CASE CommitOk
  BY <1>6 DEF CommitOk, caller
<1>7. CASE CommitFails
  <2>1. op <= submitted /\ \A k \in DOMAIN queue : queue[k] # Sentinel => op < queue[k]
    BY DEF QueueOrder
  <2> QED
    BY <1>7, <2>1 DEF CommitFails, caller
<1>8. CASE Resolve
  BY <1>8 DEF Resolve, caller, store
<1> QED
  BY <1>1, <1>4, <1>5, <1>6, <1>7, <1>8

-----------------------------------------------------------------------------
(* The log's view of an operation.                                         *)

Covered(i) == RowsOf(i) \subseteq durable

(* An operation that is neither decided nor absent is accepted or lost,    *)
(* and accepted ones are still ahead of the consumer or in its hands.      *)
LEMMA StatusOf ==
  ASSUME NEW i \in Ops, submitted \in Nat
  PROVE  /\ LogStatus[i] = "absent" <=> i > submitted
         /\ LogStatus[i] = "failed" <=> i <= submitted /\ i \in failed
         /\ LogStatus[i] = "committed" <=> i <= submitted /\ i \notin failed /\ Covered(i)
         /\ LogStatus[i] = "accepted" <=>
              i <= submitted /\ i \notin failed /\ ~Covered(i) /\ Live(i)
         /\ LogStatus[i] = "lost" <=>
              i <= submitted /\ i \notin failed /\ ~Covered(i) /\ ~Live(i)
         /\ LogStatus[i] \in Log!Statuses
<1>1. i \in Nat
  BY WriterAssumption DEF Ops
<1>2. LogStatus[i] = IF i > submitted THEN "absent"
                     ELSE IF i \in failed THEN "failed"
                     ELSE IF Covered(i) THEN "committed"
                     ELSE IF Live(i) THEN "accepted" ELSE "lost"
  BY DEF LogStatus, Covered
<1> QED
  BY <1>1, <1>2 DEF Log!Statuses

(* A step that decides nothing and takes nothing out of the consumer's     *)
(* reach is no step of the log.                                            *)
LEMMA Frame ==
  ASSUME TypeOK, submitted' = submitted, failed' = failed,
         \A i \in Ops : i <= submitted /\ i \notin failed =>
           /\ Covered(i)' <=> Covered(i)
           /\ ~Covered(i) => (Live(i)' <=> Live(i))
  PROVE  LogStatus' = LogStatus
<1>1. \A i \in Ops : LogStatus'[i] = LogStatus[i]
  BY DEF LogStatus, Covered, Ops, TypeOK
<1> QED
  BY <1>1 DEF LogStatus
-----------------------------------------------------------------------------
(* An operation has a row, and until it is committed one is not durable.   *)
LEMMA HasRow ==
  ASSUME TypeOK, NEW i \in Ops
  PROVE  <<i, 1>> \in RowsOf(i)
<1>1. stmt[i] \in Stmts /\ Size(stmt[i]) \in Nat /\ 1 <= Size(stmt[i])
  BY WriterAssumption DEF TypeOK, Size
<1> QED
  BY <1>1 DEF RowsOf

(* Until its commit, the operation in progress is not wholly durable, but  *)
(* for a script.                                                           *)
LEMMA Undecided ==
  ASSUME IInv, Owned, pc \in {"execute", "commit"},
         pc = "commit" => stmt[op] # "script"
  PROVE  op \in Ops /\ ~Covered(op)
<1>1. op \in Ops
  BY DEF IInv, TypeOK
<1>2. <<op, 1>> \in RowsOf(op)
  BY <1>1, HasRow DEF IInv
<1>3. <<op, 1>> \notin durable
  BY DEF Owned
<1> QED
  BY <1>1, <1>2, <1>3 DEF Covered

(* The consumer decides the operation in its hands, which is the oldest    *)
(* undecided one, and no other: the rows a commit adds belong to it or to  *)
(* operations that were reported as failed before.                         *)
LEMMA Settled ==
  ASSUME IInv, Owned, pc \in {"execute", "commit"}, ~Covered(op),
         UNCHANGED <<queue, submitted, stmt, op>>,
         NEW verdict \in {"committed", "failed"},
         failed' = IF verdict = "failed" THEN failed \cup {op} ELSE failed,
         durable \subseteq durable',
         durable' \subseteq durable \cup uncommitted \cup RowsOf(op),
         verdict = "committed" => Covered(op)', crashes' = crashes
  PROVE  Log!Decide(op, verdict)
<1> USE DEF Ops
<1>1. /\ op \in Ops /\ op \in Nat /\ op <= submitted /\ op \notin failed
      /\ submitted \in Nat
  BY WriterAssumption DEF IInv, TypeOK, QueueOrder, Owned
<1>2. LogStatus[op] = "accepted"
  BY <1>1, StatusOf DEF Live
<1>3. \A j \in 1..(op - 1) : LogStatus[j] # "accepted"
  <2> SUFFICES ASSUME NEW j \in 1..(op - 1), Live(j) PROVE FALSE
    BY <1>1, StatusOf, WriterAssumption
  <2>1. j \in Queued /\ j # Sentinel
    BY <1>1 DEF Live, Queued
  <2>2. PICK k \in DOMAIN queue : queue[k] = j
    BY <2>1 DEF Queued
  <2> QED
    BY <1>1, <2>1, <2>2 DEF IInv, QueueOrder
<1>4. ASSUME NEW i \in Ops, i # op
      PROVE  LogStatus'[i] = LogStatus[i]
  <2>1. RowsOf(i)' = RowsOf(i) /\ \A r \in RowsOf(i) : r[1] = i
    BY DEF RowsOf, Size
  <2>2. \A r \in RowsOf(op) : r[1] = op
    BY DEF RowsOf
  <2>3. i \notin failed => (Covered(i)' <=> Covered(i))
    BY <1>4, <2>1, <2>2 DEF Covered, Owned
  <2>4. Live(i)' <=> Live(i)
    BY <1>4 DEF Live, Queued
  <2> QED
    BY <1>4, <2>3, <2>4 DEF LogStatus, Covered
<1>5. LogStatus'[op] = verdict
  BY <1>1 DEF LogStatus, Covered
<1>6. LogStatus' = [LogStatus EXCEPT ![op] = verdict]
  BY <1>1, <1>4, <1>5 DEF LogStatus
<1> QED
  BY <1>1, <1>2, <1>3, <1>6 DEF Log!Decide

-----------------------------------------------------------------------------
(* A submission is an Accept of the next operation.                        *)
LEMMA SubmissionAccepts ==
  ASSUME IInv, Owned, NEW s \in Stmts, NEW f \in {"pending", "none"}, Put(s, f)
  PROVE  \E n \in Ops : Log!Accept(n)
<1> PICK n \in Ops : n = submitted + 1
  BY WriterAssumption DEF IInv, TypeOK, Put, Ops
<1>1. n \in Nat /\ submitted \in Nat /\ submitted' = n
  BY WriterAssumption DEF IInv, TypeOK, Put, Ops
<1>2. /\ UNCHANGED <<pc, op, failed, uncommitted, durable, crashes>>
      /\ \A i \in Ops : i # n => stmt'[i] = stmt[i]
  BY DEF Put, store, IInv, TypeOK, Ops
<1>3. Queued' = Queued \cup {n}
  <2>1. /\ \A k \in DOMAIN queue' :
             queue'[k] = n \/ (k \in DOMAIN queue /\ queue'[k] = queue[k])
        /\ \A k \in DOMAIN queue : k \in DOMAIN queue' /\ queue'[k] = queue[k]
        /\ Len(queue) + 1 \in DOMAIN queue' /\ queue'[Len(queue) + 1] = n
    BY <1>1 DEF Put, IInv, TypeOK, Ops
  <2> QED
    BY <1>1, <2>1 DEF Queued, Sentinel
<1>4. LogStatus[n] = "absent" /\ \A j \in 1..(n - 1) : LogStatus[j] # "absent"
  BY <1>1, StatusOf, WriterAssumption DEF Ops
<1>5. ASSUME NEW i \in Ops, i # n
      PROVE  LogStatus'[i] = LogStatus[i]
  <2>1. RowsOf(i)' = RowsOf(i)
    BY <1>2, <1>5 DEF RowsOf, Size
  <2>2. Live(i)' <=> Live(i)
    BY <1>2, <1>3, <1>5 DEF Live
  <2> QED
    BY <1>1, <1>2, <1>5, <2>1, <2>2 DEF LogStatus, Ops
<1>6. LogStatus'[n] = "accepted"
  <2>1. n \notin failed'
    BY <1>1, <1>2 DEF Owned, Ops
  <2>3. <<n, 1>> \in RowsOf(n)'
    BY <1>1, <1>2, WriterAssumption DEF RowsOf, Size, Put, IInv, TypeOK
  <2>4. <<n, 1>> \notin durable'
    BY <1>1, <1>2 DEF IInv, RowOrder
  <2>5. Live(n)'
    BY <1>3 DEF Live
  <2> QED
    BY <1>1, <2>1, <2>3, <2>4, <2>5 DEF LogStatus
<1>7. LogStatus' = [LogStatus EXCEPT ![n] = "accepted"]
  BY <1>1, <1>5, <1>6 DEF LogStatus
<1> QED
  BY <1>1, <1>2, <1>4, <1>7 DEF Log!Accept

(* The death of the process loses what was accepted and decides nothing.   *)
LEMMA CrashLoses ==
  ASSUME IInv, Crash
  PROVE  Log!Lose
<1>4. crashes < MaxCrashes /\ crashes' = crashes + 1
  BY DEF Crash
<1>1. /\ UNCHANGED <<submitted, stmt, failed, durable>>
      /\ Queued' = {} /\ pc' = "off"
  BY DEF Crash, caller, Queued
<1>2. ASSUME NEW i \in Ops
      PROVE  LogStatus'[i] = IF LogStatus[i] = "accepted" THEN "lost" ELSE LogStatus[i]
  <2>1. RowsOf(i)' = RowsOf(i)
    BY <1>1 DEF RowsOf, Size
  <2>2. ~Live(i)'
    BY <1>1 DEF Live
  <2> QED
    BY <1>1, <1>2, <2>1, <2>2 DEF LogStatus
<1>3. LogStatus' = [i \in Ops |->
                      IF LogStatus[i] = "accepted" THEN "lost" ELSE LogStatus[i]]
  BY <1>2 DEF LogStatus
<1> QED
  BY <1>3, <1>4 DEF Log!Lose, Log!Ops, Ops

-----------------------------------------------------------------------------
(* start(), stop(), a cancelled caller and an answer are no business of    *)
(* the log; neither is that the consumer takes an operation.               *)
LEMMA SilentSteps ==
  ASSUME IInv, Get \/ Resolve \/ (\E i \in Ops : Cancel(i)) \/ Start \/ Stop
                 \/ StopReturns \/ UNCHANGED vars
  PROVE  UNCHANGED <<LogStatus, crashes>>
<1>1. UNCHANGED <<submitted, stmt, failed, durable, crashes>>
  BY DEF Get, Resolve, Cancel, Start, Stop, StopReturns, vars, caller, store
<1>2. \A i \in Ops : Covered(i)' <=> Covered(i)
  BY <1>1 DEF Covered, RowsOf, Size
<1>3. ASSUME NEW i \in Ops
      PROVE  Live(i)' <=> Live(i)
  <2> USE DEF IInv, TypeOK, Sentinel, Ops
  <2>1. CASE Get
    <3>1. /\ queue \in Seq(Ops \cup {Sentinel}) /\ queue # <<>> /\ queue' = Tail(queue)
          /\ pc = "get"
      BY <2>1 DEF Get
    <3>2. \A k \in DOMAIN queue' : k + 1 \in DOMAIN queue /\ queue'[k] = queue[k + 1]
      BY <3>1
    <3>3. \A k \in DOMAIN queue :
            k = 1 \/ (k - 1 \in DOMAIN queue' /\ queue'[k - 1] = queue[k])
      BY <3>1
    <3>4. 1 \in DOMAIN queue /\ Head(queue) = queue[1] /\ i # Sentinel /\ i \in Nat
      BY <3>1
    <3>5. i \in Queued <=> i = Head(queue) \/ i \in Queued'
      BY <3>2, <3>3, <3>4 DEF Queued
    <3>6. IF Head(queue) = Sentinel
            THEN pc' = "exited"
            ELSE pc' = "execute" /\ op' = Head(queue)
      BY <2>1 DEF Get
    <3> QED BY <3>1, <3>4, <3>5, <3>6 DEF Live
  <2>2. CASE Stop
    <3>1. /\ \A k \in DOMAIN queue' :
               queue'[k] = Sentinel \/ (k \in DOMAIN queue /\ queue'[k] = queue[k])
          /\ \A k \in DOMAIN queue : k \in DOMAIN queue' /\ queue'[k] = queue[k]
      BY <2>2 DEF Stop
    <3> QED BY <2>2, <3>1 DEF Stop, Live, Queued
  <2>3. CASE Resolve \/ (\E j \in Ops : Cancel(j)) \/ Start \/ StopReturns \/ UNCHANGED vars
    BY <2>3 DEF Resolve, Cancel, Start, StopReturns, vars, Live, Queued
  <2> QED BY <2>1, <2>2, <2>3
<1> QED
  BY <1>1, <1>2, <1>3, Frame DEF IInv

(* Executing a statement decides nothing, but for a script, whose own      *)
(* commits put it on disk, and for one that raises.                        *)
LEMMA ExecuteDecides ==
  ASSUME IInv, Owned, ExecuteOk \/ ExecuteFails
  PROVE  UNCHANGED <<LogStatus, crashes>> \/ \E v \in {"committed", "failed"} : Log!Decide(op, v)
<1>1. op \in Ops /\ ~Covered(op) /\ pc = "execute"
  BY Undecided DEF ExecuteOk, ExecuteFails
<1>2. UNCHANGED <<queue, submitted, stmt, op, crashes>>
  BY DEF ExecuteOk, ExecuteFails, caller
<1>3. RowsOf(op)' = RowsOf(op)
  BY <1>2 DEF RowsOf, Size
<1>4. CASE ExecuteOk /\ stmt[op] = "script"
  <2>1. Log!Decide(op, "committed")
    BY <1>1, <1>2, <1>3, <1>4, Settled DEF ExecuteOk, Covered
  <2> QED BY <2>1
<1>5. CASE ExecuteOk /\ stmt[op] # "script"
  <2>1. \A i \in Ops : (Covered(i)' <=> Covered(i)) /\ (Live(i)' <=> Live(i))
    BY <1>2, <1>5 DEF ExecuteOk, Covered, RowsOf, Size, Live, Queued
  <2> QED BY <1>2, <1>5, <2>1, Frame DEF ExecuteOk, IInv
<1>6. CASE ExecuteFails
  <2>1. Size(stmt[op]) \in Nat
    BY WriterAssumption DEF Size
  <2>2. \A n \in 0..(Size(stmt[op]) - 1) : FirstRows(op, n) \subseteq RowsOf(op)
    BY <2>1 DEF FirstRows, RowsOf
  <2>3. /\ durable \subseteq durable'
        /\ durable' \subseteq durable \cup uncommitted \cup RowsOf(op)
    BY <1>6, <2>2 DEF ExecuteFails
  <2>4. Log!Decide(op, "failed")
    BY <1>1, <1>2, <1>6, <2>3, Settled DEF ExecuteFails
  <2> QED BY <2>4
<1> QED
  BY <1>4, <1>5, <1>6

(* A commit decides the operation, unless it was a script and is durable.  *)
LEMMA CommitDecides ==
  ASSUME IInv, Owned, CommitOk \/ CommitFails
  PROVE  UNCHANGED <<LogStatus, crashes>> \/ \E v \in {"committed", "failed"} : Log!Decide(op, v)
<1>1. op \in Ops /\ pc = "commit" /\ pc' = "resolve"
  BY DEF CommitOk, CommitFails, IInv, TypeOK
<1>2. UNCHANGED <<queue, submitted, stmt, op, crashes>>
  BY DEF CommitOk, CommitFails, caller
<1>3. RowsOf(op)' = RowsOf(op)
  BY <1>2 DEF RowsOf, Size
<1>4. CASE stmt[op] = "script"
  <2>1. uncommitted = {} /\ Covered(op) /\ CommitOk
    BY <1>1, <1>4 DEF Owned, Covered, CommitFails
  <2>2. \A i \in Ops : /\ Covered(i)' <=> Covered(i)
                       /\ ~Covered(i) => (Live(i)' <=> Live(i))
    BY <1>1, <1>2, <2>1 DEF CommitOk, Covered, RowsOf, Size, Live, Queued
  <2> QED BY <1>2, <2>1, <2>2, Frame DEF CommitOk, IInv
<1>5. CASE stmt[op] # "script"
  <2>1. ~Covered(op)
    BY <1>1, <1>5, Undecided
  <2>2. CASE CommitOk
    <3>1. durable' = durable \cup uncommitted /\ failed' = failed
      BY <2>2 DEF CommitOk
    <3>2. Covered(op)'
      BY <1>1, <1>3, <3>1 DEF Covered, IInv, Progress
    <3>3. Log!Decide(op, "committed")
      BY <1>1, <1>2, <2>1, <3>1, <3>2, Settled
    <3> QED BY <3>3
  <2>3. CASE CommitFails
    <3>1. durable' = durable /\ failed' = failed \cup {op}
      BY <2>3 DEF CommitFails
    <3>2. Log!Decide(op, "failed")
      BY <1>1, <1>2, <2>1, <3>1, Settled
    <3> QED BY <3>2
  <2> QED BY <2>2, <2>3
<1> QED
  BY <1>4, <1>5

(* Every step of the writer is a step of the log or leaves it alone.       *)
LEMMA StepImplements ==
  ASSUME IInv, Owned, [Next]_vars
  PROVE  [Log!LogNext]_<<LogStatus, crashes>>
<1>1. CASE Write \/ Enqueue \/ ExecuteScript
  <2>1. \E s \in Stmts, f \in {"pending", "none"} : Put(s, f)
    BY <1>1 DEF Write, Enqueue, ExecuteScript, Stmts
  <2>2. \E n \in Ops : Log!Accept(n)
    BY <2>1, SubmissionAccepts
  <2> QED BY <2>2 DEF Log!LogNext, Log!Ops, Ops
<1>2. CASE ExecuteOk \/ ExecuteFails \/ CommitOk \/ CommitFails
  <2>1. op \in Ops
    BY <1>2 DEF ExecuteOk, ExecuteFails, CommitOk, CommitFails, IInv, TypeOK
  <2> QED
    BY <1>2, <2>1, ExecuteDecides, CommitDecides DEF Log!LogNext, Log!Ops, Ops
<1>3. CASE Crash
  BY <1>3, CrashLoses DEF Log!LogNext
<1>4. CASE Get \/ Resolve \/ (\E i \in Ops : Cancel(i)) \/ Start \/ Stop
             \/ StopReturns \/ UNCHANGED vars
  BY <1>4, SilentSteps
<1> QED
  BY <1>1, <1>2, <1>3, <1>4 DEF Next

(* The writer implements the log: submitted operations are decided in      *)
(* order, once, as a whole, and only the death of the process loses one.   *)
THEOREM WriterImplementsLog == Spec => ImplementsLog
<1>1. Init => Owned /\ Log!LogInit
  BY DEF Init, Owned, LogStatus, Log!LogInit, Log!Ops, Ops
<1>2. IInv /\ Owned /\ [Next]_vars => Owned'
  BY OwnedByOthers, OwnedByConsumer DEF Next
<1>3. IInv /\ Owned /\ [Next]_vars => [Log!LogNext]_<<LogStatus, crashes>>
  BY StepImplements
<1>4. Spec => Safe
  BY DEF Spec
<1> QED
  BY <1>1, <1>2, <1>3, <1>4, Inductive, PTL DEF Safe, ImplementsLog, Log!LogSpec
=============================================================================
