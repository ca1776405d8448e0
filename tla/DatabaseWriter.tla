--------------------------- MODULE DatabaseWriter ---------------------------
(***************************************************************************)
(* memory/writer.py: every write of the daemon goes through one asyncio    *)
(* queue, drained by one consumer coroutine on one SQLite connection.      *)
(*                                                                         *)
(* Operations are numbered in submission order, and an operation stands    *)
(* for the rows it changes: row <<i, k>> is the k-th row of operation i.   *)
(* `uncommitted` holds the rows of the connection's open transaction,      *)
(* `durable` those that survive the process.  `future` and `failed` are    *)
(* what callers and the log were told; they outlive a crash because they   *)
(* are facts about the past.                                               *)
(***************************************************************************)
EXTENDS Naturals, Sequences

CONSTANTS
  MaxOps,       \* bound: operations submitted in a behaviour
  MaxRows,      \* bound: rows of a batch or statements of a script
  MaxCrashes    \* bound: deaths of the process

ASSUME WriterAssumption ==
  /\ MaxOps \in Nat
  /\ MaxRows \in Nat \ {0}
  /\ MaxCrashes \in Nat

VARIABLES
  queue,        \* self._queue, operations and at most one Sentinel
  submitted,    \* how many operations were ever submitted
  stmt,         \* how each one runs: WriteOp.many and WriteOp._is_script
  future,       \* WriteOp.future as its caller sees it
  started,      \* self._started
  stopper,      \* where the caller of stop() is
  pc,           \* where the consumer coroutine is
  op,           \* the consumer's local `op`
  failed,       \* operations whose exception was handed out or logged
  uncommitted,  \* rows in the open transaction of the connection
  durable,      \* rows on disk
  crashes

caller == <<submitted, stmt>>
store == <<uncommitted, durable>>
vars == <<queue, submitted, stmt, future, started, stopper, pc, op, failed,
          uncommitted, durable, crashes>>

Ops == 1..MaxOps
Sentinel == 0
Stmts == {"one", "many", "script"}
Row == Ops \X (1..MaxRows)

Size(s) == IF s = "one" THEN 1 ELSE MaxRows
RowsOf(i) == {i} \X (1..Size(stmt[i]))
FirstRows(i, n) == {i} \X (1..n)
Queued == {queue[k] : k \in DOMAIN queue} \ {Sentinel}

\* ... and stop() has returned only if the consumer has ended: the lifespan
\* closes the database next (app.py:175-179).
TypeOK ==
  /\ queue \in Seq(Ops \cup {Sentinel})
  /\ submitted \in 0..MaxOps
  /\ stmt \in [Ops -> Stmts]
  /\ future \in [Ops -> {"absent", "none", "pending", "ok", "error", "cancelled", "lost"}]
  /\ started \in BOOLEAN
  /\ stopper \in {"idle", "waiting", "returned"}
  /\ stopper = "returned" => pc = "exited"
  /\ pc \in {"off", "get", "execute", "commit", "resolve", "exited"}
  /\ op \in Ops \cup {Sentinel}
  /\ pc \in {"execute", "commit", "resolve"} => op \in Ops
  /\ failed \subseteq Ops
  /\ uncommitted \subseteq Row
  /\ durable \subseteq Row
  /\ crashes \in 0..MaxCrashes

Init ==
  /\ queue = <<>> /\ submitted = 0
  /\ stmt = [i \in Ops |-> "one"]
  /\ future = [i \in Ops |-> "absent"]
  /\ started = FALSE /\ stopper = "idle"
  /\ pc = "off" /\ op = Sentinel
  /\ failed = {} /\ uncommitted = {} /\ durable = {}
  /\ crashes = 0

-----------------------------------------------------------------------------
(* The callers.  put on an unbounded queue neither blocks nor fails.       *)

Put(s, f) ==
  /\ submitted < MaxOps
  /\ submitted' = submitted + 1
  /\ stmt' = [stmt EXCEPT ![submitted + 1] = s]
  /\ future' = [future EXCEPT ![submitted + 1] = f]
  /\ queue' = Append(queue, submitted + 1)
  /\ UNCHANGED <<started, stopper, pc, op, failed, store, crashes>>

Write == \E s \in {"one", "many"} : Put(s, "pending")
Enqueue == \E s \in {"one", "many"} : Put(s, "none")
ExecuteScript == Put("script", "pending")

\* The task awaiting a write is cancelled; the operation stays in the queue.
Cancel(i) ==
  /\ future[i] = "pending"
  /\ future' = [future EXCEPT ![i] = "cancelled"]
  /\ UNCHANGED <<queue, caller, started, stopper, pc, op, failed, store, crashes>>

-----------------------------------------------------------------------------
(* start() and stop(); the application's lifespan calls each once in a     *)
(* process (app.py:46,175), so a stopped writer is not started again.      *)

Start ==
  /\ ~started /\ pc = "off"
  /\ started' = TRUE /\ pc' = "get"
  /\ UNCHANGED <<queue, caller, future, stopper, op, failed, store, crashes>>

\* Mutant: stop() empties the queue.
StopDiscards ==
  /\ started /\ started' = FALSE /\ stopper' = "waiting"
  /\ queue' = <<Sentinel>>
  /\ UNCHANGED <<caller, future, pc, op, failed, store, crashes>>

Stop ==
  /\ started
  /\ started' = FALSE
  /\ stopper' = "waiting"
  /\ queue' = Append(queue, Sentinel)
  /\ UNCHANGED <<caller, future, pc, op, failed, store, crashes>>

\* Mutant: stop() does not await the task.
StopReturnsEarly ==
  /\ stopper = "waiting"
  /\ stopper' = "returned"
  /\ UNCHANGED <<queue, caller, future, started, pc, op, failed, store, crashes>>

StopReturns ==
  /\ stopper = "waiting" /\ pc = "exited"
  /\ stopper' = "returned"
  /\ UNCHANGED <<queue, caller, future, started, pc, op, failed, store, crashes>>

-----------------------------------------------------------------------------
(* The consumer: get, run the statement, commit and answer are separate    *)
(* awaits, and other coroutines run between them.                          *)

Get ==
  /\ pc = "get" /\ queue # <<>>
  /\ queue' = Tail(queue)
  /\ IF Head(queue) = Sentinel
       THEN pc' = "exited" /\ op' = op
       ELSE pc' = "execute" /\ op' = Head(queue)
  /\ UNCHANGED <<caller, future, started, stopper, failed, store, crashes>>

\* Mutant: only an awaited write is committed at once.
ExecuteNoCommit ==
  /\ pc = "execute"
  /\ pc' = IF future[op] = "none" THEN "resolve" ELSE "commit"
  /\ uncommitted' = uncommitted \cup RowsOf(op)
  /\ UNCHANGED <<queue, caller, future, started, stopper, op, failed, durable, crashes>>

\* execute/executemany open a transaction; executescript first commits the
\* one left open and then runs each statement in its own.
ExecuteOk ==
  /\ pc = "execute" /\ pc' = "commit"
  /\ IF stmt[op] = "script"
       THEN /\ durable' = durable \cup uncommitted \cup RowsOf(op)
            /\ uncommitted' = {}
       ELSE /\ uncommitted' = uncommitted \cup RowsOf(op)
            /\ durable' = durable
  /\ UNCHANGED <<queue, caller, future, started, stopper, op, failed, crashes>>

\* The statement raises after its first n rows.  Nothing rolls back: the rows
\* of a batch stay in the open transaction, those of a script are on disk.
ExecuteFails ==
  /\ pc = "execute" /\ pc' = "resolve"
  /\ failed' = failed \cup {op}
  /\ \E n \in 0..(Size(stmt[op]) - 1) :
       IF stmt[op] = "script"
         THEN /\ durable' = durable \cup uncommitted \cup FirstRows(op, n)
              /\ uncommitted' = {}
         ELSE /\ uncommitted' = uncommitted \cup FirstRows(op, n)
              /\ durable' = durable
  /\ UNCHANGED <<queue, caller, future, started, stopper, op, crashes>>

CommitOk ==
  /\ pc = "commit" /\ pc' = "resolve"
  /\ durable' = durable \cup uncommitted
  /\ uncommitted' = {}
  /\ UNCHANGED <<queue, caller, future, started, stopper, op, failed, crashes>>

\* Mutant: the exception of commit() is swallowed.
CommitUnchecked ==
  /\ pc = "commit" /\ uncommitted # {} /\ pc' = "resolve"
  /\ uncommitted' \in {uncommitted, {}}
  /\ UNCHANGED <<queue, caller, future, started, stopper, op, failed, durable, crashes>>

\* commit() raises, and SQLite keeps the transaction open (a busy database)
\* or has rolled it back (a full disk).  Without one, commit does nothing.
CommitFails ==
  /\ pc = "commit" /\ uncommitted # {} /\ pc' = "resolve"
  /\ failed' = failed \cup {op}
  /\ uncommitted' \in {uncommitted, {}}
  /\ UNCHANGED <<queue, caller, future, started, stopper, op, durable, crashes>>

\* Mutant: no done() check, so answering a cancelled future kills the consumer.
ResolveUnchecked ==
  /\ pc = "resolve"
  /\ pc' = IF future[op] = "cancelled" THEN "exited" ELSE "get"
  /\ future' = IF future[op] = "pending"
                 THEN [future EXCEPT ![op] = IF op \in failed THEN "error" ELSE "ok"]
                 ELSE future
  /\ UNCHANGED <<queue, caller, started, stopper, op, failed, store, crashes>>

\* A future that is already done is left alone.
Resolve ==
  /\ pc = "resolve" /\ pc' = "get"
  /\ future' = IF future[op] = "pending"
                 THEN [future EXCEPT ![op] = IF op \in failed THEN "error" ELSE "ok"]
                 ELSE future
  /\ UNCHANGED <<queue, caller, started, stopper, op, failed, store, crashes>>

-----------------------------------------------------------------------------
\* The process dies, or leaves after stop(), and a new one takes over with an
\* empty queue; SQLite discards the open transaction.
Crash ==
  /\ crashes < MaxCrashes
  /\ crashes' = crashes + 1
  /\ queue' = <<>> /\ uncommitted' = {}
  /\ future' = [i \in Ops |-> IF future[i] = "pending" THEN "lost" ELSE future[i]]
  /\ started' = FALSE /\ stopper' = "idle"
  /\ pc' = "off" /\ op' = Sentinel
  /\ UNCHANGED <<caller, failed, durable>>

Consume == Get \/ ExecuteOk \/ ExecuteFails \/ CommitOk \/ CommitFails \/ Resolve

Next ==
  \/ Write \/ Enqueue \/ ExecuteScript
  \/ \E i \in Ops : Cancel(i)
  \/ Start \/ Stop \/ StopReturns
  \/ Get \/ ExecuteOk \/ ExecuteFails \/ CommitOk \/ CommitFails \/ Resolve
  \/ Crash

Safe == Init /\ [][Next]_vars

\* The event loop runs a ready coroutine; callers, stop() and crashes owe nothing.
Fairness == WF_vars(Start) /\ WF_vars(StopReturns) /\ WF_vars(Consume)

Spec == Safe /\ Fairness

-----------------------------------------------------------------------------
(* An operation whose write() returned normally has every row on disk, and *)
(* a crash at any later moment does not take them back.                    *)
AckedIsDurable ==
  \A i \in Ops : future[i] = "ok" => RowsOf(i) \subseteq durable

(* Writes take effect in submission order: while an operation is queued,   *)
(* neither it nor any operation submitted later has touched the database.  *)
InOrder ==
  \A i \in Queued, r \in uncommitted \cup durable : r[1] < i

(* Between two operations every one the consumer took is durable in full   *)
(* or was reported as failed, fire-and-forget and cancelled ones too; so a *)
(* transaction left open holds rows of failed operations only.  (A crash   *)
(* loses queued operations, so this is about the first process.)           *)
Taken(i) == i <= submitted /\ i \notin Queued

NothingUnreported ==
  pc = "get" /\ crashes = 0 =>
    \A i \in Ops : Taken(i) => i \in failed \/ RowsOf(i) \subseteq durable

AheadOfStop(i) ==
  /\ pc # "exited"
  /\ \/ pc \in {"execute", "commit", "resolve"} /\ op = i
     \/ \E k \in DOMAIN queue :
          queue[k] = i /\ \A j \in 1..(k - 1) : queue[j] # Sentinel

(* A caller that queued its write before the stop sentinel is answered,    *)
(* and stop() returns: nothing ahead of either can block it, whatever      *)
(* failed or was cancelled before it, unless the process dies.             *)
CallersReturn ==
  /\ \A i \in Ops :
       future[i] = "pending" /\ AheadOfStop(i) ~> future[i] # "pending"
  /\ stopper = "waiting" ~> stopper # "waiting"

(* What writer.py:16-18 and 109-111 say the sentinel rules out: nothing    *)
(* is left behind in the queue once stop() has returned.                   *)
NothingDroppedOnStop == stopper = "returned" => Queued = {}

-----------------------------------------------------------------------------
(* The writer implements the log its callers rely on.                      *)

Live(i) ==
  i \in Queued \/ (i = op /\ pc \in {"execute", "commit"})

LogStatus ==
  [i \in Ops |->
     IF i > submitted THEN "absent"
     ELSE IF i \in failed THEN "failed"
     ELSE IF RowsOf(i) \subseteq durable THEN "committed"
     ELSE IF Live(i) THEN "accepted" ELSE "lost"]

Log == INSTANCE WriteLog WITH status <- LogStatus, deaths <- crashes

ImplementsLog == Log!LogSpec
=============================================================================
