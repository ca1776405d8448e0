-------------------------- MODULE ForgeStreamProofs -------------------------
(***************************************************************************)
(* Proofs about Forge, EventBus and their composition ForgeStream.         *)
(*                                                                         *)
(* Forge, for any finite set of requests, any number of slots and any      *)
(* number of failed writes and crashes: what is reported follows from the  *)
(* point a request has reached (RowOK) and from what each queued operation *)
(* stands for (QueueOK); that a tool was charged for, from the order of    *)
(* the two in the writer's queue (ChargedFirst).                           *)
(*                                                                         *)
(* EventBus, for any number of streams, patterns and events: the handlers  *)
(* of a topic are the streams that cover it, each once, so that a publish  *)
(* puts one task for each of them behind all that is on its way (BusIInv). *)
(* What a stream is owed is a sequence filtered from another, which takes  *)
(* lemmas on Kept; they rest on an induction over sets of numbers.         *)
(*                                                                         *)
(* ForgeStream: the invariants of both, and what ties them (SaidInOrder).  *)
(***************************************************************************)
EXTENDS ForgeStream, FiniteSetTheorems, SequenceTheorems, WellFoundedInduction, TLAPS

-----------------------------------------------------------------------------
(* Forge                                                                   *)

Items(q) == {q[i] : i \in DOMAIN q}

\* No request has two operations of a kind in the queue.
Distinct(q) ==
  \A i, j \in DOMAIN q : q[i].by = q[j].by /\ q[i].kind = q[j].kind => i = j

InBlock == {r \in Requests : InCall(r)}
Waiting == {r \in Requests : pc[r] = "slot"}

SlotsOK ==
  /\ permits \in 0..Slots
  /\ waiters \in Seq(Requests) /\ IsInjective(waiters) /\ ToSet(waiters) = Waiting
  /\ SlotsConserved

\* What a request has done when it is at a point.
RowOK(r) ==
  /\ pc[r] = "new" => events[r] = <<>>
  /\ pc[r] \in Steps \ {"new", "done", "failed"} => events[r] = <<"requested">>
  /\ pc[r] = "done" => events[r] = <<"requested", "completed">>
  /\ pc[r] = "failed" => events[r] = <<"requested", "failed">>
  /\ \/ audits[r] = <<>>
     \/ pc[r] = "done" /\ audits[r] = <<"completed">>
     \/ pc[r] = "failed" /\ audits[r] = <<"failed">>
  /\ pc[r] \in {"new", "context", "slot", "call"} => billed[r] = 0
  /\ pc[r] = "again" => billed[r] = 1
  /\ pc[r] \in {"new", "context", "slot", "call", "again"} => costs[r] = 0
  /\ costs[r] \in {0, 1} /\ (costs[r] = 1 => billed[r] >= 1)
  /\ pc[r] \in {"insert", "inserted", "done"} => r \in files
  /\ pc[r] \in {"inserted", "done"} => tools[r] # NoName
  /\ tools[r] # NoName => pc[r] \in {"inserted", "done", "dead"} /\ (faults = 0 => costs[r] = 1)

\* What a queued operation stands for.
OpOK(op) ==
  /\ op.kind \in {"tool", "cost", "completed", "failed"}
  /\ op.kind = "tool" => pc[op.by] = "insert" /\ op.name \in Names
  /\ op.kind = "cost" =>
       /\ costs[op.by] = 0 /\ billed[op.by] >= 1
       /\ pc[op.by] \in {"insert", "inserted", "unsaved", "done", "failed"}
  /\ op.kind = "completed" => pc[op.by] = "done" /\ audits[op.by] = <<>>
  /\ op.kind = "failed" => pc[op.by] = "failed" /\ audits[op.by] = <<>>

QueueOK == \A op \in Items(queue) : OpOK(op)

\* The cost row of a tool is ahead of the tool, unless it was written already.
Charged(q, row) ==
  \A i \in DOMAIN q : q[i].kind = "tool" =>
    \/ row[q[i].by] = 1
    \/ \E j \in 1..(i - 1) : q[j].kind = "cost" /\ q[j].by = q[i].by

ChargedFirst == faults = 0 => Charged(queue, costs)

IInv ==
  /\ TypeOK /\ SlotsOK
  /\ \A r \in Requests : RowOK(r)
  /\ Distinct(queue) /\ QueueOK /\ ChargedFirst

-----------------------------------------------------------------------------
(* The semaphore                                                           *)

(* The requests in the block are finitely many.                            *)
LEMMA Blocks ==
  ASSUME NEW S, S \subseteq Requests PROVE IsFiniteSet(S) /\ Cardinality(S) \in Nat
BY ForgeAssumption, FS_Subset, FS_CardinalityType DEF ForgeAssumption

(* A step that takes nobody in or out of the block keeps the semaphore.    *)
LEMMA SameSlots ==
  ASSUME SlotsOK, UNCHANGED <<permits, waiters>>, InBlock' = InBlock, Waiting' = Waiting
  PROVE  SlotsOK'
BY DEF SlotsOK, SlotsConserved, InBlock

(* So does acquire(), and it lets r in or has it wait.                     *)
LEMMA AcquireKeeps ==
  ASSUME SlotsOK, pc \in [Requests -> Steps], NEW r \in Requests, pc[r] = "context", Acquire(r)
  PROVE  /\ SlotsOK'
         /\ \E next \in {"slot", "call"} : pc' = [pc EXCEPT ![r] = next]
<1> USE ForgeAssumption DEF ForgeAssumption
<1>1. CASE permits > 0 /\ waiters = <<>>
  <2>1. permits' = permits - 1 /\ pc' = [pc EXCEPT ![r] = "call"] /\ waiters' = waiters
    BY <1>1 DEF Acquire
  <2>2. InBlock' = InBlock \cup {r} /\ r \notin InBlock /\ Waiting' = Waiting
    BY <2>1 DEF InBlock, InCall, Waiting
  <2>3. /\ Cardinality(InBlock) \in Nat /\ IsFiniteSet(InBlock)
        /\ Cardinality(InBlock') = Cardinality(InBlock) + 1
    <3>1. IsFiniteSet(InBlock) /\ Cardinality(InBlock) \in Nat
      BY Blocks DEF InBlock
    <3> QED BY <2>2, <3>1, FS_AddElement
  <2>4. permits \in 0..Slots /\ permits + Cardinality(InBlock) = Slots
    BY DEF SlotsOK, SlotsConserved, InBlock
  <2>5. permits' \in 0..Slots /\ permits' + Cardinality(InBlock') = Slots
    BY <1>1, <2>1, <2>3, <2>4
  <2>6. SlotsOK'
    BY <1>1, <2>1, <2>2, <2>5 DEF SlotsOK, SlotsConserved, InBlock
  <2> QED BY <2>1, <2>6
<1>2. CASE ~(permits > 0 /\ waiters = <<>>)
  <2>1. waiters' = Append(waiters, r) /\ pc' = [pc EXCEPT ![r] = "slot"] /\ permits' = permits
    BY <1>2 DEF Acquire
  <2>2. InBlock' = InBlock /\ Waiting' = Waiting \cup {r} /\ r \notin Waiting
    BY <2>1 DEF InBlock, InCall, Waiting
  <2>3. permits = 0
    BY <1>2 DEF SlotsOK, SlotsConserved
  <2> DEFINE n == Len(waiters)
  <2>4. n \in Nat /\ DOMAIN waiters = 1..n
    BY DEF SlotsOK
  <2>5. /\ waiters' \in Seq(Requests) /\ DOMAIN waiters' = 1..(n + 1)
        /\ waiters'[n + 1] = r /\ \A i \in 1..n : waiters'[i] = waiters[i]
    BY <2>1, <2>4 DEF SlotsOK
  <2> HIDE DEF n
  <2>6. \A i \in 1..n : waiters[i] # r
    BY <2>2, <2>4 DEF SlotsOK, ToSet
  <2>7. \A i \in 1..(n + 1) : i \in 1..n \/ i = n + 1
    BY <2>4
  <2>8. \A i \in 1..n : i \in 1..(n + 1)
    BY <2>4
  <2>9. IsInjective(waiters')
    BY <2>4, <2>5, <2>6, <2>7 DEF IsInjective, SlotsOK
  <2>10. ToSet(waiters') = ToSet(waiters) \cup {r}
    <3>1. n + 1 \in 1..(n + 1)
      BY <2>4
    <3>2. ASSUME NEW x \in ToSet(waiters') PROVE x \in ToSet(waiters) \cup {r}
      BY <2>4, <2>5, <2>7, <3>2 DEF ToSet
    <3>3. ASSUME NEW x \in ToSet(waiters) PROVE x \in ToSet(waiters')
      BY <2>4, <2>5, <2>8, <3>3 DEF ToSet
    <3>4. r \in ToSet(waiters')
      BY <2>5, <3>1 DEF ToSet
    <3> QED BY <3>2, <3>3, <3>4
  <2>11. SlotsOK'
    BY <2>1, <2>2, <2>3, <2>5, <2>9, <2>10 DEF SlotsOK, SlotsConserved, InBlock
  <2> QED BY <2>1, <2>11
<1> QED BY <1>1, <1>2

(* And release(), which lets at most one request in that waited.           *)
LEMMA ReleaseKeeps ==
  ASSUME SlotsOK, pc \in [Requests -> Steps], NEW r \in Requests, InCall(r),
         NEW next \in Steps \ {"slot", "call", "again"}, Release(r, next)
  PROVE  /\ SlotsOK'
         /\ pc' \in [Requests -> Steps] /\ pc'[r] = next
         /\ \A s \in Requests \ {r} :
              pc'[s] = pc[s] \/ (pc[s] = "slot" /\ pc'[s] = "call")
<1> USE ForgeAssumption DEF ForgeAssumption
<1>1. /\ IsFiniteSet(InBlock) /\ Cardinality(InBlock) \in Nat /\ r \in InBlock
      /\ permits \in 0..Slots /\ permits + Cardinality(InBlock) = Slots
  BY Blocks DEF InBlock, SlotsOK, SlotsConserved
<1>2. IsFiniteSet(InBlock \ {r}) /\ Cardinality(InBlock \ {r}) = Cardinality(InBlock) - 1
  BY <1>1, FS_RemoveElement
<1>3. Cardinality(InBlock \ {r}) \in Nat
  BY <1>2, FS_CardinalityType
<1>4. CASE waiters = <<>>
  <2>1. permits' = permits + 1 /\ pc' = [pc EXCEPT ![r] = next] /\ waiters' = waiters
    BY <1>4 DEF Release
  <2>2. InBlock' = InBlock \ {r} /\ Waiting' = Waiting
    BY <2>1 DEF InBlock, InCall, Waiting
  <2>3. permits' \in 0..Slots /\ permits' + Cardinality(InBlock') = Slots
    BY <1>1, <1>2, <1>3, <2>1, <2>2
  <2>4. SlotsOK'
    BY <1>4, <2>1, <2>2, <2>3 DEF SlotsOK, SlotsConserved, InBlock
  <2> QED BY <2>1, <2>4
<1>5. CASE waiters # <<>>
  <2> DEFINE h == Head(waiters)
             q == Tail(waiters)
             n == Len(waiters)
  <2>1. /\ waiters' = q /\ pc' = [pc EXCEPT ![r] = next, ![h] = "call"]
        /\ permits' = permits /\ permits = 0
    BY <1>5 DEF Release, SlotsOK, SlotsConserved
  <2>2. n \in Nat \ {0} /\ DOMAIN waiters = 1..n /\ h = waiters[1] /\ h \in Requests
    BY <1>5 DEF SlotsOK
  <2>3. q \in Seq(Requests) /\ DOMAIN q = 1..(n - 1) /\ \A i \in 1..(n - 1) : q[i] = waiters[i + 1]
    BY <1>5, <2>2 DEF SlotsOK
  <2>4. h \in Waiting
    BY <2>2 DEF SlotsOK, ToSet
  <2> HIDE DEF h, q, n
  <2>5. h # r /\ h \notin InBlock
    BY <2>4 DEF Waiting, InBlock, InCall
  <2>6. InBlock' = (InBlock \ {r}) \cup {h} /\ Waiting' = Waiting \ {h}
    BY <2>1, <2>2, <2>5 DEF InBlock, InCall, Waiting
  <2>7. Cardinality(InBlock') = Cardinality(InBlock)
    <3>1. Cardinality((InBlock \ {r}) \cup {h}) = Cardinality(InBlock \ {r}) + 1
      BY <1>2, <2>5, FS_AddElement
    <3> QED BY <1>1, <1>2, <2>6, <3>1
  <2>8. \A i \in 1..(n - 1) : i + 1 \in 1..n /\ i + 1 # 1
    BY <2>2
  <2>9. \A i \in 1..n : i = 1 \/ (i - 1 \in 1..(n - 1) /\ (i - 1) + 1 = i)
    BY <2>2
  <2>10. IsInjective(q)
    <3> SUFFICES ASSUME NEW i \in 1..(n - 1), NEW j \in 1..(n - 1), q[i] = q[j] PROVE i = j
      BY <2>3 DEF IsInjective
    <3>1. waiters[i + 1] = waiters[j + 1] /\ i + 1 \in DOMAIN waiters /\ j + 1 \in DOMAIN waiters
      BY <2>2, <2>3, <2>8
    <3>2. i + 1 = j + 1
      BY <3>1 DEF SlotsOK, IsInjective
    <3> QED BY <2>2, <3>2
  <2>11. ToSet(q) = ToSet(waiters) \ {h}
    <3>1. ASSUME NEW i \in 1..(n - 1) PROVE q[i] \in ToSet(waiters) \ {h}
      <4>1. q[i] = waiters[i + 1] /\ i + 1 \in DOMAIN waiters /\ 1 \in DOMAIN waiters
        BY <2>2, <2>3, <2>8
      <4>2. waiters[i + 1] # waiters[1]
        BY <2>8, <4>1 DEF SlotsOK, IsInjective
      <4> QED BY <2>2, <4>1, <4>2 DEF ToSet
    <3>2. ASSUME NEW x \in ToSet(waiters) \ {h} PROVE x \in ToSet(q)
      <4>1. PICK i \in 1..n : x = waiters[i]
        BY <2>2, <3>2 DEF ToSet
      <4>2. i - 1 \in 1..(n - 1) /\ (i - 1) + 1 = i
        BY <2>2, <2>9, <4>1
      <4>3. q[i - 1] = x
        BY <2>3, <4>1, <4>2
      <4> QED BY <2>3, <4>2, <4>3 DEF ToSet
    <3> QED BY <2>3, <3>1, <3>2 DEF ToSet
  <2>12. SlotsOK'
    BY <1>1, <2>1, <2>3, <2>6, <2>7, <2>10, <2>11 DEF SlotsOK, SlotsConserved, InBlock
  <2>13. /\ pc' \in [Requests -> Steps] /\ pc'[r] = next
         /\ \A s \in Requests \ {r} : pc'[s] = pc[s] \/ (pc[s] = "slot" /\ pc'[s] = "call")
    BY <2>1, <2>2, <2>4, <2>5 DEF Waiting, Steps
  <2> QED BY <2>12, <2>13
<1> QED BY <1>4, <1>5

-----------------------------------------------------------------------------
(* The queue                                                               *)

(* Putting an operation that none in the queue is alike.                   *)
LEMMA PutOp ==
  ASSUME NEW q \in Seq(Operation), NEW op \in Operation, Distinct(q),
         \A e \in Items(q) : ~(e.by = op.by /\ e.kind = op.kind)
  PROVE  /\ Append(q, op) \in Seq(Operation)
         /\ Distinct(Append(q, op))
         /\ Items(Append(q, op)) = Items(q) \cup {op}
<1> DEFINE p == Append(q, op)
           n == Len(q)
<1>1. n \in Nat /\ DOMAIN q = 1..n
  OBVIOUS
<1>2. /\ p \in Seq(Operation) /\ DOMAIN p = 1..(n + 1)
      /\ p[n + 1] = op /\ \A i \in 1..n : p[i] = q[i]
  BY <1>1
<1> HIDE DEF p, n
<1>3. /\ \A i \in 1..n : i \in 1..(n + 1)
      /\ n + 1 \in 1..(n + 1)
      /\ \A i \in 1..(n + 1) : i \in 1..n \/ i = n + 1
  BY <1>1
<1>4. \A i \in 1..n : ~(q[i].by = op.by /\ q[i].kind = op.kind)
  BY <1>1 DEF Items
<1>5. Distinct(p)
  BY <1>1, <1>2, <1>3, <1>4 DEF Distinct
<1>6. Items(p) = Items(q) \cup {op}
  <2>1. ASSUME NEW e \in Items(p) PROVE e \in Items(q) \cup {op}
    BY <1>1, <1>2, <1>3, <2>1 DEF Items
  <2>2. ASSUME NEW e \in Items(q) PROVE e \in Items(p)
    BY <1>1, <1>2, <1>3, <2>2 DEF Items
  <2>3. op \in Items(p)
    BY <1>2, <1>3 DEF Items
  <2> QED BY <2>1, <2>2, <2>3
<1> QED BY <1>2, <1>5, <1>6 DEF p

(* It leaves the tools charged; a tool needs its cost row in the queue.    *)
LEMMA PutCharged ==
  ASSUME NEW q \in Seq(Operation), NEW op \in Operation, NEW row, Charged(q, row),
         op.kind = "tool" => \E e \in Items(q) : e.kind = "cost" /\ e.by = op.by
  PROVE  Charged(Append(q, op), row)
<1> DEFINE p == Append(q, op)
           n == Len(q)
<1>1. n \in Nat /\ DOMAIN q = 1..n
  OBVIOUS
<1>2. DOMAIN p = 1..(n + 1) /\ p[n + 1] = op /\ \A i \in 1..n : p[i] = q[i]
  BY <1>1
<1> HIDE DEF p, n
<1>3. \A i \in 1..(n + 1) : i \in 1..n \/ i = n + 1
  BY <1>1
<1> SUFFICES ASSUME NEW i \in 1..(n + 1), p[i].kind = "tool", row[p[i].by] # 1
             PROVE  \E j \in 1..(i - 1) : p[j].kind = "cost" /\ p[j].by = p[i].by
  BY <1>2 DEF Charged, p
<1>4. CASE i \in 1..n
  <2>1. PICK j \in 1..(i - 1) : q[j].kind = "cost" /\ q[j].by = q[i].by
    BY <1>1, <1>2, <1>4 DEF Charged
  <2>2. j \in 1..n
    BY <1>1, <1>4
  <2> QED BY <1>2, <1>4, <2>1, <2>2
<1>5. CASE i = n + 1
  <2>1. PICK j \in 1..n : q[j].kind = "cost" /\ q[j].by = op.by
    BY <1>1, <1>2, <1>5 DEF Items
  <2>2. j \in 1..(i - 1)
    BY <1>1, <1>5
  <2> QED BY <1>2, <1>5, <2>1, <2>2
<1> QED BY <1>3, <1>4, <1>5

(* Taking the oldest operation, once what it did to the cost rows is done. *)
LEMMA TakeOp ==
  ASSUME NEW q \in Seq(Operation), q # <<>>, Distinct(q)
  PROVE  /\ Head(q) \in Items(q) /\ Head(q) \in Operation
         /\ Tail(q) \in Seq(Operation)
         /\ Distinct(Tail(q))
         /\ Items(Tail(q)) \subseteq Items(q)
         /\ \A e \in Items(Tail(q)) : ~(e.by = Head(q).by /\ e.kind = Head(q).kind)
<1> DEFINE n == Len(q)
           p == Tail(q)
<1>1. n \in Nat \ {0} /\ DOMAIN q = 1..n
  OBVIOUS
<1>2. Head(q) = q[1] /\ 1 \in 1..n /\ Head(q) \in Operation
  BY <1>1
<1>3. /\ p \in Seq(Operation) /\ DOMAIN p = 1..(n - 1)
      /\ \A i \in 1..(n - 1) : p[i] = q[i + 1]
  BY <1>1
<1> HIDE DEF n, p
<1>4. \A i \in 1..(n - 1) : i + 1 \in 1..n /\ i + 1 # 1
  BY <1>1
<1>5. Items(p) \subseteq Items(q)
  BY <1>1, <1>3, <1>4 DEF Items
<1>6. Distinct(p)
  <2> SUFFICES ASSUME NEW i \in 1..(n - 1), NEW j \in 1..(n - 1),
                      p[i].by = p[j].by, p[i].kind = p[j].kind
               PROVE  i = j
    BY <1>3 DEF Distinct
  <2>1. q[i + 1].by = q[j + 1].by /\ q[i + 1].kind = q[j + 1].kind
    BY <1>3
  <2>2. i + 1 \in DOMAIN q /\ j + 1 \in DOMAIN q
    BY <1>1, <1>4
  <2>3. i + 1 = j + 1
    BY <2>1, <2>2 DEF Distinct
  <2> QED BY <2>3, <1>1
<1>7. \A i \in 1..(n - 1) : ~(p[i].by = q[1].by /\ p[i].kind = q[1].kind)
  BY <1>1, <1>2, <1>3, <1>4 DEF Distinct
<1>8. \A e \in Items(p) : ~(e.by = Head(q).by /\ e.kind = Head(q).kind)
  BY <1>2, <1>3, <1>7 DEF Items
<1> QED BY <1>1, <1>2, <1>3, <1>5, <1>6, <1>8 DEF Items, p

(* It leaves the tools charged, if a cost row it takes is written.         *)
LEMMA TakeCharged ==
  ASSUME NEW q \in Seq(Operation), q # <<>>, NEW row, NEW new, Charged(q, row),
         \A s \in Requests : row[s] = 1 => new[s] = 1,
         Head(q).kind = "cost" => new[Head(q).by] = 1
  PROVE  Charged(Tail(q), new)
<1> DEFINE n == Len(q)
           p == Tail(q)
<1>1. n \in Nat \ {0} /\ DOMAIN q = 1..n /\ Head(q) = q[1]
  OBVIOUS
<1>2. DOMAIN p = 1..(n - 1) /\ \A i \in 1..(n - 1) : p[i] = q[i + 1]
  BY <1>1
<1>3. \A i \in 1..n : q[i].by \in Requests
  <2>1. \A i \in 1..n : q[i] \in Operation
    BY <1>1
  <2> QED BY <2>1 DEF Operation
<1> HIDE DEF n, p
<1> SUFFICES ASSUME NEW i \in 1..(n - 1), p[i].kind = "tool", new[p[i].by] # 1
             PROVE  \E j \in 1..(i - 1) : p[j].kind = "cost" /\ p[j].by = p[i].by
  BY <1>2 DEF Charged, p
<1>4. i + 1 \in 1..n /\ p[i] = q[i + 1]
  BY <1>1, <1>2
<1>5. row[q[i + 1].by] # 1
  BY <1>3, <1>4
<1>6. PICK j \in 1..((i + 1) - 1) : q[j].kind = "cost" /\ q[j].by = q[i + 1].by
  BY <1>1, <1>4, <1>5 DEF Charged
<1>7. j # 1
  BY <1>1, <1>4, <1>6
<1>8. j - 1 \in 1..(i - 1) /\ j - 1 \in 1..(n - 1) /\ (j - 1) + 1 = j
  BY <1>1, <1>6, <1>7
<1> QED BY <1>2, <1>4, <1>6, <1>8

-----------------------------------------------------------------------------
(* A request moves                                                         *)

(* Before its call is answered a request has nothing in the queue, and     *)
(* after the writer has answered it, its cost row at most.                 *)
LEMMA Unqueued ==
  ASSUME IInv, NEW r \in Requests, NEW e \in Items(queue), e.by = r
  PROVE  /\ pc[r] \notin {"new", "context", "slot", "call", "again"}
         /\ pc[r] \in {"inserted", "unsaved"} => e.kind = "cost"
BY DEF IInv, QueueOK, OpOK

(* A step of request r that puts what r did in the queue, and lets no more *)
(* than waiting requests into the block, keeps the invariant.              *)
LEMMA MoveKeeps ==
  ASSUME IInv, NEW r \in Requests,
         SlotsOK', RowOK(r)', pc' \in [Requests -> Steps],
         billed' \in [Requests -> 0..2], events' \in [Requests -> Seq(ForgeTopics)],
         files \subseteq files', files' \subseteq Requests, UNCHANGED db,
         faults' \in faults..MaxFaults,
         queue' \in Seq(Operation), Distinct(queue'),
         \A e \in Items(queue') : (e \in Items(queue) /\ e.by # r) \/ OpOK(e)',
         faults' = 0 => Charged(queue', costs),
         \A s \in Requests \ {r} : billed'[s] = billed[s] /\ events'[s] = events[s],
         \A s \in Requests \ {r} : pc'[s] = pc[s] \/ (pc[s] = "slot" /\ pc'[s] = "call")
  PROVE  IInv'
<1> USE ForgeAssumption DEF ForgeAssumption
<1>1. TypeOK'
  BY DEF IInv, TypeOK, db, SlotsOK, Waiting
<1>2. tools' = tools /\ audits' = audits /\ costs' = costs
  BY DEF db
<1>3. faults' = 0 => faults = 0
  BY DEF IInv, TypeOK
<1>4. ASSUME NEW s \in Requests PROVE RowOK(s)'
  <2>1. CASE s = r
    BY <2>1
  <2>2. CASE s # r
    <3>1. billed'[s] = billed[s] /\ events'[s] = events[s]
      BY <2>2
    <3>2. pc'[s] = pc[s] \/ (pc[s] = "slot" /\ pc'[s] = "call")
      BY <2>2
    <3>3. RowOK(s)
      BY DEF IInv
    <3> QED BY <1>2, <1>3, <3>1, <3>2, <3>3 DEF RowOK, Steps
  <2> QED BY <2>1, <2>2
<1>5. QueueOK'
  <2> SUFFICES ASSUME NEW e \in Items(queue), e.by # r, e.by \in Requests PROVE OpOK(e)'
    <3>1. ASSUME NEW e \in Items(queue') PROVE e.by \in Requests
      <4>1. e \in Operation
        BY DEF Items
      <4> QED BY <4>1 DEF Operation
    <3> QED BY <3>1 DEF QueueOK
  <2>1. OpOK(e)
    BY DEF IInv, QueueOK
  <2>2. pc'[e.by] = pc[e.by] \/ (pc[e.by] = "slot" /\ pc'[e.by] = "call")
    OBVIOUS
  <2>3. billed'[e.by] = billed[e.by]
    OBVIOUS
  <2> QED BY <1>2, <2>1, <2>2, <2>3 DEF OpOK
<1>6. ChargedFirst'
  BY <1>2 DEF ChargedFirst
<1> QED BY <1>1, <1>4, <1>5, <1>6 DEF IInv

(* The outcome is published after the request.                             *)
LEMMA Outcome ==
  ASSUME NEW topic \in ForgeTopics
  PROVE  /\ Append(<<"requested">>, topic) = <<"requested", topic>>
         /\ Append(<<"requested">>, topic) \in Seq(ForgeTopics)
<1>1. "requested" \in ForgeTopics
  BY DEF ForgeTopics
<1>2. <<"requested">> \in Seq(ForgeTopics) /\ <<"requested", topic>> \in Seq(ForgeTopics)
  BY <1>1
<1>3. Len(<<"requested">>) = 1 /\ Len(<<"requested", topic>>) = 2
  OBVIOUS
<1>4. /\ Append(<<"requested">>, topic) \in Seq(ForgeTopics)
      /\ Len(Append(<<"requested">>, topic)) = 2
  BY <1>2, <1>3
<1>5. \A i \in 1..2 : Append(<<"requested">>, topic)[i] = <<"requested", topic>>[i]
  <2>1. \A i \in 1..2 : i = 1 \/ i = 2
    OBVIOUS
  <2>2. /\ Append(<<"requested">>, topic)[1] = "requested"
        /\ Append(<<"requested">>, topic)[2] = topic
    BY <1>2, <1>3
  <2> QED BY <2>1, <2>2
<1> QED BY <1>2, <1>3, <1>4, <1>5, SeqEqual

(* The rows the forge enqueues.                                            *)
LEMMA Rows ==
  ASSUME NEW r \in Requests, NEW topic \in ForgeTopics
  PROVE  /\ AuditRow(topic, r) \in Operation
         /\ AuditRow(topic, r).kind = topic /\ AuditRow(topic, r).by = r
         /\ CostRow(r) \in Operation /\ CostRow(r).kind = "cost" /\ CostRow(r).by = r
BY DEF AuditRow, CostRow, Op, Operation

(* The queue after a request's audit row is put, and the writer has        *)
(* answered it or it never reached the API.                                *)
LEMMA AuditPut ==
  ASSUME IInv, NEW r \in Requests, NEW topic \in {"completed", "failed"},
         pc[r] \in {"context", "inserted", "unsaved"}
  PROVE  /\ Append(queue, AuditRow(topic, r)) \in Seq(Operation)
         /\ Distinct(Append(queue, AuditRow(topic, r)))
         /\ Items(Append(queue, AuditRow(topic, r))) = Items(queue) \cup {AuditRow(topic, r)}
         /\ faults = 0 => Charged(Append(queue, AuditRow(topic, r)), costs)
<1>1. topic \in ForgeTopics
  BY DEF ForgeTopics
<1>2. queue \in Seq(Operation) /\ Distinct(queue)
  BY DEF IInv, TypeOK
<1>3. ASSUME NEW e \in Items(queue) PROVE ~(e.by = r /\ e.kind = topic)
  BY <1>3, Unqueued
<1>4. PICK op \in Operation : op = AuditRow(topic, r) /\ op.by = r /\ op.kind = topic
  BY <1>1, Rows
<1>5. /\ Append(queue, op) \in Seq(Operation) /\ Distinct(Append(queue, op))
      /\ Items(Append(queue, op)) = Items(queue) \cup {op}
  BY <1>2, <1>3, <1>4, PutOp
<1>6. faults = 0 => Charged(Append(queue, op), costs)
  BY <1>2, <1>4, PutCharged DEF IInv, ChargedFirst
<1> QED BY <1>4, <1>5, <1>6

(* And after an answered call put its cost row and what follows it.        *)
LEMMA CallPut ==
  ASSUME IInv, NEW r \in Requests, InCall(r),
         NEW op \in Operation, op.by = r, op.kind # "cost"
  PROVE  /\ queue \o <<CostRow(r), op>> \in Seq(Operation)
         /\ Distinct(queue \o <<CostRow(r), op>>)
         /\ Items(queue \o <<CostRow(r), op>>) = Items(queue) \cup {CostRow(r), op}
         /\ faults = 0 => Charged(queue \o <<CostRow(r), op>>, costs)
<1>1. queue \in Seq(Operation) /\ Distinct(queue)
  BY DEF IInv, TypeOK
<1>2. ASSUME NEW e \in Items(queue) PROVE e.by # r
  BY <1>2, Unqueued DEF InCall
<1>3. PICK c \in Operation : c = CostRow(r) /\ c.by = r /\ c.kind = "cost"
  BY Rows DEF ForgeTopics
<1>4. PICK q \in Seq(Operation) : q = Append(queue, c)
  BY <1>1, <1>2, <1>3, PutOp
<1>5. Distinct(q) /\ Items(q) = Items(queue) \cup {c}
  BY <1>1, <1>2, <1>3, <1>4, PutOp
<1>6. faults = 0 => Charged(q, costs)
  BY <1>1, <1>3, <1>4, PutCharged DEF IInv, ChargedFirst
<1>7. /\ Append(q, op) \in Seq(Operation) /\ Distinct(Append(q, op))
      /\ Items(Append(q, op)) = Items(q) \cup {op}
  BY <1>2, <1>3, <1>5, PutOp
<1>8. faults = 0 => Charged(Append(q, op), costs)
  BY <1>3, <1>5, <1>6, PutCharged
<1>9. queue \o <<CostRow(r), op>> = Append(q, op)
  BY <1>1, <1>3, <1>4
<1> QED BY <1>3, <1>5, <1>7, <1>8, <1>9

(* forge() publishes forge.requested.                                      *)
LEMMA RequestKeeps == ASSUME IInv, NEW r \in Requests, Request(r) PROVE IInv'
<1>1. /\ pc[r] = "new" /\ pc' = [pc EXCEPT ![r] = "context"]
      /\ events' = [events EXCEPT ![r] = Append(@, "requested")]
      /\ UNCHANGED <<permits, waiters, queue, files, billed, faults>> /\ UNCHANGED db
  BY DEF Request, Published
<1>2. TypeOK /\ SlotsOK /\ RowOK(r)
  BY DEF IInv
<1>3. pc' \in [Requests -> Steps] /\ events' \in [Requests -> Seq(ForgeTopics)]
  BY <1>1, <1>2 DEF TypeOK, Steps, ForgeTopics
<1>4. InBlock' = InBlock /\ Waiting' = Waiting
  BY <1>1, <1>2 DEF InBlock, InCall, Waiting, TypeOK
<1>5. SlotsOK'
  BY <1>1, <1>2, <1>4, SameSlots
<1>6. events'[r] = <<"requested">> /\ pc'[r] = "context"
  BY <1>1, <1>2 DEF RowOK, TypeOK
<1>7. RowOK(r)'
  BY <1>1, <1>2, <1>6 DEF RowOK, db, TypeOK
<1>8. \A e \in Items(queue') : e \in Items(queue) /\ e.by # r
  BY <1>1, Unqueued
<1>9. queue' \in Seq(Operation) /\ Distinct(queue') /\ (faults' = 0 => Charged(queue', costs))
  BY <1>1 DEF IInv, TypeOK, ChargedFirst
<1>10. /\ billed' \in [Requests -> 0..2] /\ files \subseteq files' /\ files' \subseteq Requests
       /\ faults' \in faults..MaxFaults
  BY <1>1, <1>2, ForgeAssumption DEF TypeOK, ForgeAssumption
<1>11. \A s \in Requests \ {r} : billed'[s] = billed[s] /\ events'[s] = events[s]
  BY <1>1, <1>2 DEF TypeOK
<1>12. \A s \in Requests \ {r} : pc'[s] = pc[s]
  BY <1>1, <1>2 DEF TypeOK
<1> QED BY <1>1, <1>3, <1>5, <1>7, <1>8, <1>9, <1>10, <1>11, <1>12, MoveKeeps

(* A request that reports its failure or its success without a slot.       *)
LEMMA ReportKeeps ==
  ASSUME IInv, NEW r \in Requests, NEW topic \in {"completed", "failed"},
         pc[r] \in {"context", "inserted", "unsaved"},
         topic = "completed" => pc[r] = "inserted",
         pc' = [pc EXCEPT ![r] = IF topic = "completed" THEN "done" ELSE "failed"],
         topic = "failed" => pc[r] # "inserted",
         events' = Published(r, topic), queue' = Append(queue, AuditRow(topic, r)),
         UNCHANGED <<permits, waiters, files, billed, faults>>, UNCHANGED db
  PROVE  IInv'
<1> DEFINE next == IF topic = "completed" THEN "done" ELSE "failed"
<1>1. /\ pc' = [pc EXCEPT ![r] = next] /\ next \in Steps /\ next \notin {"call", "again", "slot"}
      /\ events' = [events EXCEPT ![r] = Append(@, topic)] /\ topic \in ForgeTopics
  BY DEF Published, Steps, ForgeTopics
<1> HIDE DEF next
<1>2. TypeOK /\ SlotsOK /\ RowOK(r)
  BY DEF IInv
<1>3. pc' \in [Requests -> Steps] /\ events' \in [Requests -> Seq(ForgeTopics)]
  BY <1>1, <1>2 DEF TypeOK
<1>4. InBlock' = InBlock /\ Waiting' = Waiting
  BY <1>1, <1>2 DEF InBlock, InCall, Waiting, TypeOK
<1>5. SlotsOK'
  BY <1>1, <1>2, <1>4, SameSlots
<1>6. /\ events'[r] = <<"requested", topic>> /\ pc'[r] = next
      /\ audits[r] = <<>> /\ audits' = audits /\ costs' = costs /\ tools' = tools
  <2>1. events[r] = <<"requested">> /\ audits[r] = <<>>
    BY <1>2 DEF RowOK, Steps
  <2>2. events'[r] = Append(events[r], topic) /\ pc'[r] = next
    BY <1>1, <1>2 DEF TypeOK
  <2>3. events'[r] = <<"requested", topic>>
    BY <1>1, <2>1, <2>2, Outcome
  <2>4. audits' = audits /\ costs' = costs /\ tools' = tools
    BY DEF db
  <2> QED BY <2>1, <2>2, <2>3, <2>4
<1>7. RowOK(r)'
  BY <1>1, <1>2, <1>6 DEF RowOK, next, TypeOK
<1>8. OpOK(AuditRow(topic, r))'
  <2>1. AuditRow(topic, r).kind = topic /\ AuditRow(topic, r).by = r
    BY <1>1, Rows
  <2> QED BY <1>6, <2>1 DEF OpOK, next
<1>9. ASSUME NEW e \in Items(queue), e.by = r PROVE OpOK(e)'
  <2>1. e.kind = "cost" /\ OpOK(e)
    <3>1. pc[r] # "context" /\ e.kind = "cost"
      BY <1>9, Unqueued
    <3> QED BY <3>1 DEF IInv, QueueOK
  <2> QED BY <1>6, <1>9, <2>1 DEF OpOK, next
<1>10. \A e \in Items(queue') : (e \in Items(queue) /\ e.by # r) \/ OpOK(e)'
  BY <1>8, <1>9, AuditPut
<1>11. queue' \in Seq(Operation) /\ Distinct(queue') /\ (faults' = 0 => Charged(queue', costs))
  BY AuditPut
<1>12. /\ billed' \in [Requests -> 0..2] /\ files \subseteq files' /\ files' \subseteq Requests
       /\ faults' \in faults..MaxFaults
  BY <1>2, ForgeAssumption DEF TypeOK, ForgeAssumption
<1>13. \A s \in Requests \ {r} : billed'[s] = billed[s] /\ events'[s] = events[s]
  BY <1>1, <1>2 DEF TypeOK
<1>14. \A s \in Requests \ {r} : pc'[s] = pc[s]
  BY <1>1, <1>2 DEF TypeOK
<1> QED BY <1>3, <1>5, <1>7, <1>10, <1>11, <1>12, <1>13, <1>14, MoveKeeps

(* forge() without a slot: the search or the prompt fails, the row is      *)
(* there, or it could not be written.                                      *)
LEMMA PlainReportKeeps ==
  ASSUME IInv, NEW r \in Requests, PrepareFails(r) \/ Complete(r) \/ InsertFailed(r)
  PROVE  IInv'
<1>1. CASE PrepareFails(r)
  BY <1>1, ReportKeeps DEF PrepareFails, ReportFailure
<1>2. CASE Complete(r)
  BY <1>2, ReportKeeps DEF Complete
<1>3. CASE InsertFailed(r)
  BY <1>3, ReportKeeps DEF InsertFailed, ReportFailure
<1> QED BY <1>1, <1>2, <1>3

(* submit_llm_task asks for a slot.                                        *)
LEMMA SubmitKeeps == ASSUME IInv, NEW r \in Requests, SubmitCall(r) PROVE IInv'
<1>1. /\ pc[r] = "context" /\ Acquire(r)
      /\ UNCHANGED <<queue, files, billed, events, faults>> /\ UNCHANGED db
  BY DEF SubmitCall
<1>2. TypeOK /\ SlotsOK /\ RowOK(r) /\ pc \in [Requests -> Steps]
  BY DEF IInv, TypeOK
<1>3. SlotsOK' /\ \E next \in {"slot", "call"} : pc' = [pc EXCEPT ![r] = next]
  BY <1>1, <1>2, AcquireKeeps
<1>4. /\ pc' \in [Requests -> Steps] /\ pc'[r] \in {"slot", "call"}
      /\ \A s \in Requests \ {r} : pc'[s] = pc[s]
  BY <1>2, <1>3 DEF Steps
<1>5. RowOK(r)'
  BY <1>1, <1>2, <1>4 DEF RowOK, db, Steps
<1>6. \A e \in Items(queue') : e \in Items(queue) /\ e.by # r
  BY <1>1, Unqueued
<1>7. queue' \in Seq(Operation) /\ Distinct(queue') /\ (faults' = 0 => Charged(queue', costs))
  BY <1>1 DEF IInv, TypeOK, ChargedFirst
<1>8. /\ billed' \in [Requests -> 0..2] /\ files \subseteq files' /\ files' \subseteq Requests
      /\ faults' \in faults..MaxFaults /\ events' \in [Requests -> Seq(ForgeTopics)]
  BY <1>1, <1>2, ForgeAssumption DEF TypeOK, ForgeAssumption
<1>9. \A s \in Requests \ {r} : billed'[s] = billed[s] /\ events'[s] = events[s]
  BY <1>1
<1> QED BY <1>1, <1>3, <1>4, <1>5, <1>6, <1>7, <1>8, <1>9, MoveKeeps

(* structured_complete asks once more.                                     *)
LEMMA InvalidKeeps == ASSUME IInv, NEW r \in Requests, AnswerInvalid(r) PROVE IInv'
<1>1. /\ pc[r] = "call" /\ pc' = [pc EXCEPT ![r] = "again"]
      /\ billed' = [billed EXCEPT ![r] = @ + 1]
      /\ UNCHANGED <<permits, waiters, queue, files, events, faults>> /\ UNCHANGED db
  BY DEF AnswerInvalid
<1>2. TypeOK /\ SlotsOK /\ RowOK(r)
  BY DEF IInv
<1>3. pc' \in [Requests -> Steps] /\ pc'[r] = "again" /\ \A s \in Requests \ {r} : pc'[s] = pc[s]
  BY <1>1, <1>2 DEF TypeOK, Steps
<1>4. /\ billed' \in [Requests -> 0..2] /\ billed'[r] = 1
      /\ \A s \in Requests \ {r} : billed'[s] = billed[s]
  BY <1>1, <1>2 DEF TypeOK, RowOK
<1>5. InBlock' = InBlock /\ Waiting' = Waiting
  BY <1>1, <1>3 DEF InBlock, InCall, Waiting
<1>6. SlotsOK'
  BY <1>1, <1>2, <1>5, SameSlots
<1>7. RowOK(r)'
  BY <1>1, <1>2, <1>3, <1>4 DEF RowOK, db, Steps
<1>8. \A e \in Items(queue') : e \in Items(queue) /\ e.by # r
  BY <1>1, Unqueued
<1>9. queue' \in Seq(Operation) /\ Distinct(queue') /\ (faults' = 0 => Charged(queue', costs))
  BY <1>1 DEF IInv, TypeOK, ChargedFirst
<1>10. /\ files \subseteq files' /\ files' \subseteq Requests
       /\ faults' \in faults..MaxFaults /\ events' \in [Requests -> Seq(ForgeTopics)]
  BY <1>1, <1>2, ForgeAssumption DEF TypeOK, ForgeAssumption
<1> QED BY <1>1, <1>3, <1>4, <1>6, <1>7, <1>8, <1>9, <1>10, MoveKeeps

(* The call fails, after an answer or without one.                         *)
LEMMA CallFailsKeeps == ASSUME IInv, NEW r \in Requests, CallFails(r) PROVE IInv'
<1>1. /\ InCall(r) /\ Release(r, "failed")
      /\ billed' \in {billed, [billed EXCEPT ![r] = @ + 1]}
      /\ events' = Published(r, "failed") /\ queue' = Append(queue, AuditRow("failed", r))
      /\ UNCHANGED <<files, faults>> /\ UNCHANGED db
  BY DEF CallFails, ReportFailure
<1>2. TypeOK /\ SlotsOK /\ RowOK(r) /\ pc \in [Requests -> Steps] /\ "failed" \in ForgeTopics
  BY DEF IInv, TypeOK, ForgeTopics
<1>3. /\ SlotsOK' /\ pc' \in [Requests -> Steps] /\ pc'[r] = "failed"
      /\ \A s \in Requests \ {r} : pc'[s] = pc[s] \/ (pc[s] = "slot" /\ pc'[s] = "call")
  <2>1. "failed" \in Steps \ {"slot", "call", "again"}
    BY DEF Steps
  <2> QED BY <1>1, <1>2, <2>1, ReleaseKeeps
<1>4. /\ billed' \in [Requests -> 0..2]
      /\ \A s \in Requests \ {r} : billed'[s] = billed[s]
  <2>1. billed \in [Requests -> 0..2] /\ billed[r] \in {0, 1}
    BY <1>1, <1>2 DEF TypeOK, RowOK, InCall
  <2>2. CASE billed' = billed
    BY <2>1, <2>2
  <2>3. CASE billed' = [billed EXCEPT ![r] = @ + 1]
    BY <2>1, <2>3
  <2> QED BY <1>1, <2>2, <2>3
<1>5. /\ events' \in [Requests -> Seq(ForgeTopics)] /\ events'[r] = <<"requested", "failed">>
      /\ \A s \in Requests \ {r} : events'[s] = events[s]
  <2>1. events[r] = <<"requested">>
    BY <1>1, <1>2 DEF RowOK, Steps, InCall
  <2>2. events' = [events EXCEPT ![r] = Append(@, "failed")] /\ events \in [Requests -> Seq(ForgeTopics)]
    BY <1>1, <1>2 DEF Published, TypeOK
  <2>3. Append(events[r], "failed") \in Seq(ForgeTopics)
    BY <1>2, <2>1, Outcome
  <2> QED BY <1>2, <2>1, <2>2, <2>3, Outcome
<1>6. audits[r] = <<>> /\ costs[r] = 0 /\ audits' = audits /\ costs' = costs /\ tools' = tools
  BY <1>1, <1>2 DEF RowOK, InCall, db
<1>7. RowOK(r)'
  <2>1. tools[r] = NoName
    BY <1>1, <1>2 DEF RowOK, InCall
  <2> QED BY <1>3, <1>5, <1>6, <2>1 DEF RowOK
<1>8. PICK op \in Operation : op = AuditRow("failed", r) /\ op.kind = "failed" /\ op.by = r
  BY <1>2, Rows
<1>9. OpOK(op)'
  BY <1>3, <1>6, <1>8 DEF OpOK
<1>10. queue \in Seq(Operation) /\ Distinct(queue) /\ \A e \in Items(queue) : e.by # r
  <2>1. \A e \in Items(queue) : e.by # r
    BY <1>1, Unqueued DEF InCall
  <2> QED BY <2>1 DEF IInv, TypeOK
<1>11. /\ queue' \in Seq(Operation) /\ Distinct(queue')
       /\ Items(queue') = Items(queue) \cup {op}
  BY <1>1, <1>8, <1>10, PutOp
<1>12. \A e \in Items(queue') : (e \in Items(queue) /\ e.by # r) \/ OpOK(e)'
  BY <1>9, <1>10, <1>11
<1>13. faults' = 0 => Charged(queue', costs)
  BY <1>1, <1>8, <1>10, PutCharged DEF IInv, ChargedFirst
<1>14. files \subseteq files' /\ files' \subseteq Requests /\ faults' \in faults..MaxFaults
  BY <1>1, <1>2, ForgeAssumption DEF TypeOK, ForgeAssumption
<1> QED BY <1>1, <1>3, <1>4, <1>5, <1>7, <1>11, <1>12, <1>13, <1>14, MoveKeeps

(* The API has answered: the cost row and what follows it are put, and the *)
(* slot is given back.                                                     *)
LEMMA AnsweredKeeps ==
  ASSUME IInv, NEW r \in Requests, InCall(r), NEW next \in {"insert", "failed"}, Release(r, next),
         billed' = [billed EXCEPT ![r] = @ + 1], UNCHANGED db,
         NEW op \in Operation, op.by = r, op.kind = IF next = "insert" THEN "tool" ELSE "failed",
         next = "insert" => op.name \in Names /\ events' = events /\ files' = files \cup {r},
         next = "failed" => events' = Published(r, "failed") /\ files' = files,
         queue' = queue \o <<CostRow(r), op>>, faults' \in faults..MaxFaults
  PROVE  IInv'
<1>1. TypeOK /\ SlotsOK /\ RowOK(r) /\ pc \in [Requests -> Steps]
  BY DEF IInv, TypeOK
<1>2. /\ SlotsOK' /\ pc' \in [Requests -> Steps] /\ pc'[r] = next
      /\ \A s \in Requests \ {r} : pc'[s] = pc[s] \/ (pc[s] = "slot" /\ pc'[s] = "call")
  <2>1. next \in Steps \ {"slot", "call", "again"}
    BY DEF Steps
  <2> QED BY <1>1, <2>1, ReleaseKeeps
<1>3. /\ billed' \in [Requests -> 0..2] /\ billed'[r] >= 1
      /\ \A s \in Requests \ {r} : billed'[s] = billed[s]
  BY <1>1 DEF TypeOK, RowOK, InCall
<1>4. events[r] = <<"requested">> /\ events \in [Requests -> Seq(ForgeTopics)] /\ "failed" \in ForgeTopics
  BY <1>1 DEF RowOK, Steps, InCall, TypeOK, ForgeTopics
<1>5. /\ events' \in [Requests -> Seq(ForgeTopics)]
      /\ events'[r] = IF next = "insert" THEN <<"requested">> ELSE <<"requested", "failed">>
      /\ \A s \in Requests \ {r} : events'[s] = events[s]
  <2>1. CASE next = "insert"
    BY <1>4, <2>1
  <2>2. CASE next = "failed"
    <3>1. events' = [events EXCEPT ![r] = Append(@, "failed")]
      BY <2>2 DEF Published
    <3>2. Append(events[r], "failed") \in Seq(ForgeTopics)
      BY <1>4, Outcome
    <3> QED BY <1>4, <2>2, <3>1, <3>2, Outcome
  <2> QED BY <2>1, <2>2
<1>6. /\ audits[r] = <<>> /\ costs[r] = 0 /\ tools[r] = NoName
      /\ audits' = audits /\ costs' = costs /\ tools' = tools
  BY <1>1 DEF RowOK, InCall, db
<1>7. files \subseteq files' /\ files' \subseteq Requests /\ (next = "insert" => r \in files')
  BY <1>1 DEF TypeOK
<1>8. RowOK(r)'
  BY <1>2, <1>3, <1>5, <1>6, <1>7 DEF RowOK, Steps
<1>9. PICK c \in Operation : c = CostRow(r) /\ c.kind = "cost" /\ c.by = r
  BY Rows DEF ForgeTopics
<1>10. OpOK(c)'
  BY <1>2, <1>3, <1>6, <1>9 DEF OpOK
<1>11. OpOK(op)'
  BY <1>2, <1>6 DEF OpOK
<1>12. op.kind # "cost"
  OBVIOUS
<1>13. /\ queue' \in Seq(Operation) /\ Distinct(queue')
       /\ Items(queue') = Items(queue) \cup {CostRow(r), op}
       /\ faults = 0 => Charged(queue', costs)
  BY <1>12, CallPut
<1>14. \A e \in Items(queue) : e.by # r
  BY Unqueued DEF InCall
<1>15. \A e \in Items(queue') : (e \in Items(queue) /\ e.by # r) \/ OpOK(e)'
  BY <1>9, <1>10, <1>11, <1>13, <1>14
<1>16. faults' = 0 => Charged(queue', costs)
  BY <1>1, <1>13 DEF TypeOK
<1> QED BY <1>2, <1>3, <1>5, <1>7, <1>8, <1>13, <1>15, <1>16, MoveKeeps

(* The script and the row of a valid response; or the script is not saved. *)
LEMMA CallAnswersKeeps ==
  ASSUME IInv, NEW r \in Requests, CallAnswers(r) \/ CallAnswersUnsaved(r)
  PROVE  IInv'
<1>1. faults \in 0..MaxFaults /\ MaxFaults \in Nat
  BY ForgeAssumption DEF ForgeAssumption, IInv, TypeOK
<1>2. CASE CallAnswers(r)
  <2>1. PICK name \in Names : queue' = queue \o <<CostRow(r), Op("tool", r, name)>>
    BY <1>2 DEF CallAnswers
  <2>2. /\ Op("tool", r, name) \in Operation /\ Op("tool", r, name).by = r
        /\ Op("tool", r, name).kind = "tool" /\ Op("tool", r, name).name = name
    BY DEF Op, Operation
  <2>3. /\ InCall(r) /\ Release(r, "insert") /\ billed' = [billed EXCEPT ![r] = @ + 1]
        /\ events' = events /\ files' = files \cup {r} /\ UNCHANGED db /\ faults' \in faults..MaxFaults
    BY <1>1, <1>2 DEF CallAnswers
  <2> QED BY <2>1, <2>2, <2>3, AnsweredKeeps
<1>3. CASE CallAnswersUnsaved(r)
  <2>1. /\ InCall(r) /\ Release(r, "failed") /\ billed' = [billed EXCEPT ![r] = @ + 1]
        /\ events' = Published(r, "failed") /\ files' = files /\ UNCHANGED db
        /\ queue' = queue \o <<CostRow(r), AuditRow("failed", r)>> /\ faults' \in faults..MaxFaults
    BY <1>1, <1>3 DEF CallAnswersUnsaved, Fault
  <2>2. /\ AuditRow("failed", r) \in Operation /\ AuditRow("failed", r).by = r
        /\ AuditRow("failed", r).kind = "failed"
    BY Rows DEF ForgeTopics
  <2> QED BY <2>1, <2>2, AnsweredKeeps
<1> QED BY <1>2, <1>3

-----------------------------------------------------------------------------
(* The writer moves, and the daemon crashes                                *)

(* The oldest operation leaves the queue, its request goes to next if it   *)
(* is the tool, and what is known of the others stays.                     *)
LEMMA WriterKeeps ==
  ASSUME IInv, queue # <<>>, NEW next \in {"inserted", "unsaved"}, Resume(next),
         queue' = Tail(queue), UNCHANGED <<permits, waiters, files, billed, events>>,
         faults' \in faults..MaxFaults,
         tools' \in [Requests -> Names \cup {NoName}], costs' \in [Requests -> Nat],
         audits' \in [Requests -> Seq(ForgeTopics)],
         \A s \in Requests : s # Head(queue).by => tools'[s] = tools[s],
         \A s \in Requests : s # Head(queue).by => costs'[s] = costs[s],
         \A s \in Requests : s # Head(queue).by => audits'[s] = audits[s],
         \A s \in Requests : s = Head(queue).by => RowOK(s)',
         Head(queue).kind # "cost" => costs' = costs,
         Head(queue).kind \notin {"completed", "failed"} => audits' = audits,
         faults' = 0 => (Head(queue).kind = "cost" => costs'[Head(queue).by] = 1)
  PROVE  IInv'
<1> USE ForgeAssumption DEF ForgeAssumption
<1>1. TypeOK /\ SlotsOK /\ queue \in Seq(Operation) /\ Distinct(queue) /\ queue # <<>>
  BY DEF IInv, TypeOK
<1>2. PICK op \in Operation :
        /\ op = Head(queue) /\ op \in Items(queue)
        /\ \A e \in Items(queue') : e \in Items(queue) /\ ~(e.by = op.by /\ e.kind = op.kind)
  BY <1>1, TakeOp
<1>3. queue' \in Seq(Operation) /\ Distinct(queue')
  BY <1>1, TakeOp
<1>4. op.by \in Requests /\ OpOK(op)
  BY <1>2 DEF IInv, QueueOK, Operation
<1>5. pc' = IF op.kind = "tool" THEN [pc EXCEPT ![op.by] = next] ELSE pc
  BY <1>2 DEF Resume
<1>6. /\ pc \in [Requests -> Steps] /\ pc' \in [Requests -> Steps]
      /\ \A s \in Requests : s # op.by => pc'[s] = pc[s]
      /\ op.kind # "tool" => pc'[op.by] = pc[op.by]
      /\ op.kind = "tool" => pc[op.by] = "insert" /\ pc'[op.by] = next
  BY <1>1, <1>4, <1>5 DEF TypeOK, Steps, OpOK
<1>7. InBlock' = InBlock /\ Waiting' = Waiting
  BY <1>6 DEF InBlock, InCall, Waiting
<1>8. SlotsOK'
  BY <1>1, <1>7, SameSlots
<1>9. TypeOK'
  BY <1>1, <1>3, <1>6, <1>8 DEF TypeOK, SlotsOK, Waiting
<1>10. ASSUME NEW s \in Requests PROVE RowOK(s)'
  <2>1. CASE s = op.by
    BY <1>2, <2>1
  <2>2. CASE s # op.by
    <3>1. /\ pc'[s] = pc[s] /\ tools'[s] = tools[s] /\ costs'[s] = costs[s]
          /\ audits'[s] = audits[s]
      BY <1>2, <1>6, <2>2
    <3>2. RowOK(s) /\ (faults' = 0 => faults = 0)
      BY <1>1 DEF IInv, TypeOK
    <3> QED BY <3>1, <3>2 DEF RowOK
  <2> QED BY <2>1, <2>2
<1>11. ASSUME NEW e \in Items(queue') PROVE OpOK(e)'
  <2>1. OpOK(e) /\ e.by \in Requests
    <3>1. e \in Items(queue) /\ e \in Operation
      BY <1>2, <1>3 DEF Items
    <3> QED BY <3>1 DEF IInv, QueueOK, Operation
  <2>2. CASE e.by # op.by
    BY <1>2, <1>6, <2>1, <2>2 DEF OpOK
  <2>3. CASE e.by = op.by
    <3>1. e.kind # op.kind
      BY <1>2, <2>3
    <3>2. e.kind = "cost" => costs' = costs
      BY <1>2, <3>1
    <3>3. e.kind \in {"completed", "failed"} => audits' = audits
      BY <1>2, <1>4, <2>1, <2>3, <3>1 DEF OpOK
    <3> QED BY <1>4, <1>6, <2>1, <2>3, <3>1, <3>2, <3>3 DEF OpOK
  <2> QED BY <2>2, <2>3
<1>12. ChargedFirst'
  <2> SUFFICES ASSUME faults' = 0 PROVE Charged(queue', costs')
    BY DEF ChargedFirst
  <2>1. Charged(queue, costs)
    BY <1>1 DEF IInv, ChargedFirst, TypeOK
  <2>2. \A s \in Requests : costs[s] = 1 => costs'[s] = 1
    BY <1>2, <1>4 DEF OpOK
  <2>3. Head(queue).kind = "cost" => costs'[Head(queue).by] = 1
    OBVIOUS
  <2>4. PICK q, row, new : q = queue /\ row = costs /\ new = costs'
    OBVIOUS
  <2>5. q \in Seq(Operation) /\ q # <<>> /\ Charged(q, row)
    BY <1>1, <2>1, <2>4
  <2>6. \A s \in Requests : row[s] = 1 => new[s] = 1
    BY <2>2, <2>4
  <2>7. Head(q).kind = "cost" => new[Head(q).by] = 1
    BY <2>3, <2>4
  <2>8. Charged(Tail(q), new)
    BY ONLY <2>5, <2>6, <2>7, TakeCharged
  <2> QED BY <2>4, <2>8
<1> QED BY <1>8, <1>9, <1>3, <1>10, <1>11, <1>12 DEF IInv, QueueOK

(* What the head of the queue stands for.                                  *)
LEMMA HeadOK ==
  ASSUME IInv, queue # <<>>
  PROVE  \E op \in Operation : op = Head(queue) /\ op.by \in Requests /\ OpOK(op) /\ RowOK(op.by)
<1>1. queue \in Seq(Operation) /\ Distinct(queue)
  BY DEF IInv, TypeOK
<1>2. PICK op \in Operation : op = Head(queue) /\ op \in Items(queue)
  BY <1>1, TakeOp
<1>3. op.by \in Requests
  BY <1>2 DEF Operation
<1> QED BY <1>2, <1>3 DEF IInv, QueueOK

(* The operation takes effect.                                             *)
LEMMA ApplyKeeps == ASSUME IInv, Apply PROVE IInv'
<1>1. PICK op \in Operation : op = Head(queue) /\ op.by \in Requests /\ OpOK(op) /\ RowOK(op.by)
  BY HeadOK DEF Apply
<1>2. /\ tools' = IF op.kind = "tool" THEN [tools EXCEPT ![op.by] = op.name] ELSE tools
      /\ costs' = IF op.kind = "cost" THEN [costs EXCEPT ![op.by] = @ + 1] ELSE costs
      /\ audits' = IF op.kind \in ForgeTopics
                     THEN [audits EXCEPT ![op.by] = Append(@, op.kind)] ELSE audits
      /\ queue # <<>> /\ queue' = Tail(queue) /\ Resume("inserted")
      /\ UNCHANGED <<permits, waiters, files, billed, events, faults>>
  BY <1>1 DEF Apply
<1>3. /\ tools \in [Requests -> Names \cup {NoName}] /\ costs \in [Requests -> Nat]
      /\ audits \in [Requests -> Seq(ForgeTopics)] /\ pc \in [Requests -> Steps]
      /\ faults \in 0..MaxFaults /\ queue \in Seq(Operation) /\ MaxFaults \in Nat
      /\ NoName \notin Names
  BY ForgeAssumption DEF ForgeAssumption, IInv, TypeOK
<1>4. op.kind \in {"tool", "cost", "completed", "failed"} /\ op.kind # "requested"
  BY <1>1 DEF OpOK
<1>5. pc' = IF op.kind = "tool" THEN [pc EXCEPT ![op.by] = "inserted"] ELSE pc
  BY <1>1, <1>2 DEF Resume
<1>6. CASE op.kind = "tool"
  <2>1. /\ pc[op.by] = "insert" /\ op.name \in Names /\ costs' = costs /\ audits' = audits
        /\ tools' = [tools EXCEPT ![op.by] = op.name] /\ pc'[op.by] = "inserted"
    BY <1>1, <1>2, <1>3, <1>5, <1>6 DEF OpOK, ForgeTopics
  <2>2. faults = 0 => costs[op.by] = 1
    <3> SUFFICES ASSUME faults = 0 PROVE costs[op.by] = 1
      OBVIOUS
    <3>1. Charged(queue, costs)
      BY DEF IInv, ChargedFirst
    <3>2. 1 \in DOMAIN queue /\ queue[1] = op
      BY <1>1, <1>2, <1>3
    <3>3. \A j \in 1..(1 - 1) : FALSE
      OBVIOUS
    <3> QED BY <1>6, <3>1, <3>2, <3>3 DEF Charged
  <2>3. \A s \in Requests : s = op.by => RowOK(s)'
    <3>1. tools'[op.by] # NoName
      BY <1>1, <1>3, <2>1
    <3>2. billed' = billed /\ events' = events /\ files' = files /\ faults' = faults
      BY <1>2
    <3> QED BY <1>1, <2>1, <2>2, <3>1, <3>2 DEF RowOK, Steps
  <2>4. /\ tools' \in [Requests -> Names \cup {NoName}]
        /\ \A s \in Requests : s # op.by => tools'[s] = tools[s]
    BY <1>1, <1>3, <2>1
  <2> QED BY <1>1, <1>2, <1>3, <1>6, <2>1, <2>3, <2>4, WriterKeeps
<1>7. CASE op.kind = "cost"
  <2>1. /\ costs[op.by] = 0 /\ billed[op.by] >= 1 /\ tools' = tools /\ audits' = audits /\ pc' = pc
        /\ costs' = [costs EXCEPT ![op.by] = @ + 1]
        /\ pc[op.by] \in {"insert", "inserted", "unsaved", "done", "failed"}
    BY <1>1, <1>2, <1>5, <1>7 DEF OpOK, ForgeTopics
  <2>2. /\ costs' \in [Requests -> Nat] /\ costs'[op.by] = 1
        /\ \A s \in Requests : s # op.by => costs'[s] = costs[s]
    BY <1>1, <1>3, <2>1
  <2>3. \A s \in Requests : s = op.by => RowOK(s)'
    <3>1. billed' = billed /\ events' = events /\ files' = files /\ faults' = faults
      BY <1>2
    <3> QED BY <1>1, <2>1, <2>2, <3>1 DEF RowOK
  <2> QED BY <1>1, <1>2, <1>3, <1>7, <2>1, <2>2, <2>3, WriterKeeps
<1>8. CASE op.kind \in {"completed", "failed"}
  <2>1. /\ audits[op.by] = <<>> /\ tools' = tools /\ costs' = costs /\ pc' = pc
        /\ audits' = [audits EXCEPT ![op.by] = Append(@, op.kind)] /\ op.kind \in ForgeTopics
        /\ pc[op.by] = IF op.kind = "completed" THEN "done" ELSE "failed"
    BY <1>1, <1>2, <1>5, <1>8 DEF OpOK, ForgeTopics
  <2>2. Append(<<>>, op.kind) = <<op.kind>> /\ <<op.kind>> \in Seq(ForgeTopics)
    BY <2>1
  <2>3. /\ audits' \in [Requests -> Seq(ForgeTopics)] /\ audits'[op.by] = <<op.kind>>
        /\ \A s \in Requests : s # op.by => audits'[s] = audits[s]
    BY <1>1, <1>3, <2>1, <2>2
  <2>4. \A s \in Requests : s = op.by => RowOK(s)'
    <3>1. billed' = billed /\ events' = events /\ files' = files /\ faults' = faults
      BY <1>2
    <3> QED BY <1>1, <1>8, <2>1, <2>3, <3>1 DEF RowOK
  <2> QED BY <1>1, <1>2, <1>3, <1>8, <2>1, <2>3, <2>4, WriterKeeps
<1> QED BY <1>4, <1>6, <1>7, <1>8

(* The operation fails.                                                    *)
LEMMA ApplyFailsKeeps == ASSUME IInv, ApplyFails PROVE IInv'
<1>1. PICK op \in Operation : op = Head(queue) /\ op.by \in Requests /\ OpOK(op) /\ RowOK(op.by)
  BY HeadOK DEF ApplyFails
<1>2. /\ queue # <<>> /\ queue' = Tail(queue) /\ Resume("unsaved")
      /\ (op.kind = "tool" /\ faults' = faults) \/ (faults < MaxFaults /\ faults' = faults + 1)
      /\ UNCHANGED <<permits, waiters, files, billed, events>> /\ UNCHANGED <<tools, audits, costs>>
  BY <1>1 DEF ApplyFails, Clash, Fault, db
<1>3. /\ tools \in [Requests -> Names \cup {NoName}] /\ costs \in [Requests -> Nat]
      /\ audits \in [Requests -> Seq(ForgeTopics)] /\ pc \in [Requests -> Steps]
      /\ faults \in 0..MaxFaults /\ MaxFaults \in Nat
  BY ForgeAssumption DEF ForgeAssumption, IInv, TypeOK
<1>4. pc' = IF op.kind = "tool" THEN [pc EXCEPT ![op.by] = "unsaved"] ELSE pc
  BY <1>1, <1>2 DEF Resume
<1>5. faults' \in faults..MaxFaults /\ (faults' = 0 => faults = 0 /\ op.kind = "tool")
  BY <1>2, <1>3
<1>6. \A s \in Requests : s = op.by => RowOK(s)'
  <2>1. CASE op.kind = "tool"
    <3>1. pc[op.by] = "insert" /\ tools[op.by] = NoName /\ pc'[op.by] = "unsaved"
      BY <1>1, <1>3, <1>4, <2>1 DEF OpOK, RowOK
    <3> QED BY <1>1, <1>2, <3>1 DEF RowOK, Steps
  <2>2. CASE op.kind # "tool"
    BY <1>1, <1>2, <1>4, <1>5, <2>2 DEF RowOK
  <2> QED BY <2>1, <2>2
<1> QED BY <1>1, <1>2, <1>3, <1>5, <1>6, WriterKeeps

(* The process is killed: the queue is lost and every request ends.        *)
LEMMA CrashKeeps == ASSUME IInv, Crash PROVE IInv'
<1> USE ForgeAssumption DEF ForgeAssumption
<1>1. TypeOK /\ faults < MaxFaults /\ faults' = faults + 1
  BY DEF IInv, Crash, Fault
<1>2. /\ pc' = [r \in Requests |->
               IF pc[r] \in {"new", "done", "failed"} THEN pc[r] ELSE "dead"]
      /\ permits' = Slots /\ waiters' = <<>> /\ queue' = <<>>
      /\ UNCHANGED <<tools, audits, costs, files, billed, events>>
  BY DEF Crash, db
<1>3. /\ pc' \in [Requests -> Steps]
      /\ \A r \in Requests : pc'[r] \in {"new", "done", "failed", "dead"}
  BY <1>1, <1>2 DEF TypeOK, Steps
<1>4. InBlock' = {} /\ Waiting' = {}
  BY <1>3 DEF InBlock, InCall, Waiting
<1>5. SlotsOK'
  <2>1. Cardinality(InBlock') = 0
    BY <1>4, FS_EmptySet
  <2>2. permits' \in 0..Slots /\ permits' + Cardinality(InBlock') = Slots
    BY <1>2, <2>1
  <2>3. waiters' \in Seq(Requests) /\ IsInjective(waiters') /\ ToSet(waiters') = Waiting'
    BY <1>2, <1>4 DEF IsInjective, ToSet
  <2> QED BY <1>2, <2>2, <2>3 DEF SlotsOK, SlotsConserved, InBlock
<1>6. Items(queue') = {} /\ DOMAIN queue' = {} /\ queue' \in Seq(Operation)
  BY <1>2 DEF Items
<1>7. TypeOK'
  BY <1>1, <1>2, <1>3, <1>5, <1>6 DEF TypeOK, SlotsOK, Waiting
<1>8. ASSUME NEW r \in Requests PROVE RowOK(r)'
  <2>1. RowOK(r) /\ faults' # 0 /\ pc[r] \in Steps
    BY <1>1 DEF IInv, TypeOK
  <2>2. pc'[r] = IF pc[r] \in {"new", "done", "failed"} THEN pc[r] ELSE "dead"
    BY <1>2
  <2> QED BY <1>2, <2>1, <2>2 DEF RowOK, Steps
<1> QED BY <1>1, <1>5, <1>6, <1>7, <1>8 DEF IInv, QueueOK, Distinct, ChargedFirst, TypeOK

-----------------------------------------------------------------------------
(* The theorems                                                            *)

(* The service starts with no request, every slot free and nothing made.   *)
LEMMA InitIInv == Init => IInv
<1> SUFFICES ASSUME Init PROVE IInv
  OBVIOUS
<1> USE ForgeAssumption DEF ForgeAssumption, Init
<1>1. InBlock = {} /\ Waiting = {}
  BY DEF InBlock, InCall, Waiting
<1>2. permits + Cardinality(InBlock) = Slots /\ permits \in 0..Slots
  BY <1>1, FS_EmptySet
<1>3. waiters \in Seq(Requests) /\ IsInjective(waiters) /\ ToSet(waiters) = Waiting
  BY <1>1 DEF IsInjective, ToSet
<1>4. SlotsOK
  BY <1>2, <1>3 DEF SlotsOK, SlotsConserved, InBlock
<1>5. Items(queue) = {} /\ DOMAIN queue = {} /\ queue \in Seq(Operation)
  BY DEF Items
<1>6. TypeOK
  BY <1>3, <1>5 DEF TypeOK, Steps, Waiting
<1>7. ASSUME NEW r \in Requests PROVE RowOK(r)
  BY DEF RowOK, Steps
<1> QED BY <1>4, <1>5, <1>6, <1>7 DEF IInv, QueueOK, Distinct, ChargedFirst, Charged

(* Every step of a request, of the writer and of a crash keeps it.         *)
LEMMA StepKeeps == IInv /\ [Next]_vars => IInv'
<1> SUFFICES ASSUME IInv, [Next]_vars PROVE IInv'
  OBVIOUS
<1>1. ASSUME NEW r \in Requests, Request(r) \/ Advance(r) PROVE IInv'
  <2>1. CASE Request(r)
    BY <2>1, RequestKeeps
  <2>2. CASE PrepareFails(r) \/ Complete(r) \/ InsertFailed(r)
    BY <2>2, PlainReportKeeps
  <2>3. CASE SubmitCall(r)
    BY <2>3, SubmitKeeps
  <2>4. CASE AnswerInvalid(r)
    BY <2>4, InvalidKeeps
  <2>5. CASE CallFails(r)
    BY <2>5, CallFailsKeeps
  <2>6. CASE CallAnswers(r) \/ CallAnswersUnsaved(r)
    BY <2>6, CallAnswersKeeps
  <2> QED BY <1>1, <2>1, <2>2, <2>3, <2>4, <2>5, <2>6 DEF Advance
<1>2. CASE Apply
  BY <1>2, ApplyKeeps
<1>3. CASE ApplyFails
  BY <1>3, ApplyFailsKeeps
<1>4. CASE Crash
  BY <1>4, CrashKeeps
<1>5. CASE UNCHANGED vars
  <2>1. UNCHANGED <<pc, permits, waiters, queue, tools, files, audits, costs, billed, events, faults>>
    BY <1>5 DEF vars
  <2> QED BY <2>1 DEF IInv, TypeOK, SlotsOK, SlotsConserved, Waiting, InCall, RowOK, QueueOK, OpOK,
                      ChargedFirst
<1> QED BY <1>1, <1>2, <1>3, <1>4, <1>5 DEF Next, ForgeStep

(* What is reported as forged is in the quarantine, with its script, and   *)
(* event, audit row and answer agree: it follows from the invariant.       *)
LEMMA Reported == IInv => ReportedIsQuarantined
<1> SUFFICES ASSUME IInv, NEW r \in Requests
             PROVE  /\ pc[r] = "done" \/ Contains(events[r], "completed") \/ Contains(audits[r], "completed")
                         => tools[r] # NoName /\ r \in files
                    /\ events[r] \in {<<>>, <<"requested">>,
                                      <<"requested", "completed">>, <<"requested", "failed">>}
                    /\ audits[r] \in {<<>>} \cup {<<t>> : t \in ToSet(events[r]) \ {"requested"}}
                    /\ pc[r] = "failed" => Contains(events[r], "failed")
  BY DEF ReportedIsQuarantined
<1>1. RowOK(r) /\ pc[r] \in Steps
  BY DEF IInv, TypeOK
<1>2. /\ ~Contains(<<>>, "completed") /\ ~Contains(<<"requested">>, "completed")
      /\ ~Contains(<<"requested", "failed">>, "completed") /\ ~Contains(<<"failed">>, "completed")
      /\ Contains(<<"requested", "failed">>, "failed")
  BY DEF Contains
<1>3. /\ "completed" \in ToSet(<<"requested", "completed">>)
      /\ "failed" \in ToSet(<<"requested", "failed">>)
  BY DEF ToSet
<1>4. /\ pc[r] = "new" => events[r] = <<>>
      /\ pc[r] \notin {"new", "done", "failed"} => events[r] = <<"requested">>
      /\ pc[r] = "done" => events[r] = <<"requested", "completed">>
      /\ pc[r] = "failed" => events[r] = <<"requested", "failed">>
  BY <1>1 DEF RowOK
<1>5. \/ audits[r] = <<>>
      \/ pc[r] = "done" /\ audits[r] = <<"completed">>
      \/ pc[r] = "failed" /\ audits[r] = <<"failed">>
  BY <1>1 DEF RowOK
<1>6. pc[r] = "done" => tools[r] # NoName /\ r \in files
  BY <1>1 DEF RowOK
<1>7. CASE pc[r] = "done"
  BY <1>3, <1>4, <1>5, <1>6, <1>7
<1>8. CASE pc[r] = "failed"
  BY <1>2, <1>3, <1>4, <1>5, <1>8
<1>9. CASE pc[r] \notin {"done", "failed"}
  BY <1>2, <1>4, <1>5, <1>9
<1> QED BY <1>7, <1>8, <1>9

(* And so in the next state.                                               *)
LEMMA ReportedNext == IInv' => ReportedIsQuarantined'
BY Reported, PTL

(* The invariant holds in every reachable state.                           *)
THEOREM Inductive == Spec => []IInv
<1> QED BY InitIInv, StepKeeps, PTL DEF Spec

(* Every variable keeps its type, and the waiters are the requests that    *)
(* wait, once each (core/tasks.py:37-39).                                  *)
THEOREM TypeCorrect == Spec => []TypeOK
<1>1. IInv => TypeOK
  BY DEF IInv
<1> QED BY <1>1, Inductive, PTL

(* No permit is lost or made up, whatever way a request leaves the block,  *)
(* and nobody waits while one is free (core/tasks.py:37-39).               *)
THEOREM SlotsAreConserved == Spec => []SlotsConserved
<1>1. IInv => SlotsConserved
  BY DEF IInv, SlotsOK
<1> QED BY <1>1, Inductive, PTL

(* What is reported as forged is in the quarantine, with its script, and   *)
(* event, audit row and answer agree (synthesis/forge.py:79-153).          *)
THEOREM ReportedToolsExist == Spec => []ReportedIsQuarantined
BY Reported, Inductive, PTL

(* No more is charged for a forge than the API answered, however its calls *)
(* end, and a quarantined tool was charged unless that write failed        *)
(* (synthesis/forge.py:110-122).                                           *)
THEOREM AnswersAreCharged == Spec => []ChargedForAnswers
<1>1. ASSUME IInv, NEW r \in Requests
      PROVE  costs[r] <= billed[r] /\ (tools[r] # NoName /\ faults = 0 => costs[r] >= 1)
  <2>1. /\ billed[r] \in 0..2 /\ costs[r] \in {0, 1} /\ (costs[r] = 1 => billed[r] >= 1)
        /\ tools[r] # NoName => (faults = 0 => costs[r] = 1)
    BY <1>1 DEF IInv, RowOK, TypeOK
  <2> QED BY <2>1
<1>2. IInv => ChargedForAnswers
  BY <1>1 DEF ChargedForAnswers
<1> QED BY <1>2, Inductive, PTL

-----------------------------------------------------------------------------
(* Induction and recursion                                                 *)

(* A set that has 0 and the successor of each of its numbers has them all. *)
LEMMA SetInduction ==
  ASSUME NEW S, 0 \in S, \A n \in Nat : n \in S => n + 1 \in S
  PROVE  Nat \subseteq S
<1> SUFFICES ASSUME Nat \ S # {} PROVE FALSE
  OBVIOUS
<1>1. PICK m \in Nat \ S : \A x \in Nat \ S : ~(<<x, m>> \in OpToRel(<, Nat))
  BY NatLessThanWellFounded, WFMin
<1>2. m \in Nat /\ m # 0
  OBVIOUS
<1>3. m - 1 \in Nat /\ m - 1 < m /\ (m - 1) + 1 = m
  BY <1>2
<1>4. m - 1 \in S
  BY <1>1, <1>2, <1>3 DEF OpToRel
<1> QED BY <1>3, <1>4

-----------------------------------------------------------------------------
(* Kept                                                                    *)

\* f[i] is what is kept of the first i elements, for i up to n.
Keeps(f, n, A, q, S) ==
  /\ f \in [0..n -> Seq(A)] /\ f[0] = <<>>
  /\ \A i \in 1..n : q[i] \in S => f[i] = Append(f[i - 1], q[i])
  /\ \A i \in 1..n : q[i] \notin S => f[i] = f[i - 1]

(* What is kept of the first n elements extends to the next one.           *)
LEMMA KeepsMore ==
  ASSUME NEW A, NEW q \in Seq(A), NEW S, NEW n \in Nat, n + 1 <= Len(q),
         NEW f, Keeps(f, n, A, q, S)
  PROVE  \E g : Keeps(g, n + 1, A, q, S)
<1> DEFINE e == q[n + 1]
           new == IF e \in S THEN Append(f[n], e) ELSE f[n]
           g == [i \in 0..(n + 1) |-> IF i = n + 1 THEN new ELSE f[i]]
<1>1. e \in A /\ f[n] \in Seq(A) /\ f[0] = <<>> /\ f \in [0..n -> Seq(A)]
  BY DEF Keeps
<1>2. new \in Seq(A)
  BY <1>1
<1>3. (e \in S => new = Append(f[n], e)) /\ (e \notin S => new = f[n])
  OBVIOUS
<1> HIDE DEF new
<1>4. g \in [0..(n + 1) -> Seq(A)] /\ g[n + 1] = new /\ \A i \in 0..n : g[i] = f[i]
  BY <1>1, <1>2
<1> HIDE DEF g
<1>5. g[0] = <<>>
  BY <1>1, <1>4
<1>6. ASSUME NEW i \in 1..(n + 1)
      PROVE  (q[i] \in S => g[i] = Append(g[i - 1], q[i])) /\ (q[i] \notin S => g[i] = g[i - 1])
  <2>1. CASE i = n + 1
    <3>1. i - 1 = n /\ n \in 0..n
      BY <2>1
    <3>2. g[i] = new /\ g[i - 1] = f[n] /\ q[i] = e
      BY <2>1, <3>1, <1>4
    <3> HIDE DEF e
    <3> QED BY <3>2, <1>3
  <2>2. CASE i # n + 1
    <3>1. i \in 1..n /\ i \in 0..n /\ i - 1 \in 0..n
      BY <2>2
    <3>2. g[i] = f[i] /\ g[i - 1] = f[i - 1]
      BY <3>1, <1>4
    <3> QED BY <3>1, <3>2 DEF Keeps
  <2> QED BY <2>1, <2>2
<1>7. Keeps(g, n + 1, A, q, S)
  BY <1>4, <1>5, <1>6 DEF Keeps
<1> QED BY <1>7

(* The recursion that defines Kept has a solution.                         *)
LEMMA KeepsExists ==
  ASSUME NEW A, NEW q \in Seq(A), NEW S
  PROVE  \E f : Keeps(f, Len(q), A, q, S)
<1> DEFINE N == {n \in Nat : n <= Len(q) => \E f : Keeps(f, n, A, q, S)}
<1>1. 0 \in N
  <2> DEFINE f == [i \in 0..0 |-> <<>>]
  <2>1. f \in [0..0 -> Seq(A)] /\ f[0] = <<>>
    OBVIOUS
  <2> HIDE DEF f
  <2>2. Keeps(f, 0, A, q, S)
    BY <2>1 DEF Keeps
  <2> QED BY <2>2
<1>2. ASSUME NEW n \in Nat, n \in N PROVE n + 1 \in N
  <2>1. ASSUME n + 1 <= Len(q) PROVE \E f : Keeps(f, n + 1, A, q, S)
    <3>1. n <= Len(q)
      BY <2>1
    <3>2. PICK f : Keeps(f, n, A, q, S)
      BY <1>2, <3>1
    <3> QED BY <2>1, <3>2, KeepsMore
  <2> QED BY <2>1
<1> HIDE DEF N
<1>3. Nat \subseteq N
  BY <1>1, <1>2, SetInduction
<1>4. Len(q) \in Nat /\ Len(q) \in N /\ Len(q) <= Len(q)
  BY <1>3
<1> QED BY <1>4 DEF N

(* And Kept is the last value of that solution.                            *)
LEMMA KeptIsLast ==
  ASSUME NEW A, NEW q \in Seq(A), NEW S, NEW f, Keeps(f, Len(q), A, q, S)
  PROVE  Kept(q, S) = f[Len(q)]
<1> DEFINE D == 0..Len(q)
           Body(h, i) == IF i = 0 THEN <<>>
                         ELSE IF q[i] \in S THEN Append(h[i - 1], q[i]) ELSE h[i - 1]
           kept == CHOOSE h : h = [i \in D |-> Body(h, i)]
<1>1. f = [i \in D |-> Body(f, i)]
  <2>1. f = [i \in D |-> f[i]]
    BY DEF Keeps
  <2>2. ASSUME NEW i \in D PROVE f[i] = Body(f, i)
    <3>1. CASE i = 0
      BY <3>1 DEF Keeps
    <3>2. CASE i # 0
      <4>1. i \in 1..Len(q)
        BY <3>2
      <4> QED BY <3>2, <4>1 DEF Keeps
    <3> QED BY <3>1, <3>2
  <2> HIDE DEF Body
  <2> QED BY <2>1, <2>2
<1>2. kept = [i \in D |-> Body(kept, i)]
  <2> HIDE DEF Body
  <2> QED BY <1>1
<1>3. Kept(q, S) = kept[Len(q)]
  BY DEF Kept
<1> HIDE DEF kept
<1>4. \A i \in D : f[i] = Body(f, i) /\ kept[i] = Body(kept, i)
  <2> HIDE DEF Body
  <2> QED BY <1>1, <1>2
<1> DEFINE N == {n \in Nat : n <= Len(q) => kept[n] = f[n]}
<1>5. 0 \in N
  BY <1>4
<1>6. ASSUME NEW n \in Nat, n \in N PROVE n + 1 \in N
  <2>1. ASSUME n + 1 <= Len(q) PROVE kept[n + 1] = f[n + 1]
    <3>1. n + 1 \in D /\ n + 1 # 0 /\ (n + 1) - 1 = n /\ kept[n] = f[n]
      BY <1>6, <2>1
    <3>2. Body(kept, n + 1) = Body(f, n + 1)
      BY <3>1
    <3> HIDE DEF Body
    <3> QED BY <1>4, <3>1, <3>2
  <2> QED BY <2>1
<1> HIDE DEF N
<1>7. Nat \subseteq N
  BY <1>5, <1>6, SetInduction
<1>8. Len(q) \in Nat /\ Len(q) \in N /\ Len(q) <= Len(q)
  BY <1>7
<1> QED BY <1>3, <1>8 DEF N

(* Appending to a concatenation.                                           *)
LEMMA AppendToTwo ==
  ASSUME NEW A, NEW p \in Seq(A), NEW q \in Seq(A), NEW e \in A
  PROVE  p \o Append(q, e) = Append(p \o q, e)
<1>1. Append(q, e) = q \o <<e>> /\ Append(p \o q, e) = (p \o q) \o <<e>>
  BY AppendIsConcat, ConcatProperties
<1>2. <<e>> \in Seq(A)
  OBVIOUS
<1> QED BY <1>1, <1>2, ConcatAssociative

(* The elements of a sequence, of an extended one and of two in a row.     *)
LEMMA ElementsOf ==
  ASSUME NEW A, NEW q \in Seq(A)
  PROVE  /\ ToSet(q) = {q[i] : i \in 1..Len(q)} /\ ToSet(q) \subseteq A
         /\ q = <<>> <=> ToSet(q) = {}
         /\ \A e \in A : ToSet(Append(q, e)) = ToSet(q) \cup {e}
<1>1. DOMAIN q = 1..Len(q) /\ Len(q) \in Nat /\ \A i \in 1..Len(q) : q[i] \in A
  OBVIOUS
<1>2. ToSet(q) = {q[i] : i \in 1..Len(q)}
  BY <1>1 DEF ToSet
<1>3. q = <<>> <=> ToSet(q) = {}
  <2>1. ASSUME q # <<>> PROVE 1 \in 1..Len(q)
    BY <2>1, EmptySeq
  <2>2. ASSUME q = <<>> PROVE 1..Len(q) = {}
    BY <2>2
  <2> QED BY <1>2, <2>1, <2>2
<1>4. ASSUME NEW e \in A PROVE ToSet(Append(q, e)) = ToSet(q) \cup {e}
  <2>1. /\ Append(q, e) \in Seq(A) /\ Len(Append(q, e)) = Len(q) + 1
        /\ \A i \in 1..Len(q) : Append(q, e)[i] = q[i]
        /\ Append(q, e)[Len(q) + 1] = e
    BY AppendProperties
  <2> DEFINE r == Append(q, e)
  <2>2. DOMAIN r = 1..(Len(q) + 1)
    BY <2>1
  <2> HIDE DEF r
  <2>3. 1..(Len(q) + 1) = (1..Len(q)) \cup {Len(q) + 1}
    BY <1>1
  <2>4. ToSet(r) = {r[i] : i \in 1..Len(q)} \cup {r[Len(q) + 1]}
    BY <2>2, <2>3 DEF ToSet
  <2>5. {r[i] : i \in 1..Len(q)} = {q[i] : i \in 1..Len(q)} /\ r[Len(q) + 1] = e
    BY <2>1 DEF r
  <2> QED BY <1>2, <2>4, <2>5 DEF r
<1> QED BY <1>1, <1>2, <1>3, <1>4

(* The elements of two sequences in a row.                                 *)
LEMMA TwoInARow ==
  ASSUME NEW A, NEW p \in Seq(A), NEW q \in Seq(A), NEW m, NEW n, m = Len(p), n = Len(q)
  PROVE  /\ m \in Nat /\ n \in Nat /\ p \o q \in Seq(A) /\ Len(p \o q) = m + n
         /\ \A i \in 1..m : (p \o q)[i] = p[i]
         /\ \A i \in (m + 1)..(m + n) : (p \o q)[i] = q[i - m]
  OBVIOUS

(* What is kept of two sequences in a row.                                 *)
LEMMA KeptOfTwo ==
  ASSUME NEW A, NEW p \in Seq(A), NEW q \in Seq(A), NEW S
  PROVE  Kept(p \o q, S) = Kept(p, S) \o Kept(q, S)
<1> DEFINE m == Len(p)
           n == Len(q)
<1>1. PICK f : Keeps(f, m, A, p, S)
  BY KeepsExists
<1>2. PICK g : Keeps(g, n, A, q, S)
  BY KeepsExists
<1>3. Kept(p, S) = f[m] /\ Kept(q, S) = g[n]
  BY <1>1, <1>2, KeptIsLast
<1>4. /\ m \in Nat /\ n \in Nat /\ p \o q \in Seq(A) /\ Len(p \o q) = m + n
      /\ \A i \in 1..m : (p \o q)[i] = p[i]
      /\ \A i \in (m + 1)..(m + n) : (p \o q)[i] = q[i - m]
  OBVIOUS
<1>5. /\ f \in [0..m -> Seq(A)] /\ f[0] = <<>> /\ f[m] \in Seq(A)
      /\ g \in [0..n -> Seq(A)] /\ g[0] = <<>> /\ g[n] \in Seq(A)
  BY <1>1, <1>2, <1>4 DEF Keeps
<1> DEFINE pq == p \o q
           h == [i \in 0..(m + n) |-> IF i <= m THEN f[i] ELSE f[m] \o g[i - m]]
<1> HIDE DEF m, n, pq
<1>6. ASSUME NEW i \in 0..(m + n) PROVE h[i] \in Seq(A)
  <2>1. CASE i <= m
    <3>1. i \in 0..m
      BY <1>4, <2>1
    <3> QED BY <2>1, <3>1, <1>5
  <2>2. CASE ~(i <= m)
    <3>1. i - m \in 0..n
      BY <1>4, <2>2
    <3>2. g[i - m] \in Seq(A)
      BY <3>1, <1>5
    <3> QED BY <2>2, <3>2, <1>5
  <2> QED BY <2>1, <2>2
<1>7. /\ h \in [0..(m + n) -> Seq(A)]
      /\ \A i \in 0..m : h[i] = f[i]
      /\ \A i \in (m + 1)..(m + n) : h[i] = f[m] \o g[i - m]
  <2>1. \A i \in 0..m : i \in 0..(m + n) /\ i <= m
    BY <1>4
  <2>2. \A i \in (m + 1)..(m + n) : i \in 0..(m + n) /\ ~(i <= m)
    BY <1>4
  <2>3. h \in [0..(m + n) -> Seq(A)]
    BY <1>6
  <2> QED BY <2>1, <2>2, <2>3
<1> HIDE DEF h
<1>8. h[0] = <<>>
  BY <1>4, <1>5, <1>7
<1>9. ASSUME NEW i \in 1..(m + n)
      PROVE  /\ pq[i] \in S => h[i] = Append(h[i - 1], pq[i])
             /\ pq[i] \notin S => h[i] = h[i - 1]
  <2>1. CASE i <= m
    <3>1. i \in 1..m /\ i \in 0..m /\ i - 1 \in 0..m
      BY <1>4, <2>1
    <3>2. h[i] = f[i] /\ h[i - 1] = f[i - 1] /\ pq[i] = p[i]
      BY <1>4, <1>7, <3>1 DEF pq
    <3> QED BY <1>1, <3>1, <3>2 DEF Keeps
  <2>2. CASE i > m
    <3>1. i \in (m + 1)..(m + n) /\ i - m \in 1..n /\ i - m - 1 \in 0..n
      BY <1>4, <2>2
    <3>2. h[i] = f[m] \o g[i - m] /\ pq[i] = q[i - m]
      BY <1>4, <1>7, <3>1 DEF pq
    <3>3. h[i - 1] = f[m] \o g[i - m - 1]
      <4>1. CASE i - 1 = m
        <5>1. i - m - 1 = 0 /\ m \in 0..m
          BY <1>4, <4>1
        <5>2. h[i - 1] = f[m] /\ g[i - m - 1] = <<>>
          BY <1>5, <1>7, <4>1, <5>1
        <5> QED BY <1>5, <5>2
      <4>2. CASE i - 1 # m
        <5>1. i - 1 \in (m + 1)..(m + n) /\ (i - 1) - m = i - m - 1
          BY <1>4, <3>1, <4>2
        <5> QED BY <1>7, <5>1
      <4> QED BY <4>1, <4>2
    <3>4. g[i - m - 1] \in Seq(A) /\ q[i - m] \in A
      <4>1. g[i - m - 1] \in Seq(A)
        BY <1>5, <3>1
      <4>2. q[i - m] \in A
        BY <3>1 DEF n
      <4> QED BY <4>1, <4>2
    <3>5. CASE pq[i] \in S
      <4>1. g[i - m] = Append(g[i - m - 1], q[i - m])
        BY <1>2, <3>1, <3>2, <3>5 DEF Keeps
      <4>2. h[i] = f[m] \o Append(g[i - m - 1], q[i - m])
        BY <3>2, <4>1
      <4>3. f[m] \o Append(g[i - m - 1], q[i - m]) = Append(f[m] \o g[i - m - 1], q[i - m])
        <5> DEFINE a == f[m]
                   b == g[i - m - 1]
                   e == q[i - m]
        <5>1. a \in Seq(A) /\ b \in Seq(A) /\ e \in A
          BY <1>5, <3>4
        <5> HIDE DEF a, b, e
        <5>2. a \o Append(b, e) = Append(a \o b, e)
          BY <5>1, AppendToTwo
        <5> QED BY <5>2 DEF a, b, e
      <4> QED BY <3>2, <3>3, <3>5, <4>2, <4>3
    <3>6. CASE pq[i] \notin S
      <4>1. g[i - m] = g[i - m - 1]
        BY <1>2, <3>1, <3>2, <3>6 DEF Keeps
      <4> QED BY <3>2, <3>3, <3>6, <4>1
    <3> QED BY <3>5, <3>6
  <2> QED BY <1>4, <2>1, <2>2
<1>10. Keeps(h, Len(pq), A, pq, S)
  BY <1>4, <1>7, <1>8, <1>9 DEF Keeps, pq
<1>11. pq \in Seq(A) /\ Len(pq) = m + n
  BY <1>4 DEF pq
<1>12. Kept(pq, S) = h[m + n]
  BY <1>10, <1>11, KeptIsLast
<1>13. h[m + n] = f[m] \o g[n]
  <2>1. CASE n = 0
    <3>1. m + n = m /\ m \in 0..m
      BY <1>4, <2>1
    <3>2. f[m] \o g[n] = f[m]
      BY <1>5, <2>1
    <3> QED BY <1>7, <3>1, <3>2
  <2>2. CASE n # 0
    <3>1. m + n \in (m + 1)..(m + n) /\ (m + n) - m = n
      BY <1>4, <2>2
    <3> QED BY <1>7, <3>1
  <2> QED BY <2>1, <2>2
<1> QED BY <1>3, <1>12, <1>13 DEF pq

(* What is kept of one element.                                            *)
LEMMA KeptOfOne ==
  ASSUME NEW A, NEW e \in A, NEW S
  PROVE  Kept(<<e>>, S) = IF e \in S THEN <<e>> ELSE <<>>
<1> DEFINE q == <<e>>
<1>1. q \in Seq(A) /\ Len(q) = 1 /\ q[1] = e
  OBVIOUS
<1> HIDE DEF q
<1>2. PICK f : Keeps(f, 1, A, q, S)
  BY <1>1, KeepsExists
<1>3. Kept(q, S) = f[1]
  BY <1>1, <1>2, KeptIsLast
<1>4. f[0] = <<>> /\ 1 \in 1..1 /\ 1 - 1 = 0
  BY <1>2 DEF Keeps
<1>5. CASE e \in S
  <2>1. f[1] = Append(<<>>, e)
    BY <1>1, <1>2, <1>4, <1>5 DEF Keeps
  <2> QED BY <1>3, <1>5, <2>1 DEF q
<1>6. CASE e \notin S
  <2>1. f[1] = <<>>
    BY <1>1, <1>2, <1>4, <1>6 DEF Keeps
  <2> QED BY <1>3, <1>6, <2>1 DEF q
<1> QED BY <1>5, <1>6

(* What is kept is the elements in S, and each as often as before: a       *)
(* sequence without repetition stays one.                                  *)
LEMMA KeptElements ==
  ASSUME NEW A, NEW q \in Seq(A), NEW S
  PROVE  /\ Kept(q, S) \in Seq(A)
         /\ ToSet(Kept(q, S)) = ToSet(q) \cap S
         /\ IsInjective(q) => IsInjective(Kept(q, S))
<1>1. PICK f : Keeps(f, Len(q), A, q, S)
  BY KeepsExists
<1>2. Kept(q, S) = f[Len(q)]
  BY <1>1, KeptIsLast
<1> DEFINE Good(n) == /\ f[n] \in Seq(A)
                      /\ ToSet(f[n]) = {q[i] : i \in 1..n} \cap S
                      /\ IsInjective(q) => IsInjective(f[n])
           N == {n \in Nat : n <= Len(q) => Good(n)}
<1>3. 0 \in N
  <2>1. f[0] = <<>>
    BY <1>1 DEF Keeps
  <2>2. ToSet(<<>>) = {} /\ IsInjective(<<>>) /\ 1..0 = {}
    BY DEF ToSet, IsInjective
  <2>3. {q[i] : i \in 1..0} = {}
    BY <2>2
  <2>4. Good(0)
    BY <2>1, <2>2, <2>3
  <2> QED BY <2>4
<1>4. ASSUME NEW n \in Nat, n \in N PROVE n + 1 \in N
  <2>1. ASSUME n + 1 <= Len(q) PROVE Good(n + 1)
    <3>1. n <= Len(q) /\ n + 1 \in 1..Len(q) /\ (n + 1) - 1 = n
      BY <2>1
    <3>2. Good(n)
      BY <1>4, <3>1
    <3>3. q[n + 1] \in A
      BY <3>1
    <3>4. {q[i] : i \in 1..(n + 1)} = {q[i] : i \in 1..n} \cup {q[n + 1]}
      <4>1. 1..(n + 1) = (1..n) \cup {n + 1}
        OBVIOUS
      <4> QED BY <4>1
    <3>5. CASE q[n + 1] \in S
      <4>1. f[n + 1] = Append(f[n], q[n + 1])
        BY <1>1, <3>1, <3>5 DEF Keeps
      <4>2. f[n + 1] \in Seq(A)
        BY <3>2, <3>3, <4>1
      <4>3. ToSet(f[n + 1]) = ToSet(f[n]) \cup {q[n + 1]}
        BY <3>2, <3>3, <4>1, ElementsOf
      <4>4. ToSet(f[n + 1]) = {q[i] : i \in 1..(n + 1)} \cap S
        BY <3>2, <3>4, <3>5, <4>3
      <4>5. ASSUME IsInjective(q) PROVE IsInjective(f[n + 1])
        <5>1. q[n + 1] \notin ToSet(f[n])
          <6>1. \A i \in 1..n : i \in DOMAIN q /\ n + 1 \in DOMAIN q /\ i # n + 1
            BY <3>1
          <6>2. q[n + 1] \notin {q[i] : i \in 1..n}
            BY <4>5, <6>1 DEF IsInjective
          <6> QED BY <3>2, <6>2
        <5>2. IsInjective(f[n])
          BY <3>2, <4>5
        <5> QED BY <3>2, <3>3, <4>1, <5>1, <5>2 DEF IsInjective, ToSet
      <4> QED BY <4>2, <4>4, <4>5
    <3>6. CASE q[n + 1] \notin S
      <4>1. f[n + 1] = f[n]
        BY <1>1, <3>1, <3>6 DEF Keeps
      <4> QED BY <3>2, <3>4, <3>6, <4>1
    <3> QED BY <3>5, <3>6
  <2> HIDE DEF Good
  <2> QED BY <2>1
<1> HIDE DEF N
<1>5. Nat \subseteq N
  BY <1>3, <1>4, SetInduction
<1>6. Len(q) \in Nat /\ Len(q) \in N /\ Len(q) <= Len(q)
  BY <1>5
<1>7. Good(Len(q))
  BY <1>6 DEF N
<1>8. ToSet(q) = {q[i] : i \in 1..Len(q)}
  BY DEF ToSet
<1> QED BY <1>2, <1>7, <1>8

(* One element kept of a sequence without repetition, or none.             *)
LEMMA KeptAlone ==
  ASSUME NEW A, NEW q \in Seq(A), NEW S, IsInjective(q)
  PROVE  /\ ToSet(q) \cap S = {} => Kept(q, S) = <<>>
         /\ \A x : ToSet(q) \cap S = {x} => Kept(q, S) = <<x>>
<1> DEFINE k == Kept(q, S)
<1>1. k \in Seq(A) /\ ToSet(k) = ToSet(q) \cap S /\ IsInjective(k)
  BY KeptElements
<1> HIDE DEF k
<1>2. ASSUME ToSet(k) = {} PROVE k = <<>>
  BY <1>1, <1>2, ElementsOf
<1>3. ASSUME NEW x, ToSet(k) = {x} PROVE k = <<x>>
  <2>1. \A i \in 1..Len(k) : k[i] = x
    <3>1. {k[i] : i \in 1..Len(k)} = {x}
      BY <1>1, <1>3, ElementsOf
    <3> QED BY <3>1
  <2>2. k # <<>>
    BY <1>1, <1>3, ElementsOf
  <2>3. Len(k) \in Nat /\ Len(k) # 0
    BY <1>1, <2>2
  <2>4. ~(2 <= Len(k))
    <3> SUFFICES ASSUME 2 <= Len(k) PROVE FALSE
      OBVIOUS
    <3>1. 1 \in 1..Len(k) /\ 2 \in 1..Len(k) /\ 1 # 2 /\ DOMAIN k = 1..Len(k)
      BY <1>1
    <3>2. k[1] = x /\ k[2] = x
      BY <2>1, <3>1
    <3> QED BY <1>1, <3>1, <3>2 DEF IsInjective
  <2>5. \A n \in Nat : n # 0 /\ ~(2 <= n) => n = 1
    OBVIOUS
  <2>6. Len(k) = 1
    BY <2>3, <2>4, <2>5
  <2> QED BY <1>1, <2>1, <2>6
<1> QED BY <1>1, <1>2, <1>3 DEF k

-----------------------------------------------------------------------------
(* Sequences without repetition, and the numbers of the events of tasks     *)

(* Two of them in a row are one when they have no element in common.       *)
LEMMA InjectiveTwo ==
  ASSUME NEW A, NEW p \in Seq(A), NEW q \in Seq(A)
  PROVE  /\ p \o q \in Seq(A)
         /\ ToSet(p \o q) = ToSet(p) \cup ToSet(q)
         /\ IsInjective(p) /\ IsInjective(q) /\ ToSet(p) \cap ToSet(q) = {} => IsInjective(p \o q)
<1> DEFINE m == Len(p)
           n == Len(q)
           r == p \o q
<1>1. /\ m \in Nat /\ n \in Nat /\ r \in Seq(A) /\ Len(r) = m + n
      /\ \A i \in 1..m : r[i] = p[i]
      /\ \A i \in (m + 1)..(m + n) : r[i] = q[i - m]
      /\ DOMAIN p = 1..m /\ DOMAIN q = 1..n
  OBVIOUS
<1>2. DOMAIN r = 1..(m + n)
  BY <1>1
<1> HIDE DEF r, m, n
<1>3. ToSet(r) \subseteq ToSet(p) \cup ToSet(q)
  <2> SUFFICES ASSUME NEW i \in 1..(m + n) PROVE r[i] \in ToSet(p) \cup ToSet(q)
    BY <1>2 DEF ToSet
  <2>1. CASE i <= m
    <3>1. i \in 1..m
      BY <1>1, <2>1
    <3> QED BY <1>1, <3>1 DEF ToSet
  <2>2. CASE i > m
    <3>1. i \in (m + 1)..(m + n) /\ i - m \in 1..n
      BY <1>1, <2>2
    <3> QED BY <1>1, <3>1 DEF ToSet
  <2> QED BY <1>1, <2>1, <2>2
<1>4. ToSet(p) \subseteq ToSet(r)
  <2> SUFFICES ASSUME NEW i \in 1..m PROVE p[i] \in ToSet(r)
    BY <1>1 DEF ToSet
  <2>1. i \in 1..(m + n) /\ r[i] = p[i]
    BY <1>1
  <2> QED BY <1>2, <2>1 DEF ToSet
<1>5. ToSet(q) \subseteq ToSet(r)
  <2> SUFFICES ASSUME NEW i \in 1..n PROVE q[i] \in ToSet(r)
    BY <1>1 DEF ToSet
  <2>1. i + m \in (m + 1)..(m + n) /\ (i + m) - m = i /\ i + m \in 1..(m + n)
    BY <1>1
  <2>2. r[i + m] = q[i]
    BY <1>1, <2>1
  <2> QED BY <1>2, <2>1, <2>2 DEF ToSet
<1>6. ASSUME IsInjective(p), IsInjective(q), ToSet(p) \cap ToSet(q) = {}
      PROVE  IsInjective(r)
  <2> SUFFICES ASSUME NEW i \in 1..(m + n), NEW j \in 1..(m + n), r[i] = r[j]
               PROVE  i = j
    BY <1>2 DEF IsInjective
  <2>1. ASSUME NEW k \in 1..(m + n)
        PROVE  \/ k \in 1..m /\ r[k] = p[k] /\ r[k] \in ToSet(p)
               \/ k - m \in 1..n /\ r[k] = q[k - m] /\ r[k] \in ToSet(q)
    <3>1. CASE k <= m
      <4>1. k \in 1..m
        BY <1>1, <3>1
      <4> QED BY <1>1, <4>1 DEF ToSet
    <3>2. CASE k > m
      <4>1. k \in (m + 1)..(m + n) /\ k - m \in 1..n
        BY <1>1, <3>2
      <4> QED BY <1>1, <4>1 DEF ToSet
    <3> QED BY <1>1, <3>1, <3>2
  <2>2. CASE i \in 1..m /\ r[i] = p[i] /\ j \in 1..m /\ r[j] = p[j]
    BY <1>1, <1>6, <2>2 DEF IsInjective
  <2>3. CASE i - m \in 1..n /\ r[i] = q[i - m] /\ j - m \in 1..n /\ r[j] = q[j - m]
    <3>1. i - m = j - m
      BY <1>1, <1>6, <2>3 DEF IsInjective
    <3> QED BY <1>1, <3>1
  <2> QED BY <1>6, <2>1, <2>2, <2>3
<1> QED BY <1>1, <1>3, <1>4, <1>5, <1>6 DEF r

(* The head is one element, and it is not in the tail.                     *)
LEMMA HeadAndTail ==
  ASSUME NEW A, NEW q \in Seq(A), q # <<>>
  PROVE  /\ Head(q) \in A /\ Tail(q) \in Seq(A) /\ q = <<Head(q)>> \o Tail(q)
         /\ ToSet(q) = {Head(q)} \cup ToSet(Tail(q))
         /\ IsInjective(q) => IsInjective(Tail(q)) /\ Head(q) \notin ToSet(Tail(q))
<1> DEFINE t == Tail(q)
           h == Head(q)
<1>1. /\ Len(q) \in Nat /\ Len(q) >= 1 /\ h \in A /\ t \in Seq(A)
      /\ h = q[1] /\ Len(t) = Len(q) - 1
      /\ \A i \in 1..(Len(q) - 1) : t[i] = q[i + 1]
  BY EmptySeq, HeadTailProperties
<1>2. DOMAIN q = 1..Len(q) /\ DOMAIN t = 1..(Len(q) - 1)
  BY <1>1
<1>3. q = <<h>> \o t
  <2> DEFINE n == Len(q)
             r == <<h>> \o t
  <2>1. /\ r \in Seq(A) /\ Len(r) = 1 + Len(t)
        /\ r[1] = h /\ \A i \in 2..(1 + Len(t)) : r[i] = t[i - 1]
    BY <1>1
  <2>2. ASSUME NEW i \in 1..n PROVE q[i] = r[i]
    <3>1. CASE i = 1
      BY <1>1, <2>1, <3>1
    <3>2. CASE i # 1
      <4>1. i \in 2..(1 + Len(t)) /\ i - 1 \in 1..(n - 1) /\ (i - 1) + 1 = i
        BY <1>1, <3>2
      <4> HIDE DEF t, h, r
      <4> QED BY <1>1, <2>1, <4>1
    <3> QED BY <3>1, <3>2
  <2>3. Len(r) = Len(q)
    BY <1>1, <2>1
  <2> HIDE DEF r
  <2> QED BY <2>1, <2>2, <2>3, SeqEqual DEF r
<1> HIDE DEF t, h
<1>4. ToSet(q) = {h} \cup ToSet(t)
  <2>1. ASSUME NEW i \in 1..Len(q) PROVE q[i] \in {h} \cup ToSet(t)
    <3>1. CASE i = 1
      BY <1>1, <3>1
    <3>2. CASE i # 1
      <4>1. i - 1 \in 1..(Len(q) - 1) /\ (i - 1) + 1 = i
        BY <1>1, <3>2
      <4> QED BY <1>1, <1>2, <4>1 DEF ToSet
    <3> QED BY <3>1, <3>2
  <2>2. ASSUME NEW i \in 1..(Len(q) - 1) PROVE t[i] \in ToSet(q)
    <3>1. i + 1 \in 1..Len(q)
      BY <1>1
    <3> QED BY <1>1, <1>2, <3>1 DEF ToSet
  <2>3. h \in ToSet(q)
    <3>1. 1 \in 1..Len(q)
      BY <1>1
    <3> QED BY <1>1, <1>2, <3>1 DEF ToSet
  <2>4. ToSet(q) \subseteq {h} \cup ToSet(t)
    BY <1>2, <2>1 DEF ToSet
  <2>5. ToSet(t) \subseteq ToSet(q)
    BY <1>2, <2>2 DEF ToSet
  <2> QED BY <2>3, <2>4, <2>5
<1>5. ASSUME IsInjective(q) PROVE IsInjective(t) /\ h \notin ToSet(t)
  <2>1. ASSUME NEW i \in 1..(Len(q) - 1), NEW j \in 1..(Len(q) - 1), t[i] = t[j] PROVE i = j
    <3>1. i + 1 \in 1..Len(q) /\ j + 1 \in 1..Len(q)
      BY <1>1
    <3>2. q[i + 1] = q[j + 1]
      BY <1>1, <2>1
    <3>3. i + 1 = j + 1
      BY <1>2, <1>5, <3>1, <3>2 DEF IsInjective
    <3> QED BY <3>3
  <2>2. ASSUME NEW i \in 1..(Len(q) - 1), t[i] = h PROVE FALSE
    <3>1. i + 1 \in 1..Len(q) /\ 1 \in 1..Len(q) /\ i + 1 # 1
      BY <1>1
    <3>2. q[i + 1] = q[1]
      BY <1>1, <2>2
    <3> QED BY <1>2, <1>5, <3>1, <3>2 DEF IsInjective
  <2>3. IsInjective(t)
    BY <1>2, <2>1 DEF IsInjective
  <2> QED BY <1>2, <2>2, <2>3 DEF ToSet
<1> QED BY <1>1, <1>3, <1>4, <1>5 DEF t, h

(* The numbers of no task, of one and of two sequences in a row.           *)
LEMMA EventsOfTasks ==
  ASSUME NEW p \in Seq(Task), NEW q \in Seq(Task)
  PROVE  /\ EventsOf(p) \in Seq(1..MaxEvents)
         /\ EventsOf(<<>>) = <<>>
         /\ \A task \in Task : EventsOf(<<task>>) = <<task.event>>
         /\ EventsOf(p \o q) = EventsOf(p) \o EventsOf(q)
<1> DEFINE E == 1..MaxEvents
<1>1. \A task \in Task : task.event \in E
  BY DEF Task
<1> HIDE DEF E
<1>2. ASSUME NEW a \in Seq(Task)
      PROVE  /\ EventsOf(a) \in Seq(E) /\ Len(EventsOf(a)) = Len(a)
             /\ \A i \in 1..Len(a) : EventsOf(a)[i] = a[i].event
  <2>1. DOMAIN a = 1..Len(a) /\ Len(a) \in Nat /\ \A i \in 1..Len(a) : a[i] \in Task
    OBVIOUS
  <2>2. EventsOf(a) = [i \in 1..Len(a) |-> a[i].event]
    BY <2>1 DEF EventsOf
  <2>3. \A i \in 1..Len(a) : a[i].event \in E
    BY <1>1, <2>1
  <2> QED BY <2>1, <2>2, <2>3
<1>3. EventsOf(<<>>) = <<>>
  BY DEF EventsOf
<1>4. ASSUME NEW task \in Task PROVE EventsOf(<<task>>) = <<task.event>>
  BY DEF EventsOf
<1>5. EventsOf(p \o q) = EventsOf(p) \o EventsOf(q)
  <2> DEFINE m == Len(p)
             n == Len(q)
             r == p \o q
             l == EventsOf(r)
             k == EventsOf(p) \o EventsOf(q)
  <2>1. /\ m \in Nat /\ n \in Nat /\ r \in Seq(Task) /\ Len(r) = m + n
        /\ \A i \in 1..m : r[i] = p[i]
        /\ \A i \in (m + 1)..(m + n) : r[i] = q[i - m]
    OBVIOUS
  <2>2. /\ EventsOf(p) \in Seq(E) /\ Len(EventsOf(p)) = m
        /\ EventsOf(q) \in Seq(E) /\ Len(EventsOf(q)) = n
    BY <1>2
  <2>3. /\ k \in Seq(E) /\ Len(k) = m + n
        /\ \A i \in 1..m : k[i] = EventsOf(p)[i]
        /\ \A i \in (m + 1)..(m + n) : k[i] = EventsOf(q)[i - m]
    <3> DEFINE a == EventsOf(p)
               b == EventsOf(q)
    <3> HIDE DEF a, b, m, n
    <3>1. a \in Seq(E) /\ b \in Seq(E) /\ Len(a) = m /\ Len(b) = n
      BY <2>2 DEF a, b
    <3>2. /\ a \o b \in Seq(E) /\ Len(a \o b) = m + n
          /\ \A i \in 1..m : (a \o b)[i] = a[i]
          /\ \A i \in (m + 1)..(m + n) : (a \o b)[i] = b[i - m]
      BY <3>1, TwoInARow
    <3> QED BY <3>2 DEF a, b
  <2> HIDE DEF k, r, m, n
  <2>4. l \in Seq(E) /\ Len(l) = m + n /\ \A i \in 1..(m + n) : l[i] = r[i].event
    BY <1>2, <2>1
  <2> HIDE DEF l
  <2>5. ASSUME NEW i \in 1..(m + n) PROVE l[i] = k[i]
    <3>1. CASE i <= m
      <4>1. i \in 1..m
        BY <2>1, <3>1
      <4>2. EventsOf(p)[i] = p[i].event
        BY <1>2, <4>1 DEF m
      <4> QED BY <2>1, <2>3, <2>4, <4>1, <4>2
    <3>2. CASE i > m
      <4>1. i \in (m + 1)..(m + n) /\ i - m \in 1..n
        BY <2>1, <3>2
      <4>2. EventsOf(q)[i - m] = q[i - m].event
        BY <1>2, <4>1 DEF n
      <4> QED BY <2>1, <2>3, <2>4, <4>1, <4>2
    <3> QED BY <2>1, <3>1, <3>2
  <2>6. l = k
    BY <2>3, <2>4, <2>5, SeqEqual
  <2> QED BY <2>6 DEF l, k, r
<1> QED BY <1>2, <1>3, <1>4, <1>5 DEF E

-----------------------------------------------------------------------------
(* The invariant                                                           *)

\* The inductive invariant: what is on its way was published, and what a
\* drain() that has not returned still finds on its way is among its tasks.
BusIInv ==
  /\ BusTypeOK /\ StreamedInOrder /\ DrainWaits
  /\ \A task \in ToSet(ready) : task.event <= published
  /\ drain.at = "waiting" => {task \in ToSet(ready) : task.event <= drain.upto} \subseteq drain.tasks

Live(s) == stream[s] \in {"waiting", "sending"}
TasksOf(s) == [to : {s}, event : 1..MaxEvents]

(* A task is for the stream it names.                                      *)
LEMMA TasksByStream ==
  ASSUME NEW s \in Streams, NEW task \in Task
  PROVE  task \in TasksOf(s) <=> task.to = s
BY DEF Task, TasksOf

(* What is on its way to a stream is a sequence of numbers of events.      *)
LEMMA AwaitingType ==
  ASSUME NEW q \in Seq(Task), NEW s
  PROVE  /\ Kept(q, TasksOf(s)) \in Seq(Task)
         /\ EventsOf(Kept(q, TasksOf(s))) \in Seq(1..MaxEvents)
<1>1. Kept(q, TasksOf(s)) \in Seq(Task)
  BY KeptElements
<1> QED BY <1>1, EventsOfTasks

\* The handlers a topic's event goes to are those of the live streams whose
\* subscription covers the topic, each once.
LEMMA Matching ==
  ASSUME BusTypeOK, NEW t \in Topics
  PROVE  /\ MatchingHandlers(t) \in Seq(Streams) /\ IsInjective(MatchingHandlers(t))
         /\ ToSet(MatchingHandlers(t)) = {s \in Streams : Covers(Pattern[s], t) /\ Live(s)}
<1> DEFINE a == handlers[t]
           b == handlers[Family[t]]
           c == handlers[All]
<1>1. /\ t \in Patterns /\ Family[t] \in Patterns /\ All \in Patterns
      /\ t # Family[t] /\ t # All /\ Family[t] # All
  BY BusAssumption DEF Patterns
<1>2. ASSUME NEW p \in Patterns
      PROVE  /\ handlers[p] \in Seq(Streams) /\ IsInjective(handlers[p])
             /\ ToSet(handlers[p]) = {s \in Streams : Pattern[s] = p /\ Live(s)}
  BY DEF BusTypeOK, Live
<1>3. a \in Seq(Streams) /\ b \in Seq(Streams) /\ c \in Seq(Streams)
  BY <1>1, <1>2
<1>4. IsInjective(a) /\ IsInjective(b) /\ IsInjective(c)
  BY <1>1, <1>2
<1>5. /\ ToSet(a) = {s \in Streams : Pattern[s] = t /\ Live(s)}
      /\ ToSet(b) = {s \in Streams : Pattern[s] = Family[t] /\ Live(s)}
      /\ ToSet(c) = {s \in Streams : Pattern[s] = All /\ Live(s)}
  BY <1>1, <1>2
<1>6. MatchingHandlers(t) = (a \o b) \o c
  BY DEF MatchingHandlers
<1> HIDE DEF a, b, c
<1>7. ToSet(a) \cap ToSet(b) = {} /\ (ToSet(a) \cup ToSet(b)) \cap ToSet(c) = {}
  BY <1>1, <1>5
<1>8. a \o b \in Seq(Streams) /\ ToSet(a \o b) = ToSet(a) \cup ToSet(b) /\ IsInjective(a \o b)
  BY <1>3, <1>4, <1>7, InjectiveTwo
<1> DEFINE ab == a \o b
<1>9. /\ ab \in Seq(Streams) /\ IsInjective(ab) /\ ToSet(ab) \cap ToSet(c) = {}
      /\ ToSet(ab) = ToSet(a) \cup ToSet(b) /\ MatchingHandlers(t) = ab \o c
  BY <1>6, <1>7, <1>8
<1> HIDE DEF ab
<1>10. ab \o c \in Seq(Streams) /\ IsInjective(ab \o c) /\ ToSet(ab \o c) = ToSet(ab) \cup ToSet(c)
  BY <1>3, <1>4, <1>9, InjectiveTwo
<1>11. ToSet(ab) \cup ToSet(c) = {s \in Streams : Covers(Pattern[s], t) /\ Live(s)}
  BY <1>5, <1>9 DEF Covers
<1> QED BY <1>9, <1>10, <1>11

\* The tasks publish() creates.
NewTasks(t, n) == [i \in DOMAIN MatchingHandlers(t) |-> [to |-> MatchingHandlers(t)[i], event |-> n]]

(* There is one for each of those streams.                                 *)
LEMMA TasksCreated ==
  ASSUME BusTypeOK, NEW t \in Topics, NEW n \in 1..MaxEvents
  PROVE  /\ NewTasks(t, n) \in Seq(Task) /\ IsInjective(NewTasks(t, n))
         /\ \A task \in Task : task \in ToSet(NewTasks(t, n)) <=>
              task.event = n /\ Covers(Pattern[task.to], t) /\ Live(task.to)
<1> DEFINE m == MatchingHandlers(t)
           new == NewTasks(t, n)
<1>1. /\ m \in Seq(Streams) /\ IsInjective(m)
      /\ ToSet(m) = {s \in Streams : Covers(Pattern[s], t) /\ Live(s)}
  BY Matching
<1>2. new = [i \in DOMAIN m |-> [to |-> m[i], event |-> n]]
  BY DEF NewTasks
<1> HIDE DEF m, new
<1>3. DOMAIN m = 1..Len(m) /\ Len(m) \in Nat /\ \A i \in 1..Len(m) : m[i] \in Streams
  BY <1>1
<1>4. /\ DOMAIN new = 1..Len(m)
      /\ \A i \in 1..Len(m) : new[i] \in Task /\ new[i].to = m[i] /\ new[i].event = n
  BY <1>2, <1>3 DEF Task
<1>5. new \in Seq(Task)
  BY <1>2, <1>3, <1>4
<1>6. IsInjective(new)
  <2> SUFFICES ASSUME NEW i \in 1..Len(m), NEW j \in 1..Len(m), new[i] = new[j] PROVE i = j
    BY <1>4 DEF IsInjective
  <2>1. m[i] = m[j]
    BY <1>4
  <2> QED BY <1>1, <1>3, <2>1 DEF IsInjective
<1>7. ASSUME NEW task \in Task
      PROVE  task \in ToSet(new) <=> task.event = n /\ task.to \in ToSet(m)
  <2>1. ASSUME task \in ToSet(new) PROVE task.event = n /\ task.to \in ToSet(m)
    <3>1. PICK i \in 1..Len(m) : task = new[i]
      BY <1>4, <2>1 DEF ToSet
    <3> QED BY <1>3, <1>4, <3>1 DEF ToSet
  <2>2. ASSUME task.event = n, task.to \in ToSet(m) PROVE task \in ToSet(new)
    <3>1. PICK i \in 1..Len(m) : task.to = m[i]
      BY <1>3, <2>2 DEF ToSet
    <3>2. new[i] \in Task /\ new[i].to = task.to /\ new[i].event = task.event
      BY <1>4, <2>2, <3>1
    <3>3. new[i] = task
      BY <3>2 DEF Task
    <3> QED BY <1>4, <3>3 DEF ToSet
  <2> QED BY <2>1, <2>2
<1>8. \A task \in Task : task.to \in Streams
  BY DEF Task
<1> QED BY <1>1, <1>5, <1>6, <1>7, <1>8 DEF new

(* Of them, the one for a stream that is covered is kept, or none.         *)
LEMMA NewForStream ==
  ASSUME BusTypeOK, NEW t \in Topics, NEW n \in 1..MaxEvents, NEW s \in Streams
  PROVE  EventsOf(Kept(NewTasks(t, n), TasksOf(s))) =
           IF Covers(Pattern[s], t) /\ Live(s) THEN <<n>> ELSE <<>>
<1> DEFINE new == NewTasks(t, n)
           one == [to |-> s, event |-> n]
<1>1. /\ new \in Seq(Task) /\ IsInjective(new)
      /\ \A task \in Task : task \in ToSet(new) <=>
           task.event = n /\ Covers(Pattern[task.to], t) /\ Live(task.to)
  BY TasksCreated
<1>2. one \in Task /\ one.to = s /\ one.event = n
  BY DEF Task
<1>3. \A task \in Task : task.to = s /\ task.event = n => task = one
  BY DEF Task
<1>4. ToSet(new) \subseteq Task
  BY <1>1, ElementsOf
<1> HIDE DEF new, one
<1>5. CASE Covers(Pattern[s], t) /\ Live(s)
  <2>1. ToSet(new) \cap TasksOf(s) = {one}
    BY <1>1, <1>2, <1>3, <1>4, <1>5, TasksByStream
  <2>2. Kept(new, TasksOf(s)) = <<one>>
    BY <1>1, <2>1, KeptAlone
  <2>3. EventsOf(<<one>>) = <<one.event>>
    BY <1>2, EventsOfTasks, EmptySeq
  <2> QED BY <1>2, <1>5, <2>2, <2>3 DEF new
<1>6. CASE ~(Covers(Pattern[s], t) /\ Live(s))
  <2>1. ToSet(new) \cap TasksOf(s) = {}
    BY <1>1, <1>4, <1>6, TasksByStream
  <2>2. Kept(new, TasksOf(s)) = <<>>
    BY <1>1, <2>1, KeptAlone
  <2>3. EventsOf(<<>>) = <<>>
    BY EventsOfTasks, EmptySeq
  <2> QED BY <1>6, <2>2, <2>3 DEF new
<1> QED BY <1>5, <1>6

(* Initially nothing is subscribed, on its way or sent.                    *)
LEMMA BusInitHolds == BusInit => BusIInv
<1> SUFFICES ASSUME BusInit PROVE BusIInv
  OBVIOUS
<1>1. ToSet(<<>>) = {} /\ IsInjective(<<>>)
  BY DEF ToSet, IsInjective
<1>2. \A A : <<>> \in Seq(A)
  OBVIOUS
<1>3. BusTypeOK
  <2>1. handlers \in [Patterns -> Seq(Streams)] /\ \A p \in Patterns : handlers[p] = <<>>
    BY <1>2 DEF BusInit
  <2>2. \A p \in Patterns : IsInjective(handlers[p])
    BY <1>1, <2>1
  <2>3. \A s \in Streams : stream[s] = "off"
    BY DEF BusInit
  <2>4. \A p \in Patterns :
          ToSet(handlers[p]) = {s \in Streams : Pattern[s] = p /\ stream[s] \in {"waiting", "sending"}}
    BY <1>1, <2>1, <2>3
  <2>5. history \in Seq(1..published) /\ Len(history) <= Keep /\ ready \in Seq(Task) /\ IsInjective(ready)
    BY <1>1, <1>2, BusAssumption DEF BusInit
  <2>6. /\ event_queue \in [Streams -> Seq(1..published)] /\ wire \in [Streams -> Seq(1..published)]
        /\ stream \in [Streams -> {"off", "waiting", "sending", "closed"}]
    BY <1>2 DEF BusInit
  <2>7. drain \in [at : {"no", "waiting", "done"}, tasks : SUBSET Task, upto : 0..published]
    BY DEF BusInit
  <2> QED BY <2>1, <2>2, <2>3, <2>4, <2>5, <2>6, <2>7, BusAssumption DEF BusInit, BusTypeOK
<1>4. StreamedInOrder
  <2> SUFFICES ASSUME NEW s \in Streams
               PROVE  due[s] = wire[s] \o event_queue[s] \o Awaiting(s)
    BY DEF StreamedInOrder
  <2>1. Kept(<<>>, TasksOf(s)) = <<>>
    <3>1. <<>> \in Seq(Task) /\ ToSet(<<>>) \cap TasksOf(s) = {}
      BY <1>1, <1>2
    <3> QED BY <1>1, <3>1, KeptAlone
  <2>2. Awaiting(s) = <<>>
    BY <2>1, <1>2, EventsOfTasks DEF Awaiting, TasksOf, BusInit
  <2>3. due[s] = <<>> /\ wire[s] = <<>> /\ event_queue[s] = <<>>
    BY DEF BusInit
  <2> QED BY <2>2, <2>3
<1>5. drain.at = "no" /\ ready = <<>>
  BY DEF BusInit
<1> QED BY <1>1, <1>3, <1>4, <1>5 DEF BusIInv, DrainWaits

\* What each stream was due, got and will get, with the types it takes to
\* reason about it.
LEMMA StreamFacts ==
  ASSUME BusIInv, NEW s \in Streams
  PROVE  /\ wire[s] \in Seq(1..MaxEvents) /\ event_queue[s] \in Seq(1..MaxEvents)
         /\ Kept(ready, TasksOf(s)) \in Seq(Task)
         /\ EventsOf(Kept(ready, TasksOf(s))) \in Seq(1..MaxEvents)
         /\ due[s] = wire[s] \o event_queue[s] \o EventsOf(Kept(ready, TasksOf(s)))
<1>1. ready \in Seq(Task) /\ published \in 0..MaxEvents /\ MaxEvents \in Nat
  BY BusAssumption DEF BusIInv, BusTypeOK
<1>2. wire[s] \in Seq(1..published) /\ event_queue[s] \in Seq(1..published)
  BY DEF BusIInv, BusTypeOK
<1>3. 1..published \subseteq 1..MaxEvents
  BY <1>1
<1>4. wire[s] \in Seq(1..MaxEvents) /\ event_queue[s] \in Seq(1..MaxEvents)
  BY <1>2, <1>3, SeqMonotonic
<1>5. due[s] = wire[s] \o event_queue[s] \o EventsOf(Kept(ready, TasksOf(s)))
  BY DEF BusIInv, StreamedInOrder, Awaiting, TasksOf
<1> QED BY <1>1, <1>4, <1>5, AwaitingType

(* A step that leaves a stream's sequences alone keeps them in order.      *)
LEMMA OrderStays ==
  ASSUME StreamedInOrder, UNCHANGED <<ready, event_queue, wire, due>>
  PROVE  StreamedInOrder'
BY DEF StreamedInOrder, Awaiting

(* publish(): a task for each matching handler, behind the others.         *)
LEMMA PublishKeeps == ASSUME BusIInv, NEW t \in Topics, Publish(t) PROVE BusIInv'
<1> DEFINE n == published'
           new == NewTasks(t, n)
<1>1. /\ BusTypeOK /\ published \in Nat /\ MaxEvents \in Nat /\ n = published + 1
      /\ n \in 1..MaxEvents /\ ready \in Seq(Task) /\ IsInjective(ready)
      /\ Keep \in Nat \ {0}
  BY BusAssumption DEF BusIInv, BusTypeOK, Publish
<1>2. ready' = ready \o new
  BY DEF Publish, NewTasks
<1> HIDE DEF n
<1>3. /\ new \in Seq(Task) /\ IsInjective(new)
      /\ \A task \in Task : task \in ToSet(new) <=>
           task.event = n /\ Covers(Pattern[task.to], t) /\ Live(task.to)
  BY <1>1, TasksCreated
<1>4. ToSet(new) \subseteq Task /\ ToSet(ready) \subseteq Task
  BY <1>1, <1>3, ElementsOf
<1>5. \A task \in ToSet(ready) : task.event <= published
  BY DEF BusIInv
<1>6. \A task \in Task : task.event \in 1..MaxEvents
  BY DEF Task
<1>7. \A task \in ToSet(new) : task.event = n
  BY <1>3, <1>4
<1> HIDE DEF new
<1>8. ToSet(ready) \cap ToSet(new) = {}
  <2> SUFFICES ASSUME NEW task \in ToSet(ready), task \in ToSet(new) PROVE FALSE
    OBVIOUS
  <2>1. task.event = n /\ task.event <= published
    BY <1>5, <1>7
  <2> QED BY <1>1, <2>1
<1>9. /\ ready' \in Seq(Task) /\ IsInjective(ready')
      /\ ToSet(ready') = ToSet(ready) \cup ToSet(new)
  BY <1>1, <1>2, <1>3, <1>8, InjectiveTwo
<1>10. UNCHANGED <<handlers, stream, event_queue, wire, gone, drain>>
  BY DEF Publish
<1>11. BusTypeOK'
  <2>1. 1..published \subseteq 1..n /\ n \in 0..MaxEvents
    BY <1>1
  <2>2. event_queue' \in [Streams -> Seq(1..n)] /\ wire' \in [Streams -> Seq(1..n)]
    <3>1. event_queue \in [Streams -> Seq(1..published)] /\ wire \in [Streams -> Seq(1..published)]
      BY <1>1 DEF BusTypeOK
    <3>2. Seq(1..published) \subseteq Seq(1..n)
      BY <2>1, SeqMonotonic
    <3> QED BY <1>10, <3>1, <3>2
  <2>3. history' \in Seq(1..n) /\ Len(history') <= Keep
    <3> DEFINE h == Append(history, n)
    <3>1. history \in Seq(1..published) /\ Len(history) <= Keep
      BY <1>1 DEF BusTypeOK
    <3>2. history \in Seq(1..n) /\ n \in 1..n
      BY <1>1, <2>1, <3>1, SeqMonotonic
    <3>3. h \in Seq(1..n) /\ h # <<>> /\ Len(h) = Len(history) + 1 /\ Len(history) \in Nat
      BY <3>2, AppendProperties
    <3>4. history' = IF Len(h) > Keep THEN Tail(h) ELSE h
      BY DEF Publish, Record, n
    <3> HIDE DEF h
    <3>5. Tail(h) \in Seq(1..n) /\ Len(Tail(h)) = Len(h) - 1
      BY <3>3, HeadTailProperties
    <3>6. CASE Len(h) > Keep
      BY <1>1, <3>1, <3>3, <3>4, <3>5, <3>6
    <3>7. CASE ~(Len(h) > Keep)
      BY <1>1, <3>3, <3>4, <3>7
    <3> QED BY <3>6, <3>7
  <2>4. drain' \in [at : {"no", "waiting", "done"}, tasks : SUBSET Task, upto : 0..n]
    BY <1>1, <1>10 DEF BusTypeOK
  <2> QED BY <1>1, <1>9, <1>10, <2>1, <2>2, <2>3, <2>4 DEF BusTypeOK, n
<1>12. StreamedInOrder'
  <2> SUFFICES ASSUME NEW s \in Streams
               PROVE  due'[s] = wire'[s] \o event_queue'[s] \o EventsOf(Kept(ready', TasksOf(s)))
    BY DEF StreamedInOrder, Awaiting, TasksOf
  <2> DEFINE w == wire[s]
             e == event_queue[s]
             k == Kept(ready, TasksOf(s))
             l == Kept(new, TasksOf(s))
             E == 1..MaxEvents
  <2>1. w \in Seq(E) /\ e \in Seq(E) /\ k \in Seq(Task) /\ EventsOf(k) \in Seq(E)
        /\ due[s] = w \o e \o EventsOf(k)
    BY StreamFacts
  <2>2. Kept(ready', TasksOf(s)) = k \o l
    BY <1>1, <1>2, <1>3, KeptOfTwo
  <2>3. l \in Seq(Task)
    BY <1>3, AwaitingType
  <2>4. EventsOf(l) = IF Covers(Pattern[s], t) /\ Live(s) THEN <<n>> ELSE <<>>
    BY <1>1, NewForStream DEF new
  <2>5. due'[s] = IF Covers(Pattern[s], t) /\ Live(s) THEN Append(due[s], n) ELSE due[s]
    BY DEF Publish, Live, n
  <2>6. wire'[s] = w /\ event_queue'[s] = e
    BY <1>10
  <2> HIDE DEF w, e, k, l
  <2>7. EventsOf(k \o l) = EventsOf(k) \o EventsOf(l)
    BY <2>1, <2>3, EventsOfTasks
  <2> DEFINE a == EventsOf(k)
             b == w \o e
  <2>8. a \in Seq(E) /\ b \in Seq(E) /\ due[s] = b \o a /\ n \in E
    BY <1>1, <2>1, ConcatProperties
  <2>9. wire'[s] \o event_queue'[s] \o EventsOf(Kept(ready', TasksOf(s))) = b \o (a \o EventsOf(l))
    BY <2>2, <2>6, <2>7
  <2> HIDE DEF a, b, E
  <2>10. CASE Covers(Pattern[s], t) /\ Live(s)
    <3>1. EventsOf(l) = <<n>> /\ due'[s] = Append(b \o a, n)
      BY <2>4, <2>5, <2>8, <2>10
    <3>2. a \o <<n>> = Append(a, n)
      BY <2>8, AppendIsConcat
    <3>3. b \o Append(a, n) = Append(b \o a, n)
      BY <2>8, AppendToTwo
    <3> QED BY <2>9, <3>1, <3>2, <3>3
  <2>11. CASE ~(Covers(Pattern[s], t) /\ Live(s))
    <3>1. EventsOf(l) = <<>> /\ due'[s] = b \o a
      BY <2>4, <2>5, <2>8, <2>11
    <3>2. a \o <<>> = a
      BY <2>8, ConcatEmptySeq
    <3> QED BY <2>9, <3>1, <3>2
  <2> QED BY <2>10, <2>11
<1>13. ASSUME NEW u \in 0..published
       PROVE  {task \in ToSet(ready') : task.event <= u} \subseteq {task \in ToSet(ready) : task.event <= u}
  <2> SUFFICES ASSUME NEW task \in ToSet(new), task.event <= u PROVE FALSE
    BY <1>9
  <2>1. task.event = n
    BY <1>7
  <2> QED BY <1>1, <2>1
<1>14. drain.upto \in 0..published /\ drain' = drain
  BY <1>1, <1>10 DEF BusTypeOK
<1>15. DrainWaits'
  <2> SUFFICES ASSUME drain.at = "done", NEW task \in ToSet(ready') PROVE task.event > drain.upto
    BY <1>14 DEF DrainWaits
  <2>1. task.event \in Nat
    BY <1>4, <1>6, <1>9
  <2>2. ~(task.event <= drain.upto)
    <3> SUFFICES ASSUME task.event <= drain.upto PROVE FALSE
      OBVIOUS
    <3>1. task \in ToSet(ready)
      BY <1>13, <1>14
    <3>2. task.event > drain.upto
      BY <3>1 DEF BusIInv, DrainWaits
    <3> QED BY <1>14, <2>1, <3>2
  <2> QED BY <1>14, <2>1, <2>2
<1>16. \A task \in ToSet(ready') : task.event <= published'
  <2> SUFFICES ASSUME NEW task \in ToSet(ready') PROVE task.event <= n
    BY DEF n
  <2>1. CASE task \in ToSet(ready)
    <3>1. task.event <= published /\ task.event \in Nat
      BY <1>4, <1>5, <1>6, <2>1
    <3> QED BY <1>1, <3>1
  <2>2. CASE task \in ToSet(new)
    BY <1>1, <1>7, <2>2
  <2> QED BY <1>9, <2>1, <2>2
<1>17. (drain.at = "waiting" => {task \in ToSet(ready) : task.event <= drain.upto} \subseteq drain.tasks)'
  <2>1. drain.at = "waiting" => {task \in ToSet(ready) : task.event <= drain.upto} \subseteq drain.tasks
    BY DEF BusIInv
  <2>2. {task \in ToSet(ready') : task.event <= drain.upto} \subseteq {task \in ToSet(ready) : task.event <= drain.upto}
    BY <1>13, <1>14
  <2> QED BY <1>14, <2>1, <2>2
<1> QED BY <1>11, <1>12, <1>15, <1>16, <1>17 DEF BusIInv
(* The oldest task runs: its event is now the last of its stream's queue.  *)
LEMMA RunTaskKeeps == ASSUME BusIInv, RunTask PROVE BusIInv'
<1> DEFINE h == Head(ready)
           r == Tail(ready)
<1>1. /\ BusTypeOK /\ published \in Nat /\ MaxEvents \in Nat /\ published \in 0..MaxEvents
      /\ ready \in Seq(Task) /\ IsInjective(ready) /\ ready # <<>>
  BY BusAssumption DEF BusIInv, BusTypeOK, RunTask
<1>2. /\ h \in Task /\ r \in Seq(Task) /\ ready = <<h>> \o r /\ ready' = r
      /\ ToSet(ready) = {h} \cup ToSet(r) /\ IsInjective(r) /\ h \notin ToSet(r)
  BY <1>1, HeadAndTail DEF RunTask
<1>3. /\ event_queue' = [event_queue EXCEPT ![h.to] = Append(@, h.event)]
      /\ drain' = [drain EXCEPT !.tasks = @ \ {h}]
      /\ UNCHANGED <<handlers, history, stream, wire, gone, published, due>>
  BY DEF RunTask
<1> HIDE DEF h, r
<1>4. h.to \in Streams /\ h.event \in 1..MaxEvents /\ h.event \in 1..published
  <2>1. h.to \in Streams /\ h.event \in 1..MaxEvents
    BY <1>2 DEF Task
  <2>2. h.event <= published
    BY <1>2 DEF BusIInv
  <2> QED BY <1>1, <2>1, <2>2
<1>5. /\ drain \in [at : {"no", "waiting", "done"}, tasks : SUBSET Task, upto : 0..published]
      /\ event_queue \in [Streams -> Seq(1..published)]
  BY <1>1 DEF BusTypeOK
<1>6. /\ drain'.at = drain.at /\ drain'.upto = drain.upto /\ drain'.tasks = drain.tasks \ {h}
      /\ drain' \in [at : {"no", "waiting", "done"}, tasks : SUBSET Task, upto : 0..published]
  BY <1>3, <1>5
<1>7. /\ event_queue'[h.to] = Append(event_queue[h.to], h.event)
      /\ \A s \in Streams : s # h.to => event_queue'[s] = event_queue[s]
      /\ event_queue' \in [Streams -> Seq(1..published)]
  BY <1>3, <1>4, <1>5
<1>8. ASSUME NEW s \in Streams PROVE event_queue[s] # <<>> => event_queue'[s] # <<>>
  <2>1. event_queue[h.to] \in Seq(1..published)
    BY <1>4, <1>5
  <2>2. Append(event_queue[h.to], h.event) # <<>>
    BY <1>4, <2>1, AppendProperties
  <2> QED BY <1>7, <2>2
<1>9. BusTypeOK'
  BY <1>1, <1>2, <1>3, <1>6, <1>7, <1>8 DEF BusTypeOK
<1>10. StreamedInOrder'
  <2> SUFFICES ASSUME NEW s \in Streams
               PROVE  due'[s] = wire'[s] \o event_queue'[s] \o EventsOf(Kept(ready', TasksOf(s)))
    BY DEF StreamedInOrder, Awaiting, TasksOf
  <2> DEFINE w == wire[s]
             e == event_queue[s]
             k == Kept(r, TasksOf(s))
             a == EventsOf(k)
             x == h.event
             E == 1..MaxEvents
  <2>1. w \in Seq(E) /\ e \in Seq(E) /\ due[s] = w \o e \o EventsOf(Kept(ready, TasksOf(s)))
    BY StreamFacts
  <2>2. k \in Seq(Task) /\ a \in Seq(E) /\ x \in E
    BY <1>2, <1>4, AwaitingType
  <2>3. Kept(ready, TasksOf(s)) = Kept(<<h>>, TasksOf(s)) \o k
    <3> DEFINE one == <<h>>
    <3>1. one \in Seq(Task) /\ ready = one \o r
      BY <1>2
    <3> HIDE DEF one
    <3>2. Kept(one \o r, TasksOf(s)) = Kept(one, TasksOf(s)) \o k
      <4>1. \A p, q \in Seq(Task) : Kept(p \o q, TasksOf(s)) = Kept(p, TasksOf(s)) \o Kept(q, TasksOf(s))
        BY KeptOfTwo
      <4> QED BY <1>2, <3>1, <4>1
    <3> QED BY <3>1, <3>2 DEF one
  <2>4. Kept(<<h>>, TasksOf(s)) = IF h.to = s THEN <<h>> ELSE <<>>
    BY <1>2, KeptOfOne, TasksByStream
  <2>5. due' = due /\ wire'[s] = w /\ ready' = r
    BY <1>2, <1>3
  <2>6. CASE h.to = s
    <3>1. EventsOf(<<h>> \o k) = <<x>> \o a
      <4>1. <<h>> \in Seq(Task) /\ EventsOf(<<h>>) = <<x>>
        BY <1>2, EventsOfTasks, EmptySeq
      <4> HIDE DEF a, k, x
      <4> QED BY <2>2, <4>1, EventsOfTasks DEF a
    <3>2. due[s] = (w \o e) \o (<<x>> \o a) /\ event_queue'[s] = Append(e, x)
      BY <1>7, <2>1, <2>3, <2>4, <2>6, <3>1
    <3> HIDE DEF w, e, a, x, E, k
    <3>3. w \o e \in Seq(E) /\ <<x>> \in Seq(E) /\ e \o <<x>> = Append(e, x)
      <4>1. w \o e \in Seq(E)
        BY <2>1, ConcatProperties
      <4>2. <<x>> \in Seq(E)
        BY <2>2
      <4>3. e \o <<x>> = Append(e, x)
        BY <2>1, <2>2, AppendIsConcat
      <4> QED BY <4>1, <4>2, <4>3
    <3>4. (w \o e) \o (<<x>> \o a) = ((w \o e) \o <<x>>) \o a
      <4> DEFINE we == w \o e
                 one == <<x>>
      <4>1. we \in Seq(E) /\ one \in Seq(E) /\ a \in Seq(E)
        BY <2>2, <3>3
      <4> HIDE DEF we, one
      <4>2. (we \o one) \o a = we \o (one \o a)
        BY <4>1, ConcatAssociative
      <4> QED BY <4>2 DEF we, one
    <3>5. (w \o e) \o <<x>> = w \o (e \o <<x>>)
      BY <2>1, <3>3, ConcatAssociative
    <3> QED BY <2>5, <3>2, <3>3, <3>4, <3>5 DEF a, k
  <2>7. CASE h.to # s
    <3>1. Kept(ready, TasksOf(s)) = <<>> \o k /\ event_queue'[s] = e
      BY <1>7, <2>3, <2>4, <2>7
    <3>2. <<>> \o k = k
      BY <2>2, ConcatEmptySeq
    <3> QED BY <2>1, <2>5, <3>1, <3>2
  <2> QED BY <2>6, <2>7
<1>11. DrainWaits'
  <2> SUFFICES ASSUME drain.at = "done", NEW task \in ToSet(r) PROVE task.event > drain.upto
    BY <1>2, <1>6 DEF DrainWaits
  <2> QED BY <1>2 DEF BusIInv, DrainWaits
<1>12. \A task \in ToSet(ready') : task.event <= published'
  BY <1>2, <1>3 DEF BusIInv
<1>13. (drain.at = "waiting" => {task \in ToSet(ready) : task.event <= drain.upto} \subseteq drain.tasks)'
  <2> SUFFICES ASSUME drain.at = "waiting", NEW task \in ToSet(r), task.event <= drain.upto
               PROVE  task \in drain.tasks \ {h}
    BY <1>2, <1>6
  <2>1. task \in drain.tasks
    BY <1>2 DEF BusIInv
  <2> QED BY <1>2, <2>1
<1> QED BY <1>9, <1>10, <1>11, <1>12, <1>13 DEF BusIInv

(* drain() takes all that is on its way, and returns when that has run.    *)
LEMMA DrainKeeps == ASSUME BusIInv, Drain \/ DrainReturns PROVE BusIInv'
<1>1. /\ UNCHANGED <<handlers, history, ready, stream, event_queue, wire, gone, published, due>>
      /\ BusTypeOK /\ published \in Nat /\ published \in 0..MaxEvents /\ ready \in Seq(Task)
  BY BusAssumption DEF BusIInv, BusTypeOK, Drain, DrainReturns
<1>2. ToSet(ready) \subseteq Task /\ \A task \in Task : task.event \in Nat
  <2>1. ToSet(ready) \subseteq Task
    BY <1>1, ElementsOf
  <2>2. \A task \in Task : task.event \in 1..MaxEvents
    BY DEF Task
  <2> QED BY <2>1, <2>2
<1>3. StreamedInOrder'
  BY <1>1, OrderStays DEF BusIInv
<1>4. drain \in [at : {"no", "waiting", "done"}, tasks : SUBSET Task, upto : 0..published]
  BY <1>1 DEF BusTypeOK
<1>5. \A task \in ToSet(ready') : task.event <= published'
  BY <1>1 DEF BusIInv
<1>6. CASE Drain
  <2>1. drain' = [at |-> "waiting", tasks |-> ToSet(ready), upto |-> published]
    BY <1>6 DEF Drain
  <2>2. drain' \in [at : {"no", "waiting", "done"}, tasks : SUBSET Task, upto : 0..published]
    BY <1>1, <1>2, <2>1
  <2>3. BusTypeOK'
    BY <1>1, <2>2 DEF BusTypeOK
  <2>4. DrainWaits'
    BY <2>1 DEF DrainWaits
  <2>5. (drain.at = "waiting" => {task \in ToSet(ready) : task.event <= drain.upto} \subseteq drain.tasks)'
    BY <1>1, <2>1
  <2> QED BY <1>3, <1>5, <2>3, <2>4, <2>5 DEF BusIInv
<1>7. CASE DrainReturns
  <2>1. /\ drain.at = "waiting" /\ drain.tasks = {} /\ drain'.at = "done" /\ drain'.upto = drain.upto
        /\ drain' \in [at : {"no", "waiting", "done"}, tasks : SUBSET Task, upto : 0..published]
    BY <1>4, <1>7 DEF DrainReturns
  <2>2. BusTypeOK'
    BY <1>1, <2>1 DEF BusTypeOK
  <2>3. DrainWaits'
    <3> SUFFICES ASSUME NEW task \in ToSet(ready) PROVE task.event > drain.upto
      BY <1>1, <2>1 DEF DrainWaits
    <3>1. ~(task.event <= drain.upto)
      BY <2>1 DEF BusIInv
    <3>2. task.event \in Nat /\ drain.upto \in Nat
      BY <1>1, <1>2, <1>4
    <3> QED BY <3>1, <3>2
  <2>4. (drain.at = "waiting" => {task \in ToSet(ready) : task.event <= drain.upto} \subseteq drain.tasks)'
    BY <2>1
  <2> QED BY <1>3, <1>5, <2>2, <2>3, <2>4 DEF BusIInv
<1> QED BY <1>6, <1>7

(* What a stream's own step leaves alone.                                  *)
LEMMA TasksStay ==
  ASSUME BusIInv, UNCHANGED <<ready, drain, published>>
  PROVE  /\ DrainWaits' /\ \A task \in ToSet(ready') : task.event <= published'
         /\ (drain.at = "waiting" => {task \in ToSet(ready) : task.event <= drain.upto} \subseteq drain.tasks)'
BY DEF BusIInv, DrainWaits

(* A subscription is made: the stream is in its pattern's list once.       *)
LEMMA ConnectKeeps == ASSUME BusIInv, NEW s \in Streams, Connect(s) PROVE BusIInv'
<1>1. /\ BusTypeOK /\ stream[s] = "off" /\ stream' = [stream EXCEPT ![s] = "waiting"]
      /\ handlers' = [handlers EXCEPT ![Pattern[s]] = Append(@, s)]
      /\ UNCHANGED <<history, ready, event_queue, wire, gone, drain, published, due>>
  BY DEF BusIInv, Connect
<1>2. Pattern[s] \in Patterns
  BY BusAssumption
<1>3. /\ stream \in [Streams -> {"off", "waiting", "sending", "closed"}]
      /\ handlers \in [Patterns -> Seq(Streams)]
  BY <1>1 DEF BusTypeOK
<1>4. /\ stream' \in [Streams -> {"off", "waiting", "sending", "closed"}]
      /\ stream'[s] = "waiting" /\ \A c \in Streams : c # s => stream'[c] = stream[c]
  BY <1>1, <1>3
<1>5. /\ handlers' \in [Patterns -> Seq(Streams)]
      /\ handlers'[Pattern[s]] = Append(handlers[Pattern[s]], s)
      /\ \A p \in Patterns : p # Pattern[s] => handlers'[p] = handlers[p]
  BY <1>1, <1>2, <1>3
<1>6. ASSUME NEW p \in Patterns
      PROVE  /\ IsInjective(handlers'[p])
             /\ ToSet(handlers'[p]) = {c \in Streams : Pattern[c] = p /\ stream'[c] \in {"waiting", "sending"}}
  <2> DEFINE q == handlers[p]
  <2>1. /\ q \in Seq(Streams) /\ IsInjective(q)
        /\ ToSet(q) = {c \in Streams : Pattern[c] = p /\ stream[c] \in {"waiting", "sending"}}
    BY <1>1 DEF BusTypeOK
  <2> HIDE DEF q
  <2>2. CASE p = Pattern[s]
    <3>1. handlers'[p] = Append(q, s)
      BY <1>5, <2>2 DEF q
    <3>2. Append(q, s) = q \o <<s>> /\ ToSet(Append(q, s)) = ToSet(q) \cup {s}
      BY <2>1, AppendIsConcat, ElementsOf
    <3>3. <<s>> \in Seq(Streams) /\ IsInjective(<<s>>) /\ ToSet(<<s>>) = {s}
      BY DEF IsInjective, ToSet
    <3>4. ToSet(q) \cap ToSet(<<s>>) = {}
      BY <1>1, <2>1, <3>3
    <3>5. IsInjective(Append(q, s))
      <4> DEFINE one == <<s>>
      <4> HIDE DEF one
      <4>1. one \in Seq(Streams) /\ IsInjective(one) /\ ToSet(q) \cap ToSet(one) = {}
        BY <3>3, <3>4 DEF one
      <4>2. IsInjective(q \o one)
        BY <2>1, <4>1, InjectiveTwo
      <4> QED BY <3>2, <4>2 DEF one
    <3>6. ToSet(q) \cup {s} = {c \in Streams : Pattern[c] = p /\ stream'[c] \in {"waiting", "sending"}}
      BY <1>4, <2>1, <2>2
    <3> QED BY <3>1, <3>2, <3>5, <3>6
  <2>3. CASE p # Pattern[s]
    <3>1. handlers'[p] = q
      BY <1>5, <2>3 DEF q
    <3>2. ToSet(q) = {c \in Streams : Pattern[c] = p /\ stream'[c] \in {"waiting", "sending"}}
      BY <1>4, <2>1, <2>3
    <3> QED BY <2>1, <3>1, <3>2
  <2> QED BY <2>2, <2>3
<1>7. \A c \in Streams : stream'[c] = "sending" => event_queue'[c] # <<>>
  BY <1>1, <1>4 DEF BusTypeOK
<1>8. BusTypeOK'
  BY <1>1, <1>4, <1>5, <1>6, <1>7 DEF BusTypeOK
<1> QED BY <1>1, <1>8, OrderStays, TasksStay DEF BusIInv

(* The subscription of a stream whose client is gone ends.                 *)
LEMMA SendFailsKeeps == ASSUME BusIInv, NEW s \in Streams, SendFails(s) PROVE BusIInv'
<1>1. /\ BusTypeOK /\ stream[s] = "sending" /\ stream' = [stream EXCEPT ![s] = "closed"]
      /\ handlers' = [handlers EXCEPT ![Pattern[s]] = Kept(@, Streams \ {s})]
      /\ UNCHANGED <<history, ready, event_queue, wire, gone, drain, published, due>>
  BY DEF BusIInv, SendFails
<1>2. Pattern[s] \in Patterns
  BY BusAssumption
<1>3. /\ stream \in [Streams -> {"off", "waiting", "sending", "closed"}]
      /\ handlers \in [Patterns -> Seq(Streams)]
  BY <1>1 DEF BusTypeOK
<1>4. /\ stream' \in [Streams -> {"off", "waiting", "sending", "closed"}]
      /\ stream'[s] = "closed" /\ \A c \in Streams : c # s => stream'[c] = stream[c]
  BY <1>1, <1>3
<1> DEFINE k == Kept(handlers[Pattern[s]], Streams \ {s})
<1>5. /\ k \in Seq(Streams)
      /\ ToSet(k) = ToSet(handlers[Pattern[s]]) \cap (Streams \ {s})
      /\ IsInjective(k)
  <2>1. handlers[Pattern[s]] \in Seq(Streams) /\ IsInjective(handlers[Pattern[s]])
    BY <1>1, <1>2 DEF BusTypeOK
  <2> QED BY <2>1, KeptElements
<1> HIDE DEF k
<1>6. /\ handlers' \in [Patterns -> Seq(Streams)]
      /\ handlers'[Pattern[s]] = k
      /\ \A p \in Patterns : p # Pattern[s] => handlers'[p] = handlers[p]
  BY <1>1, <1>2, <1>3, <1>5 DEF k
<1>7. ASSUME NEW p \in Patterns
      PROVE  /\ IsInjective(handlers'[p])
             /\ ToSet(handlers'[p]) = {c \in Streams : Pattern[c] = p /\ stream'[c] \in {"waiting", "sending"}}
  <2>1. /\ IsInjective(handlers[p])
        /\ ToSet(handlers[p]) = {c \in Streams : Pattern[c] = p /\ stream[c] \in {"waiting", "sending"}}
    BY <1>1 DEF BusTypeOK
  <2>2. CASE p = Pattern[s]
    <3>1. ToSet(handlers[p]) \cap (Streams \ {s}) =
            {c \in Streams : Pattern[c] = p /\ stream'[c] \in {"waiting", "sending"}}
      BY <1>4, <2>1
    <3> QED BY <1>5, <1>6, <2>2, <3>1
  <2>3. CASE p # Pattern[s]
    <3>1. ToSet(handlers[p]) = {c \in Streams : Pattern[c] = p /\ stream'[c] \in {"waiting", "sending"}}
      BY <1>4, <2>1, <2>3
    <3> QED BY <1>6, <2>1, <2>3, <3>1
  <2> QED BY <2>2, <2>3
<1>8. \A c \in Streams : stream'[c] = "sending" => event_queue'[c] # <<>>
  BY <1>1, <1>4 DEF BusTypeOK
<1>9. BusTypeOK'
  BY <1>1, <1>4, <1>6, <1>7, <1>8 DEF BusTypeOK
<1> QED BY <1>1, <1>9, OrderStays, TasksStay DEF BusIInv

(* An event moves from the head of the queue to the end of the wire.       *)
LEMMA SendKeeps == ASSUME BusIInv, NEW s \in Streams, Send(s) PROVE BusIInv'
<1>1. /\ BusTypeOK /\ stream[s] = "sending" /\ stream' = [stream EXCEPT ![s] = "waiting"]
      /\ wire' = [wire EXCEPT ![s] = Append(@, Head(event_queue[s]))]
      /\ event_queue' = [event_queue EXCEPT ![s] = Tail(@)]
      /\ UNCHANGED <<handlers, history, ready, gone, drain, published, due>>
  BY DEF BusIInv, Send
<1>2. /\ stream \in [Streams -> {"off", "waiting", "sending", "closed"}]
      /\ event_queue \in [Streams -> Seq(1..published)] /\ wire \in [Streams -> Seq(1..published)]
      /\ event_queue[s] # <<>>
  BY <1>1 DEF BusTypeOK
<1> DEFINE h == Head(event_queue[s])
           r == Tail(event_queue[s])
<1>3. h \in 1..published /\ r \in Seq(1..published) /\ event_queue[s] = <<h>> \o r
  BY <1>2, HeadAndTail
<1> HIDE DEF h, r
<1>4. /\ stream' \in [Streams -> {"off", "waiting", "sending", "closed"}]
      /\ stream'[s] = "waiting" /\ \A c \in Streams : c # s => stream'[c] = stream[c]
  BY <1>1, <1>2
<1>5. /\ event_queue' \in [Streams -> Seq(1..published)] /\ event_queue'[s] = r
      /\ \A c \in Streams : c # s => event_queue'[c] = event_queue[c]
  BY <1>1, <1>2, <1>3 DEF r
<1>6. /\ wire' \in [Streams -> Seq(1..published)] /\ wire'[s] = Append(wire[s], h)
      /\ \A c \in Streams : c # s => wire'[c] = wire[c]
  <2>1. Append(wire[s], h) \in Seq(1..published)
    BY <1>2, <1>3
  <2> QED BY <1>1, <1>2, <2>1 DEF h
<1>7. \A p \in Patterns :
        {c \in Streams : Pattern[c] = p /\ stream'[c] \in {"waiting", "sending"}}
          = {c \in Streams : Pattern[c] = p /\ stream[c] \in {"waiting", "sending"}}
  BY <1>1, <1>4
<1>8. \A c \in Streams : stream'[c] = "sending" => event_queue'[c] # <<>>
  BY <1>1, <1>4, <1>5 DEF BusTypeOK
<1>9. BusTypeOK'
  BY <1>1, <1>4, <1>5, <1>6, <1>7, <1>8 DEF BusTypeOK
<1>10. StreamedInOrder'
  <2> SUFFICES ASSUME NEW c \in Streams
               PROVE  due'[c] = wire'[c] \o event_queue'[c] \o EventsOf(Kept(ready', TasksOf(c)))
    BY DEF StreamedInOrder, Awaiting, TasksOf
  <2> DEFINE k == EventsOf(Kept(ready, TasksOf(c)))
  <2>1. due[c] = wire[c] \o event_queue[c] \o k /\ due' = due /\ ready' = ready
    BY <1>1, StreamFacts
  <2> HIDE DEF k
  <2>2. CASE c = s
    <3> DEFINE w == wire[s]
               E == 1..published
    <3>1. w \in Seq(E)
      BY <1>2
    <3> HIDE DEF w, E
    <3>2. w \o <<h>> = Append(w, h) /\ <<h>> \in Seq(E)
      BY <1>3, <3>1, AppendIsConcat DEF E
    <3>3. (w \o <<h>>) \o r = w \o (<<h>> \o r)
      BY <1>3, <3>1, <3>2, ConcatAssociative DEF E
    <3>4. due'[c] = (w \o (<<h>> \o r)) \o k
      BY <1>3, <2>1, <2>2 DEF w
    <3>5. wire'[c] \o event_queue'[c] = (w \o <<h>>) \o r
      BY <1>5, <1>6, <2>2, <3>2 DEF w
    <3> QED BY <2>1, <3>3, <3>4, <3>5 DEF k
  <2>3. CASE c # s
    BY <1>5, <1>6, <2>1, <2>3 DEF k
  <2> QED BY <2>2, <2>3
<1> QED BY <1>1, <1>9, <1>10, TasksStay DEF BusIInv

(* A stream takes an event from its queue, or its client hangs up.         *)
LEMMA TakeKeeps == ASSUME BusIInv, NEW s \in Streams, Take(s) \/ HangUp(s) PROVE BusIInv'
<1>1. BusTypeOK /\ UNCHANGED <<handlers, history, ready, event_queue, wire, drain, published, due>>
  BY DEF BusIInv, Take, HangUp
<1>2. stream \in [Streams -> {"off", "waiting", "sending", "closed"}] /\ gone \subseteq Streams
  BY <1>1 DEF BusTypeOK
<1>3. BusTypeOK'
  <2>1. CASE Take(s)
    <3>1. /\ stream[s] = "waiting" /\ event_queue[s] # <<>> /\ gone' = gone
          /\ stream' = [stream EXCEPT ![s] = "sending"]
      BY <2>1 DEF Take
    <3>2. /\ stream' \in [Streams -> {"off", "waiting", "sending", "closed"}]
          /\ stream'[s] = "sending" /\ \A c \in Streams : c # s => stream'[c] = stream[c]
      BY <1>2, <3>1
    <3>3. \A p \in Patterns :
            {c \in Streams : Pattern[c] = p /\ stream'[c] \in {"waiting", "sending"}}
              = {c \in Streams : Pattern[c] = p /\ stream[c] \in {"waiting", "sending"}}
      BY <3>1, <3>2
    <3>4. \A c \in Streams : stream'[c] = "sending" => event_queue'[c] # <<>>
      BY <1>1, <3>1, <3>2 DEF BusTypeOK
    <3> QED BY <1>1, <3>1, <3>2, <3>3, <3>4 DEF BusTypeOK
  <2>2. CASE HangUp(s)
    <3>1. stream' = stream /\ gone' = gone \cup {s}
      BY <2>2 DEF HangUp
    <3> QED BY <1>1, <1>2, <3>1 DEF BusTypeOK
  <2> QED BY <2>1, <2>2
<1> QED BY <1>1, <1>3, OrderStays, TasksStay DEF BusIInv

(* Every step keeps the invariant.                                         *)
LEMMA BusStepKeeps == BusIInv /\ [BusNext]_busVars => BusIInv'
<1> SUFFICES ASSUME BusIInv, [BusNext]_busVars PROVE BusIInv'
  OBVIOUS
<1>1. CASE UNCHANGED busVars
  <2>1. UNCHANGED <<handlers, history, ready, stream, event_queue, wire, gone, drain, published, due>>
    BY <1>1 DEF busVars
  <2>2. BusTypeOK'
    BY <2>1 DEF BusIInv, BusTypeOK
  <2> QED BY <2>1, <2>2, OrderStays, TasksStay DEF BusIInv
<1>2. CASE \E t \in Topics : Publish(t)
  BY <1>2, PublishKeeps
<1>3. CASE RunTask
  BY <1>3, RunTaskKeeps
<1>4. CASE Drain \/ DrainReturns
  BY <1>4, DrainKeeps
<1>5. ASSUME NEW s \in Streams, Connect(s) \/ Take(s) \/ Send(s) \/ SendFails(s) \/ HangUp(s)
      PROVE  BusIInv'
  BY <1>5, ConnectKeeps, TakeKeeps, SendKeeps, SendFailsKeeps
<1> QED BY <1>1, <1>2, <1>3, <1>4, <1>5 DEF BusNext, BusStep

(* It holds throughout.                                                    *)
LEMMA BusInvariant == BusSpec => []BusIInv
BY BusInitHolds, BusStepKeeps, PTL DEF BusSpec

(* Every variable has its type; a stream's handler is in its pattern's     *)
(* list, once, exactly as long as its coroutine runs; no task is there     *)
(* twice; and what is being sent is still in the queue.                    *)
THEOREM BusTypeCorrect == BusSpec => []BusTypeOK
<1>1. BusIInv => BusTypeOK
  BY DEF BusIInv
<1> QED BY <1>1, BusInvariant, PTL

(* For any number of clients, patterns and events: what a client got, what *)
(* its queue holds and what is on its way are, in this order, exactly the  *)
(* events its subscription covers since it was made.                       *)
THEOREM EventsStreamedInOrder == BusSpec => []StreamedInOrder
<1>1. BusIInv => StreamedInOrder
  BY DEF BusIInv
<1> QED BY <1>1, BusInvariant, PTL

(* When drain() has returned, all that was published before it was called  *)
(* is in its streams' queues.                                              *)
THEOREM DrainedBeforeReturn == BusSpec => []DrainWaits
<1>1. BusIInv => DrainWaits
  BY DEF BusIInv
<1> QED BY <1>1, BusInvariant, PTL

-----------------------------------------------------------------------------
(* ForgeStream                                                             *)

\* What an event says of a forge was reported; the request comes first.
SaidInOrder ==
  \A r \in Requests : \A n \in 1..published : IsAbout(n, r) =>
    /\ about[n].says \in ToSet(events[r])
    /\ \A m \in 1..(n - 1) : IsAbout(m, r) =>
         about[m].says = "requested" /\ about[n].says # "requested"

\* Events are due in the order of their publication.
DueInOrder ==
  /\ due \in [Streams -> Seq(1..published)]
  /\ \A s \in Streams : \A j \in 1..Len(due[s]) : \A i \in 1..(j - 1) : due[s][i] < due[s][j]

\* The inductive invariant: those of the parts, and what ties them.
StreamIInv ==
  /\ IInv /\ BusIInv
  /\ about \in Seq(Subject) /\ Len(about) = published
  /\ SaidInOrder /\ DueInOrder

(* Initially nothing is published.                                         *)
LEMMA StreamInitHolds == StreamInit => StreamIInv
<1> SUFFICES ASSUME StreamInit PROVE StreamIInv
  OBVIOUS
<1>1. IInv /\ BusIInv
  BY InitIInv, BusInitHolds DEF StreamInit
<1>2. published = 0 /\ about = <<>> /\ due = [s \in Streams |-> <<>>]
  BY DEF StreamInit, BusInit
<1>3. about \in Seq(Subject) /\ Len(about) = published
  BY <1>2, EmptySeq
<1>4. SaidInOrder
  BY <1>2 DEF SaidInOrder
<1>5. DueInOrder
  <2>1. <<>> \in Seq(1..published) /\ Len(<<>>) = 0
    BY EmptySeq
  <2> QED BY <1>2, <2>1 DEF DueInOrder
<1> QED BY <1>1, <1>3, <1>4, <1>5 DEF StreamIInv

(* A step of the composition is one of the forge, and one of the bus, or   *)
(* leaves it alone.                                                        *)
LEMMA StepOfBoth ==
  ASSUME [StreamNext]_streamVars
  PROVE  [Next]_vars /\ [BusNext]_busVars
<1>1. CASE ForgeTells
  <2>1. Next
    BY <1>1 DEF ForgeTells, Next
  <2>2. UNCHANGED busVars \/ \E t \in Topics : Publish(t)
    BY <1>1, TopicAssumption DEF ForgeTells, Tell
  <2> QED BY <2>1, <2>2 DEF BusNext
<1>2. CASE \E t \in Topics : OtherEvent(t)
  BY <1>2 DEF OtherEvent, BusNext
<1>3. CASE BusStep /\ UNCHANGED <<vars, about>>
  BY <1>3 DEF BusNext
<1>4. CASE UNCHANGED streamVars
  BY <1>4 DEF streamVars
<1> QED BY <1>1, <1>2, <1>3, <1>4 DEF StreamNext

(* A published event is behind all that was due before.                    *)
LEMMA PublishOrders ==
  ASSUME BusIInv, DueInOrder, NEW t \in Topics, Publish(t)
  PROVE  DueInOrder'
<1> DEFINE n == published + 1
<1>1. published \in Nat /\ published' = n /\ n \in 1..n /\ 1..published \subseteq 1..n
  BY BusAssumption DEF BusIInv, BusTypeOK, Publish
<1>2. ASSUME NEW s \in Streams PROVE due[s] \in Seq(1..published) /\ due[s] \in Seq(1..n)
  BY <1>1, SeqMonotonic DEF DueInOrder
<1>3. due' = [s \in Streams |->
                IF Covers(Pattern[s], t) /\ stream[s] \in {"waiting", "sending"}
                  THEN Append(due[s], n) ELSE due[s]]
  BY <1>1 DEF Publish
<1>4. ASSUME NEW s \in Streams PROVE due'[s] = due[s] \/ due'[s] = Append(due[s], n)
  BY <1>3
<1> HIDE DEF n
<1>5. ASSUME NEW s \in Streams PROVE due'[s] \in Seq(1..n)
  <2>1. due[s] \in Seq(1..n) /\ n \in 1..n
    BY <1>1, <1>2
  <2>2. Append(due[s], n) \in Seq(1..n)
    BY <2>1, AppendProperties
  <2> QED BY <1>4, <2>1, <2>2
<1>6. due' \in [Streams -> Seq(1..n)]
  BY <1>3, <1>5
<1>7. ASSUME NEW s \in Streams, NEW j \in 1..Len(due'[s]), NEW i \in 1..(j - 1)
      PROVE  due'[s][i] < due'[s][j]
  <2> DEFINE d == due[s]
  <2> DEFINE E == 1..published
  <2>1. d \in Seq(E) /\ Len(d) \in Nat /\ \A k \in 1..Len(d) : d[k] \in E
    <3>1. d \in Seq(E)
      BY <1>2
    <3> HIDE DEF d, E
    <3> QED BY <3>1
  <2>2. \A k \in 1..Len(d) : \A l \in 1..(k - 1) : d[l] < d[k]
    BY DEF DueInOrder
  <2> HIDE DEF d
  <2>3. CASE due'[s] = d
    BY <2>2, <2>3
  <2>4. CASE due'[s] = Append(d, n)
    <3>1. /\ Len(Append(d, n)) = Len(d) + 1 /\ Append(d, n)[Len(d) + 1] = n
          /\ \A k \in 1..Len(d) : Append(d, n)[k] = d[k]
      <4>1. d \in Seq(1..n) /\ n \in 1..n
        BY <1>1, <1>2 DEF d
      <4> QED BY <4>1, AppendProperties
    <3>2. j \in 1..(Len(d) + 1) /\ i \in 1..Len(d) /\ due'[s][i] = d[i]
      BY <2>1, <2>4, <3>1
    <3>3. CASE j = Len(d) + 1
      <4>1. due'[s][j] = n /\ d[i] \in 1..published
        BY <2>1, <2>4, <3>1, <3>2, <3>3
      <4> QED BY <1>1, <3>2, <4>1 DEF n
    <3>4. CASE j # Len(d) + 1
      <4>1. j \in 1..Len(d)
        BY <2>1, <3>2, <3>4
      <4>2. due'[s][j] = d[j]
        BY <2>4, <3>1, <4>1
      <4> QED BY <2>2, <3>2, <4>1, <4>2
    <3> QED BY <3>3, <3>4
  <2> QED BY <1>4, <2>3, <2>4 DEF d
<1> QED BY <1>1, <1>6, <1>7 DEF DueInOrder

(* One more event, and what it is about.                                   *)
LEMMA OneMoreEvent ==
  ASSUME StreamIInv, NEW x \in Subject, about' = Append(about, x),
         NEW t \in Topics, Publish(t)
  PROVE  /\ about' \in Seq(Subject) /\ Len(about') = published' /\ published \in Nat
         /\ published' = published + 1 /\ about'[published + 1] = x
         /\ \A n \in 1..published : about'[n] = about[n]
<1>1. /\ about \in Seq(Subject) /\ Len(about) = published /\ published \in Nat
      /\ published' = published + 1
  BY BusAssumption DEF StreamIInv, BusIInv, BusTypeOK, Publish
<1> QED BY <1>1, AppendProperties

(* forge() publishes: the request first, then one outcome.                 *)
LEMMA TellKeeps ==
  ASSUME StreamIInv, IInv', NEW r \in Requests, NEW k \in ForgeTopics, Tell(r, k)
  PROVE  about' \in Seq(Subject) /\ Len(about') = published' /\ SaidInOrder' /\ DueInOrder'
<1> DEFINE x == [by |-> {r}, says |-> k]
           n == published + 1
<1>1. x \in Subject /\ about' = Append(about, x) /\ TopicOf[k] \in Topics /\ Publish(TopicOf[k])
  BY TopicAssumption DEF Tell, Subject
<1>2. /\ about' \in Seq(Subject) /\ Len(about') = published' /\ published \in Nat
      /\ published' = n /\ about'[n] = x
      /\ \A m \in 1..published : about'[m] = about[m]
  BY <1>1, OneMoreEvent
<1>3. x.by = {r} /\ x.says = k
  OBVIOUS
<1>4. /\ events \in [Requests -> Seq(ForgeTopics)] /\ events'[r] = Append(events[r], k)
      /\ \A c \in Requests : c # r => events'[c] = events[c]
  BY DEF StreamIInv, IInv, TypeOK, Tell, Published
<1>5. \/ events[r] = <<>> /\ k = "requested"
      \/ events[r] = <<"requested">> /\ k # "requested"
  <2> DEFINE old == events[r]
             seen == {<<>>, <<"requested">>, <<"requested", "completed">>, <<"requested", "failed">>}
  <2>1. old \in seen
    BY Reported DEF StreamIInv, ReportedIsQuarantined
  <2>2. Append(old, k) \in seen
    <3>1. ReportedIsQuarantined'
      BY ReportedNext
    <3>2. events'[r] \in seen
      BY <3>1 DEF ReportedIsQuarantined
    <3> QED BY <1>4, <3>2
  <2> HIDE DEF old
  <2>3. Append(<<>>, k) = <<k>> /\ Append(<<"requested">>, k) = <<"requested", k>>
    <3>1. Append(<<>>, k) = <<>> \o <<k>> /\ <<>> \o <<k>> = <<k>>
      BY EmptySeq, AppendIsConcat, ConcatEmptySeq
    <3> QED BY <3>1, Outcome
  <2>4. CASE old = <<>>
    <3>1. <<k>> \in seen
      BY <2>2, <2>3, <2>4
    <3>2. k = "requested"
      BY <3>1
    <3> QED BY <2>4, <3>2 DEF old
  <2>5. CASE old = <<"requested">>
    <3>1. <<"requested", k>> \in seen
      BY <2>2, <2>3, <2>5
    <3>2. k # "requested"
      BY <3>1
    <3> QED BY <2>5, <3>2 DEF old
  <2>6. CASE old \in {<<"requested", "completed">>, <<"requested", "failed">>}
    <3>1. old \in Seq(ForgeTopics) /\ Len(old) = 2
      BY <1>4, <2>6 DEF old
    <3>2. Len(Append(old, k)) = 3
      BY <3>1, AppendProperties
    <3>3. \A q \in seen : Len(q) # 3
      OBVIOUS
    <3> QED BY <2>2, <3>2, <3>3
  <2> QED BY <2>1, <2>4, <2>5, <2>6
<1>6. ToSet(events'[r]) = ToSet(events[r]) \cup {k}
  <2>1. events[r] \in Seq(ForgeTopics)
    BY <1>4
  <2> QED BY <1>4, <2>1, ElementsOf
<1>7. ToSet(<<>>) = {} /\ ToSet(<<"requested">>) = {"requested"}
  BY DEF ToSet
<1> HIDE DEF x, n
<1>8. SaidInOrder'
  <2> SUFFICES ASSUME NEW c \in Requests, NEW l \in 1..n, c \in about'[l].by
               PROVE  /\ about'[l].says \in ToSet(events'[c])
                      /\ \A m \in 1..(l - 1) : c \in about'[m].by =>
                           about'[m].says = "requested" /\ about'[l].says # "requested"
    BY <1>2 DEF SaidInOrder, IsAbout
  <2>1. \A m \in 1..published : c \in about[m].by => about[m].says \in ToSet(events[c])
    BY DEF StreamIInv, SaidInOrder, IsAbout
  <2>2. CASE l = n
    <3>1. about'[l] = x /\ c = r /\ \A m \in 1..(l - 1) : m \in 1..published /\ about'[m] = about[m]
      BY <1>2, <1>3, <2>2 DEF n
    <3>2. about'[l].says = k /\ k \in ToSet(events'[c])
      BY <1>3, <1>6, <3>1
    <3>3. ASSUME NEW m \in 1..(l - 1), c \in about'[m].by
          PROVE  about'[m].says = "requested" /\ k # "requested"
      <4>1. about[m].says \in ToSet(events[r]) /\ about'[m] = about[m]
        BY <2>1, <3>1, <3>3
      <4> QED BY <1>5, <1>7, <4>1
    <3> QED BY <3>2, <3>3
  <2>3. CASE l # n
    <3>1. /\ l \in 1..published /\ about'[l] = about[l]
          /\ \A m \in 1..(l - 1) : m \in 1..published /\ about'[m] = about[m]
      BY <1>2, <2>3 DEF n
    <3>2. ToSet(events[c]) \subseteq ToSet(events'[c])
      BY <1>4, <1>6
    <3>3. \A m \in 1..(l - 1) : c \in about[m].by =>
            about[m].says = "requested" /\ about[l].says # "requested"
      BY <3>1 DEF StreamIInv, SaidInOrder, IsAbout
    <3> QED BY <2>1, <3>1, <3>2, <3>3
  <2> QED BY <2>2, <2>3
<1> QED BY <1>1, <1>2, <1>8, PublishOrders DEF StreamIInv

(* Another event is about no forge.                                        *)
LEMMA OtherKeeps ==
  ASSUME StreamIInv, NEW t \in Topics, OtherEvent(t)
  PROVE  about' \in Seq(Subject) /\ Len(about') = published' /\ SaidInOrder' /\ DueInOrder'
<1> DEFINE x == [by |-> {}, says |-> "other"]
           n == published + 1
<1>1. x \in Subject /\ x.by = {} /\ about' = Append(about, x) /\ Publish(t) /\ UNCHANGED events
  BY DEF OtherEvent, Subject, vars
<1>2. /\ about' \in Seq(Subject) /\ Len(about') = published' /\ published \in Nat
      /\ published' = n /\ about'[n] = x
      /\ \A m \in 1..published : about'[m] = about[m]
  BY <1>1, OneMoreEvent
<1> HIDE DEF x, n
<1>3. SaidInOrder'
  <2> SUFFICES ASSUME NEW c \in Requests, NEW l \in 1..n, c \in about'[l].by
               PROVE  /\ about'[l].says \in ToSet(events[c])
                      /\ \A m \in 1..(l - 1) : c \in about'[m].by =>
                           about'[m].says = "requested" /\ about'[l].says # "requested"
    BY <1>1, <1>2 DEF SaidInOrder, IsAbout
  <2>1. l # n
    BY <1>1, <1>2
  <2>2. /\ l \in 1..published /\ about'[l] = about[l]
        /\ \A m \in 1..(l - 1) : m \in 1..published /\ about'[m] = about[m]
    BY <1>2, <2>1 DEF n
  <2> QED BY <2>2 DEF StreamIInv, SaidInOrder, IsAbout
<1> QED BY <1>1, <1>2, <1>3, PublishOrders DEF StreamIInv

(* Every step keeps the invariant.                                         *)
LEMMA StreamStepKeeps == StreamIInv /\ [StreamNext]_streamVars => StreamIInv'
<1> SUFFICES ASSUME StreamIInv, [StreamNext]_streamVars PROVE StreamIInv'
  OBVIOUS
<1>1. IInv' /\ BusIInv'
  BY StepOfBoth, StepKeeps, BusStepKeeps DEF StreamIInv
<1>2. ASSUME UNCHANGED <<events, about, published, due>>
      PROVE  about' \in Seq(Subject) /\ Len(about') = published' /\ SaidInOrder' /\ DueInOrder'
  BY <1>2 DEF StreamIInv, SaidInOrder, DueInOrder, IsAbout
<1>3. CASE ForgeTells
  <2>1. CASE events' = events /\ UNCHANGED <<busVars, about>>
    BY <1>1, <1>2, <2>1 DEF StreamIInv, busVars
  <2>2. ASSUME NEW r \in Requests, NEW k \in ForgeTopics, Tell(r, k) PROVE StreamIInv'
    BY <1>1, <2>2, TellKeeps DEF StreamIInv
  <2> QED BY <1>3, <2>1, <2>2 DEF ForgeTells
<1>4. ASSUME NEW t \in Topics, OtherEvent(t) PROVE StreamIInv'
  BY <1>1, <1>4, OtherKeeps DEF StreamIInv
<1>5. CASE BusStep /\ UNCHANGED <<vars, about>>
  <2>1. UNCHANGED <<published, due>>
    BY <1>5 DEF BusStep, RunTask, Drain, DrainReturns, Connect, Take, Send, SendFails, HangUp
  <2> QED BY <1>1, <1>2, <1>5, <2>1 DEF StreamIInv, vars
<1>6. CASE UNCHANGED streamVars
  BY <1>1, <1>2, <1>6 DEF StreamIInv, streamVars, vars, busVars
<1> QED BY <1>3, <1>4, <1>5, <1>6 DEF StreamNext

(* What was sent is the beginning of what was due.                         *)
LEMMA WireIsPrefix ==
  ASSUME StreamIInv, NEW s \in Streams, NEW j \in DOMAIN wire[s]
  PROVE  /\ DOMAIN wire[s] = 1..Len(wire[s]) /\ Len(wire[s]) \in Nat
         /\ j \in 1..Len(due[s]) /\ wire[s][j] = due[s][j] /\ wire[s][j] \in 1..published
<1> DEFINE w == wire[s]
           e == event_queue[s]
           a == EventsOf(Kept(ready, TasksOf(s)))
           E == 1..MaxEvents
<1>1. /\ w \in Seq(E) /\ e \in Seq(E) /\ a \in Seq(E) /\ due[s] = (w \o e) \o a
  BY StreamFacts DEF StreamIInv
<1>2. w \in Seq(1..published)
  BY DEF StreamIInv, BusIInv, BusTypeOK
<1>3. DOMAIN w = 1..Len(w) /\ Len(w) \in Nat /\ w[j] \in 1..published
  <2> DEFINE D == 1..published
  <2>1. w \in Seq(D) /\ j \in DOMAIN w
    BY <1>2
  <2> HIDE DEF w, D
  <2>2. DOMAIN w = 1..Len(w) /\ Len(w) \in Nat /\ w[j] \in D
    BY <2>1
  <2> QED BY <2>2 DEF D
<1> HIDE DEF w, e, a, E
<1>4. (w \o e) \o a = w \o (e \o a) /\ e \o a \in Seq(E)
  BY <1>1, ConcatAssociative, ConcatProperties
<1> DEFINE b == e \o a
<1>5. b \in Seq(E) /\ due[s] = w \o b
  BY <1>1, <1>4
<1> HIDE DEF b
<1>6. /\ Len(w \o b) = Len(w) + Len(b) /\ Len(b) \in Nat
      /\ \A i \in 1..Len(w) : (w \o b)[i] = w[i]
  BY <1>1, <1>5, TwoInARow
<1> QED BY <1>3, <1>5, <1>6 DEF w

(* What the clients are told follows from it.                              *)
LEMMA ToldTruly == ASSUME StreamIInv PROVE ClientsToldTruly
<1> SUFFICES ASSUME NEW s \in Streams, NEW r \in Requests, NEW j \in DOMAIN wire[s],
                    IsAbout(wire[s][j], r)
             PROVE  /\ about[wire[s][j]].says = "completed" => tools[r] # NoName /\ r \in files
                    /\ \A i \in 1..(j - 1) : IsAbout(wire[s][i], r) =>
                         about[wire[s][i]].says = "requested" /\ about[wire[s][j]].says # "requested"
  BY DEF ClientsToldTruly
<1>1. /\ DOMAIN wire[s] = 1..Len(wire[s]) /\ Len(wire[s]) \in Nat
      /\ j \in 1..Len(due[s]) /\ wire[s][j] = due[s][j] /\ wire[s][j] \in 1..published
  BY WireIsPrefix
<1>2. published \in Nat
  BY BusAssumption DEF StreamIInv, BusIInv, BusTypeOK
<1>3. about[wire[s][j]].says \in ToSet(events[r])
  BY <1>1 DEF StreamIInv, SaidInOrder
<1>4. ASSUME about[wire[s][j]].says = "completed" PROVE tools[r] # NoName /\ r \in files
  <2>1. Contains(events[r], "completed")
    <3>1. events[r] \in Seq(ForgeTopics)
      BY DEF StreamIInv, IInv, TypeOK
    <3>2. DOMAIN events[r] = 1..Len(events[r])
      BY <3>1
    <3> QED BY <1>3, <1>4, <3>2 DEF ToSet, Contains
  <2> QED BY <2>1, Reported DEF StreamIInv, ReportedIsQuarantined
<1>5. ASSUME NEW i \in 1..(j - 1), IsAbout(wire[s][i], r)
      PROVE  about[wire[s][i]].says = "requested" /\ about[wire[s][j]].says # "requested"
  <2>1. i \in DOMAIN wire[s]
    BY <1>1
  <2>2. wire[s][i] = due[s][i] /\ wire[s][i] \in 1..published
    BY <2>1, WireIsPrefix
  <2>3. due[s][i] < due[s][j]
    BY <1>1 DEF StreamIInv, DueInOrder
  <2>4. wire[s][i] \in 1..(wire[s][j] - 1)
    BY <1>1, <1>2, <2>2, <2>3
  <2> QED BY <1>1, <1>5, <2>4 DEF StreamIInv, SaidInOrder
<1> QED BY <1>4, <1>5

(* For any number of requests, clients and events: a client told of a new  *)
(* tool finds it, and is told of each forge in its order (forge.py:80-151, *)
(* events.py:64-102, routes/events.py:33).                                 *)
THEOREM ClientsAreToldTruly == StreamSpec => []ClientsToldTruly
<1>1. StreamIInv => ClientsToldTruly
  BY ToldTruly
<1> QED BY <1>1, StreamInitHolds, StreamStepKeeps, PTL DEF StreamSpec

(* The composition is a forge that does not crash, and a bus whose events  *)
(* are the forge's and others: all that is proved of either holds of it.   *)
THEOREM StreamImplementsParts == StreamSpec => Init /\ [][Next]_vars /\ BusSpec
<1>1. StreamInit => Init /\ BusInit
  BY DEF StreamInit
<1>2. [StreamNext]_streamVars => [Next]_vars /\ [BusNext]_busVars
  BY StepOfBoth
<1> QED BY <1>1, <1>2, PTL DEF StreamSpec, BusSpec
=============================================================================
