------------------------- MODULE IntentQueueProofs --------------------------
(***************************************************************************)
(* Proofs about IntentQueue, for any finite set of drainers, any batch     *)
(* size and any number of intents and faults.  Nothing claims an intent;   *)
(* what bounds its deliveries is that a row which left "pending" never     *)
(* returns, so that from its first mark on only the drainers that have it  *)
(* in their batch already (Will) can deliver it once more.                 *)
(***************************************************************************)
EXTENDS IntentQueue, FiniteSetTheorems, WellFoundedInduction, TLAPS

\* Record r of a drainer: it delivered i and has not marked it; it has i still
\* to deliver.
RanBy(r, i) == r.at \in {"complete", "fail"} /\ Min(r.batch) = i
WillBy(r, i) == i \in r.batch /\ ~RanBy(r, i)

Ran(i) == {d \in Drainers : RanBy(drain[d], i)}
Will(i) == {d \in Drainers : WillBy(drain[d], i)}

\* What a drainer is about to mark completed was processed.
ProcessedFirst ==
  \A d \in Drainers : drain[d].at = "complete" => Current(d) \in good

\* While i is pending, each delivery is in progress or lost.
Unmarked(i) == runs[i] <= lost[i] + Cardinality(Ran(i))
Marked(i) == runs[i] + Cardinality(Will(i)) <= Cardinality(Drainers) + lost[i]
Bounded(i) == IF status[i] = "pending" THEN Unmarked(i) ELSE Marked(i)

\* An attempt that is still to come is within the policy.
AttemptsLeft ==
  \A c \in Callers :
    call[c].at \in {"new", "calling", "waiting"} => call[c].attempts < MaxAttempts

IInv ==
  /\ TypeOK /\ AttemptsLeft /\ ProcessedFirst /\ CompletedWasProcessed
  /\ \A i \in Intents : Bounded(i)

-----------------------------------------------------------------------------
(* Least elements and counting                                             *)

(* A set of intents has a least one, which the for loop takes first.       *)
LEMMA MinIsLeast ==
  ASSUME NEW S, S \subseteq Nat, S # {}
  PROVE  Min(S) \in S /\ \A x \in S : Min(S) <= x
<1>1. PICK m \in S : \A x \in S : ~(<<x, m>> \in OpToRel(<, Nat))
  BY NatLessThanWellFounded, WFMin
<1>2. \A x \in S : m <= x
  <2> TAKE x \in S
  <2>1. m \in Nat /\ x \in Nat /\ ~(x < m)
    BY <1>1 DEF OpToRel
  <2> QED BY <2>1
<1> QED BY <1>2 DEF Min

(* Sets of drainers are finite.                                            *)
LEMMA Sizes ==
  ASSUME NEW S, S \subseteq Drainers
  PROVE  /\ IsFiniteSet(S) /\ Cardinality(S) \in Nat
         /\ Cardinality(Drainers) \in Nat /\ Cardinality(S) <= Cardinality(Drainers)
<1>1. IsFiniteSet(Drainers)
  BY QueueAssumption DEF QueueAssumption
<1> QED BY <1>1, FS_Subset, FS_CardinalityType

(* A set that changes at one drainer changes its size by one.              *)
LEMMA OneChanges ==
  ASSUME NEW S, S \subseteq Drainers, NEW T, T \subseteq Drainers,
         NEW d \in Drainers, S \ {d} = T \ {d}
  PROVE  /\ (d \in S <=> d \in T) => Cardinality(T) = Cardinality(S)
         /\ d \in S /\ d \notin T => Cardinality(T) = Cardinality(S) - 1
         /\ d \notin S /\ d \in T => Cardinality(T) = Cardinality(S) + 1
<1>1. IsFiniteSet(S) /\ IsFiniteSet(T) /\ Cardinality(S) \in Nat /\ Cardinality(T) \in Nat
  BY Sizes
<1>2. Cardinality(S \ {d}) = IF d \in S THEN Cardinality(S) - 1 ELSE Cardinality(S)
  BY <1>1, FS_RemoveElement
<1>3. Cardinality(T \ {d}) = IF d \in T THEN Cardinality(T) - 1 ELSE Cardinality(T)
  BY <1>1, FS_RemoveElement
<1>4. Cardinality(S \ {d}) = Cardinality(T \ {d})
  OBVIOUS
<1>5. CASE d \in S
  BY <1>1, <1>2, <1>3, <1>4, <1>5
<1>6. CASE d \notin S
  BY <1>1, <1>2, <1>3, <1>4, <1>6
<1> QED BY <1>5, <1>6

(* Nobody has delivered an intent and has it still to deliver.             *)
LEMMA RanOrWill ==
  ASSUME NEW i
  PROVE  Cardinality(Ran(i)) + Cardinality(Will(i)) <= Cardinality(Drainers)
<1>1. Ran(i) \subseteq Drainers /\ Will(i) \subseteq Drainers /\ Ran(i) \cap Will(i) = {}
  BY DEF Ran, Will, WillBy
<1>2. Cardinality(Ran(i) \cup Will(i)) =
        Cardinality(Ran(i)) + Cardinality(Will(i)) - Cardinality(Ran(i) \cap Will(i))
  BY <1>1, Sizes, FS_Union
<1>3. Cardinality(Ran(i) \cap Will(i)) = 0
  BY <1>1, FS_EmptySet
<1>4. Cardinality(Ran(i) \cup Will(i)) <= Cardinality(Drainers)
  BY <1>1, Sizes
<1> QED BY <1>1, <1>2, <1>3, <1>4, Sizes

(* What a step of one drainer does to the two sets.                        *)
LEMMA OneMoves ==
  ASSUME TypeOK, NEW d \in Drainers, NEW x, drain' = [drain EXCEPT ![d] = x], NEW i
  PROVE  /\ (RanBy(x, i) <=> RanBy(drain[d], i)) => Cardinality(Ran(i)') = Cardinality(Ran(i))
         /\ RanBy(drain[d], i) /\ ~RanBy(x, i) => Cardinality(Ran(i)') = Cardinality(Ran(i)) - 1
         /\ ~RanBy(drain[d], i) /\ RanBy(x, i) => Cardinality(Ran(i)') = Cardinality(Ran(i)) + 1
         /\ (WillBy(x, i) <=> WillBy(drain[d], i)) => Cardinality(Will(i)') = Cardinality(Will(i))
         /\ WillBy(drain[d], i) /\ ~WillBy(x, i) => Cardinality(Will(i)') = Cardinality(Will(i)) - 1
         /\ ~WillBy(drain[d], i) /\ WillBy(x, i) => Cardinality(Will(i)') = Cardinality(Will(i)) + 1
<1>1. drain'[d] = x /\ \A e \in Drainers \ {d} : drain'[e] = drain[e]
  BY DEF TypeOK
<1>2. /\ Ran(i) \subseteq Drainers /\ Ran(i)' \subseteq Drainers
      /\ Will(i) \subseteq Drainers /\ Will(i)' \subseteq Drainers
  BY DEF Ran, Will
<1>3. /\ d \in Ran(i) <=> RanBy(drain[d], i)
      /\ d \in Ran(i)' <=> RanBy(x, i)
      /\ d \in Will(i) <=> WillBy(drain[d], i)
      /\ d \in Will(i)' <=> WillBy(x, i)
  BY <1>1 DEF Ran, Will
<1>4. Ran(i) \ {d} = Ran(i)' \ {d} /\ Will(i) \ {d} = Will(i)' \ {d}
  BY <1>1 DEF Ran, Will
<1>5. /\ (d \in Ran(i) <=> d \in Ran(i)') => Cardinality(Ran(i)') = Cardinality(Ran(i))
      /\ d \in Ran(i) /\ d \notin Ran(i)' => Cardinality(Ran(i)') = Cardinality(Ran(i)) - 1
      /\ d \notin Ran(i) /\ d \in Ran(i)' => Cardinality(Ran(i)') = Cardinality(Ran(i)) + 1
  BY <1>2, <1>4, OneChanges
<1>6. /\ (d \in Will(i) <=> d \in Will(i)') => Cardinality(Will(i)') = Cardinality(Will(i))
      /\ d \in Will(i) /\ d \notin Will(i)' => Cardinality(Will(i)') = Cardinality(Will(i)) - 1
      /\ d \notin Will(i) /\ d \in Will(i)' => Cardinality(Will(i)') = Cardinality(Will(i)) + 1
  BY <1>2, <1>4, OneChanges
<1> QED BY <1>3, <1>5, <1>6

-----------------------------------------------------------------------------
(* One drainer                                                             *)

Record == [at : {"idle", "process", "complete", "fail"}, batch : SUBSET Intents]
RecordOK(r) == r \in Record /\ ((r.at # "idle") <=> (r.batch # {}))

(* A drainer that is not idle has an intent at hand, the first of its batch. *)
LEMMA AtHand ==
  ASSUME TypeOK, NEW d \in Drainers
  PROVE  /\ RecordOK(drain[d]) /\ Intents = 1..Len(status) /\ Len(status) \in Nat
         /\ drain[d].at # "idle" => Current(d) \in drain[d].batch /\ Current(d) \in Intents
<1>1. RecordOK(drain[d]) /\ Intents = 1..Len(status) /\ Len(status) \in Nat
  BY DEF TypeOK, RecordOK, Record, Intents
<1>2. drain[d].batch \subseteq Nat
  BY <1>1 DEF RecordOK, Record
<1>3. drain[d].at # "idle" => Current(d) \in drain[d].batch
  BY <1>1, <1>2, MinIsLeast DEF RecordOK, Current
<1> QED BY <1>1, <1>3 DEF RecordOK, Record

(* The loop goes on with what is left, and has delivered none of it.       *)
LEMMA RestOfBatch ==
  ASSUME TypeOK, NEW d \in Drainers, NEW x \in {Idle, Advance(d)}
  PROVE  /\ RecordOK(x) /\ x.at \in {"idle", "process"}
         /\ \A i : ~RanBy(x, i)
         /\ \A i : WillBy(x, i) => i \in drain[d].batch /\ i # Current(d)
<1> DEFINE rest == drain[d].batch \ {Current(d)}
<1>1. Idle.at = "idle" /\ Idle.batch = {} /\ Idle \in Record
  BY DEF Idle, Record
<1>2. rest \subseteq Intents
  BY AtHand DEF RecordOK, Record
<1>3. CASE x = Idle
  BY <1>1, <1>3 DEF RecordOK, RanBy, WillBy
<1>4. CASE x # Idle
  <2>1. rest # {} /\ x = [at |-> "process", batch |-> rest]
    BY <1>4 DEF Advance
  <2>2. x.at = "process" /\ x.batch = rest /\ x \in Record
    BY <1>2, <2>1 DEF Record
  <2> QED BY <2>1, <2>2 DEF RecordOK, RanBy, WillBy
<1> QED BY <1>3, <1>4

(* Typing, for a step of one drainer that adds no row.                     *)
LEMMA DrainTyped ==
  ASSUME TypeOK, NEW d \in Drainers, NEW x, RecordOK(x),
         drain' = [drain EXCEPT ![d] = x], UNCHANGED call,
         status' \in Seq({"pending", "completed", "failed"}), Len(status') = Len(status),
         runs' \in Seq(Nat), lost' \in Seq(Nat),
         Len(runs') = Len(runs), Len(lost') = Len(lost),
         good' \subseteq Intents, faults' \in 0..MaxFaults
  PROVE  TypeOK' /\ Intents' = Intents
<1>1. Intents' = Intents
  BY DEF Intents, TypeOK
<1>2. drain' \in [Drainers -> Record]
  BY DEF TypeOK, Record, RecordOK
<1>3. \A e \in Drainers : (drain'[e].at # "idle") <=> (drain'[e].batch # {})
  BY DEF TypeOK, RecordOK
<1> QED BY <1>1, <1>2, <1>3 DEF TypeOK, Record

(* The rest of the invariant, for a step of one drainer that keeps the     *)
(* counts within their bounds.                                             *)
LEMMA DrainKeeps ==
  ASSUME IInv, TypeOK', Intents' = Intents,
         NEW d \in Drainers, NEW x, RecordOK(x),
         drain' = [drain EXCEPT ![d] = x], UNCHANGED call,
         good \subseteq good',
         x.at = "complete" => Min(x.batch) \in good',
         \A i \in Intents : status'[i] = "completed" => status[i] = "completed" \/ i \in good',
         \A i \in Intents : Bounded(i)'
  PROVE  IInv'
<1>1. ProcessedFirst'
  <2>1. \A e \in Drainers : e # d => drain'[e] = drain[e]
    BY DEF IInv, TypeOK
  <2>2. drain'[d] = x
    BY DEF IInv, TypeOK
  <2> QED BY <2>1, <2>2 DEF IInv, ProcessedFirst, Current
<1>2. CompletedWasProcessed'
  BY DEF IInv, CompletedWasProcessed
<1>3. AttemptsLeft'
  BY DEF IInv, AttemptsLeft
<1> QED BY <1>1, <1>2, <1>3 DEF IInv

(* What is counted are natural numbers.                                    *)
LEMMA Counts ==
  ASSUME TypeOK, NEW i \in Intents
  PROVE  /\ runs[i] \in Nat /\ lost[i] \in Nat
         /\ Cardinality(Ran(i)) \in Nat /\ Cardinality(Will(i)) \in Nat
         /\ Cardinality(Drainers) \in Nat
         /\ Cardinality(Ran(i)) + Cardinality(Will(i)) <= Cardinality(Drainers)
<1>1. Ran(i) \subseteq Drainers /\ Will(i) \subseteq Drainers
  BY DEF Ran, Will
<1>2. runs[i] \in Nat /\ lost[i] \in Nat
  BY DEF TypeOK, Intents
<1> QED BY <1>1, <1>2, Sizes, RanOrWill

-----------------------------------------------------------------------------
(* The steps of a drainer                                                  *)

(* A drainer that is idle takes pending intents only.                      *)
LEMMA BeginKeeps ==
  ASSUME IInv, NEW d \in Drainers, BeginDrain(d) PROVE IInv'
<1>0. PICK rows \in GetPending \ {{}} :
        drain' = [drain EXCEPT ![d] = [at |-> "process", batch |-> rows]]
  BY DEF BeginDrain
<1> DEFINE x == [at |-> "process", batch |-> rows]
<1>1. TypeOK /\ drain[d].at = "idle" /\ drain[d].batch = {}
  BY DEF IInv, TypeOK, BeginDrain
<1>2. rows \subseteq Intents /\ \A i \in rows : status[i] = "pending"
  BY DEF GetPending, Pending
<1>3. RecordOK(x) /\ x.at = "process" /\ x.batch = rows
  BY <1>2 DEF RecordOK, Record
<1>4. drain' = [drain EXCEPT ![d] = x]
      /\ UNCHANGED <<status, call, runs, good, lost, faults>>
  BY <1>0 DEF BeginDrain
<1> HIDE DEF x
<1>5. TypeOK' /\ Intents' = Intents
  BY <1>1, <1>3, <1>4, DrainTyped DEF TypeOK
<1>6. ASSUME NEW i \in Intents PROVE Bounded(i)'
  <2>1. ~RanBy(drain[d], i) /\ ~RanBy(x, i) /\ ~WillBy(drain[d], i)
    BY <1>1, <1>3 DEF RanBy, WillBy
  <2>2. status[i] # "pending" => ~WillBy(x, i)
    BY <1>2, <1>3 DEF WillBy
  <2>3. Cardinality(Ran(i)') = Cardinality(Ran(i))
    <3>1. (RanBy(x, i) <=> RanBy(drain[d], i)) => Cardinality(Ran(i)') = Cardinality(Ran(i))
      BY <1>1, <1>4, OneMoves
    <3> QED BY <2>1, <3>1
  <2>4. status[i] # "pending" => Cardinality(Will(i)') = Cardinality(Will(i))
    BY <1>1, <1>4, <2>1, <2>2, OneMoves
  <2>5. Bounded(i)
    BY DEF IInv
  <2> QED BY <1>4, <2>3, <2>4, <2>5 DEF Bounded, Unmarked, Marked
<1>7. \A i \in Intents : status'[i] = "completed" => status[i] = "completed" \/ i \in good'
  BY <1>4
<1> QED BY <1>3, <1>4, <1>5, <1>6, <1>7, DrainKeeps

(* A delivery is one of those the batch still had to make.                 *)
LEMMA ProcessKeeps ==
  ASSUME IInv, NEW d \in Drainers, Process(d) PROVE IInv'
<1> DEFINE c == Current(d)
<1>1. TypeOK /\ drain[d].at = "process" /\ RecordOK(drain[d])
      /\ c \in drain[d].batch /\ c \in Intents
  BY AtHand DEF IInv, Process
<1>2. PICK p \in {"complete", "fail"} :
        /\ drain' = [drain EXCEPT ![d].at = p]
        /\ good' = good \cup {c} \/ good' = good
        /\ p = "complete" => c \in good'
  BY <1>1 DEF Process
<1> DEFINE x == [drain[d] EXCEPT !.at = p]
<1>3. x.at = p /\ x.batch = drain[d].batch /\ RecordOK(x)
  BY <1>1 DEF RecordOK, Record
<1>4. /\ drain' = [drain EXCEPT ![d] = x]
      /\ runs' = [runs EXCEPT ![c] = @ + 1]
      /\ UNCHANGED <<status, call, lost, faults>>
  BY <1>2 DEF Process
<1>5. Min(x.batch) = c /\ Min(drain[d].batch) = c
  BY <1>3 DEF Current
<1> HIDE DEF x, c
<1>6. TypeOK' /\ Intents' = Intents
  <2>1. runs' \in Seq(Nat) /\ Len(runs') = Len(runs)
    BY <1>1, <1>4 DEF TypeOK, Intents
  <2>2. good' \subseteq Intents
    BY <1>1, <1>2 DEF TypeOK
  <2> QED BY <1>1, <1>3, <1>4, <2>1, <2>2, DrainTyped DEF TypeOK
<1>7. ASSUME NEW i \in Intents PROVE Bounded(i)'
  <2>1. Bounded(i) /\ runs[i] \in Nat /\ lost[i] \in Nat /\ Cardinality(Ran(i)) \in Nat
        /\ Cardinality(Will(i)) \in Nat /\ Cardinality(Drainers) \in Nat
    BY <1>1, Counts DEF IInv
  <2>2. runs'[i] = IF i = c THEN runs[i] + 1 ELSE runs[i]
    BY <1>1, <1>4 DEF TypeOK, Intents
  <2>3. ~RanBy(drain[d], i) /\ (RanBy(x, i) <=> i = c)
    BY <1>1, <1>2, <1>3, <1>5 DEF RanBy
  <2>4. /\ WillBy(drain[d], i) <=> i \in drain[d].batch
        /\ WillBy(x, i) <=> i \in drain[d].batch /\ i # c
    BY <1>3, <2>3 DEF WillBy
  <2>5. CASE i = c
    <3>1. Cardinality(Ran(i)') = Cardinality(Ran(i)) + 1
      BY <1>1, <1>4, <2>3, <2>5, OneMoves
    <3>2. Cardinality(Will(i)') = Cardinality(Will(i)) - 1
      BY <1>1, <1>4, <2>4, <2>5, OneMoves
    <3> QED BY <1>4, <2>1, <2>2, <2>5, <3>1, <3>2 DEF Bounded, Unmarked, Marked
  <2>6. CASE i # c
    <3>1. Cardinality(Ran(i)') = Cardinality(Ran(i))
      BY <1>1, <1>4, <2>3, <2>6, OneMoves
    <3>2. Cardinality(Will(i)') = Cardinality(Will(i))
      BY <1>1, <1>4, <2>4, <2>6, OneMoves
    <3> QED BY <1>4, <2>1, <2>2, <2>6, <3>1, <3>2 DEF Bounded, Unmarked, Marked
  <2> QED BY <2>5, <2>6
<1>8. x.at = "complete" => Min(x.batch) \in good'
  BY <1>2, <1>3, <1>5
<1>9. good \subseteq good'
  BY <1>2
<1>10. \A i \in Intents : status'[i] = "completed" => status[i] = "completed" \/ i \in good'
  BY <1>4
<1> QED BY <1>3, <1>4, <1>6, <1>7, <1>8, <1>9, <1>10, DrainKeeps

(* The intent at hand leaves the batch with a mark, or the drain is lost.  *)
LEMMA LeaveKeeps ==
  ASSUME IInv, NEW d \in Drainers, drain[d].at # "idle",
         NEW x \in {Idle, Advance(d)}, drain' = [drain EXCEPT ![d] = x],
         UNCHANGED <<call, runs, good>>, faults' \in 0..MaxFaults,
         NEW v, \/ /\ drain[d].at = "complete" /\ v = "completed"
                   /\ status' = [status EXCEPT ![Current(d)] = v] /\ lost' = lost
                \/ /\ drain[d].at = "fail" /\ v = "failed"
                   /\ status' = [status EXCEPT ![Current(d)] = v] /\ lost' = lost
                \/ /\ x = Idle /\ v = "lost"
                   /\ lost' = [lost EXCEPT ![Current(d)] = @ + 1] /\ status' = status
  PROVE  IInv'
<1> DEFINE c == Current(d)
<1>1. TypeOK /\ RecordOK(drain[d]) /\ c \in drain[d].batch /\ c \in Intents
  BY AtHand DEF IInv
<1>2. /\ RecordOK(x) /\ x.at \in {"idle", "process"} /\ \A i : ~RanBy(x, i)
      /\ \A i : WillBy(x, i) => i \in drain[d].batch /\ i # c
  BY <1>1, RestOfBatch
<1>3. Min(drain[d].batch) = c
  BY DEF Current
<1>4. v # "lost" => /\ drain[d].at \in {"complete", "fail"}
                    /\ v \in {"completed", "failed"}
                    /\ status' = [status EXCEPT ![c] = v] /\ lost' = lost
  OBVIOUS
<1>5. v = "lost" => x = Idle /\ lost' = [lost EXCEPT ![c] = @ + 1] /\ status' = status
  OBVIOUS
<1>6. v = "completed" => drain[d].at = "complete"
  OBVIOUS
<1> HIDE DEF c
<1>7. TypeOK' /\ Intents' = Intents
  <2>1. status' \in Seq({"pending", "completed", "failed"}) /\ Len(status') = Len(status)
    <3>1. CASE v = "lost"
      BY <1>1, <1>5, <3>1 DEF TypeOK
    <3>2. CASE v # "lost"
      <4>1. v \in {"completed", "failed"} /\ status' = [status EXCEPT ![c] = v]
        BY <1>4, <3>2
      <4>2. v \in {"pending", "completed", "failed"}
        BY <4>1
      <4>3. status \in Seq({"pending", "completed", "failed"})
        BY <1>1 DEF TypeOK
      <4> QED BY <1>1, <4>1, <4>2, <4>3 DEF Intents
    <3> QED BY <3>1, <3>2
  <2>2. lost' \in Seq(Nat) /\ Len(lost') = Len(lost)
    <3>1. CASE v = "lost"
      <4>1. lost' = [lost EXCEPT ![c] = lost[c] + 1] /\ lost \in Seq(Nat) /\ c \in DOMAIN lost
        BY <1>1, <1>5, <3>1 DEF TypeOK, Intents
      <4>2. lost[c] + 1 \in Nat
        BY <4>1
      <4> QED BY <4>1, <4>2
    <3>2. CASE v # "lost"
      BY <1>1, <1>4, <3>2 DEF TypeOK
    <3> QED BY <3>1, <3>2
  <2> QED BY <1>1, <1>2, <2>1, <2>2, DrainTyped DEF TypeOK
<1>8. ASSUME NEW i \in Intents PROVE Bounded(i)'
  <2>1. Bounded(i) /\ runs[i] \in Nat /\ lost[i] \in Nat /\ Cardinality(Ran(i)) \in Nat
        /\ Cardinality(Will(i)) \in Nat /\ Cardinality(Drainers) \in Nat
        /\ Cardinality(Ran(i)) + Cardinality(Will(i)) <= Cardinality(Drainers)
    BY <1>1, Counts DEF IInv
  <2>2. ~RanBy(x, i) /\ (RanBy(drain[d], i) <=> i = c /\ drain[d].at \in {"complete", "fail"})
    BY <1>2, <1>3 DEF RanBy
  <2>3. WillBy(x, i) => WillBy(drain[d], i)
    BY <1>2, <2>2 DEF WillBy
  <2>4. /\ Cardinality(Will(i)') = Cardinality(Will(i))
           \/ Cardinality(Will(i)') = Cardinality(Will(i)) - 1
        /\ i # c => Cardinality(Ran(i)') = Cardinality(Ran(i))
        /\ Cardinality(Ran(i)') = Cardinality(Ran(i))
           \/ Cardinality(Ran(i)') = Cardinality(Ran(i)) - 1
    <3>1. /\ (RanBy(x, i) <=> RanBy(drain[d], i)) => Cardinality(Ran(i)') = Cardinality(Ran(i))
          /\ RanBy(drain[d], i) /\ ~RanBy(x, i) =>
               Cardinality(Ran(i)') = Cardinality(Ran(i)) - 1
          /\ (WillBy(x, i) <=> WillBy(drain[d], i)) => Cardinality(Will(i)') = Cardinality(Will(i))
          /\ WillBy(drain[d], i) /\ ~WillBy(x, i) =>
               Cardinality(Will(i)') = Cardinality(Will(i)) - 1
      BY <1>1, OneMoves
    <3> QED BY <2>2, <2>3, <3>1
  <2>5. CASE i # c
    <3>1. status'[i] = status[i] /\ lost'[i] = lost[i]
      BY <1>1, <1>4, <1>5, <2>5 DEF TypeOK, Intents
    <3> QED BY <2>1, <2>4, <2>5, <3>1 DEF Bounded, Unmarked, Marked
  <2>6. CASE i = c /\ v # "lost"
    <3>1. status'[i] # "pending" /\ lost'[i] = lost[i]
      BY <1>1, <1>4, <2>6 DEF TypeOK, Intents
    <3> QED BY <2>1, <2>4, <3>1 DEF Bounded, Unmarked, Marked
  <2>7. CASE i = c /\ v = "lost"
    <3>1. status'[i] = status[i] /\ lost'[i] = lost[i] + 1
      BY <1>1, <1>5, <2>7 DEF TypeOK, Intents
    <3> QED BY <2>1, <2>4, <3>1 DEF Bounded, Unmarked, Marked
  <2> QED BY <2>5, <2>6, <2>7
<1>9. \A i \in Intents : status'[i] = "completed" => status[i] = "completed" \/ i \in good'
  <2>1. drain[d].at = "complete" => c \in good
    BY DEF IInv, ProcessedFirst, c
  <2> QED BY <1>1, <1>4, <1>5, <1>6, <2>1 DEF TypeOK, Intents
<1> QED BY <1>2, <1>7, <1>8, <1>9, DrainKeeps

(* A mark whose write raises leaves the intent delivered and unmarked.     *)
LEMMA MarkRaisesKeeps ==
  ASSUME IInv, NEW d \in Drainers, drain[d].at = "complete",
         drain' = [drain EXCEPT ![d].at = "fail"],
         UNCHANGED <<status, call, runs, good, lost>>, faults' \in 0..MaxFaults
  PROVE  IInv'
<1> DEFINE x == [drain[d] EXCEPT !.at = "fail"]
<1>1. TypeOK /\ RecordOK(drain[d])
  BY AtHand DEF IInv
<1>2. x.at = "fail" /\ x.batch = drain[d].batch /\ RecordOK(x)
  BY <1>1 DEF RecordOK, Record
<1>3. drain' = [drain EXCEPT ![d] = x]
  OBVIOUS
<1> HIDE DEF x
<1>4. TypeOK' /\ Intents' = Intents
  BY <1>1, <1>2, <1>3, DrainTyped DEF TypeOK
<1>5. ASSUME NEW i \in Intents PROVE Bounded(i)'
  <2>1. (RanBy(x, i) <=> RanBy(drain[d], i)) /\ (WillBy(x, i) <=> WillBy(drain[d], i))
    BY <1>2 DEF RanBy, WillBy
  <2>2. /\ (RanBy(x, i) <=> RanBy(drain[d], i)) => Cardinality(Ran(i)') = Cardinality(Ran(i))
        /\ (WillBy(x, i) <=> WillBy(drain[d], i)) => Cardinality(Will(i)') = Cardinality(Will(i))
    BY <1>1, <1>3, OneMoves
  <2> QED BY <2>1, <2>2 DEF IInv, Bounded, Unmarked, Marked
<1>6. \A i \in Intents : status'[i] = "completed" => status[i] = "completed" \/ i \in good'
  OBVIOUS
<1> QED BY <1>2, <1>3, <1>4, <1>5, <1>6, DrainKeeps

(* mark_completed(), mark_failed() and a cancelled drain are of these kinds. *)
LEMMA MarkKeeps ==
  ASSUME IInv, NEW d \in Drainers, MarkCompleted(d) \/ MarkFailed(d) \/ CancelDrain(d)
  PROVE  IInv'
<1>1. Fault => faults' \in 0..MaxFaults
  BY QueueAssumption DEF IInv, TypeOK, Fault, QueueAssumption
<1>2. faults \in 0..MaxFaults
  BY DEF IInv, TypeOK
<1>3. CASE MarkCompleted(d)
  <2>1. CASE /\ status' = [status EXCEPT ![Current(d)] = "completed"]
             /\ drain' = [drain EXCEPT ![d] = Advance(d)]
             /\ UNCHANGED faults
    BY <1>2, <1>3, <2>1, LeaveKeeps DEF MarkCompleted
  <2>2. CASE /\ Fault /\ drain' = [drain EXCEPT ![d].at = "fail"] /\ UNCHANGED status
    BY <1>1, <1>3, <2>2, MarkRaisesKeeps DEF MarkCompleted
  <2> QED BY <1>3, <2>1, <2>2 DEF MarkCompleted
<1>4. CASE MarkFailed(d)
  <2>1. CASE /\ status' = [status EXCEPT ![Current(d)] = "failed"]
             /\ drain' = [drain EXCEPT ![d] = Advance(d)]
             /\ UNCHANGED <<lost, faults>>
    BY <1>2, <1>4, <2>1, LeaveKeeps DEF MarkFailed
  <2>2. CASE /\ Fault
             /\ lost' = [lost EXCEPT ![Current(d)] = @ + 1]
             /\ drain' = [drain EXCEPT ![d] = Idle]
             /\ UNCHANGED status
    BY <1>1, <1>4, <2>2, LeaveKeeps DEF MarkFailed
  <2> QED BY <1>4, <2>1, <2>2 DEF MarkFailed
<1>5. CASE CancelDrain(d)
  BY <1>1, <1>5, LeaveKeeps DEF CancelDrain
<1> QED BY <1>3, <1>4, <1>5

-----------------------------------------------------------------------------
(* The other steps                                                         *)

(* A new row has been delivered to nobody.                                 *)
LEMMA EnqueueKeeps ==
  ASSUME IInv, Enqueue PROVE IInv'
<1> DEFINE n == Len(status) + 1
<1>1. TypeOK /\ Len(status) \in Nat /\ Len(status) < MaxIntents
      /\ UNCHANGED <<drain, call, good, faults>>
  BY DEF IInv, TypeOK, Enqueue
<1>2. /\ status' \in Seq({"pending", "completed", "failed"}) /\ Len(status') = n
      /\ status'[n] = "pending" /\ \A i \in 1..Len(status) : status'[i] = status[i]
  BY <1>1 DEF TypeOK, Enqueue
<1>3. /\ runs' \in Seq(Nat) /\ Len(runs') = n /\ runs'[n] = 0
      /\ \A i \in 1..Len(status) : runs'[i] = runs[i]
  BY <1>1 DEF TypeOK, Enqueue
<1>4. /\ lost' \in Seq(Nat) /\ Len(lost') = n /\ lost'[n] = 0
      /\ \A i \in 1..Len(status) : lost'[i] = lost[i]
  BY <1>1 DEF TypeOK, Enqueue
<1>5. /\ Intents = 1..Len(status) /\ Intents' = 1..n
      /\ \A i \in Intents' : i \in Intents \/ i = n
  BY <1>1, <1>2 DEF Intents, TypeOK
<1>6. n \in Nat /\ n <= MaxIntents /\ Intents \subseteq Intents'
  BY <1>1, <1>5, QueueAssumption DEF QueueAssumption
<1> HIDE DEF n
<1>7. TypeOK'
  <2>1. drain' \in [Drainers -> [at : {"idle", "process", "complete", "fail"},
                                batch : SUBSET Intents']]
    <3>1. drain \in [Drainers -> [at : {"idle", "process", "complete", "fail"},
                                 batch : SUBSET Intents]]
      BY <1>1 DEF TypeOK
    <3> QED BY <1>1, <1>6, <3>1
  <2>2. good' \subseteq Intents'
    BY <1>1, <1>6 DEF TypeOK
  <2> QED BY <1>1, <1>2, <1>3, <1>4, <1>6, <2>1, <2>2 DEF TypeOK
<1>8. ASSUME NEW i \in Intents' PROVE Bounded(i)'
  <2>1. Ran(i)' = Ran(i) /\ Will(i)' = Will(i)
    BY <1>1 DEF Ran, Will
  <2>2. Cardinality(Ran(i)) \in Nat
    BY Sizes DEF Ran
  <2>3. CASE i \in Intents
    <3>1. Bounded(i) /\ i \in 1..Len(status)
      BY <1>5, <2>3 DEF IInv
    <3> QED BY <1>2, <1>3, <1>4, <2>1, <3>1 DEF Bounded, Unmarked, Marked
  <2>4. CASE i = n
    BY <1>2, <1>3, <1>4, <2>1, <2>2, <2>4 DEF Bounded, Unmarked
  <2> QED BY <1>5, <2>3, <2>4
<1>9. CompletedWasProcessed'
  <2> SUFFICES ASSUME NEW i \in Intents', status'[i] = "completed" PROVE i \in good'
    BY DEF CompletedWasProcessed
  <2>1. i \in Intents /\ i \in 1..Len(status)
    BY <1>2, <1>5
  <2>2. status[i] = "completed"
    BY <1>2, <2>1
  <2> QED BY <1>1, <2>1, <2>2 DEF IInv, CompletedWasProcessed
<1>10. ProcessedFirst' /\ AttemptsLeft'
  BY <1>1 DEF IInv, ProcessedFirst, AttemptsLeft, Current
<1> QED BY <1>7, <1>8, <1>9, <1>10 DEF IInv

(* A crash ends every drain; what was being delivered is lost.             *)
LEMMA CrashKeeps ==
  ASSUME IInv, Crash PROVE IInv'
<1> DEFINE Lost(i) == {d \in Drainers : drain[d].at # "idle" /\ Current(d) = i}
<1>1. TypeOK /\ UNCHANGED <<status, runs, good>> /\ faults' \in 0..MaxFaults
  BY QueueAssumption DEF IInv, TypeOK, Crash, Fault, QueueAssumption
<1>2. /\ lost' = [i \in Intents |-> lost[i] + Cardinality(Lost(i))]
      /\ drain' = [d \in Drainers |-> Idle]
      /\ call' = [c \in Callers |-> [at |-> "new", attempts |-> 0]]
  BY DEF Crash
<1>3. Intents' = Intents /\ Intents = 1..Len(status) /\ Len(status) \in Nat
  BY <1>1 DEF Intents, TypeOK
<1>4. \A i : Cardinality(Lost(i)) \in Nat
  BY Sizes
<1>5. \A i \in Intents : lost[i] \in Nat
  BY <1>1, <1>3 DEF TypeOK
<1>6. Idle \in Record /\ Idle.at = "idle" /\ Idle.batch = {}
  BY DEF Idle, Record
<1>7. \A i \in Intents : Cardinality(Ran(i)) <= Cardinality(Lost(i))
  <2> TAKE i \in Intents
  <2>1. Ran(i) \subseteq Lost(i) /\ Lost(i) \subseteq Drainers
    BY DEF Ran, RanBy, Current
  <2> QED BY <2>1, Sizes, FS_Subset
<1> HIDE DEF Lost
<1>8. \A i \in Intents : lost'[i] = lost[i] + Cardinality(Lost(i))
  BY <1>2
<1>9. lost' \in [1..Len(status) -> Nat]
  <2>1. \A i \in Intents : lost[i] + Cardinality(Lost(i)) \in Nat
    BY <1>4, <1>5
  <2> QED BY <1>2, <1>3, <2>1
<1>10. TypeOK'
  <2>1. lost' \in Seq(Nat) /\ Len(lost') = Len(status)
    BY <1>3, <1>9
  <2>2. drain' \in [Drainers -> Record] /\ \A d \in Drainers : drain'[d] = Idle
    BY <1>2, <1>6
  <2>3. call' \in [Callers -> [at : {"new", "calling", "waiting",
                                   "returned", "raised", "exhausted"},
                             attempts : 0..MaxAttempts]]
    BY <1>2, QueueAssumption DEF QueueAssumption
  <2> QED BY <1>1, <1>3, <1>6, <2>1, <2>2, <2>3 DEF TypeOK, Record
<1>11. ASSUME NEW i \in Intents PROVE Bounded(i)'
  <2>1. Ran(i)' = {} /\ Will(i)' = {}
    BY <1>2, <1>6 DEF Ran, Will, RanBy, WillBy
  <2>2. Cardinality(Ran(i)') = 0 /\ Cardinality(Will(i)') = 0
    BY <2>1, FS_EmptySet
  <2>3. /\ Bounded(i) /\ runs[i] \in Nat /\ lost[i] \in Nat /\ Cardinality(Ran(i)) \in Nat
        /\ Cardinality(Will(i)) \in Nat /\ Cardinality(Drainers) \in Nat
    BY <1>1, Counts DEF IInv
  <2> QED BY <1>1, <1>4, <1>7, <1>8, <2>2, <2>3 DEF Bounded, Unmarked, Marked
<1>12. ProcessedFirst' /\ AttemptsLeft'
  BY <1>2, <1>6, QueueAssumption DEF ProcessedFirst, AttemptsLeft, QueueAssumption
<1>13. CompletedWasProcessed'
  BY <1>1, <1>3 DEF IInv, CompletedWasProcessed
<1> QED BY <1>3, <1>10, <1>11, <1>12, <1>13 DEF IInv

(* The retry wrapper touches no row.                                       *)
LEMMA CallKeeps ==
  ASSUME IInv, NEW c \in Callers, Attempt(c) \/ RetryWaited(c)
  PROVE  IInv'
<1>1. UNCHANGED <<status, drain, runs, good, lost, faults>>
  BY DEF Attempt, RetryWaited
<1>2. /\ call' \in [Callers -> [at : {"new", "calling", "waiting",
                                   "returned", "raised", "exhausted"},
                             attempts : 0..MaxAttempts]]
      /\ AttemptsLeft'
  <2> USE QueueAssumption DEF QueueAssumption, IInv, TypeOK, AttemptsLeft
  <2>1. CASE RetryWaited(c)
    BY <2>1 DEF RetryWaited
  <2>2. CASE Attempt(c)
    <3>1. PICK outcome \in {"returned", "raised", "waiting"} :
            call' = [call EXCEPT ![c] =
                      [at |-> IF outcome = "waiting" /\ @.attempts + 1 = MaxAttempts
                                THEN "exhausted" ELSE outcome,
                       attempts |-> @.attempts + 1]]
      BY <2>2 DEF Attempt
    <3>2. call[c].attempts \in Nat /\ call[c].attempts < MaxAttempts
      BY <2>2 DEF Attempt
    <3>3. call[c].attempts + 1 \in 0..MaxAttempts
      BY <3>2
    <3> QED BY <3>1, <3>2, <3>3
  <2> QED BY <2>1, <2>2
<1>3. Intents' = Intents
  BY <1>1 DEF Intents
<1>4. TypeOK'
  BY <1>1, <1>2, <1>3 DEF IInv, TypeOK
<1>5. ProcessedFirst' /\ CompletedWasProcessed'
  BY <1>1, <1>3 DEF IInv, ProcessedFirst, CompletedWasProcessed, Current
<1>6. ASSUME NEW i \in Intents PROVE Bounded(i)'
  BY <1>1 DEF IInv, Bounded, Unmarked, Marked, Ran, Will
<1> QED BY <1>2, <1>3, <1>4, <1>5, <1>6 DEF IInv

-----------------------------------------------------------------------------
(* The theorems                                                            *)

(* The table starts empty, nobody drains and nobody has called.            *)
LEMMA InitIInv == Init => IInv
<1> SUFFICES ASSUME Init PROVE IInv
  OBVIOUS
<1> USE QueueAssumption DEF QueueAssumption, Init
<1>1. Intents = {} /\ Len(status) = 0
  BY DEF Intents
<1>2. Idle \in Record /\ Idle.at = "idle" /\ Idle.batch = {}
  BY DEF Idle, Record
<1>3. TypeOK
  BY <1>1, <1>2 DEF TypeOK, Record
<1>4. ProcessedFirst /\ AttemptsLeft /\ CompletedWasProcessed
  BY <1>1, <1>2 DEF ProcessedFirst, AttemptsLeft, CompletedWasProcessed
<1> QED BY <1>1, <1>3, <1>4 DEF IInv

(* Every step keeps it, whichever drainer, caller or fault takes it.       *)
LEMMA NextIInv == IInv /\ [Next]_vars => IInv'
<1> SUFFICES ASSUME IInv, [Next]_vars PROVE IInv'
  OBVIOUS
<1>1. CASE Enqueue
  BY <1>1, EnqueueKeeps
<1>2. CASE Crash
  BY <1>2, CrashKeeps
<1>3. ASSUME NEW d \in Drainers, BeginDrain(d) PROVE IInv'
  BY <1>3, BeginKeeps
<1>4. ASSUME NEW d \in Drainers, Step(d) PROVE IInv'
  BY <1>4, ProcessKeeps, MarkKeeps DEF Step
<1>5. ASSUME NEW d \in Drainers, CancelDrain(d) PROVE IInv'
  BY <1>5, MarkKeeps
<1>6. ASSUME NEW c \in Callers, Attempt(c) \/ RetryWaited(c) PROVE IInv'
  BY <1>6, CallKeeps
<1>7. CASE UNCHANGED vars
  BY <1>7 DEF vars, IInv, TypeOK, Intents, AttemptsLeft, ProcessedFirst, CompletedWasProcessed,
     Current, Bounded, Unmarked, Marked, Ran, Will
<1> QED BY <1>1, <1>2, <1>3, <1>4, <1>5, <1>6, <1>7 DEF Next

(* The inductive invariant.                                                *)
THEOREM Inductive == Spec => []IInv
BY InitIInv, NextIInv, PTL DEF Spec

(* Rows, batches and calls keep their types (queue.py, retry.py).          *)
THEOREM TypeCorrect == Spec => []TypeOK
<1>1. IInv => TypeOK
  BY DEF IInv
<1> QED BY <1>1, Inductive, PTL

(* queue.py:94-97: however many drains overlap, fail, are cancelled or     *)
(* restarted, an intent is completed only if the processor succeeded on it. *)
THEOREM CompletedIntentsWereProcessed == Spec => []CompletedWasProcessed
<1>1. IInv => CompletedWasProcessed
  BY DEF IInv
<1> QED BY <1>1, Inductive, PTL

(* queue.py:88-104: for any number of drainers, an intent is delivered at  *)
(* most once by each and once more for every drain of it that was lost.    *)
THEOREM RedeliveriesAreBounded == Spec => []RedeliveryBounded
<1>1. IInv => RedeliveryBounded
  <2> SUFFICES ASSUME IInv, NEW i \in Intents
               PROVE  runs[i] <= Cardinality(Drainers) + lost[i]
    BY DEF RedeliveryBounded
  <2>1. /\ runs[i] \in Nat /\ lost[i] \in Nat
        /\ Cardinality(Ran(i)) \in Nat /\ Cardinality(Will(i)) \in Nat
        /\ Cardinality(Drainers) \in Nat
        /\ Cardinality(Ran(i)) + Cardinality(Will(i)) <= Cardinality(Drainers)
    BY Counts DEF IInv
  <2> QED BY <2>1 DEF IInv, Bounded, Unmarked, Marked
<1> QED BY <1>1, Inductive, PTL

(* queue.py:93-104: an intent leaves a batch with a mark, or with the drain. *)
THEOREM BatchesAreSettled == Spec => BatchIsSettled
<1> DEFINE Settled ==
      \A d \in Drainers : \A i \in drain[d].batch \ drain'[d].batch :
        status'[i] # "pending" \/ lost'[i] > lost[i] \/ faults' > faults
<1>1. ASSUME IInv, [Next]_vars PROVE Settled
  <2>1. TypeOK
    BY <1>1 DEF IInv
  <2>2. CASE UNCHANGED drain
    BY <2>2
  <2>3. Fault => faults' > faults
    BY <2>1, QueueAssumption DEF TypeOK, Fault, QueueAssumption
  <2>4. CASE Crash
    BY <2>3, <2>4 DEF Crash
  <2>5. ASSUME NEW d \in Drainers, BeginDrain(d) PROVE Settled
    <3>1. drain[d].batch = {} /\ \A e \in Drainers \ {d} : drain'[e] = drain[e]
      BY <2>1, <2>5 DEF BeginDrain, TypeOK
    <3> QED BY <3>1
  <2>6. ASSUME NEW d \in Drainers, Process(d) PROVE Settled
    <3>1. drain'[d].batch = drain[d].batch /\ \A e \in Drainers \ {d} : drain'[e] = drain[e]
      BY <2>1, <2>6 DEF Process, TypeOK
    <3> QED BY <3>1
  <2>7. ASSUME NEW d \in Drainers, MarkCompleted(d) \/ MarkFailed(d), ~Fault PROVE Settled
    <3>1. \A e \in Drainers \ {d} : drain'[e] = drain[e]
      BY <2>1, <2>7 DEF MarkCompleted, MarkFailed, TypeOK
    <3>2. drain'[d] = Advance(d) /\ status'[Current(d)] # "pending"
      <4>1. Current(d) \in Intents
        BY <2>1, <2>7, AtHand DEF MarkCompleted, MarkFailed
      <4> QED BY <2>1, <2>7, <4>1 DEF MarkCompleted, MarkFailed, TypeOK, Intents
    <3>3. \A i \in drain[d].batch \ drain'[d].batch : i = Current(d)
      BY <3>2 DEF Advance, Idle
    <3> QED BY <3>1, <3>2, <3>3
  <2>8. CASE Fault
    BY <2>3, <2>8
  <2>9. \/ UNCHANGED drain \/ Crash \/ Fault
        \/ \E d \in Drainers : BeginDrain(d) \/ Process(d) \/ MarkCompleted(d) \/ MarkFailed(d)
    BY <1>1 DEF Next, Step, vars, Enqueue, Attempt, RetryWaited, CancelDrain
  <2> QED BY <2>2, <2>4, <2>5, <2>6, <2>7, <2>8, <2>9
<1>2. IInv /\ [Next]_vars => [Settled]_vars
  BY <1>1
<1> QED BY <1>2, Inductive, PTL DEF Spec, BatchIsSettled

=============================================================================
