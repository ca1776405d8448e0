------------------------ MODULE ToolLifecycleProofs -------------------------
(***************************************************************************)
(* Proofs about ToolLifecycle, for any tools, scripts, clients and number  *)
(* of requests and crashes.  A request acts on what it read some awaits    *)
(* ago; the invariant says what is still true then: a tool that left the   *)
(* quarantine never returns to it (RequestOK, QueueOK), so no approval can *)
(* register a script that was not approved, and a script is taken from the *)
(* tools directory only with its deletion on record (Kept).  The second    *)
(* half shows that every step is one of HumanInTheLoop, or none.           *)
(***************************************************************************)
EXTENDS ToolLifecycle, TLAPS

Items(q) == {q[i] : i \in DOMAIN q}

\* A client awaits one statement.
Distinct(q) == \A i, j \in DOMAIN q : q[i][1] = q[j][1] => i = j

KindOf(statement) ==
  IF statement = "insert" THEN "forge"
  ELSE IF statement \in {"approve", "register", "link"} THEN "approve"
  ELSE IF statement = "reject" THEN "reject"
  ELSE IF statement = "count" THEN "run"
  ELSE "delete"

\* The script of t is in the tools directory, or was deleted there.
Kept(t) == Path(t, "registered") \in files \/ \E u \in erased : made[u] = made[t]

\* What holds of a request that awaits the statement.
ItemOK(r, statement) ==
  /\ r.pc = "wait" /\ r.kind = KindOf(statement) /\ r.tool # NoTool
  /\ statement \in {"register", "link"} => status[r.tool] # "quarantined"
  /\ statement = "register" => Kept(r.tool)
  /\ statement \in {"unlink", "purge"} => r.tool \in erased

QueueOK == \A e \in Items(pending) : ItemOK(req[e[1]], e[2])

\* What a request may rely on at each of its points.
RecordOK(r) ==
  /\ r.tool # NoTool => made[r.tool] # NoTool
  /\ r.pc \in Points /\ r.tool = NoTool => r.kind = "run" /\ r.pc = "read"
  /\ r.kind = "forge" => r.pc \in Answers \cup {"wait"}
  /\ r.kind = "forge" /\ r.pc = "wait" => status[r.tool] = "absent"
  /\ r.kind = "approve" /\ r.pc \in {"readback", "row", "copy", "link"} =>
       status[r.tool] # "quarantined"
  /\ r.kind = "run" /\ r.pc = "execute" => r.tool \in approvals
  /\ r.kind = "delete" /\ r.pc = "purge" => r.tool \in erased

\* Nobody else knows the tool that is being forged.
Secret(c) == At(c, "forge", "wait") => \A d \in Clients \ {c} : req[d].tool # req[c].tool

RequestOK == \A c \in Clients : RecordOK(req[c]) /\ Secret(c)

StatusOK ==
  \A t \in Tools :
    /\ status[t] \in {"approved", "registered"} => t \in approvals
    /\ status[t] = "registered" => Kept(t)

IInv ==
  /\ TypeOK
  /\ Distinct(pending) /\ QueueOK
  /\ RequestOK /\ StatusOK /\ OnlyApprovedRuns

-----------------------------------------------------------------------------
(* The writer's queue                                                      *)

(* A statement put last is the only new item.                              *)
LEMMA PutItem ==
  ASSUME TypeOK, Distinct(pending), NEW c \in Clients, NEW s \in Statements,
         \A e \in Items(pending) : e[1] # c
  PROVE  /\ Append(pending, <<c, s>>) \in Seq(Clients \X Statements)
         /\ Distinct(Append(pending, <<c, s>>))
         /\ Items(Append(pending, <<c, s>>)) = Items(pending) \cup {<<c, s>>}
<1> DEFINE q == Append(pending, <<c, s>>)
           n == Len(pending)
<1>1. n \in Nat /\ DOMAIN pending = 1..n
  BY DEF TypeOK
<1>2. /\ q \in Seq(Clients \X Statements) /\ DOMAIN q = 1..(n + 1)
      /\ q[n + 1] = <<c, s>> /\ \A i \in 1..n : q[i] = pending[i]
  BY <1>1 DEF TypeOK
<1> HIDE DEF q, n
<1>3. \A i \in 1..n : pending[i][1] # c
  BY <1>1 DEF Items
<1>4. Distinct(q)
  <2> SUFFICES ASSUME NEW i \in 1..(n + 1), NEW j \in 1..(n + 1), q[i][1] = q[j][1]
               PROVE  i = j
    BY <1>2 DEF Distinct
  <2>1. <<c, s>>[1] = c
    OBVIOUS
  <2>2. (i \in 1..n \/ i = n + 1) /\ (j \in 1..n \/ j = n + 1)
    BY <1>1
  <2> QED BY <1>1, <1>2, <1>3, <2>1, <2>2 DEF Distinct
<1>5. Items(q) = Items(pending) \cup {<<c, s>>}
  <2>1. \A i \in 1..n : i \in 1..(n + 1)
    BY <1>1
  <2>2. \A i \in 1..(n + 1) : i \in 1..n \/ i = n + 1
    BY <1>1
  <2>3. n + 1 \in 1..(n + 1)
    BY <1>1
  <2>4. ASSUME NEW e \in Items(q) PROVE e \in Items(pending) \cup {<<c, s>>}
    <3>1. PICK i \in 1..(n + 1) : e = q[i]
      BY <1>2, <2>4 DEF Items
    <3> QED BY <1>1, <1>2, <2>2, <3>1 DEF Items
  <2>5. ASSUME NEW e \in Items(pending) PROVE e \in Items(q)
    <3>1. PICK i \in 1..n : e = pending[i]
      BY <1>1, <2>5 DEF Items
    <3> QED BY <1>2, <2>1, <3>1 DEF Items
  <2>6. <<c, s>> \in Items(q)
    BY <1>2, <2>3 DEF Items
  <2> QED BY <2>4, <2>5, <2>6
<1> QED BY <1>2, <1>4, <1>5 DEF q

(* The oldest statement is an item; what stays is of other clients.        *)
LEMMA TakeItem ==
  ASSUME TypeOK, Distinct(pending), pending # <<>>
  PROVE  /\ Head(pending) \in Items(pending) /\ Head(pending) \in Clients \X Statements
         /\ Tail(pending) \in Seq(Clients \X Statements)
         /\ Distinct(Tail(pending))
         /\ Items(Tail(pending)) \subseteq Items(pending)
         /\ \A e \in Items(Tail(pending)) : e[1] # Head(pending)[1]
<1> DEFINE n == Len(pending)
           q == Tail(pending)
<1>1. n \in Nat \ {0} /\ DOMAIN pending = 1..n
  BY DEF TypeOK
<1>2. /\ Head(pending) = pending[1] /\ 1 \in 1..n
      /\ Head(pending) \in Clients \X Statements
  BY <1>1 DEF TypeOK
<1>3. /\ q \in Seq(Clients \X Statements) /\ DOMAIN q = 1..(n - 1)
      /\ \A i \in 1..(n - 1) : q[i] = pending[i + 1]
  BY <1>1 DEF TypeOK
<1> HIDE DEF n, q
<1>4. \A i \in 1..(n - 1) : i + 1 \in 1..n /\ i + 1 # 1
  BY <1>1
<1>5. Items(q) \subseteq Items(pending)
  BY <1>1, <1>3, <1>4 DEF Items
<1>6. Distinct(q)
  <2> SUFFICES ASSUME NEW i \in 1..(n - 1), NEW j \in 1..(n - 1), q[i][1] = q[j][1]
               PROVE  i = j
    BY <1>3 DEF Distinct
  <2>1. pending[i + 1][1] = pending[j + 1][1]
    BY <1>3
  <2>2. i + 1 \in DOMAIN pending /\ j + 1 \in DOMAIN pending
    BY <1>1, <1>4
  <2>3. i + 1 = j + 1
    BY <2>1, <2>2 DEF Distinct
  <2> QED BY <2>3, <1>1
<1>7. \A i \in 1..(n - 1) : q[i][1] # pending[1][1]
  BY <1>1, <1>2, <1>3, <1>4 DEF Distinct
<1> QED BY <1>1, <1>2, <1>3, <1>5, <1>6, <1>7 DEF Items, q

-----------------------------------------------------------------------------
(* One request moves                                                       *)

Record == [kind : Kinds, tool : Tools \cup {NoTool}, name : Names, seen : Statuses,
           pc : Points \cup Answers]

(* Client c goes on to r, putting at most one statement; the tools table   *)
(* is unchanged and no script is lost that is not recorded as erased.      *)
LEMMA MoveKeeps ==
  ASSUME IInv, NEW c \in Clients, NEW r \in Record,
         req' = [req EXCEPT ![c] = r], req[c].pc # "wait",
         UNCHANGED <<status, current, approvals>>,
         made' \in [Tools -> Script \cup {NoTool}],
         \A t \in Tools : made[t] # NoTool => made'[t] = made[t],
         files' \subseteq {"quarantine", "tools"} \X Names \X Codes,
         erased \subseteq erased', erased' \subseteq Tools,
         \A t \in Tools : made[t] # NoTool /\ Kept(t) => Kept(t)',
         ran' \subseteq Tools \X (Statuses \cup {"absent"}), \A e \in ran' : e[1] \in approvals,
         issued' \in 0..MaxRequests, crashes' \in 0..MaxCrashes, faults' \in 0..MaxFaults,
         RecordOK(r)', 
         \A d \in Clients \ {c} : At(d, "forge", "wait") => req[d].tool # r.tool,
         r.kind = "forge" /\ r.pc = "wait" => \A d \in Clients \ {c} : req[d].tool # r.tool,
         \/ pending' = pending
         \/ \E s \in Statements : pending' = Append(pending, <<c, s>>) /\ ItemOK(r, s)'
  PROVE  IInv'
<1> USE DEF IInv
<1>1. req' \in [Clients -> Record] /\ req'[c] = r /\ \A d \in Clients \ {c} : req'[d] = req[d]
  BY DEF TypeOK, Record
<1>2. \A e \in Items(pending) : e \in Clients \X Statements
  BY DEF TypeOK, Items
<1>3. \A e \in Items(pending) : e[1] \in Clients \ {c}
  BY <1>2 DEF QueueOK, ItemOK
<1>4. \A e \in Items(pending) : ItemOK(req[e[1]], e[2])'
  <2> SUFFICES ASSUME NEW e \in Items(pending) PROVE ItemOK(req[e[1]], e[2])'
    OBVIOUS
  <2>1. ItemOK(req[e[1]], e[2]) /\ e[1] \in Clients /\ req'[e[1]] = req[e[1]] /\ e' = e
    BY <1>1, <1>3 DEF QueueOK
  <2>2. req[e[1]].tool \in Tools /\ made[req[e[1]].tool] # NoTool
    BY <2>1 DEF ItemOK, RequestOK, RecordOK, TypeOK
  <2> QED BY <2>1, <2>2 DEF ItemOK
<1>5. /\ pending' \in Seq(Clients \X Statements) /\ Distinct(pending')
      /\ \A e \in Items(pending') : ItemOK(req[e[1]], e[2])'
  <2>1. CASE pending' = pending
    BY <2>1, <1>4 DEF TypeOK
  <2>2. CASE \E s \in Statements : pending' = Append(pending, <<c, s>>) /\ ItemOK(r, s)'
    <3>1. PICK s \in Statements : pending' = Append(pending, <<c, s>>) /\ ItemOK(r, s)'
      BY <2>2
    <3>2. /\ pending' \in Seq(Clients \X Statements) /\ Distinct(pending')
          /\ Items(pending') = Items(pending) \cup {<<c, s>>}
      BY <1>3, <3>1, PutItem
    <3>3. ItemOK(req[c], s)'
      BY <1>1, <3>1 DEF ItemOK
    <3> QED BY <1>4, <3>2, <3>3
  <2> QED BY <2>1, <2>2
<1>6. TypeOK'
  BY <1>1, <1>5 DEF TypeOK, Record
<1>7. QueueOK'
  BY <1>5 DEF QueueOK
<1>8. RequestOK'
  <2> SUFFICES ASSUME NEW d \in Clients PROVE RecordOK(req[d])' /\ Secret(d)'
    BY DEF RequestOK
  <2>1. CASE d = c
    BY <1>1, <2>1 DEF RecordOK, Secret, At
  <2>2. CASE d # c
    <3>1. req'[d] = req[d] /\ RecordOK(req[d]) /\ Secret(d) /\ req[d] \in Record
      BY <1>1, <2>2 DEF RequestOK, TypeOK, Record
    <3>2. RecordOK(req[d])'
      BY <3>1 DEF RecordOK, Record
    <3>3. Secret(d)'
      BY <1>1, <2>2, <3>1 DEF Secret, At
    <3> QED BY <3>2, <3>3
  <2> QED BY <2>1, <2>2
<1>9. StatusOK'
  BY DEF StatusOK, TypeOK
<1>10. OnlyApprovedRuns'
  BY DEF OnlyApprovedRuns, TypeOK
<1> QED BY <1>5, <1>6, <1>7, <1>8, <1>9, <1>10

-----------------------------------------------------------------------------
(* The writer moves                                                        *)

(* The writer takes statement s from its queue; it may count a fault.      *)
Taken(s) ==
  /\ pending # <<>> /\ Head(pending)[2] = s /\ pending' = Tail(pending)
  /\ UNCHANGED <<made, files, ran, erased, issued, crashes>>
  /\ faults' \in 0..MaxFaults

(* Every step of the writer takes one.                                     *)
LEMMA StatementTaken ==
  ASSUME TypeOK, ApplyNext
  PROVE  \E s \in Statements : Taken(s)
<1>1. CASE \E s \in Statements : Apply(s)
  BY <1>1 DEF Apply, Taken, TypeOK
<1>2. CASE ApplyFails
  <2>1. Head(pending) \in Clients \X Statements
    BY <1>2 DEF ApplyFails, TypeOK
  <2>2. faults' \in 0..MaxFaults
    BY <1>2, LifecycleAssumption DEF LifecycleAssumption, ApplyFails, TypeOK
  <2> QED BY <1>2, <2>1, <2>2 DEF ApplyFails, Taken
<1> QED
  BY <1>1, <1>2 DEF ApplyNext, ApplyInsert, ApplyApprove, ApplyRegister, ApplyLink, ApplyReject,
     ApplyCount, ApplyUnlink, ApplyPurge, Statements

(* The statement at the head changes at most its own tool, brings none     *)
(* back from out of the quarantine, and sends its request on to p.         *)
LEMMA ApplyKeeps ==
  ASSUME IInv, NEW s \in Statements, Taken(s), NEW p \in Points \cup Answers,
         Goto(Caller, p), p # "wait",
         status' \in [Tools -> Statuses \cup {"absent"}],
         current' \in [Names -> Tools \cup {NoTool}],
         approvals \subseteq approvals', approvals' \subseteq Tools,
         \A t \in Tools : status'[t] # "absent" => made[t] # NoTool,
         \A t \in Tools : \/ s = "insert" /\ t = Target
                         \/ /\ status'[t] = "quarantined" => status[t] = "quarantined"
                            /\ status[t] = "absent" => status'[t] = "absent",
         StatusOK',
         \A n \in Names :
           current'[n] # NoTool =>
             made[current'[n]][1] = n /\ status'[current'[n]] \in {"approved", "registered"},
         NEW r, r = [req[Caller] EXCEPT !.pc = p], RecordOK(r)'
  PROVE  IInv'
<1> USE DEF IInv
<1> DEFINE c == Caller
           q == Tail(pending)
<1>1. /\ pending # <<>> /\ Head(pending)[2] = s /\ pending' = q
      /\ UNCHANGED <<made, files, ran, erased, issued, crashes>> /\ faults' \in 0..MaxFaults
  BY DEF Taken
<1>2. /\ Head(pending) \in Items(pending) /\ Head(pending) \in Clients \X Statements
      /\ q \in Seq(Clients \X Statements) /\ Distinct(q)
      /\ Items(q) \subseteq Items(pending) /\ \A e \in Items(q) : e[1] # c
  BY <1>1, TakeItem DEF Caller
<1>3. c \in Clients /\ ItemOK(req[c], s)
  BY <1>1, <1>2 DEF QueueOK, Caller
<1>4. /\ req' \in [Clients -> Record] /\ req'[c] = r /\ r \in Record /\ r.pc # "wait"
      /\ \A d \in Clients \ {c} : req'[d] = req[d]
  <2>1. req \in [Clients -> Record] /\ req[c] \in Record
    BY <1>3 DEF TypeOK, Record
  <2>2. r \in Record /\ r.pc # "wait"
    BY <2>1 DEF Record
  <2>3. req' = [req EXCEPT ![c] = r]
    BY DEF Goto
  <2> QED BY <1>3, <2>1, <2>2, <2>3
<1>5. \A e \in Items(q) : e[1] \in Clients \ {c} /\ ItemOK(req[e[1]], e[2])
  <2>1. \A e \in Items(pending) : e[1] \in Clients
    BY DEF Items, TypeOK
  <2> QED BY <1>2, <2>1 DEF QueueOK
<1> HIDE DEF q, c
<1>6. Target = req[c].tool /\ Target \in Tools
  BY <1>3 DEF Target, c, ItemOK, TypeOK
<1>7. s = "insert" => \A d \in Clients \ {c} : req[d].tool # Target
  <2>1. s = "insert" => At(c, "forge", "wait")
    BY <1>3 DEF ItemOK, KindOf, At
  <2> QED BY <1>3, <1>6, <2>1 DEF RequestOK, Secret
<1>8. ASSUME NEW d \in Clients \ {c}, req[d].tool \in Tools
      PROVE  /\ status'[req[d].tool] = "quarantined" => status[req[d].tool] = "quarantined"
             /\ status[req[d].tool] = "absent" => status'[req[d].tool] = "absent"
  BY <1>7, <1>8
<1>9. TypeOK'
  BY <1>1, <1>2, <1>4 DEF TypeOK, Record
<1>10. QueueOK'
  <2> SUFFICES ASSUME NEW e \in Items(q) PROVE ItemOK(req[e[1]], e[2])'
    BY <1>1 DEF QueueOK
  <2>1. e[1] \in Clients \ {c} /\ ItemOK(req[e[1]], e[2]) /\ req'[e[1]] = req[e[1]]
    BY <1>4, <1>5
  <2>2. req[e[1]].tool \in Tools
    BY <2>1 DEF ItemOK, TypeOK
  <2>3. status'[req[e[1]].tool] = "quarantined" => status[req[e[1]].tool] = "quarantined"
    BY <1>8, <2>1, <2>2
  <2>4. \A t : Kept(t) => Kept(t)'
    BY <1>1 DEF Kept, Path, Location
  <2> QED BY <1>1, <2>1, <2>3, <2>4 DEF ItemOK
<1>11. RequestOK'
  <2> SUFFICES ASSUME NEW d \in Clients PROVE RecordOK(req[d])' /\ Secret(d)'
    BY DEF RequestOK
  <2>1. CASE d = c
    <3>1. RecordOK(req[d])'
      BY <1>4, <2>1 DEF RecordOK
    <3>2. Secret(d)'
      BY <1>4, <2>1 DEF Secret, At
    <3> QED BY <3>1, <3>2
  <2>2. CASE d # c
    <3>1. req'[d] = req[d] /\ RecordOK(req[d]) /\ Secret(d) /\ req[d] \in Record
      BY <1>4, <2>2 DEF RequestOK, TypeOK, Record
    <3>2. RecordOK(req[d])'
      <4>1. req[d].tool \in Tools \/ req[d].tool = NoTool
        BY <3>1 DEF Record
      <4>2. CASE req[d].tool \in Tools
        BY <1>1, <1>8, <2>2, <3>1, <4>2 DEF RecordOK
      <4>3. CASE req[d].tool = NoTool
        BY <1>1, <3>1, <4>3 DEF RecordOK, Points
      <4> QED BY <4>1, <4>2, <4>3
    <3>3. Secret(d)'
      <4>1. \A e \in Clients : req'[e].tool = req[e].tool
        BY <1>3, <1>4 DEF TypeOK, c
      <4> QED BY <3>1, <4>1 DEF Secret, At
    <3> QED BY <3>2, <3>3
  <2> QED BY <2>1, <2>2
<1>12. OnlyApprovedRuns'
  BY <1>1 DEF OnlyApprovedRuns
<1> QED BY <1>1, <1>2, <1>9, <1>10, <1>11, <1>12

-----------------------------------------------------------------------------
(* The steps                                                               *)

(* The invariant holds of an empty store.                                  *)
LEMMA InitIInv == Init => IInv
<1> SUFFICES ASSUME Init PROVE IInv
  OBVIOUS
<1> USE LifecycleAssumption DEF LifecycleAssumption, Init
<1>1. (CHOOSE n \in Names : TRUE) \in Names
  OBVIOUS
<1>2. req \in [Clients -> Record] /\ \A c \in Clients : req[c].tool = NoTool /\ req[c].pc = "ok"
  BY <1>1 DEF Record, Kinds, Statuses, Points, Answers
<1>3. TypeOK
  BY <1>2 DEF TypeOK, Record
<1>4. Items(pending) = {} /\ Distinct(pending)
  BY DEF Items, Distinct
<1>5. RequestOK
  BY <1>2 DEF RequestOK, RecordOK, Secret, At, Points, Answers
<1>6. QueueOK /\ StatusOK /\ OnlyApprovedRuns
  BY <1>4 DEF QueueOK, StatusOK, OnlyApprovedRuns
<1> QED BY <1>3, <1>4, <1>5, <1>6 DEF IInv

(* A script is lost only from the quarantine, or on record.                *)
LEMMA KeptStays ==
  ASSUME IInv, NEW t \in Tools, made[t] # NoTool, Kept(t),
         \A u \in Tools : made[u] # NoTool => made'[u] = made[u],
         erased \subseteq erased', erased' \subseteq Tools,
         Path(t, "registered") \in files =>
           Path(t, "registered") \in files' \/ \E u \in erased' : made[u] = made[t]
  PROVE  Kept(t)'
<1>1. made'[t] = made[t]
  OBVIOUS
<1>2. ASSUME NEW u \in Tools, made[u] = made[t] PROVE made'[u] = made'[t]
  BY <1>1, <1>2
<1>4. CASE \E u \in erased' : made[u] = made[t]
  BY <1>2, <1>4 DEF Kept
<1>5. CASE Path(t, "registered") \in files'
  BY <1>1, <1>5 DEF Kept, Path
<1>6. CASE \E u \in erased : made[u] = made[t]
  BY <1>4, <1>6
<1> QED BY <1>4, <1>5, <1>6 DEF Kept

(* Nobody but its request holds a tool that is being forged.               *)
LEMMA SecretsKept ==
  ASSUME IInv, NEW c \in Clients, NEW d \in Clients \ {c}, At(d, "forge", "wait"),
         NEW t, t = req[c].tool \/ Known(t) \/ t = NoTool \/ status[t] # "absent"
  PROVE  req[d].tool # t
<1>1. RecordOK(req[d]) /\ Secret(d)
  BY DEF IInv, RequestOK
<1>2. req[d].tool # NoTool /\ status[req[d].tool] = "absent"
  BY <1>1 DEF RecordOK, At, Points
<1>3. req[d].tool # req[c].tool
  BY <1>1 DEF Secret
<1> QED BY <1>2, <1>3 DEF Known

(* A step of a request that leaves tables and files alone.                 *)
LEMMA QuietMove ==
  ASSUME IInv, NEW c \in Clients, NEW r \in Record,
         req' = [req EXCEPT ![c] = r], req[c].pc # "wait",
         UNCHANGED <<made, status, current, files, history>>,
         issued' \in 0..MaxRequests,
         r.tool = req[c].tool \/ Known(r.tool) \/ r.tool = NoTool \/ status[r.tool] # "absent",
         RecordOK(r), r.kind = "forge" => r.pc # "wait",
         \/ pending' = pending
         \/ \E s \in Statements : pending' = Append(pending, <<c, s>>) /\ ItemOK(r, s)
  PROVE  IInv'
<1>1. UNCHANGED <<made, status, current, files, approvals, ran, erased, crashes, faults>>
  BY DEF history
<1>2. /\ made \in [Tools -> Script \cup {NoTool}]
      /\ files \subseteq {"quarantine", "tools"} \X Names \X Codes
      /\ erased \subseteq Tools /\ ran \subseteq Tools \X (Statuses \cup {"absent"})
      /\ crashes \in 0..MaxCrashes /\ faults \in 0..MaxFaults
  BY DEF IInv, TypeOK
<1>3. \A t : Kept(t) => Kept(t)'
  BY <1>1 DEF Kept, Path
<1>4. RecordOK(r)'
  BY <1>1 DEF RecordOK
<1>5. \A s : ItemOK(r, s) => ItemOK(r, s)'
  BY <1>1, <1>3 DEF ItemOK
<1>6. \A d \in Clients \ {c} : At(d, "forge", "wait") => req[d].tool # r.tool
  BY SecretsKept
<1>7. \A e \in ran : e[1] \in approvals
  BY DEF IInv, OnlyApprovedRuns
<1> QED
  BY <1>1, <1>2, <1>3, <1>4, <1>5, <1>6, <1>7, MoveKeeps

(* A request puts a statement, having moved scripts.                       *)
LEMMA PutKeeps ==
  ASSUME IInv, NEW c \in Clients, NEW s \in Statements, Put(c, s),
         req[c].pc # "wait", NEW t \in Tools, t = req[c].tool,
         req[c].kind = KindOf(s), req[c].kind # "forge",
         UNCHANGED <<made, status, current, approvals, crashes, faults, issued>>,
         files' \subseteq {"quarantine", "tools"} \X Names \X Codes,
         erased \subseteq erased', erased' \subseteq Tools,
         \A u \in Tools : made[u] # NoTool /\ Kept(u) => Kept(u)',
         ran' \subseteq Tools \X (Statuses \cup {"absent"}), \A e \in ran' : e[1] \in approvals,
         s \in {"register", "link"} => status[t] # "quarantined",
         s = "register" => Kept(t)',
         s \in {"unlink", "purge"} => t \in erased'
  PROVE  IInv'
<1>1. req[c] \in Record /\ issued \in 0..MaxRequests /\ crashes \in 0..MaxCrashes
      /\ faults \in 0..MaxFaults
  BY DEF IInv, TypeOK, Record
<1>2. PICK r \in Record : r = [req[c] EXCEPT !.pc = "wait"]
  BY <1>1 DEF Record, Points
<1>3. /\ req' = [req EXCEPT ![c] = r] /\ pending' = Append(pending, <<c, s>>)
      /\ r.tool = t /\ r.pc = "wait" /\ r.kind = KindOf(s) /\ r.kind # "forge"
  BY <1>1, <1>2 DEF Put, Goto, Record
<1>4. t # NoTool /\ made[t] # NoTool
  BY LifecycleAssumption DEF LifecycleAssumption, IInv, RequestOK, RecordOK
<1>5. RecordOK(r)'
  BY <1>3, <1>4 DEF RecordOK
<1>6. ItemOK(r, s)'
  BY <1>3, <1>4 DEF ItemOK
<1>7. \A d \in Clients \ {c} : At(d, "forge", "wait") => req[d].tool # r.tool
  BY <1>3, SecretsKept
<1>8. made \in [Tools -> Script \cup {NoTool}]
  BY DEF IInv, TypeOK
<1> QED
  BY <1>1, <1>3, <1>5, <1>6, <1>7, <1>8, MoveKeeps

(* A request arrives.                                                      *)
LEMMA ArriveKeeps == ASSUME IInv, NEW c \in Clients, Arrive(c) PROVE IInv'
<1> USE LifecycleAssumption DEF LifecycleAssumption
<1>1. ASSUME NEW kind \in Kinds, NEW t \in Tools \cup {NoTool}, NEW n \in Names,
             NEW pc \in Points, Request(c, kind, t, n, pc),
             UNCHANGED <<made, status, current, files, history>>,
             kind # "forge", (t \in Tools /\ Known(t)) \/ (t = NoTool /\ kind = "run" /\ pc = "read"),
             \/ pc = "read" /\ pending' = pending
             \/ pc = "wait" /\ kind = "approve" /\ pending' = Append(pending, <<c, "approve">>)
      PROVE  IInv'
  <2> DEFINE r == [kind |-> kind, tool |-> t, name |-> n, seen |-> "quarantined", pc |-> pc]
  <2>1. req' = [req EXCEPT ![c] = r] /\ req[c].pc # "wait" /\ issued' \in 0..MaxRequests
    BY <1>1 DEF Request, Idle, Answers, IInv, TypeOK
  <2>2. r \in Record
    BY DEF Record, Statuses
  <2>3. RecordOK(r)
    BY <1>1 DEF RecordOK, Known, Points, Answers
  <2>4. pc = "wait" => ItemOK(r, "approve")
    BY <1>1 DEF ItemOK, KindOf, Known
  <2>5. "approve" \in Statements
    BY DEF Statements
  <2>6. r.tool = t /\ r.kind = kind
    OBVIOUS
  <2> HIDE DEF r
  <2> QED BY <1>1, <2>1, <2>2, <2>3, <2>4, <2>5, <2>6, QuietMove
<1>2. ASSUME NEW t \in Tools, Approve(c, t) \/ Reject(c, t) \/ Delete(c, t) PROVE IInv'
  <2>1. Known(t) /\ made[t][1] \in Names
    BY <1>2 DEF Approve, Reject, Delete, Known, IInv, TypeOK, Script
  <2>2. "approve" \in Kinds /\ "reject" \in Kinds /\ "delete" \in Kinds
        /\ "read" \in Points /\ "wait" \in Points
    BY DEF Kinds, Points
  <2> QED BY <1>1, <1>2, <2>1, <2>2 DEF Approve, Reject, Delete
<1>3. ASSUME NEW n \in Names, Run(c, n) PROVE IInv'
  BY <1>1, <1>3 DEF Run, Kinds, Points
<1>4. ASSUME NEW n \in Names, NEW code \in Codes, Forge(c, n, code) PROVE IInv'
  <2>1. PICK t \in Tools : t = (CHOOSE u \in Tools : made[u] = NoTool) /\ made[t] = NoTool
    BY <1>4 DEF Forge
  <2>2. PICK r \in Record : r = [kind |-> "forge", tool |-> t, name |-> n,
                                 seen |-> "quarantined", pc |-> "wait"]
    BY DEF Record, Kinds, Statuses, Points
  <2>3. /\ made' = [made EXCEPT ![t] = <<n, code>>]
        /\ files' = files \cup {<<"quarantine", n, code>>}
        /\ pending' = Append(pending, <<c, "insert">>)
        /\ req' = [req EXCEPT ![c] = r] /\ req[c].pc # "wait" /\ issued' \in 0..MaxRequests
        /\ UNCHANGED <<status, current, approvals, ran, erased, crashes, faults>>
        /\ r.tool = t /\ r.kind = "forge" /\ r.pc = "wait"
    BY <1>4, <2>1, <2>2 DEF Forge, Request, Idle, Answers, IInv, TypeOK, history
  <2>4. /\ made' \in [Tools -> Script \cup {NoTool}] /\ made'[t] # NoTool
        /\ \A u \in Tools : made[u] # NoTool => made'[u] = made[u]
    BY <2>1, <2>3 DEF IInv, TypeOK, Script
  <2>5. status[t] = "absent" /\ \A d \in Clients : req[d].tool # t
    BY <2>1, LifecycleAssumption DEF IInv, TypeOK, RequestOK, RecordOK
  <2>6. \A u \in Tools : made[u] # NoTool /\ Kept(u) => Kept(u)'
    BY <2>3, <2>4, KeptStays DEF IInv, TypeOK
  <2>7. RecordOK(r)'
    BY <2>1, <2>2, <2>3, <2>4, <2>5 DEF RecordOK, Answers
  <2>8. "insert" \in Statements /\ ItemOK(r, "insert")'
    BY <2>1, <2>3 DEF Statements, ItemOK, KindOf
  <2>9. files' \subseteq {"quarantine", "tools"} \X Names \X Codes
    BY <2>3 DEF IInv, TypeOK
  <2>10. /\ erased \subseteq erased' /\ erased' \subseteq Tools
         /\ ran' \subseteq Tools \X (Statuses \cup {"absent"})
         /\ crashes' \in 0..MaxCrashes /\ faults' \in 0..MaxFaults
         /\ \A e \in ran' : e[1] \in approvals
    BY <2>3 DEF IInv, TypeOK, OnlyApprovedRuns
  <2>11. \A d \in Clients \ {c} : req[d].tool # r.tool
    BY <2>3, <2>5
  <2> QED
    BY <2>2, <2>3, <2>4, <2>6, <2>7, <2>8, <2>9, <2>10, <2>11, MoveKeeps
<1> QED BY <1>2, <1>3, <1>4 DEF Arrive

(* Its coroutine goes on.                                                  *)
LEMMA AdvanceKeeps == ASSUME IInv, NEW c \in Clients, Advance(c) PROVE IInv'
<1> USE LifecycleAssumption DEF LifecycleAssumption
<1> DEFINE t == req[c].tool
<1>1. /\ req[c] \in Record /\ RecordOK(req[c])
      /\ issued \in 0..MaxRequests
      /\ req[c].pc # "wait" /\ req[c].pc \in Points
      /\ UNCHANGED <<made, status, current, approvals, crashes, faults, issued>>
  BY DEF IInv, TypeOK, Record, RequestOK, Advance, ReadBack, ReadRow, Copy, Link,
     ReadQuarantined, EraseRejected, ReadCurrent, Execute, ReadDeleted, EraseDeleted, Purge,
     At, Points, history
\* A step without files that goes to pc, with what it found.
<1>2. ASSUME NEW r \in Record, req' = [req EXCEPT ![c] = r], r.kind = req[c].kind,
             UNCHANGED <<files, history, pending>>,
             r.tool = t \/ status[r.tool] # "absent", RecordOK(r),
             r.pc # "wait"
      PROVE  IInv'
  BY <1>1, <1>2, QuietMove
<1>3. ASSUME NEW pc \in Points \cup Answers, Goto(c, pc), pc # "wait",
             UNCHANGED <<files, history, pending>>,
             RecordOK([req[c] EXCEPT !.pc = pc])
      PROVE  IInv'
  <2> DEFINE r == [req[c] EXCEPT !.pc = pc]
  <2>1. /\ r \in Record /\ req' = [req EXCEPT ![c] = r] /\ r.kind = req[c].kind
        /\ r.tool = t /\ r.pc # "wait"
    BY <1>1, <1>3 DEF Goto, Record
  <2> HIDE DEF r
  <2>2. RecordOK(r)
    BY <1>3 DEF r
  <2> QED BY <1>2, <1>3, <2>1, <2>2
\* An answer commits a request to nothing.
<1>4. ASSUME NEW pc \in Answers PROVE RecordOK([req[c] EXCEPT !.pc = pc])
  BY <1>1, <1>4 DEF RecordOK, Answers, Points, Record
<1>5. CASE ReadBack(c)
  <2>1. CASE status[t] = "absent"
    BY <1>3, <1>4, <1>5, <2>1 DEF ReadBack, Missing, Answers
  <2>2. CASE status[t] # "absent"
    <3>1. RecordOK([req[c] EXCEPT !.pc = "row"])
      BY <1>1, <1>5 DEF ReadBack, At, RecordOK, Points, Answers, Record
    <3> QED BY <1>3, <1>5, <2>2, <3>1 DEF ReadBack, Points
  <2> QED BY <2>1, <2>2
<1>6. CASE ReadRow(c)
  <2>1. CASE status[t] = "absent"
    BY <1>3, <1>4, <1>6, <2>1 DEF ReadRow, Answers
  <2>2. CASE status[t] # "absent"
    <3> DEFINE r == [req[c] EXCEPT !.tool = t, !.seen = status[t], !.pc = "copy"]
    <3>1. t \in Tools /\ status[t] \in Statuses
      BY <1>1, <1>6, <2>2 DEF ReadRow, At, RecordOK, Record, Points, IInv, TypeOK
    <3>2. r \in Record /\ r.kind = req[c].kind /\ r.tool = t /\ r.pc = "copy"
      BY <1>1, <3>1 DEF Record, Points
    <3>3. req' = [req EXCEPT ![c] = r] /\ UNCHANGED <<files, history, pending>>
      BY <1>6, <2>2 DEF ReadRow, Found, IInv, TypeOK
    <3>4. RecordOK(r)
      BY <1>1, <1>6, <3>2 DEF ReadRow, At, RecordOK, Points, Answers
    <3> HIDE DEF r
    <3> QED BY <1>2, <3>2, <3>3, <3>4
  <2> QED BY <2>1, <2>2
<1>7. CASE Copy(c)
  <2>1. t \in Tools /\ made[t] # NoTool /\ made[t] \in Script /\ status[t] # "quarantined"
    BY <1>1, <1>7 DEF Copy, At, RecordOK, Record, Points, IInv, TypeOK
  <2>2. req[c].kind = "approve" /\ UNCHANGED <<ran, erased>>
    BY <1>7 DEF Copy, At, history
  <2>3. /\ erased \subseteq Tools /\ ran \subseteq Tools \X (Statuses \cup {"absent"})
        /\ files \subseteq {"quarantine", "tools"} \X Names \X Codes
    BY DEF IInv, TypeOK
  <2>4. \A e \in ran : e[1] \in approvals
    BY DEF IInv, OnlyApprovedRuns
  <2>5. CASE files' = files \cup {Path(t, "registered")} /\ Put(c, "register")
    <3>1. \A u \in Tools : made[u] # NoTool /\ Kept(u) => Kept(u)'
      BY <1>1, <2>2, <2>5 DEF Kept, Path, Location
    <3>2. PICK v \in Tools : v = t
      BY <2>1
    <3>3. Kept(v)'
      BY <1>1, <2>5, <3>2 DEF Kept, Path, Location
    <3>4. files' \subseteq {"quarantine", "tools"} \X Names \X Codes
      BY <2>1, <2>3, <2>5 DEF Path, Location, Script
    <3>5. "register" \in Statements /\ KindOf("register") = "approve"
      BY DEF Statements, KindOf
    <3> QED BY <1>1, <2>1, <2>2, <2>3, <2>4, <2>5, <3>1, <3>2, <3>3, <3>4, <3>5, PutKeeps
  <2>6. CASE files' = files /\ Put(c, "link")
    <3>1. \A u \in Tools : made[u] # NoTool /\ Kept(u) => Kept(u)'
      BY <1>1, <2>2, <2>6 DEF Kept, Path, Location
    <3>2. "link" \in Statements /\ KindOf("link") = "approve"
      BY DEF Statements, KindOf
    <3> QED BY <1>1, <2>1, <2>2, <2>3, <2>4, <2>6, <3>1, <3>2, PutKeeps
  <2>7. CASE Goto(c, "error") /\ UNCHANGED <<files, pending>>
    BY <1>3, <1>4, <1>7, <2>7 DEF Copy, Answers, history
  <2> QED BY <1>7, <2>5, <2>6, <2>7 DEF Copy
\* A statement that moves no script.
<1>8. ASSUME NEW s \in Statements, Put(c, s), UNCHANGED <<files, erased>>,
             req[c].kind = KindOf(s), s \in {"link", "purge", "count"}, t \in Tools,
             ran' \subseteq Tools \X (Statuses \cup {"absent"}),
             \A e \in ran' : e[1] \in approvals,
             s = "link" => status[t] # "quarantined", s = "purge" => t \in erased
      PROVE  IInv'
  <2>1. files \subseteq {"quarantine", "tools"} \X Names \X Codes /\ erased \subseteq Tools
    BY DEF IInv, TypeOK
  <2>2. \A u \in Tools : made[u] # NoTool /\ Kept(u) => Kept(u)'
    BY <1>1, <1>8 DEF Kept, Path, Location
  <2>3. req[c].kind # "forge" /\ s \notin {"register", "unlink"}
    BY <1>8 DEF KindOf
  <2> QED BY <1>1, <1>8, <2>1, <2>2, <2>3, PutKeeps
<1>9. t \in Tools \/ (req[c].kind = "run" /\ req[c].pc = "read")
  BY <1>1 DEF RecordOK, Record
<1>10. /\ ran \subseteq Tools \X (Statuses \cup {"absent"})
       /\ \A e \in ran : e[1] \in approvals
  BY DEF IInv, TypeOK, OnlyApprovedRuns
<1>11. CASE Link(c)
  <2>1. /\ t \in Tools /\ status[t] # "quarantined" /\ "link" \in Statements
        /\ KindOf("link") = req[c].kind
    BY <1>1, <1>9, <1>11 DEF Link, At, RecordOK, Statements, KindOf
  <2>2. Put(c, "link") /\ UNCHANGED <<files, ran, erased>>
    BY <1>11 DEF Link, history
  <2> QED BY <1>8, <1>10, <2>1, <2>2
<1>12. CASE ReadQuarantined(c)
  <2>1. CASE status[t] # "quarantined"
    BY <1>3, <1>4, <1>12, <2>1 DEF ReadQuarantined, Missing, Answers
  <2>2. CASE status[t] = "quarantined"
    <3> DEFINE r == [req[c] EXCEPT !.tool = t, !.seen = status[t], !.pc = "erase"]
    <3>1. r \in Record /\ r.kind = "reject" /\ r.kind = req[c].kind /\ r.tool = t
          /\ r.pc = "erase"
      BY <1>1, <1>12, <2>2 DEF Record, Points, Statuses, ReadQuarantined, At
    <3>2. req' = [req EXCEPT ![c] = r] /\ UNCHANGED <<files, history, pending>>
      BY <1>12, <2>2 DEF ReadQuarantined, Found, IInv, TypeOK
    <3>3. t # NoTool /\ made[t] # NoTool
      BY <1>1, <1>9, <1>12 DEF RecordOK, ReadQuarantined, At
    <3> HIDE DEF r
    <3>4. RecordOK(r)
      BY <3>1, <3>3 DEF RecordOK
    <3> QED BY <1>2, <3>1, <3>2, <3>4
  <2> QED BY <2>1, <2>2
<1>13. CASE EraseRejected(c)
  <2>1. /\ t \in Tools /\ "reject" \in Statements /\ KindOf("reject") = req[c].kind
        /\ files' = files \ {Path(t, "quarantined")} /\ Put(c, "reject")
        /\ UNCHANGED <<ran, erased>>
    BY <1>9, <1>13 DEF EraseRejected, At, Statements, KindOf, history
  <2>2. erased \subseteq Tools /\ files' \subseteq {"quarantine", "tools"} \X Names \X Codes
    BY <2>1 DEF IInv, TypeOK
  <2>3. \A u \in Tools : Path(u, "registered") # Path(t, "quarantined")
    BY DEF Path, Location
  <2>4. \A u \in Tools : made[u] # NoTool /\ Kept(u) => Kept(u)'
    BY <1>1, <2>1, <2>2, <2>3, KeptStays
  <2> QED BY <1>1, <1>10, <2>1, <2>2, <2>4, PutKeeps DEF KindOf
<1>14. CASE ReadCurrent(c)
  <2> DEFINE u == current[req[c].name]
  <2>1. CASE u = NoTool
    BY <1>3, <1>4, <1>14, <2>1 DEF ReadCurrent, Missing, Answers
  <2>2. CASE u # NoTool
    <3> DEFINE r == [req[c] EXCEPT !.tool = u, !.seen = status[u], !.pc = "execute"]
    <3>1. u \in Tools /\ status[u] \in {"approved", "registered"}
      BY <1>1, <2>2 DEF IInv, TypeOK, OnlyApprovedRuns, Record
    <3>2. u \in approvals /\ made[u] # NoTool
      BY <3>1 DEF IInv, TypeOK, StatusOK
    <3>3. r \in Record /\ r.kind = "run" /\ r.kind = req[c].kind /\ r.tool = u
          /\ r.pc = "execute"
      BY <1>1, <1>14, <3>1 DEF Record, Points, Statuses, ReadCurrent, At
    <3>4. req' = [req EXCEPT ![c] = r] /\ UNCHANGED <<files, history, pending>>
      BY <1>14, <2>2 DEF ReadCurrent, Found, IInv, TypeOK
    <3> HIDE DEF r
    <3>5. RecordOK(r)
      BY <3>1, <3>2, <3>3 DEF RecordOK
    <3>6. status[r.tool] # "absent" /\ r.pc # "wait"
      BY <3>1, <3>3
    <3> QED BY <1>2, <3>3, <3>4, <3>5, <3>6
  <2> QED BY <2>1, <2>2
<1>15. CASE Execute(c)
  <2>1. /\ t \in Tools /\ t \in approvals /\ "count" \in Statements
        /\ KindOf("count") = req[c].kind
    BY <1>1, <1>9, <1>15 DEF Execute, At, RecordOK, Statements, KindOf
  <2>2. /\ Put(c, "count") /\ UNCHANGED <<files, erased>>
        /\ ran' \in {ran, ran \cup {<<t, req[c].seen>>}}
    BY <1>15 DEF Execute
  <2>3. /\ ran' \subseteq Tools \X (Statuses \cup {"absent"})
        /\ \A e \in ran' : e[1] \in approvals
    BY <1>1, <1>10, <2>1, <2>2 DEF Record
  <2> QED BY <1>8, <2>1, <2>2, <2>3
<1>16. CASE ReadDeleted(c)
  <2>1. CASE status[t] = "absent"
    BY <1>3, <1>4, <1>16, <2>1 DEF ReadDeleted, Missing, Answers
  <2>2. CASE status[t] # "absent"
    <3> DEFINE r == [req[c] EXCEPT !.tool = t, !.seen = status[t], !.pc = "erase"]
    <3>1. t \in Tools /\ status[t] \in Statuses /\ made[t] # NoTool
      BY <1>1, <1>9, <1>16, <2>2 DEF RecordOK, ReadDeleted, At, IInv, TypeOK
    <3>2. r \in Record /\ r.kind = "delete" /\ r.kind = req[c].kind /\ r.tool = t
          /\ r.pc = "erase"
      BY <1>1, <1>16, <3>1 DEF Record, Points, ReadDeleted, At
    <3>3. req' = [req EXCEPT ![c] = r] /\ UNCHANGED <<files, history, pending>>
      BY <1>16, <2>2 DEF ReadDeleted, Found, IInv, TypeOK
    <3> HIDE DEF r
    <3>4. RecordOK(r)
      BY <3>1, <3>2 DEF RecordOK
    <3> QED BY <1>2, <3>2, <3>3, <3>4
  <2> QED BY <2>1, <2>2
<1>17. CASE EraseDeleted(c)
  <2>1. /\ t \in Tools /\ "unlink" \in Statements /\ KindOf("unlink") = req[c].kind
        /\ files' = files \ {Path(t, req[c].seen)} /\ Put(c, "unlink")
        /\ erased' = erased \cup {t} /\ ran' = ran
    BY <1>9, <1>17 DEF EraseDeleted, At, Statements, KindOf
  <2>2. erased' \subseteq Tools /\ files' \subseteq {"quarantine", "tools"} \X Names \X Codes
    BY <2>1 DEF IInv, TypeOK
  <2>3. ASSUME NEW u \in Tools, made[u] # NoTool, Path(u, "registered") = Path(t, req[c].seen)
        PROVE  made[u] = made[t]
    <3>1. made[t] # NoTool
      BY <1>1, <2>1, LifecycleAssumption DEF RecordOK
    <3>2. made[u] \in Names \X Codes /\ made[t] \in Names \X Codes
      BY <2>1, <2>3, <3>1 DEF IInv, TypeOK, Script
    <3>3. made[u][1] = made[t][1] /\ made[u][2] = made[t][2]
      BY <2>3 DEF Path
    <3> QED BY <3>2, <3>3
  <2>4. \A u \in Tools : made[u] # NoTool /\ Kept(u) => Kept(u)'
    BY <1>1, <2>1, <2>2, <2>3, KeptStays
  <2> QED BY <1>1, <1>10, <2>1, <2>2, <2>4, PutKeeps DEF KindOf
<1>18. CASE Purge(c)
  <2>1. /\ t \in Tools /\ t \in erased /\ "purge" \in Statements
        /\ KindOf("purge") = req[c].kind
    BY <1>1, <1>9, <1>18 DEF Purge, At, RecordOK, Statements, KindOf
  <2>2. Put(c, "purge") /\ UNCHANGED <<files, ran, erased>>
    BY <1>18 DEF Purge, history
  <2> QED BY <1>8, <1>10, <2>1, <2>2
<1> QED
  BY <1>5, <1>6, <1>7, <1>11, <1>12, <1>13, <1>14, <1>15, <1>16, <1>17, <1>18 DEF Advance

(* The writer executes the oldest statement.                               *)
LEMMA ApplyNextKeeps == ASSUME IInv, ApplyNext PROVE IInv'
<1> USE LifecycleAssumption DEF LifecycleAssumption
<1>1. PICK s \in Statements : Taken(s)
  BY StatementTaken DEF IInv
<1>2. /\ Head(pending) \in Items(pending) /\ Head(pending) \in Clients \X Statements
      /\ Head(pending)[2] = s
  BY <1>1, TakeItem DEF IInv, Taken
<1>3. /\ Caller \in Clients /\ ItemOK(req[Caller], s) /\ RecordOK(req[Caller])
      /\ req[Caller] \in Record /\ Target = req[Caller].tool
  BY <1>2 DEF IInv, QueueOK, RequestOK, TypeOK, Record, Caller, Target
<1>4. /\ Target \in Tools /\ made[Target] # NoTool /\ made[Target] \in Names \X Codes
      /\ made[Target][1] \in Names
  BY <1>3 DEF ItemOK, RecordOK, Record, IInv, TypeOK, Script
<1>5. /\ status \in [Tools -> Statuses \cup {"absent"}] /\ approvals \subseteq Tools
      /\ current \in [Names -> Tools \cup {NoTool}]
      /\ \A t \in Tools : status[t] # "absent" => made[t] # NoTool
  BY DEF IInv, TypeOK
<1>6. /\ UNCHANGED <<made, files, erased>>
      /\ \A t : Kept(t) <=> Kept(t)'
  BY <1>1 DEF Taken, Kept, Path
<1>7. /\ \A n \in Names : current[n] # NoTool =>
           made[current[n]][1] = n /\ status[current[n]] \in {"approved", "registered"}
      /\ \A t \in Tools : status[t] \in {"approved", "registered"} => t \in approvals
      /\ \A t \in Tools : status[t] = "registered" => Kept(t)
  BY DEF IInv, OnlyApprovedRuns, StatusOK
\* Where its request goes, and what it may then rely on.
<1>8. ASSUME NEW p \in Points \cup Answers, NEW r, r = [req[Caller] EXCEPT !.pc = p],
             \/ p \in Answers
             \/ s \in {"approve", "register"} /\ p \in {"readback", "link"}
                /\ status'[Target] # "quarantined"
             \/ s = "unlink" /\ p = "purge"
      PROVE  RecordOK(r)'
  <2>1. r.tool = Target /\ r.pc = p /\ r.kind = KindOf(s)
    BY <1>3, <1>8 DEF Record, ItemOK
  <2>2. s = "unlink" => Target \in erased
    BY <1>3 DEF ItemOK
  <2>3. p \in Answers => p # "wait" /\ p \notin Points
    BY DEF Answers, Points
  <2>4. made'[Target] # NoTool /\ Target # NoTool /\ erased' = erased
    BY <1>4, <1>6
  <2>5. CASE p \in Answers
    <3>1. p \notin Points /\ p \notin {"readback", "row", "copy", "link", "execute", "purge"}
      BY <2>5 DEF Answers, Points
    <3> QED BY <2>1, <2>3, <2>4, <2>5, <3>1 DEF RecordOK
  <2>6. CASE s \in {"approve", "register"} /\ p \in {"readback", "link"}
             /\ status'[Target] # "quarantined"
    <3>1. r.kind = "approve"
      BY <2>1, <2>6 DEF KindOf
    <3> QED BY <2>1, <2>4, <2>6, <3>1 DEF RecordOK
  <2>7. CASE s = "unlink" /\ p = "purge"
    <3>1. r.kind = "delete"
      BY <2>1, <2>7 DEF KindOf
    <3> QED BY <2>1, <2>2, <2>4, <2>7, <3>1 DEF RecordOK
  <2> QED BY <1>8, <2>5, <2>6, <2>7
<1>9. ASSUME NEW p \in Points \cup Answers, Goto(Caller, p),
             \/ p \in Answers
             \/ s \in {"approve", "register"} /\ p \in {"readback", "link"}
                /\ status'[Target] # "quarantined"
             \/ s = "unlink" /\ p = "purge",
             NEW v \in Statuses \cup {"absent"}, status' = [status EXCEPT ![Target] = v],
             \/ s = "insert"
             \/ /\ v = "quarantined" => status[Target] = "quarantined"
                /\ status[Target] = "absent" => v = "absent",
             approvals \subseteq approvals', approvals' \subseteq Tools,
             v \in {"approved", "registered"} => Target \in approvals',
             v = "registered" => Kept(Target),
             current' \in [Names -> Tools \cup {NoTool}],
             \A n \in Names :
               current'[n] # NoTool =>
                 /\ made[current'[n]][1] = n
                 /\ status'[current'[n]] \in {"approved", "registered"}
      PROVE  IInv'
  <2>1. p # "wait"
    BY <1>9 DEF Answers
  <2>2. /\ status' \in [Tools -> Statuses \cup {"absent"}] /\ status'[Target] = v
        /\ \A t \in Tools \ {Target} : status'[t] = status[t]
    BY <1>4, <1>5, <1>9
  <2>3. \A t \in Tools : status'[t] # "absent" => made[t] # NoTool
    BY <1>4, <1>5, <2>2
  <2>4. \A t \in Tools : \/ s = "insert" /\ t = Target
                        \/ /\ status'[t] = "quarantined" => status[t] = "quarantined"
                           /\ status[t] = "absent" => status'[t] = "absent"
    BY <1>9, <2>2
  <2>5. StatusOK'
    BY <1>6, <1>7, <1>9, <2>2 DEF StatusOK
  <2>6. PICK r : r = [req[Caller] EXCEPT !.pc = p]
    OBVIOUS
  <2>7. RecordOK(r)'
    BY <1>8, <1>9, <2>6
  <2> QED BY <1>1, <1>9, <2>1, <2>2, <2>3, <2>4, <2>5, <2>6, <2>7, ApplyKeeps
\* Neither table changes.
<1>10. ASSUME NEW p \in Answers, Goto(Caller, p), UNCHANGED <<status, current, approvals>>
       PROVE  IInv'
  <2>1. status' = [status EXCEPT ![Target] = status[Target]]
        /\ status[Target] \in Statuses \cup {"absent"}
    BY <1>4, <1>5, <1>10
  <2> QED BY <1>4, <1>5, <1>7, <1>9, <1>10, <2>1
<1>11. {"ok", "error"} \subseteq Answers /\ {"readback", "link", "purge"} \subseteq Points
       /\ {"quarantined", "approved", "registered", "absent"} \subseteq Statuses \cup {"absent"}
  BY DEF Answers, Points, Statuses
<1>12. CASE ApplyInsert
  <2>1. s = "insert" /\ status[Target] = "absent"
    BY <1>2, <1>3, <1>12 DEF ApplyInsert, Apply, ItemOK, RecordOK, KindOf
  <2>2. CASE NameTaken
    BY <1>10, <1>11, <1>12, <2>2 DEF ApplyInsert
  <2>3. CASE ~NameTaken
    <3>1. /\ Goto(Caller, "ok") /\ status' = [status EXCEPT ![Target] = "quarantined"]
          /\ UNCHANGED <<current, approvals>>
      BY <1>12, <2>3 DEF ApplyInsert
    <3>2. \A n \in Names : current[n] # NoTool => current[n] \in Tools \ {Target}
      BY <1>5, <1>7, <2>1
    <3>3. \A n \in Names :
            current'[n] # NoTool =>
              /\ made[current'[n]][1] = n
              /\ status'[current'[n]] \in {"approved", "registered"}
      BY <1>5, <1>7, <3>1, <3>2
    <3> QED BY <1>5, <1>9, <1>11, <2>1, <3>1, <3>3
  <2> QED BY <2>2, <2>3
<1>13. CASE ApplyApprove
  <2>1. s = "approve" /\ Goto(Caller, "readback") /\ current' = current
    BY <1>2, <1>13 DEF ApplyApprove, Apply
  <2>2. CASE status[Target] = "quarantined"
    <3>1. /\ status' = [status EXCEPT ![Target] = "approved"]
          /\ approvals' = approvals \cup {Target}
      BY <1>13, <2>2 DEF ApplyApprove
    <3>2. status'[Target] # "quarantined"
      BY <1>4, <1>5, <3>1
    <3>3. \A n \in Names :
            current'[n] # NoTool =>
              /\ made[current'[n]][1] = n
              /\ status'[current'[n]] \in {"approved", "registered"}
      BY <1>5, <1>7, <2>1, <3>1
    <3> QED BY <1>4, <1>5, <1>9, <1>11, <2>1, <2>2, <3>1, <3>2, <3>3
  <2>3. CASE status[Target] # "quarantined"
    <3>1. /\ status' = [status EXCEPT ![Target] = status[Target]] /\ status' = status
          /\ approvals' = approvals /\ status[Target] \in Statuses \cup {"absent"}
      BY <1>4, <1>5, <1>13, <2>3 DEF ApplyApprove
    <3> QED BY <1>4, <1>5, <1>7, <1>9, <1>11, <2>1, <2>3, <3>1
  <2> QED BY <2>2, <2>3
<1>14. CASE ApplyRegister
  <2> DEFINE v == IF status[Target] = "absent" THEN "absent" ELSE "registered"
  <2>1. /\ s = "register" /\ Goto(Caller, "link") /\ UNCHANGED <<current, approvals>>
        /\ status' = [status EXCEPT ![Target] = v] /\ status'[Target] = v
    BY <1>2, <1>4, <1>5, <1>14 DEF ApplyRegister, Apply
  <2>2. status[Target] # "quarantined" /\ Kept(Target)
    BY <1>3, <2>1 DEF ItemOK
  <2>3. status[Target] # "absent" => Target \in approvals
    BY <1>4, <1>5, <1>7, <2>2 DEF Statuses
  <2>4. \A n \in Names :
          current'[n] # NoTool =>
            /\ made[current'[n]][1] = n
            /\ status'[current'[n]] \in {"approved", "registered"}
    BY <1>5, <1>7, <2>1
  <2> QED BY <1>5, <1>9, <1>11, <2>1, <2>2, <2>3, <2>4
<1>15. CASE ApplyLink
  <2>1. s = "link" /\ status[Target] # "quarantined"
    BY <1>2, <1>3, <1>15 DEF ApplyLink, Apply, ItemOK
  <2>2. CASE status[Target] = "absent"
    BY <1>10, <1>11, <1>15, <2>2 DEF ApplyLink
  <2>3. CASE status[Target] # "absent"
    <3>1. /\ Goto(Caller, "ok") /\ UNCHANGED <<status, approvals>>
          /\ current' = [current EXCEPT ![made[Target][1]] = Target]
      BY <1>15, <2>3 DEF ApplyLink
    <3>2. status[Target] \in {"approved", "registered"}
      BY <1>4, <1>5, <2>1, <2>3 DEF Statuses
    <3>3. /\ current' \in [Names -> Tools \cup {NoTool}]
          /\ \A n \in Names :
               current'[n] # NoTool =>
                 /\ made[current'[n]][1] = n
                 /\ status'[current'[n]] \in {"approved", "registered"}
      BY <1>4, <1>5, <1>7, <3>1, <3>2
    <3>4. status' = [status EXCEPT ![Target] = status[Target]]
      BY <1>4, <1>5, <3>1
    <3> QED BY <1>4, <1>5, <1>7, <1>9, <1>11, <2>1, <3>1, <3>2, <3>3, <3>4
  <2> QED BY <2>2, <2>3
<1>16. CASE ApplyReject
  <2> DEFINE v == IF status[Target] = "quarantined" THEN "absent" ELSE status[Target]
  <2>1. /\ s = "reject" /\ Goto(Caller, "ok") /\ UNCHANGED <<current, approvals>>
        /\ status' = [status EXCEPT ![Target] = v] /\ v \in Statuses \cup {"absent"}
    BY <1>2, <1>4, <1>5, <1>16 DEF ApplyReject, Apply
  <2>2. \A n \in Names :
          current'[n] # NoTool =>
            /\ made[current'[n]][1] = n
            /\ status'[current'[n]] \in {"approved", "registered"}
    BY <1>5, <1>7, <2>1
  <2> QED BY <1>4, <1>5, <1>7, <1>9, <1>11, <2>1, <2>2
<1>17. CASE ApplyCount
  BY <1>10, <1>11, <1>17 DEF ApplyCount
<1>18. CASE ApplyUnlink
  <2>1. /\ s = "unlink" /\ Goto(Caller, "purge") /\ UNCHANGED <<status, approvals>>
        /\ current' = [n \in Names |-> IF current[n] = Target THEN NoTool ELSE current[n]]
    BY <1>2, <1>18 DEF ApplyUnlink, Apply
  <2>2. status' = [status EXCEPT ![Target] = status[Target]]
        /\ status[Target] \in Statuses \cup {"absent"}
    BY <1>4, <1>5, <2>1
  <2>3. /\ current' \in [Names -> Tools \cup {NoTool}]
        /\ \A n \in Names :
             current'[n] # NoTool =>
               /\ made[current'[n]][1] = n
               /\ status'[current'[n]] \in {"approved", "registered"}
    BY <1>5, <1>7, <2>1
  <2> QED BY <1>4, <1>5, <1>7, <1>9, <1>11, <2>1, <2>2, <2>3
<1>19. CASE ApplyPurge
  <2>1. CASE \E n \in Names : current[n] = Target
    BY <1>10, <1>11, <1>19, <2>1 DEF ApplyPurge
  <2>2. CASE ~\E n \in Names : current[n] = Target
    <3>1. /\ s = "purge" /\ Goto(Caller, "ok") /\ UNCHANGED <<current, approvals>>
          /\ status' = [status EXCEPT ![Target] = "absent"]
      BY <1>2, <1>19, <2>2 DEF ApplyPurge, Apply
    <3>2. \A n \in Names :
            current'[n] # NoTool =>
              /\ made[current'[n]][1] = n
              /\ status'[current'[n]] \in {"approved", "registered"}
      BY <1>5, <1>7, <2>2, <3>1
    <3> QED BY <1>5, <1>9, <1>11, <3>1, <3>2
  <2> QED BY <2>1, <2>2
<1>20. CASE ApplyFails
  BY <1>10, <1>11, <1>20 DEF ApplyFails
<1> QED
  BY <1>12, <1>13, <1>14, <1>15, <1>16, <1>17, <1>18, <1>19, <1>20 DEF ApplyNext

(* A dead daemon leaves no request and no statement behind.                *)
LEMMA CrashKeeps == ASSUME IInv, Crash PROVE IInv'
<1>1. /\ pending' = <<>> /\ crashes' = crashes + 1 /\ crashes < MaxCrashes
      /\ UNCHANGED <<made, status, current, files, approvals, ran, erased, issued, faults>>
  BY DEF Crash
<1>2. /\ req' \in [Clients -> Record]
      /\ \A c \in Clients : req'[c].pc \in Answers /\ req'[c].tool = req[c].tool
  BY DEF Crash, Idle, IInv, TypeOK, Record, Answers
<1>3. \A c \in Clients : req'[c].pc \notin Points
  BY <1>2 DEF Answers, Points
<1>4. TypeOK'
  BY <1>1, <1>2, LifecycleAssumption DEF LifecycleAssumption, IInv, TypeOK, Record
<1>5. Items(pending') = {} /\ Distinct(pending')
  BY <1>1 DEF Items, Distinct
<1>6. QueueOK'
  BY <1>5 DEF QueueOK
<1>7. RequestOK'
  BY <1>1, <1>2, <1>3 DEF IInv, RequestOK, RecordOK, Secret, At, Points
<1>8. StatusOK' /\ OnlyApprovedRuns'
  BY <1>1 DEF IInv, StatusOK, OnlyApprovedRuns, Kept, Path
<1> QED BY <1>4, <1>5, <1>6, <1>7, <1>8 DEF IInv

(* The invariant holds throughout.                                         *)
THEOREM Inductive == Spec => []IInv
<1>1. IInv /\ [Next]_vars => IInv'
  <2> SUFFICES ASSUME IInv, [Next]_vars PROVE IInv'
    OBVIOUS
  <2>1. CASE UNCHANGED vars
    BY <2>1 DEF vars, IInv, TypeOK, QueueOK, ItemOK, RequestOK, RecordOK, Secret, At,
       StatusOK, OnlyApprovedRuns, Kept, Path
  <2>2. CASE Next
    BY <2>2, ArriveKeeps, AdvanceKeeps, ApplyNextKeeps, CrashKeeps DEF Next
  <2> QED BY <2>1, <2>2
<1> QED BY <1>1, InitIInv, PTL DEF Spec

(* Every variable keeps its type.                                          *)
THEOREM TypeCorrect == Spec => []TypeOK
<1>1. IInv => TypeOK
  BY DEF IInv
<1> QED BY <1>1, Inductive, PTL

(* Only what the user approved is ever executed or current.                *)
THEOREM RunsAreApproved == Spec => []OnlyApprovedRuns
<1>1. IInv => OnlyApprovedRuns
  BY DEF IInv
<1> QED BY <1>1, Inductive, PTL

(* A registered tool has its script, unless that was deleted.              *)
THEOREM RegisteredToolsHaveScripts == Spec => []RegisteredHasScript
<1>1. IInv => RegisteredHasScript
  <2> SUFFICES ASSUME IInv, NEW t \in Tools, status[t] = "registered",
                      \A u \in erased : made[u] # made[t]
               PROVE  Path(t, "registered") \in files
    BY DEF RegisteredHasScript
  <2> QED BY DEF IInv, StatusOK, Kept
<1> QED BY <1>1, Inductive, PTL

(* An approved tool is registered or stays as it is, until it is deleted.   *)
THEOREM ApprovalsAreKept == Spec => ApprovedIsKept
<1> DEFINE Stays ==
      \A t \in Tools :
        status[t] \in {"approved", "registered"} /\ t \notin erased
          => status'[t] \in {status[t], "registered"}
<1>1. IInv /\ [Next]_vars => [Stays]_vars
  <2> SUFFICES ASSUME IInv, Next, NEW t \in Tools,
                      status[t] \in {"approved", "registered"}, t \notin erased
               PROVE  status'[t] \in {status[t], "registered"}
    OBVIOUS
  <2>1. CASE ApplyNext
    <3>1. PICK s \in Statements : Taken(s)
      BY <2>1, StatementTaken DEF IInv
    <3>2. /\ Caller \in Clients /\ ItemOK(req[Caller], s) /\ RecordOK(req[Caller])
          /\ Target = req[Caller].tool
      BY <3>1, TakeItem DEF Taken, IInv, QueueOK, RequestOK, Caller, Target
    <3>3. s = "insert" => status[Target] = "absent"
      BY <3>2 DEF ItemOK, RecordOK, KindOf
    <3>4. s = "purge" => Target \in erased
      BY <3>2 DEF ItemOK
    <3>5. status \in [Tools -> Statuses \cup {"absent"}]
      BY DEF IInv, TypeOK
    <3> QED
      BY <2>1, <3>1, <3>3, <3>4, <3>5 DEF Taken, Apply, ApplyNext, ApplyInsert, ApplyApprove,
         ApplyRegister, ApplyLink, ApplyReject, ApplyCount, ApplyUnlink, ApplyPurge, ApplyFails
  <2>2. CASE ~ApplyNext
    BY <2>2 DEF Next, Crash, Arrive, Forge, Approve, Reject, Delete, Run, Advance, ReadBack,
       ReadRow, Copy, Link, ReadQuarantined, EraseRejected, ReadCurrent, Execute,
       ReadDeleted, EraseDeleted, Purge
  <2> QED BY <2>1, <2>2
<1> QED BY <1>1, Inductive, PTL DEF Spec, ApprovedIsKept

-----------------------------------------------------------------------------
(***************************************************************************)
(* ToolLifecycle implements HumanInTheLoop.  Requests change nothing but   *)
(* what was executed or erased, the writer moves one tool at a time, and a *)
(* crash loses the tools that were being forged.  What an approval found   *)
(* was known and is never in the quarantine again (ApprovedLeft): so a     *)
(* tool whose INSERT is lost was not retired, and a run that read an       *)
(* approved tool some awaits ago still executes an approved one.           *)
(***************************************************************************)

ApprovedLeft == \A t \in approvals : Known(t) /\ status[t] # "quarantined"

(* A tool that is being forged has no row yet.                             *)
LEMMA UnknownAbsent ==
  ASSUME IInv, NEW t \in Tools, ~Known(t)
  PROVE  status[t] = "absent"
BY DEF IInv, TypeOK, RequestOK, RecordOK, Known, At

(* A step of a request that forges nothing lets the same tools be known.   *)
LEMMA KnownKept ==
  ASSUME made' = made, NEW c \in Clients,
         \A d \in Clients \ {c} : req'[d] = req[d],
         ~At(c, "forge", "wait"), ~At(c, "forge", "wait")'
  PROVE  \A t : Known(t)' <=> Known(t)
BY DEF Known, At

(* Where rows, approvals and the known tools stay, so do the phases.       *)
LEMMA PhaseKept ==
  ASSUME NEW t, status'[t] = status[t], t \in approvals' <=> t \in approvals,
         Known(t)' <=> Known(t)
  PROVE  Phase(t)' = Phase(t)
BY DEF Phase

(* A step that changes no phase, name, execution or deletion is a stutter. *)
LEMMA Still ==
  ASSUME UNCHANGED <<status, approvals, current, ran, erased>>,
         \A t \in Tools : Known(t)' <=> Known(t)
  PROVE  UNCHANGED Loop!toolVars
<1>1. \A t \in Tools : Phase(t)' = Phase(t)
  BY PhaseKept
<1>2. [t \in Tools |-> Phase(t)]' = [t \in Tools |-> Phase(t)]
  BY <1>1
<1> QED BY <1>2 DEF Loop!toolVars

(* One tool comes from one phase to the next.                              *)
LEMMA OneMoves ==
  ASSUME NEW t \in Tools, NEW to, Phase(t)' = to,
         \A u \in Tools \ {t} : Phase(u)' = Phase(u),
         UNCHANGED <<current, ran, erased>>
  PROVE  Loop!Move(t, Phase(t), to)
<1>1. [u \in Tools |-> Phase(u)]' = [[u \in Tools |-> Phase(u)] EXCEPT ![t] = to]
  OBVIOUS
<1> QED BY <1>1 DEF Loop!Move

(* A request that arrives changes nothing the user is promised.            *)
LEMMA ArriveRefines ==
  ASSUME IInv, NEW c \in Clients, Arrive(c)
  PROVE  UNCHANGED Loop!toolVars /\ UNCHANGED approvals /\ \A t : Known(t)' <=> Known(t)
<1>1. UNCHANGED <<status, approvals, current, ran, erased>>
  BY DEF Arrive, Forge, Approve, Reject, Delete, Run, history
<1>2. req \in [Clients -> Record] /\ made \in [Tools -> Script \cup {NoTool}]
  BY DEF IInv, TypeOK, Record
<1>3. ~At(c, "forge", "wait")
  BY DEF Arrive, Forge, Approve, Reject, Delete, Run, Request, Idle, At, Answers
<1>4. ASSUME NEW n \in Names, NEW code \in Codes, Forge(c, n, code)
      PROVE  \A t : Known(t)' <=> Known(t)
  <2>1. PICK u \in Tools : /\ made[u] = NoTool /\ made' = [made EXCEPT ![u] = <<n, code>>]
                           /\ Request(c, "forge", u, n, "wait")
    BY <1>4 DEF Forge
  <2>2. /\ req'[c].kind = "forge" /\ req'[c].pc = "wait" /\ req'[c].tool = u
        /\ \A d \in Clients \ {c} : req'[d] = req[d]
    BY <1>2, <2>1 DEF Request
  <2>3. ~Known(u) /\ ~Known(u)'
    BY <2>1, <2>2 DEF Known, At
  <2>4. \A t : t # u => (made'[t] = NoTool <=> made[t] = NoTool)
    BY <1>2, <2>1
  <2>5. ASSUME NEW t, t # u PROVE Known(t)' <=> Known(t)
    BY <1>3, <2>2, <2>4, <2>5 DEF Known, At
  <2> QED BY <2>3, <2>5
<1>5. ASSUME ~\E n \in Names, code \in Codes : Forge(c, n, code)
      PROVE  \A t : Known(t)' <=> Known(t)
  <2>1. /\ made' = made /\ req'[c].kind # "forge"
        /\ \A d \in Clients \ {c} : req'[d] = req[d]
    BY <1>2, <1>5 DEF Arrive, Approve, Reject, Delete, Run, Request
  <2> QED BY <1>3, <2>1, KnownKept DEF At
<1>6. \A t : Known(t)' <=> Known(t)
  BY <1>4, <1>5
<1> QED BY <1>1, <1>6, Still

(* A request that goes on executes or erases a tool it knows, or changes   *)
(* nothing the user is promised.                                           *)
LEMMA AdvanceRefines ==
  ASSUME IInv, ApprovedLeft, NEW c \in Clients, Advance(c)
  PROVE  /\ [Loop!LoopNext]_(Loop!toolVars)
         /\ UNCHANGED approvals /\ \A t : Known(t)' <=> Known(t)
<1>1. UNCHANGED <<made, status, approvals, current>>
  BY DEF Advance, ReadBack, ReadRow, Copy, Link, ReadQuarantined, EraseRejected,
     ReadCurrent, Execute, ReadDeleted, EraseDeleted, Purge, history
<1>2. req \in [Clients -> Record]
  BY DEF IInv, TypeOK, Record
<1>3. /\ req[c].kind # "forge" /\ req'[c].kind = req[c].kind
      /\ \A d \in Clients \ {c} : req'[d] = req[d]
  BY <1>2 DEF Advance, ReadBack, ReadRow, Copy, Link, ReadQuarantined, EraseRejected,
     ReadCurrent, Execute, ReadDeleted, EraseDeleted, Purge, At, Goto, Put, Found, Missing,
     Record
<1>4. \A t : Known(t)' <=> Known(t)
  BY <1>1, <1>3, KnownKept DEF At
<1>5. \A t \in Tools : Phase(t)' = Phase(t)
  BY <1>1, <1>4, PhaseKept
<1>6. [t \in Tools |-> Phase(t)]' = [t \in Tools |-> Phase(t)]
  BY <1>5
<1>7. RecordOK(req[c]) /\ Secret(c) /\ req[c].tool \in Tools \cup {NoTool}
  BY <1>2 DEF IInv, RequestOK, Record
<1>8. CASE Execute(c)
  <2>1. PICK t \in Tools : t = req[c].tool /\ t \in approvals
    BY <1>7, <1>8 DEF RecordOK, Execute, At, IInv, TypeOK
  <2>2. status[t] \in Statuses \cup {"absent"} /\ Known(t)
    BY <2>1 DEF IInv, TypeOK, ApprovedLeft
  <2>3. status[t] # "quarantined" => Phase(t) \in {"approved", "registered", "retired"}
    BY <2>1, <2>2 DEF Phase, Statuses
  <2>4. status[t] # "quarantined"
    BY <2>1 DEF ApprovedLeft
  <2>5. UNCHANGED erased /\ (ran' = ran \/ ran' = ran \cup {<<t, req[c].seen>>})
    BY <1>8, <2>1 DEF Execute
  <2>6. CASE ran' = ran
    BY <1>1, <1>4, <2>5, <2>6, Still
  <2>7. CASE ran' = ran \cup {<<t, req[c].seen>>}
    <3>1. {e[1] : e \in ran}' = {e[1] : e \in ran} \cup {t}
      <4>1. <<t, req[c].seen>>[1] = t
        OBVIOUS
      <4>2. \A x : x \in {e[1] : e \in ran}' <=> x \in {e[1] : e \in ran} \/ x = t
        BY <2>7, <4>1
      <4> QED BY <4>2
    <3>2. Loop!Execute(t)
      BY <1>1, <1>6, <2>1, <2>3, <2>4, <2>5, <3>1 DEF Loop!Execute
    <3> QED BY <1>1, <1>4, <3>2 DEF Loop!LoopNext
  <2> QED BY <1>1, <1>4, <2>5, <2>6, <2>7
<1>9. CASE EraseDeleted(c)
  <2>1. PICK t \in Tools : t = req[c].tool /\ made[t] # NoTool /\ req[c].kind = "delete"
    BY <1>7, <1>9 DEF RecordOK, EraseDeleted, At, Points
  <2>2. Known(t)
    BY <1>3, <2>1 DEF Known, At, IInv, RequestOK, Secret
  <2>3. Phase(t) # "unknown"
    BY <2>1, <2>2 DEF Phase, IInv, TypeOK, Statuses
  <2>4. erased' = erased \cup {t} /\ ran' = ran
    BY <1>9, <2>1 DEF EraseDeleted
  <2>5. Loop!Erase(t)
    BY <1>1, <1>6, <2>1, <2>3, <2>4 DEF Loop!Erase
  <2> QED BY <1>1, <1>4, <2>5 DEF Loop!LoopNext
<1>10. CASE ~Execute(c) /\ ~EraseDeleted(c)
  <2>1. UNCHANGED <<ran, erased>>
    BY <1>10 DEF Advance, ReadBack, ReadRow, Copy, Link, ReadQuarantined, EraseRejected,
       ReadCurrent, ReadDeleted, Purge, history
  <2> QED BY <1>1, <1>4, <2>1, Still
<1> QED BY <1>8, <1>9, <1>10

(* The writer's statement takes its tool one phase on, or changes a name   *)
(* the tool is called by; the other tools stay where they are.             *)
LEMMA ApplyRefines ==
  ASSUME IInv, ApprovedLeft, ApplyNext
  PROVE  [Loop!LoopNext]_(Loop!toolVars) /\ ApprovedLeft'
<1>1. PICK s \in Statements : Taken(s)
  BY StatementTaken DEF IInv
<1>2. PICK k \in Clients, t \in Tools :
        /\ k = Caller /\ t = Target /\ t = req[k].tool /\ Head(pending)[2] = s
        /\ ItemOK(req[k], s) /\ RecordOK(req[k]) /\ Secret(k)
  <2>1. /\ Caller \in Clients /\ ItemOK(req[Caller], s) /\ RecordOK(req[Caller])
        /\ Secret(Caller) /\ Target = req[Caller].tool /\ Head(pending)[2] = s
    BY <1>1, TakeItem DEF Taken, IInv, QueueOK, RequestOK, Caller, Target
  <2>2. Target \in Tools
    BY <2>1 DEF ItemOK, IInv, TypeOK
  <2> QED BY <2>1, <2>2
<1>3. /\ UNCHANGED <<made, ran, erased>>
      /\ status \in [Tools -> Statuses \cup {"absent"}]
      /\ current \in [Names -> Tools \cup {NoTool}]
      /\ req \in [Clients -> Record] /\ approvals \subseteq Tools
  BY <1>1 DEF Taken, IInv, TypeOK, Record
<1>4. made[t] # NoTool
  BY <1>2 DEF ItemOK, RecordOK
<1>5. /\ \A d \in Clients \ {k} : req'[d] = req[d]
      /\ req'[k].kind = req[k].kind /\ req'[k].tool = t
      /\ req'[k].pc # "wait"
  BY <1>2, <1>3 DEF ApplyNext, ApplyInsert, ApplyApprove, ApplyRegister, ApplyLink,
     ApplyReject, ApplyCount, ApplyUnlink, ApplyPurge, ApplyFails, Goto, Record
<1>6. s # "insert" => \A u : Known(u)' <=> Known(u)
  <2> SUFFICES ASSUME s # "insert" PROVE \A u : Known(u)' <=> Known(u)
    OBVIOUS
  <2>1. req[k].kind # "forge"
    BY <1>2 DEF ItemOK, KindOf, Statements
  <2> QED BY <1>2, <1>3, <1>5, <2>1, KnownKept DEF At
<1>7. s # "insert" => Known(t)
  <2>1. s # "insert" => req[k].kind # "forge"
    BY <1>2 DEF ItemOK, KindOf
  <2>2. \A d \in Clients : Secret(d)
    BY DEF IInv, RequestOK
  <2> QED BY <1>2, <1>4, <2>1, <2>2 DEF Known, At, Secret
<1>8. ASSUME s # "insert", NEW to,
             Phase(t)' = to,
             \A u \in Tools \ {t} :
               status'[u] = status[u] /\ (u \in approvals' <=> u \in approvals),
             current' = current
      PROVE  Loop!Move(t, Phase(t), to)
  <2>1. \A u \in Tools \ {t} : Phase(u)' = Phase(u)
    BY <1>6, <1>8, PhaseKept
  <2> QED BY <1>3, <1>4, <1>8, <2>1, OneMoves
<1>9. s # "insert" /\ UNCHANGED <<status, approvals, current>> => UNCHANGED Loop!toolVars
  BY <1>3, <1>6, Still
<1>10. s # "insert" /\ UNCHANGED <<status, approvals>> =>
         [u \in Tools |-> Phase(u)]' = [u \in Tools |-> Phase(u)]
  BY <1>6, PhaseKept
<1>11. /\ s # "insert" /\ approvals' = approvals
       /\ \A u \in Tools : status'[u] = "quarantined" => status[u] = "quarantined"
       => ApprovedLeft'
  BY <1>3, <1>6 DEF ApprovedLeft
\* An INSERT brings its tool into the quarantine or discards it.
<1>12. ASSUME s = "insert", UNCHANGED <<approvals, current>>,
              \A u \in Tools \ {t} : status'[u] = status[u],
              status'[t] \in {status[t], "quarantined"}
       PROVE  [Loop!LoopNext]_(Loop!toolVars) /\ ApprovedLeft'
  <2>1. At(k, "forge", "wait") /\ status[t] = "absent"
    BY <1>2, <1>12 DEF ItemOK, KindOf, At, RecordOK
  <2>2. ~Known(t) /\ Known(t)'
    BY <1>2, <1>3, <1>4, <1>5, <2>1 DEF Known, At, Secret
  <2>3. \A u : u # t => (Known(u)' <=> Known(u))
    BY <1>2, <1>3, <1>5 DEF Known, At
  <2>4. t \notin approvals
    BY <2>2 DEF ApprovedLeft
  <2>5. \A u \in Tools \ {t} : Phase(u)' = Phase(u)
    BY <1>12, <2>3, PhaseKept
  <2>6. Phase(t) = "unknown"
    BY <2>1, <2>2 DEF Phase
  <2>7. ApprovedLeft'
    BY <1>3, <1>12, <2>3, <2>4 DEF ApprovedLeft
  <2>8. CASE status'[t] = status[t]
    <3>1. Phase(t)' = "discarded"
      BY <1>12, <2>1, <2>2, <2>4, <2>8 DEF Phase
    <3>2. [u \in Tools |-> Phase(u)]' =
            [u \in Tools |-> IF u \in {t} THEN "discarded" ELSE [v \in Tools |-> Phase(v)][u]]
      BY <2>5, <3>1
    <3>3. \A u \in {t} : [v \in Tools |-> Phase(v)][u] = "unknown"
      BY <1>4, <2>6
    <3>4. Loop!Lose({t})
      BY <1>3, <1>12, <3>2, <3>3 DEF Loop!Lose
    <3> QED BY <1>4, <2>7, <3>4 DEF Loop!LoopNext
  <2>9. CASE status'[t] = "quarantined"
    <3>1. Phase(t)' = "quarantined"
      BY <2>9 DEF Phase
    <3>2. Loop!Quarantine(t)
      BY <1>3, <1>4, <1>12, <2>5, <2>6, <3>1, OneMoves DEF Loop!Quarantine
    <3> QED BY <1>4, <2>7, <3>2 DEF Loop!LoopNext
  <2> QED BY <1>12, <2>8, <2>9
<1>13. CASE ApplyApprove
  <2>1. s = "approve" /\ current' = current
    BY <1>2, <1>13 DEF ApplyApprove, Apply
  <2>2. CASE status[t] # "quarantined"
    <3>1. UNCHANGED <<status, approvals>>
      BY <1>2, <1>13, <2>2 DEF ApplyApprove
    <3> QED BY <1>9, <1>11, <2>1, <3>1
  <2>3. CASE status[t] = "quarantined"
    <3>1. /\ status' = [status EXCEPT ![t] = "approved"]
          /\ approvals' = approvals \cup {t}
      BY <1>2, <1>13, <2>3 DEF ApplyApprove
    <3>2. Phase(t) = "quarantined" /\ Phase(t)' = "approved"
      BY <1>3, <1>4, <2>3, <3>1 DEF Phase
    <3>3. Loop!Accept(t)
      BY <1>3, <1>8, <2>1, <3>1, <3>2 DEF Loop!Accept
    <3>4. ApprovedLeft'
      BY <1>3, <1>4, <1>6, <1>7, <2>1, <3>1 DEF ApprovedLeft
    <3> QED BY <1>4, <3>3, <3>4 DEF Loop!LoopNext
  <2> QED BY <2>2, <2>3
<1>14. CASE ApplyRegister
  <2>1. s = "register" /\ UNCHANGED <<current, approvals>>
    BY <1>2, <1>14 DEF ApplyRegister, Apply
  <2>2. status[t] # "quarantined"
    BY <1>2, <2>1 DEF ItemOK
  <2>3. status' = [status EXCEPT ![t] = IF @ = "absent" THEN @ ELSE "registered"]
    BY <1>2, <1>14 DEF ApplyRegister
  <2>4. ApprovedLeft'
    BY <1>3, <1>4, <1>11, <2>1, <2>3
  <2>5. CASE status[t] = "approved"
    <3>1. Phase(t) = "approved" /\ Phase(t)' = "registered"
      BY <1>3, <1>4, <2>3, <2>5 DEF Phase
    <3>2. Loop!Register(t)
      BY <1>3, <1>8, <2>1, <2>3, <3>1 DEF Loop!Register
    <3> QED BY <1>4, <2>4, <3>2 DEF Loop!LoopNext
  <2>6. CASE status[t] # "approved"
    <3>1. status[t] \in {"absent", "registered"}
      BY <1>3, <1>4, <2>2, <2>6 DEF Statuses
    <3>2. status' = status
      BY <1>3, <1>4, <2>3, <3>1
    <3> QED BY <1>9, <2>1, <2>4, <3>2
  <2> QED BY <2>5, <2>6
<1>15. CASE ApplyLink
  <2>1. s = "link" /\ UNCHANGED <<status, approvals>>
    BY <1>2, <1>15 DEF ApplyLink, Apply
  <2>2. ApprovedLeft'
    BY <1>11, <2>1
  <2>3. CASE status[t] = "absent"
    BY <1>2, <1>9, <1>15, <2>1, <2>2, <2>3 DEF ApplyLink
  <2>4. CASE status[t] # "absent"
    <3>1. status[t] # "quarantined"
      BY <1>2, <2>1 DEF ItemOK
    <3>2. Phase(t) \in {"approved", "registered"}
      BY <1>3, <1>4, <2>4, <3>1 DEF Phase, Statuses
    <3>3. PICK n \in Names : n = made[t][1]
      BY <1>4 DEF IInv, TypeOK, Script
    <3>4. current' = [current EXCEPT ![n] = t]
      BY <1>2, <1>15, <2>4, <3>3 DEF ApplyLink
    <3>5. Loop!Publish(n, t)
      BY <1>3, <1>4, <1>10, <2>1, <3>2, <3>4 DEF Loop!Publish
    <3> QED BY <1>4, <2>2, <3>5 DEF Loop!LoopNext
  <2> QED BY <2>3, <2>4
<1>16. CASE ApplyReject
  <2>1. s = "reject" /\ UNCHANGED <<current, approvals>>
    BY <1>2, <1>16 DEF ApplyReject, Apply
  <2>2. status' = [status EXCEPT ![t] = IF @ = "quarantined" THEN "absent" ELSE @]
    BY <1>2, <1>16 DEF ApplyReject
  <2>3. ApprovedLeft'
    BY <1>3, <1>4, <1>11, <2>1, <2>2
  <2>4. CASE status[t] = "quarantined"
    <3>1. t \notin approvals
      BY <2>4 DEF ApprovedLeft
    <3>2. Phase(t) = "quarantined" /\ Phase(t)' = "discarded"
      BY <1>3, <1>4, <1>6, <1>7, <2>1, <2>2, <2>4, <3>1 DEF Phase
    <3>3. Loop!Discard(t)
      BY <1>3, <1>8, <2>1, <2>2, <3>2 DEF Loop!Discard
    <3> QED BY <1>4, <2>3, <3>3 DEF Loop!LoopNext
  <2>5. CASE status[t] # "quarantined"
    <3>1. status' = status
      BY <1>3, <1>4, <2>2, <2>5
    <3> QED BY <1>9, <2>1, <2>3, <3>1
  <2> QED BY <2>4, <2>5
<1>17. CASE ApplyCount
  <2>1. s = "count" /\ UNCHANGED <<status, current, approvals>>
    BY <1>2, <1>17 DEF ApplyCount, Apply
  <2> QED BY <1>9, <1>11, <2>1
<1>18. CASE ApplyUnlink
  <2>1. s = "unlink" /\ UNCHANGED <<status, approvals>> /\ t \in erased
    BY <1>2, <1>18 DEF ApplyUnlink, Apply, ItemOK
  <2>2. current' = [n \in Names |-> IF current[n] = t THEN NoTool ELSE current[n]]
    BY <1>2, <1>18 DEF ApplyUnlink
  <2>3. Loop!Withdraw(t)
    BY <1>3, <1>10, <2>1, <2>2 DEF Loop!Withdraw
  <2> QED BY <1>4, <1>11, <2>1, <2>3 DEF Loop!LoopNext
<1>19. CASE ApplyPurge
  <2>1. s = "purge" /\ UNCHANGED <<current, approvals>> /\ t \in erased
    BY <1>2, <1>19 DEF ApplyPurge, Apply, ItemOK
  <2>2. CASE (\E n \in Names : current[n] = t) \/ status[t] = "absent"
    <3>1. status' = status
      BY <1>2, <1>3, <1>4, <1>19, <2>2 DEF ApplyPurge
    <3> QED BY <1>9, <1>11, <2>1, <3>1
  <2>3. CASE ~(\E n \in Names : current[n] = t) /\ status[t] # "absent"
    <3>1. status' = [status EXCEPT ![t] = "absent"]
      BY <1>2, <1>19, <2>3 DEF ApplyPurge
    <3>2. ApprovedLeft'
      BY <1>3, <1>4, <1>11, <2>1, <3>1
    <3>3. Known(t)' /\ Phase(t) = status[t]
      BY <1>6, <1>7, <2>1, <2>3 DEF Phase
    <3>4. CASE status[t] = "quarantined"
      <4>1. t \notin approvals
        BY <3>4 DEF ApprovedLeft
      <4>2. Phase(t)' = "discarded"
        BY <1>3, <1>4, <2>1, <3>1, <3>3, <4>1 DEF Phase
      <4>3. Loop!Discard(t)
        BY <1>3, <1>8, <2>1, <3>1, <3>3, <3>4, <4>2 DEF Loop!Discard
      <4> QED BY <1>4, <3>2, <4>3 DEF Loop!LoopNext
    <3>5. CASE status[t] \in {"approved", "registered"}
      <4>1. t \in approvals
        BY <1>4, <3>5 DEF IInv, StatusOK
      <4>2. Phase(t)' = "retired"
        BY <1>3, <1>4, <2>1, <3>1, <3>3, <4>1 DEF Phase
      <4>3. Loop!Move(t, status[t], "retired")
        BY <1>3, <1>8, <2>1, <3>1, <3>3, <4>2
      <4>4. Loop!Retire(t)
        BY <2>1, <2>3, <3>5, <4>3 DEF Loop!Retire
      <4> QED BY <1>4, <3>2, <4>4 DEF Loop!LoopNext
    <3> QED BY <1>3, <1>4, <2>3, <3>4, <3>5 DEF Statuses
  <2> QED BY <2>2, <2>3
<1>20. CASE ApplyFails
  <2>1. UNCHANGED <<status, approvals, current>>
    BY <1>20 DEF ApplyFails
  <2> QED BY <1>9, <1>11, <1>12, <2>1
<1>21. CASE ApplyInsert
  <2>1. s = "insert" /\ UNCHANGED <<approvals, current>>
    BY <1>2, <1>21 DEF ApplyInsert, Apply
  <2>2. CASE NameTaken
    BY <1>12, <1>21, <2>1, <2>2 DEF ApplyInsert
  <2>3. CASE ~NameTaken
    <3>1. status' = [status EXCEPT ![t] = "quarantined"]
      BY <1>2, <1>21, <2>3 DEF ApplyInsert
    <3> QED BY <1>3, <1>12, <2>1, <3>1
  <2> QED BY <2>2, <2>3
<1> QED
  BY <1>13, <1>14, <1>15, <1>16, <1>17, <1>18, <1>19, <1>20, <1>21 DEF ApplyNext

(* A crash discards the tools that were being forged.                      *)
LEMMA CrashRefines ==
  ASSUME IInv, ApprovedLeft, Crash
  PROVE  [Loop!LoopNext]_(Loop!toolVars) /\ ApprovedLeft'
<1> DEFINE S == {t \in Tools : ~Known(t) /\ made[t] # NoTool}
<1>1. UNCHANGED <<made, status, current, approvals, ran, erased>>
  BY DEF Crash
<1>2. req \in [Clients -> Record] /\ \A c \in Clients : req'[c].pc # "wait"
  BY DEF Crash, Idle, IInv, TypeOK, Record, Answers
<1>3. \A t : Known(t)' <=> made[t] # NoTool
  BY <1>1, <1>2 DEF Known, At
<1>4. \A t : Known(t) => made[t] # NoTool
  BY DEF Known
<1>5. ASSUME NEW t \in S PROVE Phase(t) = "unknown" /\ Phase(t)' = "discarded"
  <2>1. status[t] = "absent" /\ t \notin approvals
    BY <1>5, UnknownAbsent DEF ApprovedLeft
  <2> QED BY <1>1, <1>3, <1>5, <2>1 DEF Phase
<1>6. ASSUME NEW t \in Tools \ S PROVE Phase(t)' = Phase(t)
  BY <1>1, <1>3, <1>4, <1>6, PhaseKept
<1>7. S \subseteq Tools
  OBVIOUS
<1> HIDE DEF S
<1>8. /\ [t \in Tools |-> Phase(t)]' =
           [t \in Tools |-> IF t \in S THEN "discarded" ELSE [u \in Tools |-> Phase(u)][t]]
      /\ \A t \in S : [u \in Tools |-> Phase(u)][t] = "unknown"
  BY <1>5, <1>6, <1>7
<1>9. Loop!Lose(S)
  BY <1>1, <1>8 DEF Loop!Lose
<1>10. ApprovedLeft'
  BY <1>1, <1>3, <1>4 DEF ApprovedLeft
<1> QED BY <1>7, <1>9, <1>10 DEF Loop!LoopNext

(* What the user is promised is kept, for any tools, requests and crashes. *)
THEOREM LifecycleKeepsPromise == Spec => HumanDecides
<1>1. Init => Loop!LoopInit /\ ApprovedLeft
  <2> SUFFICES ASSUME Init PROVE Loop!LoopInit /\ ApprovedLeft
    OBVIOUS
  <2>1. \A t \in Tools : Phase(t) = "unknown"
    BY DEF Init, Phase, Known
  <2> QED BY <2>1 DEF Init, Loop!LoopInit, ApprovedLeft
<1>2. IInv /\ ApprovedLeft /\ [Next]_vars => [Loop!LoopNext]_(Loop!toolVars) /\ ApprovedLeft'
  <2> SUFFICES ASSUME IInv, ApprovedLeft, [Next]_vars
               PROVE  [Loop!LoopNext]_(Loop!toolVars) /\ ApprovedLeft'
    OBVIOUS
  <2>1. ASSUME UNCHANGED approvals, \A t : Known(t)' <=> Known(t), ~ApplyNext
        PROVE  ApprovedLeft'
    <3>1. UNCHANGED status
      BY <2>1 DEF Next, vars, Crash, Arrive, Forge, Approve, Reject, Delete, Run, Advance,
         ReadBack, ReadRow, Copy, Link, ReadQuarantined, EraseRejected, ReadCurrent, Execute,
         ReadDeleted, EraseDeleted, Purge
    <3> QED BY <2>1, <3>1 DEF ApprovedLeft
  <2>2. CASE UNCHANGED vars
    <3>1. \A t : Known(t)' <=> Known(t)
      BY <2>2 DEF vars, Known, At
    <3>2. UNCHANGED Loop!toolVars /\ ApprovedLeft'
      BY <2>2, <3>1, Still DEF vars, ApprovedLeft
    <3> QED BY <3>2
  <2>3. CASE ApplyNext
    BY <2>3, ApplyRefines
  <2>4. CASE Crash
    BY <2>4, CrashRefines
  <2>5. CASE ~ApplyNext /\ \E c \in Clients : Arrive(c) \/ Advance(c)
    BY <2>1, <2>5, ArriveRefines, AdvanceRefines
  <2> QED BY <2>2, <2>3, <2>4, <2>5 DEF Next
<1> QED
  BY <1>1, <1>2, Inductive, PTL DEF Spec, HumanDecides, Loop!LoopSpec
=============================================================================
