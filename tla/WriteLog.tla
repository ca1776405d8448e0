------------------------------ MODULE WriteLog ------------------------------
(***************************************************************************)
(* What the single database writer promises its callers, without the       *)
(* queue, the consumer coroutine and the transaction that implement it.    *)
(* Operations are numbered in the order they are submitted.  Each is       *)
(* decided at most once and strictly in that order: it becomes durable as  *)
(* a whole ("committed") or it is reported as "failed".  Only the death of *)
(* the process may lose one that was accepted.                             *)
(***************************************************************************)
EXTENDS Naturals

CONSTANTS
  MaxOps,      \* bound on the operations ever submitted, a natural number
  MaxCrashes   \* bound on the deaths of the process, a natural number

VARIABLES
  status,      \* what has become of each operation
  deaths       \* how often the process died

Ops == 1..MaxOps
Statuses == {"absent", "accepted", "committed", "failed", "lost"}

LogInit == status = [i \in Ops |-> "absent"] /\ deaths = 0

\* The next operation is submitted.
Accept(i) ==
  /\ status[i] = "absent"
  /\ \A j \in 1..(i - 1) : status[j] # "absent"
  /\ status' = [status EXCEPT ![i] = "accepted"]
  /\ UNCHANGED deaths

\* The oldest undecided operation is decided.
Decide(i, verdict) ==
  /\ status[i] = "accepted"
  /\ \A j \in 1..(i - 1) : status[j] # "accepted"
  /\ status' = [status EXCEPT ![i] = verdict]
  /\ UNCHANGED deaths

\* The process dies, and whatever was undecided is lost with its memory;
\* nothing else loses an operation.
Lose ==
  /\ deaths < MaxCrashes /\ deaths' = deaths + 1
  /\ status' = [i \in Ops |-> IF status[i] = "accepted" THEN "lost" ELSE status[i]]

LogNext ==
  \/ \E i \in Ops : Accept(i)
  \/ \E i \in Ops, verdict \in {"committed", "failed"} : Decide(i, verdict)
  \/ Lose

LogSpec == LogInit /\ [][LogNext]_<<status, deaths>>
=============================================================================
