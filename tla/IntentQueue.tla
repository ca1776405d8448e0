---------------------------- MODULE IntentQueue ----------------------------
(***************************************************************************)
(* The persistent queue of LLM intents, brain/queue.py, and the retry      *)
(* wrapper meant to fill it, brain/retry.py.                               *)
(*                                                                         *)
(* Intents are numbered in the order their INSERT runs; status[i] is the   *)
(* row's column.  created_at is the wall clock to the second, so rows may  *)
(* tie and a clock set back reorders them: a batch is any of the pending   *)
(* rows.  Within one it is handled by number; no property tells that       *)
(* order.  A write goes through DatabaseWriter.write: it takes effect and  *)
(* returns, or raises; a crash ends every coroutine and keeps the rows.    *)
(* Drains overlap: nothing marks an intent as taken.                       *)
(***************************************************************************)
EXTENDS Naturals, Sequences, FiniteSets, FiniteSetsExt

CONSTANTS
  Drainers,     \* coroutines that call drain()
  Callers,      \* coroutines that call retry_with_queue()
  Limit,        \* get_pending(limit=50) of drain
  MaxAttempts,  \* DEFAULT_MAX_RETRIES of constants.py
  MaxIntents,   \* bound: intents enqueued
  MaxFaults     \* bound: crashes, failed writes and cancelled drains

ASSUME QueueAssumption ==
  /\ IsFiniteSet(Drainers)
  /\ Limit \in Nat \ {0} /\ MaxAttempts \in Nat \ {0}
  /\ MaxIntents \in Nat /\ MaxFaults \in Nat

VARIABLES
  status,   \* status[i]: the column of intent i
  drain,    \* drain[d]: where the call is and what is left of its batch
  call,     \* call[c]: where the wrapped LLM call is and its attempts
  runs,     \* history: how often the processor was given intent i
  good,     \* history: intents some processor call succeeded on
  lost,     \* history: drains of intent i that ended without a mark
  faults

vars == <<status, drain, call, runs, good, lost, faults>>

Intents == DOMAIN status
Pending == {i \in Intents : status[i] = "pending"}

TypeOK ==
  /\ status \in Seq({"pending", "completed", "failed"}) /\ Len(status) <= MaxIntents
  /\ drain \in [Drainers -> [at : {"idle", "process", "complete", "fail"},
                             batch : SUBSET Intents]]
  /\ \A d \in Drainers : (drain[d].at # "idle") <=> (drain[d].batch # {})
  /\ call \in [Callers -> [at : {"new", "calling", "waiting",
                                "returned", "raised", "exhausted"},
                          attempts : 0..MaxAttempts]]
  /\ runs \in Seq(Nat) /\ lost \in Seq(Nat)
  /\ Len(runs) = Len(status) /\ Len(lost) = Len(status)
  /\ good \subseteq Intents
  /\ faults \in 0..MaxFaults

Idle == [at |-> "idle", batch |-> {}]

Init ==
  /\ status = <<>> /\ runs = <<>> /\ lost = <<>> /\ good = {}
  /\ drain = [d \in Drainers |-> Idle]
  /\ call = [c \in Callers |-> [at |-> "new", attempts |-> 0]]
  /\ faults = 0

-----------------------------------------------------------------------------
(* The table.                                                              *)

\* enqueue(): a new pending row.
Enqueue ==
  /\ Len(status) < MaxIntents
  /\ status' = Append(status, "pending")
  /\ runs' = Append(runs, 0) /\ lost' = Append(lost, 0)
  /\ UNCHANGED <<drain, call, good, faults>>

\* get_pending(): what it may return, Limit pending rows or all there are.
GetPending ==
  {rows \in SUBSET Pending :
     Cardinality(rows) <= Limit /\ (rows = Pending \/ Cardinality(rows) = Limit)}

-----------------------------------------------------------------------------
(* drain()                                                                 *)

\* The batch is read once.  The loop starts if it is not empty.
BeginDrain(d) ==
  /\ drain[d].at = "idle"
  /\ \E rows \in GetPending \ {{}} :
       drain' = [drain EXCEPT ![d] = [at |-> "process", batch |-> rows]]
  /\ UNCHANGED <<status, call, runs, good, lost, faults>>

Current(d) == Min(drain[d].batch)

\* Mutant: the loop goes on after the last intent.
AdvanceOnce(d) ==
  [at |-> "process", batch |-> drain[d].batch \ {Current(d)}]

\* The for loop goes on with the rest of the batch, or the call returns.
Advance(d) ==
  LET rest == drain[d].batch \ {Current(d)}
  IN  IF rest = {} THEN Idle ELSE [at |-> "process", batch |-> rest]

\* Mutant: a processor error falls through to mark_completed.
ProcessUnchecked(d) ==
  /\ drain[d].at = "process"
  /\ runs' = [runs EXCEPT ![Current(d)] = @ + 1]
  /\ drain' = [drain EXCEPT ![d].at = "complete"]
  /\ UNCHANGED <<status, call, good, lost, faults>>

\* The processor returns or raises; either way it was called.
Process(d) ==
  /\ drain[d].at = "process"
  /\ runs' = [runs EXCEPT ![Current(d)] = @ + 1]
  /\ \/ /\ good' = good \cup {Current(d)}
        /\ drain' = [drain EXCEPT ![d].at = "complete"]
     \/ /\ drain' = [drain EXCEPT ![d].at = "fail"]
        /\ UNCHANGED good
  /\ UNCHANGED <<status, call, lost, faults>>

\* The write of a mark raises.
Fault == faults < MaxFaults /\ faults' = faults + 1

\* Mutant: the intent that was just processed stays in the batch.
MarkCompletedAgain(d) ==
  /\ drain[d].at = "complete"
  /\ status' = [status EXCEPT ![Current(d)] = "completed"]
  /\ drain' = [drain EXCEPT ![d].at = "process"]
  /\ UNCHANGED <<call, runs, good, lost, faults>>

\* mark_completed(); when its write raises, the handler marks the intent failed.
MarkCompleted(d) ==
  /\ drain[d].at = "complete"
  /\ \/ /\ status' = [status EXCEPT ![Current(d)] = "completed"]
        /\ drain' = [drain EXCEPT ![d] = Advance(d)]
        /\ UNCHANGED faults
     \/ /\ Fault
        /\ drain' = [drain EXCEPT ![d].at = "fail"]
        /\ UNCHANGED status
  /\ UNCHANGED <<call, runs, good, lost>>

\* mark_failed(); when its write raises, so does drain().
MarkFailed(d) ==
  /\ drain[d].at = "fail"
  /\ \/ /\ status' = [status EXCEPT ![Current(d)] = "failed"]
        /\ drain' = [drain EXCEPT ![d] = Advance(d)]
        /\ UNCHANGED <<lost, faults>>
     \/ /\ Fault
        /\ lost' = [lost EXCEPT ![Current(d)] = @ + 1]
        /\ drain' = [drain EXCEPT ![d] = Idle]
        /\ UNCHANGED status
  /\ UNCHANGED <<call, runs, good>>

\* The task is cancelled at its await, which except Exception does not catch.
\* The UPDATE it waited for may run all the same.
CancelDrain(d) ==
  /\ drain[d].at # "idle"
  /\ Fault
  /\ drain' = [drain EXCEPT ![d] = Idle]
  /\ \/ /\ lost' = [lost EXCEPT ![Current(d)] = @ + 1]
        /\ UNCHANGED status
     \/ /\ drain[d].at = "complete"
        /\ status' = [status EXCEPT ![Current(d)] = "completed"]
        /\ UNCHANGED lost
     \/ /\ drain[d].at = "fail"
        /\ status' = [status EXCEPT ![Current(d)] = "failed"]
        /\ UNCHANGED lost
  /\ UNCHANGED <<call, runs, good>>

-----------------------------------------------------------------------------
(* retry_with_queue(): tenacity calls func up to MaxAttempts times.        *)

\* func returns, raises an error the policy does not retry, or one it does.
\* The last retryable error is raised as it is (reraise=True): no RetryError
\* reaches the except branch, and nothing is enqueued.
Attempt(c) ==
  /\ call[c].at \in {"new", "calling"}
  /\ \E outcome \in {"returned", "raised", "waiting"} :
       call' = [call EXCEPT ![c] =
                  [at |-> IF outcome = "waiting" /\ @.attempts + 1 = MaxAttempts
                            THEN "exhausted" ELSE outcome,
                   attempts |-> @.attempts + 1]]
  /\ UNCHANGED <<status, drain, runs, good, lost, faults>>

\* The exponential wait between two attempts is over.
RetryWaited(c) ==
  /\ call[c].at = "waiting"
  /\ call' = [call EXCEPT ![c].at = "calling"]
  /\ UNCHANGED <<status, drain, runs, good, lost, faults>>

-----------------------------------------------------------------------------

\* The daemon is killed: the coroutines are gone, the rows are not.
Crash ==
  /\ Fault
  /\ lost' = [i \in Intents |-> lost[i] + Cardinality({d \in Drainers :
                drain[d].at # "idle" /\ Current(d) = i})]
  /\ drain' = [d \in Drainers |-> Idle]
  /\ call' = [c \in Callers |-> [at |-> "new", attempts |-> 0]]
  /\ UNCHANGED <<status, runs, good>>

Step(d) == Process(d) \/ MarkCompleted(d) \/ MarkFailed(d)

Next ==
  \/ Enqueue \/ Crash
  \/ \E d \in Drainers : BeginDrain(d) \/ Step(d) \/ CancelDrain(d)
  \/ \E c \in Callers : Attempt(c) \/ RetryWaited(c)

Spec == Init /\ [][Next]_vars

-----------------------------------------------------------------------------
(* Properties                                                              *)

\* queue.py:94-97: an intent is completed only if a processor call for it
\* returned, however drains overlap, fail and restart.
CompletedWasProcessed ==
  \A i \in Intents : status[i] = "completed" => i \in good

\* queue.py:94-100: redelivery is bounded.  An intent is given to the
\* processor at most once by each drainer, and once more for every drain of
\* it that ended without leaving a mark.
RedeliveryBounded ==
  \A i \in Intents : runs[i] <= Cardinality(Drainers) + lost[i]

\* queue.py:93-104: an intent leaves a batch only when it is no longer
\* pending, unless the whole drain is given up.
BatchIsSettled ==
  [][ \A d \in Drainers : \A i \in drain[d].batch \ drain'[d].batch :
        status'[i] # "pending" \/ lost'[i] > lost[i] \/ faults' > faults ]_vars

\* retry.py:66 "If it fails after retries, queue the intent.": every call that
\* used up its attempts has left a row.
ExhaustedIsQueued ==
  Cardinality({c \in Callers : call[c].at = "exhausted"}) <= Len(status)
=============================================================================
