------------------------------- MODULE Forge -------------------------------
(***************************************************************************)
(* POST /api/forge: synthesis/forge.py, with the LLM slots of              *)
(* core/tasks.py, the structured completion of brain/providers/openai.py,  *)
(* the cost rows of brain/cost.py, the quarantine's add() and the audit    *)
(* log.  Requests are coroutines of one event loop: an action is what runs *)
(* between two awaits.                                                     *)
(*                                                                         *)
(* The database is the FIFO of DatabaseWriter (see WriteLog): an operation *)
(* takes effect or fails, in the order it was put.  A crash empties the    *)
(* FIFO and ends every request; rows and files stay.                       *)
(***************************************************************************)
EXTENDS Naturals, Sequences, FiniteSets, SequencesExt

CONSTANTS
  Requests,   \* calls of ToolForge.forge
  Names,      \* names a tool's row may get
  NoName,     \* no row
  Slots,      \* MAX_CONCURRENT_LLM_CALLS
  MaxFaults   \* bound: failed writes, failed file writes and crashes

ASSUME ForgeAssumption ==
  /\ IsFiniteSet(Requests) /\ NoName \notin Names
  /\ Slots \in Nat \ {0} /\ MaxFaults \in Nat

VARIABLES
  pc,        \* where each request is
  permits,   \* Semaphore._value
  waiters,   \* Semaphore._waiters
  queue,     \* operations put to the writer, as [kind, by, name]
  tools,     \* tools[r]: the name in the row request r inserted
  files,     \* requests whose script is on disk
  audits,    \* audits[r]: topics in audit_log, in order
  costs,     \* costs[r]: rows in cost_records
  billed,    \* history: API calls answered for r
  events,    \* history: topics published for r, in order
  faults

vars == <<pc, permits, waiters, queue, tools, files, audits, costs,
          billed, events, faults>>
db == <<tools, audits, costs>>

Steps == {"new", "context", "slot", "call", "again", "insert", "inserted",
          "unsaved", "done", "failed", "dead"}
InCall(r) == pc[r] \in {"call", "again"}
ForgeTopics == {"requested", "completed", "failed"}

Operation == [kind : {"tool", "cost"} \cup ForgeTopics, by : Requests, name : Names \cup {NoName}]

TypeOK ==
  /\ pc \in [Requests -> Steps]
  /\ permits \in 0..Slots
  /\ waiters \in Seq(Requests) /\ IsInjective(waiters)
  /\ ToSet(waiters) = {r \in Requests : pc[r] = "slot"}
  /\ tools \in [Requests -> Names \cup {NoName}]
  /\ files \subseteq Requests
  /\ audits \in [Requests -> Seq(ForgeTopics)] /\ events \in [Requests -> Seq(ForgeTopics)]
  /\ costs \in [Requests -> Nat] /\ billed \in [Requests -> 0..2]
  /\ queue \in Seq(Operation)
  /\ faults \in 0..MaxFaults

Init ==
  /\ pc = [r \in Requests |-> "new"]
  /\ permits = Slots /\ waiters = <<>>
  /\ queue = <<>>
  /\ tools = [r \in Requests |-> NoName] /\ files = {}
  /\ audits = [r \in Requests |-> <<>>] /\ costs = [r \in Requests |-> 0]
  /\ billed = [r \in Requests |-> 0] /\ events = [r \in Requests |-> <<>>]
  /\ faults = 0

Fault == faults < MaxFaults /\ faults' = faults + 1

Op(kind, r, name) == [kind |-> kind, by |-> r, name |-> name]

\* CostMeter.record and AuditLog.log: enqueued, nobody awaits them.
CostRow(r) == Op("cost", r, NoName)
AuditRow(topic, r) == Op(topic, r, NoName)

Published(r, topic) == [events EXCEPT ![r] = Append(@, topic)]

-----------------------------------------------------------------------------
(* The semaphore of submit_llm_task.                                       *)

\* Mutant: acquire() never waits.
AcquireAlways(r) ==
  /\ permits' = permits - 1
  /\ pc' = [pc EXCEPT ![r] = "call"]
  /\ UNCHANGED waiters

\* async with: a free permit is taken unless others wait for one.
Acquire(r) ==
  IF permits > 0 /\ waiters = <<>>
    THEN /\ permits' = permits - 1
         /\ pc' = [pc EXCEPT ![r] = "call"]
         /\ UNCHANGED waiters
    ELSE /\ waiters' = Append(waiters, r)
         /\ pc' = [pc EXCEPT ![r] = "slot"]
         /\ UNCHANGED permits

\* Mutant: the permit comes back and nobody is woken.
ReleaseQuietly(r, next) ==
  /\ permits' = permits + 1
  /\ pc' = [pc EXCEPT ![r] = next]
  /\ UNCHANGED waiters

\* Mutant: an exit by exception keeps the permit.
ReleaseUnlessFailed(r, next) ==
  IF next = "failed"
    THEN pc' = [pc EXCEPT ![r] = next] /\ UNCHANGED <<permits, waiters>>
    ELSE IF waiters = <<>>
      THEN /\ permits' = permits + 1
           /\ pc' = [pc EXCEPT ![r] = next]
           /\ UNCHANGED waiters
      ELSE /\ waiters' = Tail(waiters)
           /\ pc' = [pc EXCEPT ![r] = next, ![Head(waiters)] = "call"]
           /\ UNCHANGED permits

\* Leaving the block hands the permit to the first waiter, if there is one.
Release(r, next) ==
  IF waiters = <<>>
    THEN /\ permits' = permits + 1
         /\ pc' = [pc EXCEPT ![r] = next]
         /\ UNCHANGED waiters
    ELSE /\ waiters' = Tail(waiters)
         /\ pc' = [pc EXCEPT ![r] = next, ![Head(waiters)] = "call"]
         /\ UNCHANGED permits

-----------------------------------------------------------------------------
(* ToolForge.forge                                                         *)

\* forge.requested is published; then the context is assembled.
Request(r) ==
  /\ pc[r] = "new"
  /\ pc' = [pc EXCEPT ![r] = "context"]
  /\ events' = Published(r, "requested")
  /\ UNCHANGED <<permits, waiters, queue, db, files, billed, faults>>

\* The except branch: event, then audit row, then raise.
ReportFailure(r) ==
  /\ events' = Published(r, "failed")
  /\ queue' = Append(queue, AuditRow("failed", r))

\* The search or the prompt raises, or no provider is configured.
PrepareFails(r) ==
  /\ pc[r] = "context"
  /\ ReportFailure(r)
  /\ pc' = [pc EXCEPT ![r] = "failed"]
  /\ UNCHANGED <<permits, waiters, db, files, billed, faults>>

SubmitCall(r) ==
  /\ pc[r] = "context"
  /\ Acquire(r)
  /\ UNCHANGED <<queue, db, files, billed, events, faults>>

\* The API answers with a response that does not validate: structured_complete
\* asks once more, within the same slot.
AnswerInvalid(r) ==
  /\ pc[r] = "call"
  /\ billed' = [billed EXCEPT ![r] = @ + 1]
  /\ pc' = [pc EXCEPT ![r] = "again"]
  /\ UNCHANGED <<permits, waiters, queue, db, files, events, faults>>

\* Mutant: the cost is recorded whether the call succeeded or not.
CallFailsCharged(r) ==
  /\ InCall(r)
  /\ Release(r, "failed")
  /\ events' = Published(r, "failed")
  /\ queue' = queue \o <<CostRow(r), AuditRow("failed", r)>>
  /\ UNCHANGED <<db, files, billed, faults>>

\* An HTTP error or a timeout; or the API answers, with no choice in it or,
\* the second time, with another invalid response.
CallFails(r) ==
  /\ InCall(r)
  /\ billed' \in {billed, [billed EXCEPT ![r] = @ + 1]}
  /\ Release(r, "failed")
  /\ ReportFailure(r)
  /\ UNCHANGED <<db, files, faults>>

\* The response is valid: the permit is released, the cost row enqueued and
\* the script written without another await.  The row's name is the one in the
\* response or, because the loop over the dependencies binds the variable
\* anew, that of the last package.
CallAnswers(r) ==
  /\ InCall(r)
  /\ billed' = [billed EXCEPT ![r] = @ + 1]
  /\ \E name \in Names : queue' = queue \o <<CostRow(r), Op("tool", r, name)>>
  /\ files' = files \cup {r}
  /\ Release(r, "insert")
  /\ UNCHANGED <<db, events, faults>>

\* The same, and writing the script raises.
CallAnswersUnsaved(r) ==
  /\ InCall(r)
  /\ Fault
  /\ billed' = [billed EXCEPT ![r] = @ + 1]
  /\ queue' = queue \o <<CostRow(r), AuditRow("failed", r)>>
  /\ events' = Published(r, "failed")
  /\ Release(r, "failed")
  /\ UNCHANGED <<db, files>>

\* The row is there: audit, event, answer.
Complete(r) ==
  /\ pc[r] = "inserted"
  /\ queue' = Append(queue, AuditRow("completed", r))
  /\ events' = Published(r, "completed")
  /\ pc' = [pc EXCEPT ![r] = "done"]
  /\ UNCHANGED <<permits, waiters, db, files, billed, faults>>

\* quarantine.add() raised.
InsertFailed(r) ==
  /\ pc[r] = "unsaved"
  /\ ReportFailure(r)
  /\ pc' = [pc EXCEPT ![r] = "failed"]
  /\ UNCHANGED <<permits, waiters, db, files, billed, faults>>

-----------------------------------------------------------------------------
(* The writer.                                                             *)

\* UNIQUE(name, version): every tool is inserted as version 1 of its name.
Clash == Head(queue).kind = "tool" /\ \E r \in Requests : tools[r] = Head(queue).name

\* A request that awaits the head of the queue goes on.
Resume(next) ==
  pc' = IF Head(queue).kind = "tool" THEN [pc EXCEPT ![Head(queue).by] = next] ELSE pc

\* The oldest operation takes effect.
Apply ==
  /\ queue # <<>> /\ ~Clash
  /\ LET op == Head(queue)
     IN  /\ tools' = IF op.kind = "tool" THEN [tools EXCEPT ![op.by] = op.name] ELSE tools
         /\ costs' = IF op.kind = "cost" THEN [costs EXCEPT ![op.by] = @ + 1] ELSE costs
         /\ audits' = IF op.kind \in ForgeTopics
                        THEN [audits EXCEPT ![op.by] = Append(@, op.kind)] ELSE audits
  /\ Resume("inserted")
  /\ queue' = Tail(queue)
  /\ UNCHANGED <<permits, waiters, files, billed, events, faults>>

\* Mutant: the awaited future is resolved whatever execute() did.
ApplyFailsSilently ==
  /\ queue # <<>>
  /\ (Clash /\ UNCHANGED faults) \/ Fault
  /\ Resume("inserted")
  /\ queue' = Tail(queue)
  /\ UNCHANGED <<permits, waiters, db, files, billed, events>>

\* It fails: the request that awaits it gets the error, an enqueued one is
\* dropped with a log line.
ApplyFails ==
  /\ queue # <<>>
  /\ (Clash /\ UNCHANGED faults) \/ Fault
  /\ Resume("unsaved")
  /\ queue' = Tail(queue)
  /\ UNCHANGED <<permits, waiters, db, files, billed, events>>

Crash ==
  /\ Fault
  /\ pc' = [r \in Requests |->
              IF pc[r] \in {"new", "done", "failed"} THEN pc[r] ELSE "dead"]
  /\ permits' = Slots /\ waiters' = <<>> /\ queue' = <<>>
  /\ UNCHANGED <<db, files, billed, events>>

Advance(r) ==
  \/ PrepareFails(r) \/ SubmitCall(r)
  \/ AnswerInvalid(r) \/ CallFails(r) \/ CallAnswers(r) \/ CallAnswersUnsaved(r)
  \/ Complete(r) \/ InsertFailed(r)

\* A step of a request or of the writer, in one life of the daemon.
ForgeStep ==
  \/ \E r \in Requests : Request(r) \/ Advance(r)
  \/ Apply \/ ApplyFails

Next == ForgeStep \/ Crash

\* A request that can run does, the API answers or times out
\* (llm.request_timeout), and the writer's loop runs.
Fairness == (\A r \in Requests : WF_vars(Advance(r))) /\ WF_vars(Apply \/ ApplyFails)

Spec == Init /\ [][Next]_vars /\ Fairness

-----------------------------------------------------------------------------
(* Properties                                                              *)

\* tasks.py:37-39: no permit is lost or made up on any way out of the block,
\* and nobody waits while one is free.
SlotsConserved ==
  /\ permits + Cardinality({r \in Requests : InCall(r)}) = Slots
  /\ waiters # <<>> => permits = 0

\* forge.py:79-153: what is reported as forged, by event, audit row or answer,
\* has its row and its script, also after a crash; a request is reported at
\* most once, and the audit log never says anything else than the events did.
ReportedIsQuarantined ==
  \A r \in Requests :
    /\ pc[r] = "done" \/ Contains(events[r], "completed") \/ Contains(audits[r], "completed")
         => tools[r] # NoName /\ r \in files
    /\ events[r] \in {<<>>, <<"requested">>,
                      <<"requested", "completed">>, <<"requested", "failed">>}
    /\ audits[r] \in {<<>>} \cup {<<t>> : t \in ToSet(events[r]) \ {"requested"}}
    /\ pc[r] = "failed" => Contains(events[r], "failed")

\* forge.py:110-122: however a call ends, no more is recorded for a forge than
\* the API answered for it, and a quarantined tool has been charged unless that
\* write failed.  More than that the code does not do: an answer that fails, and
\* a first one that is asked for again, leave no row (EveryCallRecorded).
ChargedForAnswers ==
  \A r \in Requests :
    /\ costs[r] <= billed[r]
    /\ tools[r] # NoName /\ faults = 0 => costs[r] >= 1

\* README.md:237 "`CostMeter` records every API call's USD cost to the database".
\* Of a forge that is over, and whose writes all succeeded, it does not.
EveryCallRecorded ==
  \A r \in Requests :
    pc[r] \in {"done", "failed"} /\ queue = <<>> /\ faults = 0 => costs[r] = billed[r]

\* forge.py:66-153, tasks.py:37-39: every request is answered unless the
\* daemon is killed under it.
ForgeAnswered ==
  \A r \in Requests : (pc[r] = "context") ~> (pc[r] \in {"done", "failed", "dead"})
=============================================================================
