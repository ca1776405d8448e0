--------------------------- MODULE HumanInTheLoop ---------------------------
(***************************************************************************)
(* What a user may rely on about tools (README.md:46-47, 468), without the *)
(* requests, the scripts and the writer that implement it.  A tool enters  *)
(* the quarantine once.  It leaves it approved or discarded and never      *)
(* comes back; only an approved one becomes the tool a name calls, is      *)
(* registered or runs, and only its deletion ends it.                      *)
(***************************************************************************)
CONSTANTS Tools, Names, NoTool

VARIABLES
  phase,      \* how far each tool has come
  callable,   \* the tool that a run of this name executes
  executed,   \* tools that were executed
  erased      \* tools whose deletion has begun

toolVars == <<phase, callable, executed, erased>>

LoopInit ==
  /\ phase = [t \in Tools |-> "unknown"]
  /\ callable = [n \in Names |-> NoTool]
  /\ executed = {} /\ erased = {}

Move(t, from, to) ==
  /\ phase[t] = from
  /\ phase' = [phase EXCEPT ![t] = to]
  /\ UNCHANGED <<callable, executed, erased>>

Quarantine(t) == Move(t, "unknown", "quarantined")
Accept(t) == Move(t, "quarantined", "approved")
Register(t) == Move(t, "approved", "registered")
Discard(t) == Move(t, "quarantined", "discarded")

\* Tools that never reached the database: their INSERT failed or was lost.
Lose(S) ==
  /\ \A t \in S : phase[t] = "unknown"
  /\ phase' = [t \in Tools |-> IF t \in S THEN "discarded" ELSE phase[t]]
  /\ UNCHANGED <<callable, executed, erased>>

\* A name calls an approved tool until that tool is being deleted.
Publish(n, t) ==
  /\ phase[t] \in {"approved", "registered"}
  /\ callable' = [callable EXCEPT ![n] = t]
  /\ UNCHANGED <<phase, executed, erased>>

Erase(t) ==
  /\ phase[t] # "unknown"
  /\ erased' = erased \cup {t}
  /\ UNCHANGED <<phase, callable, executed>>

Withdraw(t) ==
  /\ t \in erased
  /\ callable' = [n \in Names |-> IF callable[n] = t THEN NoTool ELSE callable[n]]
  /\ UNCHANGED <<phase, executed, erased>>

\* The end of a deletion; no name may be left that calls the tool.
Retire(t) ==
  /\ t \in erased /\ \A n \in Names : callable[n] # t
  /\ Move(t, "approved", "retired") \/ Move(t, "registered", "retired")

\* A run that began before the deletion may end after it.
Execute(t) ==
  /\ phase[t] \in {"approved", "registered", "retired"}
  /\ executed' = executed \cup {t}
  /\ UNCHANGED <<phase, callable, erased>>

LoopNext ==
  \/ \E t \in Tools :
       \/ Quarantine(t) \/ Accept(t) \/ Register(t) \/ Discard(t)
       \/ Erase(t) \/ Withdraw(t) \/ Retire(t) \/ Execute(t)
       \/ \E n \in Names : Publish(n, t)
  \/ \E S \in SUBSET Tools : Lose(S)

LoopSpec == LoopInit /\ [][LoopNext]_toolVars
=============================================================================
