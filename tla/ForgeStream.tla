---------------------------- MODULE ForgeStream -----------------------------
(***************************************************************************)
(* Forge with EventBus: what a client of the event stream is told about    *)
(* the forges, in one life of the daemon.                                  *)
(*                                                                         *)
(* ToolForge.forge awaits publish(), which never suspends: the event is on *)
(* its way in the very step in which Forge counts it in `events`.          *)
(***************************************************************************)
EXTENDS Forge, EventBus

CONSTANT TopicOf   \* TopicOf[k]: the FORGE_ topic of constants.py

ASSUME TopicAssumption == TopicOf \in [ForgeTopics -> Topics]

VARIABLE about     \* history: about[n]: the request event n is about, and what it says

streamVars == <<vars, busVars, about>>

Subject == [by : SUBSET Requests, says : ForgeTopics \cup {"other"}]

StreamInit == Init /\ BusInit /\ about = <<>>

\* await self.events.publish(Topics.FORGE_..., ...)
Tell(r, k) ==
  /\ events' = Published(r, k)
  /\ Publish(TopicOf[k])
  /\ about' = Append(about, [by |-> {r}, says |-> k])

\* A step of the forge, and the event it publishes, if any.
ForgeTells ==
  /\ ForgeStep
  /\ \/ events' = events /\ UNCHANGED <<busVars, about>>
     \/ \E r \in Requests, k \in ForgeTopics : Tell(r, k)

\* Another part of the daemon publishes: system.started, say.
OtherEvent(t) ==
  /\ \A k \in ForgeTopics : TopicOf[k] # t
  /\ Publish(t)
  /\ about' = Append(about, [by |-> {}, says |-> "other"])
  /\ UNCHANGED vars

StreamNext ==
  \/ ForgeTells
  \/ \E t \in Topics : OtherEvent(t)
  \/ BusStep /\ UNCHANGED <<vars, about>>

StreamSpec == StreamInit /\ [][StreamNext]_streamVars /\ BusFairness

-----------------------------------------------------------------------------
(* Properties                                                              *)

IsAbout(n, r) == r \in about[n].by

\* forge.py:80-151, events.py:64-102, routes/events.py:33: a client that is
\* told of a new tool finds its row and its script; and of each forge it is
\* told the request before the outcome, and one outcome at most, whatever
\* else is published and whenever the tasks run.  No tool is rejected or
\* deleted here: a client that looks after that finds nothing.
ClientsToldTruly ==
  \A s \in Streams, r \in Requests : \A j \in DOMAIN wire[s] :
    IsAbout(wire[s][j], r) =>
      /\ about[wire[s][j]].says = "completed" => tools[r] # NoName /\ r \in files
      /\ \A i \in 1..(j - 1) : IsAbout(wire[s][i], r) =>
           about[wire[s][i]].says = "requested" /\ about[wire[s][j]].says # "requested"
=============================================================================
