----------------------------- MODULE EventBus ------------------------------
(***************************************************************************)
(* The in-process bus, core/events.py, and its subscriber, the WebSocket   *)
(* stream of api/routes/events.py.                                         *)
(*                                                                         *)
(* publish() never suspends: it creates one task for each matching         *)
(* handler.  asyncio starts tasks in the order they were created, and a    *)
(* stream's handler, which puts the event in its own unbounded queue, ends *)
(* in the step it starts in.  So `ready` is a FIFO.  Events are numbered   *)
(* in publication order.                                                   *)
(***************************************************************************)
EXTENDS Naturals, Sequences, FiniteSets, SequencesExt

CONSTANTS
  Streams,     \* WebSocket connections
  Topics,      \* "forge.completed", ...
  Family,      \* Family[t]: the pattern "forge.*" of topic t
  All,         \* the pattern "*"
  Pattern,     \* Pattern[s]: what stream s subscribes to
  Keep,        \* maxlen of the history
  MaxEvents    \* bound: events published

Patterns == Topics \cup {Family[t] : t \in Topics} \cup {All}

ASSUME BusAssumption ==
  /\ All \notin Topics \cup {Family[t] : t \in Topics}
  /\ \A t \in Topics : Family[t] \notin Topics
  /\ Pattern \in [Streams -> Patterns]
  /\ Keep \in Nat \ {0} /\ MaxEvents \in Nat

VARIABLES
  handlers,   \* handlers[p]: _handlers, streams by pattern
  history,    \* _history
  ready,      \* tasks created and not started, as [to, event]
  stream,     \* stream[s]: the coroutine's place
  event_queue, \* event_queue[s]: event_queue of the coroutine
  wire,       \* wire[s]: events the client was sent
  gone,       \* clients that hung up
  drain,      \* drain(): its place, the tasks it still waits for and, as
              \* history, the last event published before it was called
  published,  \* history: number of events so far
  due         \* history: due[s]: events published while s was subscribed to them

busVars == <<handlers, history, ready, stream, event_queue, wire, gone, drain, published, due>>

Task == [to : Streams, event : 1..MaxEvents]

\* The elements of q that are in S, in their order.
Kept(q, S) ==
  LET kept[i \in 0..Len(q)] ==
        IF i = 0 THEN <<>>
        ELSE IF q[i] \in S THEN Append(kept[i - 1], q[i]) ELSE kept[i - 1]
  IN  kept[Len(q)]

BusTypeOK ==
  /\ handlers \in [Patterns -> Seq(Streams)]
  /\ \A p \in Patterns : IsInjective(handlers[p])
  /\ history \in Seq(1..published) /\ Len(history) <= Keep
  /\ ready \in Seq(Task) /\ IsInjective(ready)
  /\ stream \in [Streams -> {"off", "waiting", "sending", "closed"}]
  /\ \A p \in Patterns :
       ToSet(handlers[p]) = {s \in Streams : Pattern[s] = p /\ stream[s] \in {"waiting", "sending"}}
  /\ event_queue \in [Streams -> Seq(1..published)] /\ wire \in [Streams -> Seq(1..published)]
  /\ \A s \in Streams : stream[s] = "sending" => event_queue[s] # <<>>
  /\ gone \subseteq Streams
  /\ drain \in [at : {"no", "waiting", "done"}, tasks : SUBSET Task, upto : 0..published]
  /\ published \in 0..MaxEvents

BusInit ==
  /\ handlers = [p \in Patterns |-> <<>>]
  /\ history = <<>> /\ ready = <<>> /\ published = 0
  /\ stream = [s \in Streams |-> "off"]
  /\ event_queue = [s \in Streams |-> <<>>] /\ wire = event_queue /\ due = event_queue
  /\ gone = {}
  /\ drain = [at |-> "no", tasks |-> {}, upto |-> 0]

-----------------------------------------------------------------------------
(* EventBus                                                                *)

\* Mutant: the exact handlers only.
ExactHandlers(t) == handlers[t]

\* Exact topic, then "family.*", then "*".
MatchingHandlers(t) == handlers[t] \o handlers[Family[t]] \o handlers[All]

\* What a subscription to p promises.
Covers(p, t) == p \in {t, Family[t], All}

\* deque(maxlen=500).append
Record(e) ==
  LET h == Append(history, e)
  IN  IF Len(h) > Keep THEN Tail(h) ELSE h

Publish(t) ==
  /\ published < MaxEvents
  /\ published' = published + 1
  /\ history' = Record(published')
  /\ ready' = ready \o [i \in DOMAIN MatchingHandlers(t) |->
                          [to |-> MatchingHandlers(t)[i], event |-> published']]
  /\ due' = [s \in Streams |->
               IF Covers(Pattern[s], t) /\ stream[s] \in {"waiting", "sending"}
                 THEN Append(due[s], published') ELSE due[s]]
  /\ UNCHANGED <<handlers, stream, event_queue, wire, gone, drain>>

\* Mutant: the newest task starts first.
RunNewestTask ==
  /\ ready # <<>>
  /\ event_queue' = [event_queue EXCEPT ![Last(ready).to] = Append(@, Last(ready).event)]
  /\ drain' = [drain EXCEPT !.tasks = @ \ {Last(ready)}]
  /\ ready' = Front(ready)
  /\ UNCHANGED <<handlers, history, stream, wire, gone, published, due>>

\* The oldest task runs to its end: _safe_invoke(handler, event), then the
\* done callback and the gather() of a drain() see it finished.
RunTask ==
  /\ ready # <<>>
  /\ event_queue' = [event_queue EXCEPT ![Head(ready).to] = Append(@, Head(ready).event)]
  /\ drain' = [drain EXCEPT !.tasks = @ \ {Head(ready)}]
  /\ ready' = Tail(ready)
  /\ UNCHANGED <<handlers, history, stream, wire, gone, published, due>>

\* drain() of the shutdown: gather over the tasks active now.
Drain ==
  /\ drain.at = "no"
  /\ drain' = [at |-> "waiting", tasks |-> ToSet(ready), upto |-> published]
  /\ UNCHANGED <<handlers, history, ready, stream, event_queue, wire, gone, published, due>>

\* Mutant: gather() is not awaited.
DrainReturnsAtOnce ==
  /\ drain.at = "waiting"
  /\ drain' = [drain EXCEPT !.at = "done"]
  /\ UNCHANGED <<handlers, history, ready, stream, event_queue, wire, gone, published, due>>

DrainReturns ==
  /\ drain.at = "waiting" /\ drain.tasks = {}
  /\ drain' = [drain EXCEPT !.at = "done"]
  /\ UNCHANGED <<handlers, history, ready, stream, event_queue, wire, gone, published, due>>

-----------------------------------------------------------------------------
(* event_stream                                                            *)

\* accept() and subscribe().
Connect(s) ==
  /\ stream[s] = "off"
  /\ stream' = [stream EXCEPT ![s] = "waiting"]
  /\ handlers' = [handlers EXCEPT ![Pattern[s]] = Append(@, s)]
  /\ UNCHANGED <<history, ready, event_queue, wire, gone, drain, published, due>>

\* event_queue.get() returns; send_json() starts.  The event stays at the
\* head of queue[s] until it is sent.
Take(s) ==
  /\ stream[s] = "waiting" /\ event_queue[s] # <<>>
  /\ stream' = [stream EXCEPT ![s] = "sending"]
  /\ UNCHANGED <<handlers, history, ready, event_queue, wire, gone, drain, published, due>>

Send(s) ==
  /\ stream[s] = "sending" /\ s \notin gone
  /\ wire' = [wire EXCEPT ![s] = Append(@, Head(event_queue[s]))]
  /\ event_queue' = [event_queue EXCEPT ![s] = Tail(@)]
  /\ stream' = [stream EXCEPT ![s] = "waiting"]
  /\ UNCHANGED <<handlers, history, ready, gone, drain, published, due>>

\* Mutant: the handler stays subscribed.
SendFailsSubscribed(s) ==
  /\ stream[s] = "sending" /\ s \in gone
  /\ stream' = [stream EXCEPT ![s] = "closed"]
  /\ UNCHANGED <<handlers, history, ready, event_queue, wire, gone, drain, published, due>>

\* send_json() raises: unsubscribe, and the coroutine ends.
SendFails(s) ==
  /\ stream[s] = "sending" /\ s \in gone
  /\ stream' = [stream EXCEPT ![s] = "closed"]
  /\ handlers' = [handlers EXCEPT ![Pattern[s]] = Kept(@, Streams \ {s})]
  /\ UNCHANGED <<history, ready, event_queue, wire, gone, drain, published, due>>

\* The client hangs up.  Nobody reads from the socket: only a send notices.
HangUp(s) ==
  /\ stream[s] \in {"waiting", "sending"} /\ s \notin gone
  /\ gone' = gone \cup {s}
  /\ UNCHANGED <<handlers, history, ready, stream, event_queue, wire, drain, published, due>>

\* A step of the bus, of drain() or of a stream.
BusStep ==
  \/ RunTask \/ Drain \/ DrainReturns
  \/ \E s \in Streams : Connect(s) \/ Take(s) \/ Send(s) \/ SendFails(s) \/ HangUp(s)

BusNext == BusStep \/ \E t \in Topics : Publish(t)

\* The event loop runs what is ready, and send_json() returns or raises.
BusFairness ==
  /\ WF_busVars(RunTask) /\ WF_busVars(DrainReturns)
  /\ \A s \in Streams : WF_busVars(Take(s)) /\ WF_busVars(Send(s) \/ SendFails(s))

BusSpec == BusInit /\ [][BusNext]_busVars /\ BusFairness

-----------------------------------------------------------------------------
(* Properties                                                              *)

\* The numbers of the events of a sequence of tasks.
EventsOf(q) == [i \in DOMAIN q |-> q[i].event]

Awaiting(s) == EventsOf(Kept(ready, [to : {s}, event : 1..MaxEvents]))

\* events.py:81-102, routes/events.py:19-35: what a client got, what its queue
\* holds and what is on its way are, in this order, exactly the events its
\* subscription covers since it was made: none lost, doubled or overtaken.
StreamedInOrder ==
  \A s \in Streams : due[s] = wire[s] \o event_queue[s] \o Awaiting(s)

\* events.py:113-116, app.py:168-169: when drain() returns, every event
\* published before it was called has reached the queues of its streams.
DrainWaits ==
  drain.at = "done" => \A task \in ToSet(ready) : task.event > drain.upto

\* routes/events.py:32-35: a client that stays gets every event.
EveryEventStreamed ==
  \A s \in Streams, n \in 1..MaxEvents :
    (Len(due[s]) >= n) ~> (Len(wire[s]) >= n \/ s \in gone)
=============================================================================
