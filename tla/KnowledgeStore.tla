--------------------------- MODULE KnowledgeStore ---------------------------
(***************************************************************************)
(* The knowledge database: the routes of api/routes/watch.py over projects *)
(* and watched_dirs, and memory/entities.py and memory/graph.py over       *)
(* entities and edges.  A call is a coroutine; reads and writes are        *)
(* separate awaits, and a write is one statement of the single writer,     *)
(* whole and durable when it answers.                                      *)
(*                                                                         *)
(* Every call draws a fresh uuid4, so the id of a project or entity row is *)
(* the call that inserted it.  An entity belongs to the project of a path; *)
(* its content is what its content_hash tells apart.                       *)
(*                                                                         *)
(* The search for neighbours reads the two directions of each entity in a  *)
(* query of its own, so edges and entities change under it.  `stood` and   *)
(* `met` remember what it could rely on and what it could run into.        *)
(***************************************************************************)
EXTENDS Naturals, Sequences, FiniteSets, SequencesExt, FiniteSetsExt

CONSTANTS
  Calls,     \* calls in flight or done, and the ids they draw
  Old,       \* ids drawn before the daemon started
  Databases, \* what it may find on disk
  Paths,     \* directories
  Keys,      \* kind and name of an entity
  Contents,  \* contents with different hashes
  NoRow,     \* no row
  Depth,     \* get_neighbors(depth=...)
  Limit      \* get_neighbors(limit=...)

Ids == Calls \cup Old
Entity == [project : Ids, key : Keys, content : Contents, live : BOOLEAN]

\* The constraints of the tables, and one live entity of each name.
Stored(db) ==
  LET rows == {i \in Old : db.entities[i] # NoRow}
  IN  /\ db.projects \in [Ids -> Paths \cup {NoRow}]
      /\ db.watched \in [Paths -> Old \cup {NoRow}]
      /\ \A p \in Paths : db.watched[p] # NoRow => db.projects[db.watched[p]] = p
      /\ db.entities \in [Ids -> Entity \cup {NoRow}]
      /\ \A q \in Calls : db.projects[q] = NoRow /\ db.entities[q] = NoRow
      /\ \A i, j \in rows :
           /\ db.entities[i].live /\ db.entities[j].live
           /\ db.entities[i].project = db.entities[j].project
           /\ db.entities[i].key = db.entities[j].key
           => i = j
      /\ db.edges \subseteq Old \X rows \X rows

ASSUME StoreAssumption ==
  /\ IsFiniteSet(Ids) /\ Calls \cap Old = {}
  /\ NoRow \notin Ids \cup Paths \cup Entity
  /\ Depth \in Nat \ {0} /\ Limit \in Nat \ {0}
  /\ \A db \in Databases : Stored(db)

VARIABLES
  projects,   \* projects[q]: root_path of the row with id q, or NoRow
  watched,    \* watched[p]: project_id of the row of p, or NoRow
  entities,   \* entities[q]: the row with id q, or NoRow
  edges,      \* <<id, source_id, target_id>>
  call,       \* call[q]: what was asked and how far it is
  found,      \* found[q]: <<id, distance>> in the order they were found by the
              \* search q: the first entity (0 hops away), then `results`
  next,       \* next[q]: the place in found[q] of the entity being expanded
  stood,      \* history; stood[q]: edges that were there all through search q,
              \* both ends alive
  met,        \* history; met[q]: <<r, s>> where s was a live neighbour of r at
              \* some time of search q
  watching,   \* history: paths a watch() answered for and nobody unwatched since
  raced       \* history: two upserts of one key were in flight together

search == <<found, next, stood, met>>
vars == <<projects, watched, entities, edges, call, search, watching, raced>>

Rows == {i \in Ids : entities[i] # NoRow}
Live == {i \in Rows : entities[i].live}
Projects == {i \in Ids : projects[i] # NoRow}

Points == {"new", "read", "link", "insert", "update", "outgoing", "incoming",
           "found", "ok", "error"}
NoCall == [at |-> "new", path |-> NoRow, project |-> NoRow, key |-> NoRow,
           content |-> NoRow, row |-> NoRow]

StoreTyped ==
  /\ projects \in [Ids -> Paths \cup {NoRow}]
  /\ watched \in [Paths -> Ids \cup {NoRow}]
  /\ entities \in [Ids -> Entity \cup {NoRow}]
  /\ edges \subseteq Ids \X Rows \X Rows
  /\ call \in [Calls -> [at : Points, path : Paths \cup {NoRow},
                         project : Ids \cup {NoRow}, key : Keys \cup {NoRow},
                         content : Contents \cup {NoRow}, row : Ids \cup {NoRow}]]
  /\ \A q \in Calls :
       /\ call[q].at = "link" => call[q].path \in Paths
       /\ call[q].at \in {"read", "insert", "update"} =>
            call[q].project \in Ids /\ call[q].key \in Keys /\ call[q].content \in Contents
       /\ call[q].at = "update" => call[q].row \in Rows
  /\ watching \subseteq Paths /\ raced \in BOOLEAN

SearchTyped ==
  /\ found \in [Calls -> Seq(Ids \X (0..Depth))]
  /\ next \in [Calls -> Nat]
  /\ stood \in [Calls -> SUBSET (Ids \X Ids \X Ids)]
  /\ met \in [Calls -> SUBSET (Ids \X Ids)]

TypeOK == StoreTyped /\ SearchTyped

Init ==
  /\ \E db \in Databases :
       /\ projects = db.projects /\ watched = db.watched
       /\ entities = db.entities /\ edges = db.edges
  /\ call = [q \in Calls |-> NoCall]
  /\ found = [q \in Calls |-> <<>>] /\ next = [q \in Calls |-> 1]
  /\ stood = [q \in Calls |-> {}] /\ met = [q \in Calls |-> {}]
  /\ watching = {p \in Paths : watched[p] # NoRow} /\ raced = FALSE

At(q, point) == call[q].at = point
Goto(q, point) == call' = [call EXCEPT ![q].at = point]

-----------------------------------------------------------------------------
(* POST and DELETE /api/watch                                              *)

\* INSERT OR IGNORE INTO projects: root_path is UNIQUE.
Watch(q, p) ==
  /\ At(q, "new")
  /\ call' = [call EXCEPT ![q] = [@ EXCEPT !.at = "link", !.path = p]]
  /\ projects' = IF \E r \in Projects : projects[r] = p
                   THEN projects ELSE [projects EXCEPT ![q] = p]
  /\ UNCHANGED <<watched, entities, edges, search, watching, raced>>

\* Mutant: an IntegrityError is ignored like a duplicate row.
WatchLinkIgnoresAll(q) ==
  LET p == call[q].path
  IN  /\ At(q, "link")
      /\ watched' = IF watched[p] = NoRow /\ q \in Projects
                      THEN [watched EXCEPT ![p] = q] ELSE watched
      /\ watching' = watching \cup {p}
      /\ Goto(q, "ok")
      /\ UNCHANGED <<projects, entities, edges, search, raced>>

\* INSERT OR IGNORE INTO watched_dirs: path is the key, and project_id must
\* be in projects.  IGNORE covers the first constraint, not the second: when
\* the project was registered under another id, the request fails.
WatchLink(q) ==
  LET p == call[q].path
  IN  /\ At(q, "link")
      /\ \/ /\ watched[p] # NoRow
            /\ UNCHANGED watched
            /\ watching' = watching \cup {p} /\ Goto(q, "ok")
         \/ /\ watched[p] = NoRow /\ q \in Projects
            /\ watched' = [watched EXCEPT ![p] = q]
            /\ watching' = watching \cup {p} /\ Goto(q, "ok")
         \/ /\ watched[p] = NoRow /\ q \notin Projects
            /\ Goto(q, "error")
            /\ UNCHANGED <<watched, watching>>
      /\ UNCHANGED <<projects, entities, edges, search, raced>>

Unwatch(q, p) ==
  /\ At(q, "new")
  /\ watched' = [watched EXCEPT ![p] = NoRow]
  /\ watching' = watching \ {p}
  /\ Goto(q, "ok")
  /\ UNCHANGED <<projects, entities, edges, search, raced>>

-----------------------------------------------------------------------------
(* EntityStore                                                             *)

\* Callers pass the id of a project that exists.
UpsertByHash(q, project, key, content) ==
  /\ At(q, "new") /\ project \in Projects
  /\ call' = [call EXCEPT ![q] = [at |-> "read", path |-> NoRow, project |-> project,
                                  key |-> key, content |-> content, row |-> NoRow]]
  /\ raced' = (raced \/ \E r \in Calls :
                          /\ call[r].at \in {"read", "insert", "update"}
                          /\ call[r].project = project /\ call[r].key = key)
  /\ UNCHANGED <<projects, watched, entities, edges, search, watching>>

\* get_by_name: any live row of that project, kind and name.
Named(project, key) ==
  {r \in Live : entities[r].project = project /\ entities[r].key = key}

\* Mutant: rows whose content differs are not found.
ReadExistingByContent(q) ==
  LET same == {r \in Named(call[q].project, call[q].key) :
                 entities[r].content = call[q].content}
  IN  /\ At(q, "read")
      /\ Goto(q, IF same = {} THEN "insert" ELSE "ok")
      /\ UNCHANGED <<projects, watched, entities, edges, search, watching, raced>>

\* The same hash answers at once; another one is an update of the row found.
ReadExisting(q) ==
  LET same == Named(call[q].project, call[q].key)
  IN  /\ At(q, "read")
      /\ \/ same = {} /\ Goto(q, "insert")
         \/ \E r \in same :
              IF entities[r].content = call[q].content
                THEN Goto(q, "ok")
                ELSE call' = [call EXCEPT ![q] = [@ EXCEPT !.at = "update", !.row = r]]
      /\ UNCHANGED <<projects, watched, entities, edges, search, watching, raced>>

Create(q) ==
  /\ At(q, "insert")
  /\ entities' = [entities EXCEPT ![q] =
                    [project |-> call[q].project, key |-> call[q].key,
                     content |-> call[q].content, live |-> TRUE]]
  /\ Goto(q, "ok")
  /\ UNCHANGED <<projects, watched, edges, search, watching, raced>>

\* UPDATE ... WHERE id = ?: a row deleted since it was read is updated too,
\* and stays deleted.
Update(q) ==
  /\ At(q, "update")
  /\ entities' = [entities EXCEPT ![call[q].row].content = call[q].content]
  /\ Goto(q, "ok")
  /\ UNCHANGED <<projects, watched, edges, search, watching, raced>>

\* What changes under the searches that are on their way.
Searching(q) == call[q].at \in {"outgoing", "incoming"}
Standing == {e \in edges : e[2] \in Live /\ e[3] \in Live}
Neighbors(r) == {s \in Live : \E e \in edges : {e[2], e[3]} = {r, s}}
Meetings == {rs \in Rows \X Live : rs[2] \in Neighbors(rs[1])}
Observed ==
  /\ stood' = [q \in Calls |-> IF Searching(q) THEN stood[q] \cap Standing' ELSE stood[q]]
  /\ met' = [q \in Calls |-> IF Searching(q) THEN met[q] \cup Meetings' ELSE met[q]]
  /\ UNCHANGED <<found, next>>

SoftDelete(q, r) ==
  /\ At(q, "new") /\ r \in Live
  /\ entities' = [entities EXCEPT ![r].live = FALSE]
  /\ Goto(q, "ok")
  /\ UNCHANGED <<projects, watched, edges, watching, raced>>
  /\ Observed

-----------------------------------------------------------------------------
(* GraphStore                                                              *)

\* Mutant: foreign_keys is off.
AddEdgeUnchecked(q, source, target) ==
  /\ At(q, "new")
  /\ edges' = edges \cup {<<q, source, target>>}
  /\ Goto(q, "ok")
  /\ UNCHANGED <<projects, watched, entities, watching, raced>>
  /\ Observed

\* INSERT OR REPLACE with a fresh id replaces nothing: a pair may have several
\* edges.  Foreign keys hold for deleted entities too: their rows stay.
AddEdge(q, source, target) ==
  /\ At(q, "new") /\ source \in Rows /\ target \in Rows
  /\ edges' = edges \cup {<<q, source, target>>}
  /\ Goto(q, "ok")
  /\ UNCHANGED <<projects, watched, entities, watching, raced>>
  /\ Observed

RemoveEdgesFor(q, r) ==
  /\ At(q, "new") /\ r \in Rows
  /\ edges' = {e \in edges : e[2] # r /\ e[3] # r}
  /\ Goto(q, "ok")
  /\ UNCHANGED <<projects, watched, entities, watching, raced>>
  /\ Observed

\* get_neighbors: results and the layers are one list here, in which the layer
\* of round d is what is d hops away.
GetNeighbors(q, r) ==
  /\ At(q, "new") /\ r \in Rows
  /\ found' = [found EXCEPT ![q] = <<<<r, 0>>>>]
  /\ next' = [next EXCEPT ![q] = 1]
  /\ stood' = [stood EXCEPT ![q] = Standing]
  /\ met' = [met EXCEPT ![q] = Meetings]
  /\ Goto(q, "outgoing")
  /\ UNCHANGED <<projects, watched, entities, edges, watching, raced>>

Visited(q) == {near[1] : near \in ToSet(found[q])}
Current(q) == found[q][next[q]]

\* The rows a query for r answers with.
Outgoing(r) == {s \in Live : \E e \in edges : e[2] = r /\ e[3] = s}
\* Mutant: the second query misses "deleted_at IS NULL".
IncomingDeleted(r) == {s \in Rows : \E e \in edges : e[3] = r /\ e[2] = s}

Incoming(r) == {s \in Live : \E e \in edges : e[3] = r /\ e[2] = s}

\* The rows not visited before, in whatever order they come (no ORDER BY), are
\* one hop farther away than the entity being expanded.
Extended(q, rows) ==
  {found[q] \o [i \in DOMAIN order |-> <<order[i], Current(q)[2] + 1>>] :
     order \in SetToSeqs(rows \ Visited(q))}

QueryOutgoing(q) ==
  /\ At(q, "outgoing")
  /\ \E list \in Extended(q, Outgoing(Current(q)[1])) :
       found' = [found EXCEPT ![q] = list]
  /\ Goto(q, "incoming")
  /\ UNCHANGED <<projects, watched, entities, edges, next, stood, met, watching, raced>>

\* No entity is left, or a round has ended and it was the last one or there are
\* Limit results.
Over(q, list) ==
  \/ next[q] = Len(list)
  \/ /\ list[next[q] + 1][2] > Current(q)[2]
     /\ Current(q)[2] + 1 = Depth \/ Len(list) > Limit

\* Then the next entity is expanded, or results[:limit] is the answer.
QueryIncoming(q) ==
  /\ At(q, "incoming")
  /\ \E list \in Extended(q, Incoming(Current(q)[1])) :
       IF Over(q, list)
         THEN /\ found' = [found EXCEPT ![q] = SubSeq(list, 1, Min({Len(list), Limit + 1}))]
              /\ Goto(q, "found") /\ UNCHANGED next
         ELSE /\ found' = [found EXCEPT ![q] = list]
              /\ next' = [next EXCEPT ![q] = @ + 1] /\ Goto(q, "outgoing")
  /\ UNCHANGED <<projects, watched, entities, edges, stood, met, watching, raced>>

-----------------------------------------------------------------------------

Next ==
  \E q \in Calls :
    \/ \E p \in Paths : Watch(q, p) \/ Unwatch(q, p)
    \/ WatchLink(q)
    \/ \E project \in Ids, key \in Keys, content \in Contents :
         UpsertByHash(q, project, key, content)
    \/ ReadExisting(q) \/ Create(q) \/ Update(q)
    \/ \E r \in Ids : SoftDelete(q, r) \/ RemoveEdgesFor(q, r) \/ GetNeighbors(q, r)
    \/ \E r, s \in Ids : AddEdge(q, r, s)
    \/ QueryOutgoing(q) \/ QueryIncoming(q)

Spec == Init /\ [][Next]_vars

-----------------------------------------------------------------------------
(* Properties                                                              *)

\* watch.py:21-28: whatever requests overlap, a watched path leads to the
\* project registered for it, and a request that answered "watching" left the
\* path watched until somebody unwatches it.
WatchingIsWatched ==
  /\ \A p \in Paths : watched[p] # NoRow => projects[watched[p]] = p
  /\ \A p \in watching : watched[p] # NoRow

\* entities.py:119-143: while no two upserts of one name overlap, a project has
\* one live entity of each kind and name, however upserts of other names and
\* deletions interleave.  (Overlapping ones may each insert their own.)
OneEntityPerName ==
  ~raced =>
    \A r, s \in Live :
      entities[r].project = entities[s].project /\ entities[r].key = entities[s].key
        => r = s

\* graph.py:65-113: whatever changes under it, a search answers each entity once,
\* nearest first and Limit of them at most; every one is reached over neighbours
\* that were there at some time, at the distance it is given; and across an edge
\* that was there all the time nothing is missed or given too great a distance,
\* unless Limit others are as near.  In a search under which nothing changes
\* these are the shortest distances.
NeighborsAreFound ==
  \A q \in Calls : At(q, "found") =>
    LET near == found[q]
        Places == DOMAIN near
        Id(i) == near[i][1]
        Distance(i) == near[i][2]
    IN  /\ Len(near) <= Limit + 1
        /\ \A i, j \in Places : i < j => Id(i) # Id(j) /\ Distance(i) <= Distance(j)
        /\ \A j \in Places \ {1} : \E i \in 1..(j - 1) :
             Distance(j) = Distance(i) + 1 /\ <<Id(i), Id(j)>> \in met[q]
        /\ \A e \in stood[q], i \in Places, s \in Ids :
             {e[2], e[3]} = {Id(i), s} /\ Distance(i) < Depth
             => \/ \E j \in Places : Id(j) = s /\ Distance(j) <= Distance(i) + 1
                \/ Len(near) = Limit + 1 /\ \A j \in Places : Distance(j) <= Distance(i) + 1
=============================================================================
