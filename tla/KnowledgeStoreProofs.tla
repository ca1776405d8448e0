------------------------ MODULE KnowledgeStoreProofs ------------------------
(***************************************************************************)
(* Proofs about KnowledgeStore, for any number of overlapping calls, paths *)
(* and entities.  WatchingIsWatched rests on the id a watch() draws being  *)
(* its own (Fresh, Linking), OneEntityPerName on what an upsert that found *)
(* nothing may still rely on when it inserts (Absent), NeighborsAreFound   *)
(* on what the list of a search holds after each of its queries (Walk).    *)
(***************************************************************************)
EXTENDS KnowledgeStore, FiniteSetTheorems, TLAPS

Upserting(q) == call[q].at \in {"read", "insert", "update"}

\* No row has the id of a call that was not made.
Fresh == \A q \in Calls : At(q, "new") => projects[q] = NoRow

\* A call that registers a path has no project but that of the path.
Linking ==
  \A q \in Calls :
    At(q, "link") /\ projects[q] # NoRow => projects[q] = call[q].path

\* While nothing raced, one call upserts a name, and if it found no entity of
\* the name there is none.
Alone ==
  ~raced =>
    \A q, r \in Calls :
      /\ Upserting(q) /\ Upserting(r)
      /\ call[q].project = call[r].project /\ call[q].key = call[r].key
      => q = r

Absent ==
  ~raced =>
    \A q \in Calls : At(q, "insert") => Named(call[q].project, call[q].key) = {}

IInv ==
  /\ StoreTyped /\ Fresh /\ Linking /\ WatchingIsWatched
  /\ Alone /\ Absent /\ OneEntityPerName

-----------------------------------------------------------------------------
(* What StoreTyped says of the record of one call.                             *)
Asked(c) ==
  /\ c \in [at : Points, path : Paths \cup {NoRow}, project : Ids \cup {NoRow},
            key : Keys \cup {NoRow}, content : Contents \cup {NoRow},
            row : Ids \cup {NoRow}]
  /\ c.at = "link" => c.path \in Paths
  /\ c.at \in {"read", "insert", "update"} =>
       c.project \in Ids /\ c.key \in Keys /\ c.content \in Contents
  /\ c.at = "update" => c.row \in Rows

(* A step of one call that keeps every row keeps the types, if its record  *)
(* and the tables it writes are typed.                                     *)
LEMMA CallTyped ==
  ASSUME StoreTyped, NEW q \in Calls, NEW c, Asked(c), call' = [call EXCEPT ![q] = c],
         projects' \in [Ids -> Paths \cup {NoRow}],
         watched' \in [Paths -> Ids \cup {NoRow}],
         entities' \in [Ids -> Entity \cup {NoRow}], Rows \subseteq Rows',
         edges' \subseteq Ids \X Rows' \X Rows',
         watching' \subseteq Paths, raced' \in BOOLEAN
  PROVE  StoreTyped'
<1> DEFINE rec == [at : Points, path : Paths \cup {NoRow}, project : Ids \cup {NoRow},
                   key : Keys \cup {NoRow}, content : Contents \cup {NoRow},
                   row : Ids \cup {NoRow}]
<1>1. call \in [Calls -> rec] /\ c \in rec
  BY DEF StoreTyped, Asked
<1>2. call' \in [Calls -> rec]
  <2> HIDE DEF rec
  <2> QED BY <1>1
<1>3. \A r \in Calls :
        /\ call'[r].at = "link" => call'[r].path \in Paths
        /\ call'[r].at \in {"read", "insert", "update"} =>
             /\ call'[r].project \in Ids /\ call'[r].key \in Keys
             /\ call'[r].content \in Contents
        /\ call'[r].at = "update" => call'[r].row \in Rows'
  <2> SUFFICES ASSUME NEW r \in Calls
               PROVE  /\ call'[r].at = "link" => call'[r].path \in Paths
                      /\ call'[r].at \in {"read", "insert", "update"} =>
                           /\ call'[r].project \in Ids /\ call'[r].key \in Keys
                           /\ call'[r].content \in Contents
                      /\ call'[r].at = "update" => call'[r].row \in Rows'
    OBVIOUS
  <2>1. call'[r] = IF r = q THEN c ELSE call[r]
    BY <1>1
  <2>2. CASE r = q
    BY <2>1, <2>2 DEF Asked
  <2>3. CASE r # q
    BY <2>1, <2>3 DEF StoreTyped
  <2> QED BY <2>2, <2>3
<1> QED BY <1>2, <1>3 DEF StoreTyped

(* Going on to another point, with what was asked.                         *)
LEMMA GotoAsked ==
  ASSUME StoreTyped, NEW q \in Calls, NEW to \in {"insert", "ok", "error"},
         to = "insert" => call[q].at = "read"
  PROVE  Asked([call[q] EXCEPT !.at = to])
<1>1. call[q] \in [at : Points, path : Paths \cup {NoRow}, project : Ids \cup {NoRow},
                  key : Keys \cup {NoRow}, content : Contents \cup {NoRow},
                  row : Ids \cup {NoRow}]
  BY DEF StoreTyped
<1>2. call[q].at \in {"read", "insert", "update"} =>
        call[q].project \in Ids /\ call[q].key \in Keys /\ call[q].content \in Contents
  BY DEF StoreTyped
<1> QED BY <1>1, <1>2 DEF Asked, Points

-----------------------------------------------------------------------------
(* The tables are as the daemon found them and no call was made.           *)
LEMMA InitIInv == Init => IInv
<1> SUFFICES ASSUME Init PROVE IInv
  OBVIOUS
<1>1. PICK db \in Databases :
        /\ projects = db.projects /\ watched = db.watched
        /\ entities = db.entities /\ edges = db.edges
  BY DEF Init
<1>2. /\ Stored(db) /\ NoRow \notin Ids
      /\ call = [q \in Calls |-> NoCall] /\ raced = FALSE
      /\ watching = {p \in Paths : watched[p] # NoRow}
  BY StoreAssumption DEF StoreAssumption, Init
<1>3. \A q \in Calls : call[q] = NoCall /\ NoCall.at = "new"
  BY <1>2 DEF NoCall
<1>4. Rows = {i \in Old : db.entities[i] # NoRow}
  BY <1>1, <1>2 DEF Rows, Stored, Ids
<1>5. StoreTyped
  <2>1. /\ watched \in [Paths -> Ids \cup {NoRow}] /\ edges \subseteq Ids \X Rows \X Rows
    BY <1>1, <1>2, <1>4 DEF Stored, Ids
  <2>2. NoCall \in [at : Points, path : Paths \cup {NoRow}, project : Ids \cup {NoRow},
                    key : Keys \cup {NoRow}, content : Contents \cup {NoRow},
                    row : Ids \cup {NoRow}]
    BY DEF NoCall, Points
  <2>3. /\ projects \in [Ids -> Paths \cup {NoRow}]
        /\ entities \in [Ids -> Entity \cup {NoRow}]
    BY <1>1, <1>2 DEF Stored
  <2> QED BY <1>2, <1>3, <2>1, <2>2, <2>3 DEF StoreTyped
<1>6. Fresh /\ Linking /\ WatchingIsWatched
  BY <1>1, <1>2, <1>3 DEF Fresh, Linking, WatchingIsWatched, At, Stored
<1>7. Alone /\ Absent
  BY <1>3 DEF Alone, Absent, Upserting, At
<1>8. OneEntityPerName
  BY <1>1, <1>2, <1>4 DEF OneEntityPerName, Live, Stored
<1> QED BY <1>5, <1>6, <1>7, <1>8 DEF IInv

(* watch() registers the project, or the path has one; then it links the   *)
(* path to the id it drew, which is a project of the path if it is one.    *)
LEMMA WatchKeeps ==
  ASSUME IInv, NEW q \in Calls,
         \/ \E p \in Paths : Watch(q, p) \/ Unwatch(q, p)
         \/ WatchLink(q)
  PROVE  IInv'
<1> USE StoreAssumption DEF StoreAssumption, IInv, StoreTyped, At, Goto, Ids
<1>1. ASSUME NEW p \in Paths, Watch(q, p) PROVE IInv'
  <2>1. /\ call[q].at = "new" /\ projects[q] = NoRow
        /\ call' = [call EXCEPT ![q] = [call[q] EXCEPT !.at = "link", !.path = p]]
        /\ projects' = projects \/ projects' = [projects EXCEPT ![q] = p]
        /\ UNCHANGED <<watched, entities, edges, watching, raced>>
    BY <1>1 DEF Watch, Fresh
  <2>2. StoreTyped'
    <3>1. Asked([call[q] EXCEPT !.at = "link", !.path = p])
      <4>1. call[q] \in [at : Points, path : Paths \cup {NoRow}, project : Ids \cup {NoRow},
                        key : Keys \cup {NoRow}, content : Contents \cup {NoRow},
                        row : Ids \cup {NoRow}]
        OBVIOUS
      <4> QED BY <4>1 DEF Asked, Points
    <3>2. /\ projects' \in [Ids -> Paths \cup {NoRow}] /\ Rows' = Rows
          /\ watched' \in [Paths -> Ids \cup {NoRow}]
          /\ entities' \in [Ids -> Entity \cup {NoRow}]
          /\ watching' \subseteq Paths /\ raced' \in BOOLEAN
      BY <2>1 DEF Rows
    <3>3. edges' \subseteq Ids \X Rows' \X Rows'
      BY <2>1, <3>2
    <3> QED BY <2>1, <3>1, <3>2, <3>3, CallTyped
  <2>3. Fresh' /\ Linking'
    BY <2>1 DEF Fresh, Linking
  <2>4. WatchingIsWatched'
    BY <2>1 DEF WatchingIsWatched
  <2>5. Alone' /\ Absent' /\ OneEntityPerName'
    BY <2>1 DEF Alone, Absent, OneEntityPerName, Upserting, Named, Live, Rows
  <2> QED BY <2>2, <2>3, <2>4, <2>5
<1>2. ASSUME NEW p \in Paths, Unwatch(q, p) PROVE IInv'
  <2>1. /\ call' = [call EXCEPT ![q].at = "ok"]
        /\ watched' = [watched EXCEPT ![p] = NoRow] /\ watching' = watching \ {p}
        /\ UNCHANGED <<projects, entities, edges, raced>>
    BY <1>2 DEF Unwatch
  <2>2. StoreTyped'
    BY <2>1 DEF Points, Rows
  <2>3. Fresh' /\ Linking'
    BY <2>1 DEF Fresh, Linking
  <2>4. WatchingIsWatched'
    BY <2>1 DEF WatchingIsWatched
  <2>5. Alone' /\ Absent' /\ OneEntityPerName'
    BY <2>1 DEF Alone, Absent, OneEntityPerName, Upserting, Named, Live, Rows
  <2> QED BY <2>2, <2>3, <2>4, <2>5
<1>3. CASE WatchLink(q)
  <2> DEFINE p == call[q].path
  <2>1. call[q].at = "link" /\ p \in Paths
    BY <1>3 DEF WatchLink
  <2>2. PICK to \in {"ok", "error"} :
          /\ call' = [call EXCEPT ![q].at = to]
          /\ \/ /\ watched' = watched
                /\ watching' = watching \/ (watched[p] # NoRow /\ watching' = watching \cup {p})
             \/ /\ projects[q] # NoRow
                /\ watched' = [watched EXCEPT ![p] = q] /\ watching' = watching \cup {p}
          /\ UNCHANGED <<projects, entities, edges, raced>>
    BY <1>3 DEF WatchLink, Projects
  <2>3. projects[q] # NoRow => projects[q] = p
    BY <2>1 DEF Linking
  <2> HIDE DEF p
  <2>4. StoreTyped'
    BY <2>1, <2>2 DEF Points, Rows
  <2>5. Fresh' /\ Linking'
    BY <2>2 DEF Fresh, Linking
  <2>6. WatchingIsWatched'
    BY <2>1, <2>2, <2>3 DEF WatchingIsWatched
  <2>7. Alone' /\ Absent' /\ OneEntityPerName'
    BY <2>2 DEF Alone, Absent, OneEntityPerName, Upserting, Named, Live, Rows
  <2> QED BY <2>4, <2>5, <2>6, <2>7
<1> QED BY <1>1, <1>2, <1>3

(* Entities have no part in what is watched.                               *)
LEMMA WatchedApart ==
  ASSUME IInv, NEW q \in Calls, UNCHANGED <<projects, watched, watching>>,
         \A r \in Calls \ {q} : call'[r] = call[r], call'[q].at \notin {"new", "link"}
  PROVE  Fresh' /\ Linking' /\ WatchingIsWatched'
BY DEF IInv, Fresh, Linking, WatchingIsWatched, At

(* An upsert: what it read about the name holds until it inserts.          *)
LEMMA UpsertKeeps ==
  ASSUME IInv, NEW q \in Calls,
         \/ \E project \in Ids, key \in Keys, content \in Contents :
              UpsertByHash(q, project, key, content)
         \/ ReadExisting(q) \/ Create(q) \/ Update(q)
  PROVE  IInv'
<1> USE StoreAssumption DEF StoreAssumption, IInv, StoreTyped, At, Goto, Ids
<1>1. ASSUME NEW project \in Ids, NEW key \in Keys, NEW content \in Contents,
             UpsertByHash(q, project, key, content)
      PROVE  IInv'
  <2>1. /\ call' = [call EXCEPT ![q] = [at |-> "read", path |-> NoRow, project |-> project,
                                        key |-> key, content |-> content, row |-> NoRow]]
        /\ raced' = (raced \/ \E r \in Calls : /\ Upserting(r)
                                               /\ call[r].project = project /\ call[r].key = key)
        /\ UNCHANGED <<projects, watched, entities, edges, watching>>
    BY <1>1 DEF UpsertByHash, Upserting
  <2>2. StoreTyped'
    BY <2>1 DEF Points, Rows
  <2>3. Fresh' /\ Linking' /\ WatchingIsWatched'
    BY <2>1, WatchedApart
  <2>4. Alone'
    BY <2>1 DEF Alone, Upserting
  <2>5. Absent' /\ OneEntityPerName'
    BY <2>1 DEF Absent, OneEntityPerName, Named, Live, Rows
  <2> QED BY <2>2, <2>3, <2>4, <2>5
<1>2. CASE ReadExisting(q)
  <2>1. /\ call[q].at = "read" /\ UNCHANGED <<projects, watched, entities, edges, watching, raced>>
        /\ \/ Named(call[q].project, call[q].key) = {} /\ call' = [call EXCEPT ![q].at = "insert"]
           \/ call' = [call EXCEPT ![q].at = "ok"]
           \/ \E r \in Rows : call' = [call EXCEPT ![q] = [call[q] EXCEPT !.at = "update", !.row = r]]
    BY <1>2 DEF ReadExisting, Named, Live
  <2>2. StoreTyped'
    <3>1. /\ Rows' = Rows /\ UNCHANGED <<projects, watched, entities, edges, watching, raced>>
      BY <2>1 DEF Rows
    <3>2. CASE \E to \in {"insert", "ok"} : call' = [call EXCEPT ![q].at = to]
      <4>1. PICK to \in {"insert", "ok"} : call' = [call EXCEPT ![q] = [call[q] EXCEPT !.at = to]]
        BY <3>2
      <4>2. Asked([call[q] EXCEPT !.at = to])
        BY <2>1, GotoAsked
      <4> QED BY <3>1, <4>1, <4>2, CallTyped
    <3>3. ASSUME NEW r \in Rows,
                 call' = [call EXCEPT ![q] = [call[q] EXCEPT !.at = "update", !.row = r]]
          PROVE  StoreTyped'
      <4>1. Asked([call[q] EXCEPT !.at = "update", !.row = r])
        <5>1. call[q] \in [at : Points, path : Paths \cup {NoRow},
                          project : Ids \cup {NoRow}, key : Keys \cup {NoRow},
                          content : Contents \cup {NoRow}, row : Ids \cup {NoRow}]
          OBVIOUS
        <5>2. /\ call[q].project \in Ids /\ call[q].key \in Keys
              /\ call[q].content \in Contents
          BY <2>1
        <5> QED BY <5>1, <5>2 DEF Asked, Points, Rows
      <4> QED BY <3>1, <3>3, <4>1, CallTyped
    <3> QED BY <2>1, <3>2, <3>3
  <2>3. \A r \in Calls \ {q} : call'[r] = call[r]
    BY <2>1
  <2>4. /\ call'[q].at \in {"insert", "ok", "update"}
        /\ call'[q].project = call[q].project /\ call'[q].key = call[q].key
        /\ call'[q].at = "insert" => Named(call[q].project, call[q].key) = {}
    <3>1. ASSUME NEW to \in {"insert", "ok"}, call' = [call EXCEPT ![q].at = to]
          PROVE  /\ call'[q].at = to
                 /\ call'[q].project = call[q].project /\ call'[q].key = call[q].key
      BY <3>1
    <3>2. ASSUME NEW r \in Rows,
                 call' = [call EXCEPT ![q] = [call[q] EXCEPT !.at = "update", !.row = r]]
          PROVE  /\ call'[q].at = "update"
                 /\ call'[q].project = call[q].project /\ call'[q].key = call[q].key
      <4>1. call'[q] = [call[q] EXCEPT !.at = "update", !.row = r]
        BY <3>2
      <4>2. call[q] \in [at : Points, path : Paths \cup {NoRow}, project : Ids \cup {NoRow},
                        key : Keys \cup {NoRow}, content : Contents \cup {NoRow},
                        row : Ids \cup {NoRow}]
        OBVIOUS
      <4> QED BY <4>1, <4>2
    <3> QED BY <2>1, <3>1, <3>2
  <2>5. Fresh' /\ Linking' /\ WatchingIsWatched'
    BY <2>1, <2>3, <2>4, WatchedApart
  <2> HIDE DEF IInv, StoreTyped
  <2>6. Alone'
    <3>1. \A r \in Calls :
            /\ call'[r].project = call[r].project /\ call'[r].key = call[r].key
            /\ Upserting(r)' => Upserting(r)
      BY <2>1, <2>3, <2>4 DEF Upserting
    <3> QED BY <2>1, <3>1 DEF IInv, Alone
  <2>7. Live' = Live
    BY <2>1 DEF Live, Rows
  <2>8. Absent'
    <3>1. \A r \in Calls :
            call'[r].at = "insert" /\ ~raced => Named(call[r].project, call[r].key) = {}
      BY <2>1, <2>3, <2>4 DEF IInv, Absent
    <3>2. \A r \in Calls :
            Named(call[r].project, call[r].key)' = Named(call[r].project, call[r].key)
      <4>1. \A r \in Calls : call'[r].project = call[r].project /\ call'[r].key = call[r].key
        BY <2>3, <2>4
      <4> QED BY <2>1, <2>7, <4>1 DEF Named
    <3> QED BY <2>1, <3>1, <3>2 DEF Absent
  <2>9. OneEntityPerName'
    BY <2>1, <2>7 DEF IInv, OneEntityPerName
  <2> QED BY <2>1, <2>2, <2>5, <2>6, <2>8, <2>9 DEF IInv
<1>3. CASE Create(q)
  <2> DEFINE row == [project |-> call[q].project, key |-> call[q].key,
                     content |-> call[q].content, live |-> TRUE]
  <2>1. /\ call[q].at = "insert" /\ entities' = [entities EXCEPT ![q] = row]
        /\ call' = [call EXCEPT ![q].at = "ok"]
        /\ UNCHANGED <<projects, watched, edges, watching, raced>>
    BY <1>3 DEF Create
  <2>2. row \in Entity /\ row # NoRow
    <3>1. /\ call[q].project \in Ids /\ call[q].key \in Keys
          /\ call[q].content \in Contents
      BY <2>1
    <3>2. row \in Entity
      BY <3>1 DEF Entity
    <3> QED BY <3>2
  <2>3. row.project = call[q].project /\ row.key = call[q].key /\ row.live
    OBVIOUS
  <2> HIDE DEF row
  <2>4. Rows' = Rows \cup {q} /\ Live' = Live \cup {q}
    BY <2>1, <2>2, <2>3 DEF Rows, Live
  <2>5. StoreTyped'
    BY <2>1, <2>2, <2>4 DEF Points
  <2>6. Fresh' /\ Linking' /\ WatchingIsWatched'
    <3>1. \A r \in Calls \ {q} : call'[r] = call[r]
      BY <2>1
    <3>2. call'[q].at = "ok"
      BY <2>1
    <3> QED BY <2>1, <3>1, <3>2, WatchedApart
  <2>7. Alone'
    BY <2>1 DEF Alone, Upserting
  <2>8. \A r \in Live' \ {q} : r \in Live /\ entities'[r] = entities[r]
    BY <2>1, <2>4 DEF Live, Rows
  <2>9. entities'[q] = row
    BY <2>1
  <2>10. Absent'
    <3> SUFFICES ASSUME ~raced, NEW r \in Calls, call'[r].at = "insert",
                        NEW s \in Live', entities'[s].project = call'[r].project,
                        entities'[s].key = call'[r].key
                 PROVE  FALSE
      BY <2>1 DEF Absent, Named
    <3>1. r # q /\ call'[r] = call[r]
      BY <2>1
    <3>2. CASE s = q
      BY <2>1, <2>3, <2>9, <3>1, <3>2 DEF Alone, Upserting
    <3>3. CASE s # q
      BY <2>8, <3>1, <3>3 DEF Absent, Named
    <3> QED BY <3>2, <3>3
  <2>11. OneEntityPerName'
    BY <2>1, <2>3, <2>8, <2>9 DEF OneEntityPerName, Absent, Named
  <2> QED BY <2>5, <2>6, <2>7, <2>10, <2>11
<1>4. CASE Update(q)
  <2> DEFINE r == call[q].row
             row == [entities[r] EXCEPT !.content = call[q].content]
  <2>1. /\ call[q].at = "update" /\ r \in Rows
        /\ entities' = [entities EXCEPT ![r] = row]
        /\ call' = [call EXCEPT ![q].at = "ok"]
        /\ UNCHANGED <<projects, watched, edges, watching, raced>>
    BY <1>4 DEF Update
  <2>2. /\ row \in Entity /\ row # NoRow /\ row.project = entities[r].project
        /\ row.key = entities[r].key /\ row.live = entities[r].live
    BY <2>1 DEF Rows, Entity
  <2> HIDE DEF r, row
  <2>3. Rows' = Rows /\ Live' = Live
    BY <2>1, <2>2 DEF Rows, Live
  <2>4. \A s \in Rows : /\ entities'[s].project = entities[s].project
                        /\ entities'[s].key = entities[s].key
    BY <2>1, <2>2 DEF Rows
  <2>5. StoreTyped'
    BY <2>1, <2>2, <2>3 DEF Points, Rows
  <2>6. Fresh' /\ Linking' /\ WatchingIsWatched'
    <3>1. \A s \in Calls \ {q} : call'[s] = call[s]
      BY <2>1
    <3>2. call'[q].at = "ok"
      BY <2>1
    <3> QED BY <2>1, <3>1, <3>2, WatchedApart
  <2>7. Alone'
    BY <2>1 DEF Alone, Upserting
  <2>8. Absent' /\ OneEntityPerName'
    BY <2>1, <2>3, <2>4 DEF Absent, OneEntityPerName, Named, Live
  <2> QED BY <2>5, <2>6, <2>7, <2>8
<1> QED BY <1>1, <1>2, <1>3, <1>4

(* Deletions make names free, and edges touch none.                        *)
LEMMA GraphKeeps ==
  ASSUME IInv, NEW q \in Calls, NEW r \in Ids, NEW s \in Ids,
         SoftDelete(q, r) \/ RemoveEdgesFor(q, r) \/ AddEdge(q, r, s)
  PROVE  IInv'
<1> USE StoreAssumption DEF StoreAssumption, IInv, StoreTyped, At, Goto, Ids
<1>1. call' = [call EXCEPT ![q].at = "ok"] /\ UNCHANGED <<projects, watched, watching, raced>>
  BY DEF SoftDelete, RemoveEdgesFor, AddEdge
<1>2. Fresh' /\ Linking' /\ WatchingIsWatched'
  <2>1. \A t \in Calls \ {q} : call'[t] = call[t]
    BY <1>1
  <2>2. call'[q].at = "ok"
    BY <1>1
  <2> QED BY <1>1, <2>1, <2>2, WatchedApart
<1>3. Alone'
  BY <1>1 DEF Alone, Upserting
<1>4. CASE SoftDelete(q, r)
  <2>1. /\ r \in Live /\ UNCHANGED edges
        /\ entities' = [entities EXCEPT ![r] = [entities[r] EXCEPT !.live = FALSE]]
    BY <1>4 DEF SoftDelete
  <2> DEFINE row == [entities[r] EXCEPT !.live = FALSE]
  <2>2. row \in Entity /\ row # NoRow /\ ~row.live
    <3>1. entities[r] \in Entity
      BY <2>1 DEF Live, Rows
    <3>2. row \in Entity /\ ~row.live
      BY <3>1 DEF Entity
    <3> QED BY <3>2
  <2> HIDE DEF row
  <2>3. Rows' = Rows /\ Live' = Live \ {r} /\ \A t \in Live' : entities'[t] = entities[t]
    BY <2>1, <2>2 DEF Live, Rows, row
  <2>4. StoreTyped'
    <3>1. entities' \in [Ids -> Entity \cup {NoRow}]
      BY <2>1, <2>2 DEF row
    <3>2. Asked([call[q] EXCEPT !.at = "ok"])
      BY GotoAsked
    <3>3. edges' \subseteq Ids \X Rows' \X Rows'
      BY <2>1, <2>3
    <3> QED BY <1>1, <2>3, <3>1, <3>2, <3>3, CallTyped
  <2>5. Absent' /\ OneEntityPerName'
    BY <1>1, <2>3 DEF Absent, OneEntityPerName, Named
  <2> QED BY <1>2, <1>3, <2>4, <2>5
<1>5. CASE RemoveEdgesFor(q, r) \/ AddEdge(q, r, s)
  <2>1. UNCHANGED entities /\ edges' \subseteq Ids \X Rows \X Rows
    BY <1>5 DEF RemoveEdgesFor, AddEdge
  <2>2. StoreTyped'
    BY <1>1, <2>1 DEF Points, Rows
  <2>3. Absent' /\ OneEntityPerName'
    BY <1>1, <2>1 DEF Absent, OneEntityPerName, Named, Live, Rows
  <2> QED BY <1>2, <1>3, <2>2, <2>3
<1> QED BY <1>4, <1>5

(* A search changes its own call and its list.                             *)
LEMMA SearchApart ==
  ASSUME IInv, NEW q \in Calls,
         (\E r \in Ids : GetNeighbors(q, r)) \/ QueryOutgoing(q) \/ QueryIncoming(q)
  PROVE  IInv'
<1>1. PICK to \in {"outgoing", "incoming", "found"} : call' = [call EXCEPT ![q].at = to]
  BY DEF GetNeighbors, QueryOutgoing, QueryIncoming, Goto
<1>2. UNCHANGED <<projects, watched, entities, edges, watching, raced>>
  BY DEF GetNeighbors, QueryOutgoing, QueryIncoming
<1> USE DEF IInv, StoreTyped
<1>3. StoreTyped'
  BY <1>1, <1>2 DEF Points, Rows
<1>4. Fresh' /\ Linking' /\ WatchingIsWatched'
  <2>1. \A t \in Calls \ {q} : call'[t] = call[t]
    BY <1>1
  <2>2. call'[q].at = to
    BY <1>1
  <2> QED BY <1>2, <2>1, <2>2, WatchedApart
<1>5. Alone' /\ Absent' /\ OneEntityPerName'
  BY <1>1, <1>2 DEF Alone, Absent, OneEntityPerName, Upserting, At, Named, Live, Rows
<1> QED BY <1>3, <1>4, <1>5

(* Every step of every call keeps the invariant.                           *)
LEMMA NextIInv == IInv /\ [Next]_vars => IInv'
<1> SUFFICES ASSUME IInv, [Next]_vars PROVE IInv'
  OBVIOUS
<1>1. CASE Next
  <2>1. PICK q \in Calls :
          \/ \E p \in Paths : Watch(q, p) \/ Unwatch(q, p)
          \/ WatchLink(q)
          \/ \E project \in Ids, key \in Keys, content \in Contents :
               UpsertByHash(q, project, key, content)
          \/ ReadExisting(q) \/ Create(q) \/ Update(q)
          \/ \E r, s \in Ids : SoftDelete(q, r) \/ RemoveEdgesFor(q, r) \/ AddEdge(q, r, s)
          \/ (\E r \in Ids : GetNeighbors(q, r)) \/ QueryOutgoing(q) \/ QueryIncoming(q)
    BY <1>1 DEF Next
  <2> QED BY <2>1, WatchKeeps, UpsertKeeps, GraphKeeps, SearchApart
<1>2. CASE UNCHANGED vars
  BY <1>2 DEF vars, IInv, StoreTyped, Fresh, Linking, WatchingIsWatched, Alone, Absent,
     OneEntityPerName, Upserting, At, Named, Live, Rows
<1> QED BY <1>1, <1>2

-----------------------------------------------------------------------------
(* What a search has found, as a list f of <<id, distance>>; S are edges   *)
(* that stood, M neighbours that were met.                                 *)

Once(f) ==
  \A i, j \in DOMAIN f : i < j => f[i][1] # f[j][1] /\ f[i][2] <= f[j][2]

Reached(f, M) ==
  \A j \in DOMAIN f \ {1} : \E i \in 1..(j - 1) :
    f[j][2] = f[i][2] + 1 /\ <<f[i][1], f[j][1]>> \in M

Near(f, s, d) == \E j \in DOMAIN f : f[j][1] = s /\ f[j][2] <= d

\* What an edge of S joins with one of the first n is found.
Expanded(f, n, S) ==
  \A e \in S, i \in 1..n, s \in Ids :
    {e[2], e[3]} = {f[i][1], s} => Near(f, s, f[i][2] + 1)

\* The list while its n-th entity is expanded.
Walk(f, n, S, M) ==
  /\ f \in Seq(Ids \X (0..Depth)) /\ n \in DOMAIN f /\ f[n][2] < Depth
  /\ Once(f) /\ Reached(f, M) /\ Expanded(f, n - 1, S)
  /\ \A j \in DOMAIN f : f[j][2] <= f[n][2] + 1

Answer(f, S, M) ==
  /\ Len(f) <= Limit + 1 /\ Once(f) /\ Reached(f, M)
  /\ \A e \in S, i \in DOMAIN f, s \in Ids :
       {e[2], e[3]} = {f[i][1], s} /\ f[i][2] < Depth
       => \/ Near(f, s, f[i][2] + 1)
          \/ Len(f) = Limit + 1 /\ \A j \in DOMAIN f : f[j][2] <= f[i][2] + 1

(* The lists of SetToSeqs have every element of the set, once.             *)
LEMMA Orders ==
  ASSUME NEW T, IsFiniteSet(T), NEW order \in SetToSeqs(T)
  PROVE  /\ order \in Seq(T)
         /\ \A i, j \in DOMAIN order : i # j => order[i] # order[j]
         /\ \A t \in T : \E i \in DOMAIN order : order[i] = t
<1>1. Cardinality(T) \in Nat
  BY FS_CardinalityType
<1>2. PICK m \in Nat : m = Cardinality(T)
  BY <1>1
<1>3. order \in [1..m -> T] /\ \A i, j \in 1..m : i # j => order[i] # order[j]
  BY <1>2 DEF SetToSeqs
<1>4. order \in Injection(1..m, T)
  BY <1>3 DEF Injection, IsInjective
<1>5. Cardinality(1..m) = m
  BY FS_Interval
<1>6. order \in Surjection(1..m, T)
  BY <1>2, <1>4, <1>5, FS_Injection
<1> QED BY <1>3, <1>6 DEF Surjection

Known(f) == {f[i][1] : i \in DOMAIN f}
Met(f, n, rows, M) == \A s \in rows : s \in Ids /\ <<f[n][1], s>> \in M
Adds(f, n, rows, g) ==
  \E order \in SetToSeqs(rows \ Known(f)) :
    g = f \o [i \in DOMAIN order |-> <<order[i], f[n][2] + 1>>]

(* A query adds what it found new, one hop behind the current entity.      *)
LEMMA ExtendWalk ==
  ASSUME NEW f, NEW n, NEW S, NEW M, Walk(f, n, S, M),
         NEW rows, Met(f, n, rows, M), NEW g, Adds(f, n, rows, g)
  PROVE  /\ Walk(g, n, S, M)
         /\ \A j \in DOMAIN f : j \in DOMAIN g /\ g[j] = f[j]
         /\ \A s \in rows : Near(g, s, g[n][2] + 1)
<1>1. PICK order \in SetToSeqs(rows \ Known(f)) :
        g = f \o [i \in DOMAIN order |-> <<order[i], f[n][2] + 1>>]
  BY DEF Adds
<1> DEFINE T == rows \ Known(f)
<1>2. /\ order \in Seq(T)
      /\ \A i, j \in DOMAIN order : i # j => order[i] # order[j]
      /\ \A t \in T : \E i \in DOMAIN order : order[i] = t
  <2>1. IsFiniteSet(T) /\ order \in SetToSeqs(T)
    BY <1>1, FS_Subset, StoreAssumption DEF StoreAssumption, Met
  <2> HIDE DEF T
  <2> QED BY <2>1, Orders
<1>3. PICK D \in 0..Depth : D = f[n][2] + 1
  BY StoreAssumption DEF StoreAssumption, Walk
<1>4. /\ f \in Seq(Ids \X (0..Depth)) /\ n \in DOMAIN f /\ D \in Nat
      /\ \A j \in DOMAIN f : f[j][1] \in Ids /\ f[j][2] \in Nat /\ f[j][2] <= D
  BY <1>3, StoreAssumption DEF StoreAssumption, Walk
<1>5. T \subseteq rows /\ \A t \in T, i \in DOMAIN f : f[i][1] # t
  BY DEF Known
<1> HIDE DEF T
<1>6. PICK h : h = [i \in DOMAIN order |-> <<order[i], D>>]
  OBVIOUS
<1>7. PICK X : X = Ids \X (0..Depth)
  OBVIOUS
<1>8. /\ h \in Seq(X) /\ DOMAIN h = 1..Len(order) /\ Len(h) = Len(order)
      /\ \A i \in 1..Len(order) : h[i][1] = order[i] /\ h[i][2] = D
  <2>1. /\ Len(order) \in Nat /\ DOMAIN order = 1..Len(order)
        /\ \A i \in 1..Len(order) : order[i] \in Ids
    <3>1. T \subseteq Ids
      BY <1>5 DEF Met
    <3> QED BY <1>2, <3>1
  <2>2. \A i \in 1..Len(order) : <<order[i], D>> \in X
    BY <1>3, <1>7, <2>1
  <2>3. h = [i \in 1..Len(order) |-> <<order[i], D>>]
    BY <1>6, <2>1
  <2> QED BY <2>1, <2>2, <2>3
<1>9. /\ g \in Seq(X) /\ Len(g) = Len(f) + Len(order)
      /\ \A j \in 1..Len(f) : g[j] = f[j]
      /\ \A j \in (Len(f) + 1)..Len(g) :
           /\ j - Len(f) \in DOMAIN order
           /\ g[j][1] = order[j - Len(f)] /\ g[j][2] = D
  <2>1. f \in Seq(X) /\ g = f \o h
    BY <1>1, <1>3, <1>4, <1>6, <1>7
  <2>2. /\ g \in Seq(X) /\ Len(g) = Len(f) + Len(h)
        /\ \A j \in 1..Len(f) : g[j] = f[j]
        /\ \A j \in (Len(f) + 1)..Len(g) :
             j - Len(f) \in 1..Len(h) /\ g[j] = h[j - Len(f)]
    <3>1. Len(f) \in Nat /\ Len(h) \in Nat
      BY <1>8, <2>1
    <3>2. g \in Seq(X) /\ Len(g) = Len(f) + Len(h)
      <4>1. h \in Seq(X)
        BY <1>8
      <4> QED BY <2>1, <4>1
    <3>3. ASSUME NEW j \in 1..Len(f) PROVE g[j] = f[j]
      BY <1>8, <2>1
    <3>4. ASSUME NEW j \in (Len(f) + 1)..Len(g)
          PROVE  j - Len(f) \in 1..Len(h) /\ g[j] = h[j - Len(f)]
      BY <1>8, <2>1, <3>1, <3>2
    <3> QED BY <3>2, <3>3, <3>4
  <2>3. DOMAIN order = 1..Len(order)
    BY <1>2
  <2>4. ASSUME NEW j \in (Len(f) + 1)..Len(g), NEW i, i = j - Len(f)
        PROVE  i \in DOMAIN order /\ g[j][1] = order[i] /\ g[j][2] = D
    <3>1. i \in 1..Len(h) /\ g[j] = h[i]
      BY <2>2, <2>4
    <3> QED BY <1>8, <2>3, <3>1
  <2> QED BY <1>8, <2>2, <2>4
<1>10. /\ Len(f) \in Nat /\ Len(g) \in Nat /\ DOMAIN f = 1..Len(f) /\ DOMAIN g = 1..Len(g)
       /\ Len(f) <= Len(g) /\ n \in 1..Len(f) /\ g[n] = f[n] /\ g[n][2] + 1 = D
       /\ DOMAIN order = 1..Len(order) /\ Len(order) \in Nat
  <2>1. DOMAIN order = 1..Len(order) /\ Len(order) \in Nat
    BY <1>2
  <2>2. DOMAIN f = 1..Len(f) /\ Len(f) \in Nat /\ n \in 1..Len(f)
    BY <1>4
  <2>3. DOMAIN g = 1..Len(g) /\ Len(g) \in Nat
    BY <1>9
  <2>4. Len(f) <= Len(g) /\ g[n] = f[n]
    BY <1>9, <2>1, <2>2
  <2> QED BY <1>3, <2>1, <2>2, <2>3, <2>4
<1>11. \A j \in DOMAIN g : g[j][2] \in Nat /\ g[j][2] <= D
  <2> TAKE j \in DOMAIN g
  <2>1. CASE j \in 1..Len(f)
    BY <1>4, <1>9, <1>10, <2>1
  <2>2. CASE j \in (Len(f) + 1)..Len(g)
    <3>1. g[j][2] = D
      BY <1>9, <2>2
    <3> QED BY <1>4, <3>1
  <2> QED BY <1>10, <2>1, <2>2
<1>12. Once(g)
  <2> SUFFICES ASSUME NEW i \in 1..Len(g), NEW j \in 1..Len(g), i < j
               PROVE  g[i][1] # g[j][1] /\ g[i][2] <= g[j][2]
    BY <1>10 DEF Once
  <2>1. CASE j \in 1..Len(f)
    <3>1. i \in 1..Len(f)
      BY <1>10, <2>1
    <3>2. f[i][1] # f[j][1] /\ f[i][2] <= f[j][2]
      BY <1>10, <2>1, <3>1 DEF Walk, Once
    <3> QED BY <1>9, <2>1, <3>1, <3>2
  <2>2. CASE j \notin 1..Len(f) /\ i \in 1..Len(f)
    <3>1. j \in (Len(f) + 1)..Len(g)
      BY <1>10, <2>2
    <3>2. PICK k \in DOMAIN order : g[j][1] = order[k] /\ g[j][2] = D
      BY <1>9, <3>1
    <3>3. order[k] \in T
      BY <1>2, <3>2
    <3>4. g[i] = f[i] /\ i \in DOMAIN f
      BY <1>9, <1>10, <2>2
    <3>5. f[i][1] # order[k] /\ f[i][2] <= D
      BY <1>4, <1>5, <3>3, <3>4
    <3> QED BY <3>2, <3>4, <3>5
  <2>3. CASE j \notin 1..Len(f) /\ i \notin 1..Len(f)
    <3>1. j \in (Len(f) + 1)..Len(g) /\ i \in (Len(f) + 1)..Len(g)
      BY <1>10, <2>3
    <3>2. PICK k, l : k = i - Len(f) /\ l = j - Len(f)
      OBVIOUS
    <3>3. /\ k \in DOMAIN order /\ g[i][1] = order[k] /\ g[i][2] = D
          /\ l \in DOMAIN order /\ g[j][1] = order[l] /\ g[j][2] = D
      BY <1>9, <3>1, <3>2
    <3>4. k # l
      BY <1>10, <3>2
    <3>5. order[k] # order[l] /\ D <= D
      BY <1>2, <1>4, <3>3, <3>4
    <3> QED BY <3>3, <3>5
  <2> QED BY <2>1, <2>2, <2>3
<1>13. Reached(g, M)
  <2> SUFFICES ASSUME NEW j \in DOMAIN g \ {1}
               PROVE  \E i \in 1..(j - 1) :
                        g[j][2] = g[i][2] + 1 /\ <<g[i][1], g[j][1]>> \in M
    BY DEF Reached
  <2>1. CASE j \in 1..Len(f)
    <3>1. PICK i \in 1..(j - 1) : f[j][2] = f[i][2] + 1 /\ <<f[i][1], f[j][1]>> \in M
      BY <1>10, <2>1 DEF Walk, Reached
    <3>2. i \in 1..Len(f)
      BY <1>10, <2>1
    <3> QED BY <1>9, <2>1, <3>1, <3>2
  <2>2. CASE j \notin 1..Len(f)
    <3>1. j \in (Len(f) + 1)..Len(g) /\ n \in 1..(j - 1)
      BY <1>10, <2>2
    <3>2. PICK k \in DOMAIN order : g[j][1] = order[k] /\ g[j][2] = D
      BY <1>9, <3>1
    <3>3. order[k] \in rows
      BY <1>2, <1>5, <3>2
    <3> QED BY <1>10, <3>1, <3>2, <3>3 DEF Met
  <2> QED BY <2>1, <2>2
<1>14. Expanded(g, n - 1, S)
  <2> SUFFICES ASSUME NEW e \in S, NEW i \in 1..(n - 1), NEW s \in Ids,
                      {e[2], e[3]} = {g[i][1], s}
               PROVE  Near(g, s, g[i][2] + 1)
    BY DEF Expanded
  <2>1. i \in 1..Len(f) /\ g[i] = f[i]
    BY <1>9, <1>10
  <2>2. PICK j \in DOMAIN f : f[j][1] = s /\ f[j][2] <= f[i][2] + 1
    <3>1. {e[2], e[3]} = {f[i][1], s} /\ Expanded(f, n - 1, S)
      BY <2>1 DEF Walk
    <3>2. Near(f, s, f[i][2] + 1)
      BY <3>1 DEF Expanded
    <3> QED BY <3>2 DEF Near
  <2>3. j \in DOMAIN g /\ g[j] = f[j]
    BY <1>9, <1>10, <2>2
  <2> QED BY <2>1, <2>2, <2>3 DEF Near
<1>15. ASSUME NEW s \in rows PROVE Near(g, s, g[n][2] + 1)
  <2>1. CASE s \in T
    <3>1. PICK i \in 1..Len(order) : order[i] = s
      BY <1>2, <1>10, <2>1
    <3>2. PICK j \in Nat : j = Len(f) + i
      BY <1>10
    <3>3. j \in (Len(f) + 1)..Len(g) /\ j - Len(f) = i /\ j \in DOMAIN g
      BY <1>9, <1>10, <3>2
    <3>4. g[j][1] = order[i] /\ g[j][2] = D
      BY <1>9, <3>3
    <3>5. g[j][1] = s /\ g[j][2] <= D
      BY <1>4, <3>1, <3>4
    <3> QED BY <1>10, <3>3, <3>5 DEF Near
  <2>2. CASE s \notin T
    <3>1. PICK i \in DOMAIN f : f[i][1] = s
      BY <2>2 DEF T, Known
    <3>2. i \in DOMAIN g /\ g[i] = f[i]
      BY <1>9, <1>10, <3>1
    <3> QED BY <1>4, <1>10, <3>1, <3>2 DEF Near
  <2> QED BY <2>1, <2>2
<1>16. Walk(g, n, S, M)
  <2>1. g[n][2] < Depth /\ n \in DOMAIN g
    BY <1>10 DEF Walk
  <2> QED BY <1>7, <1>9, <1>10, <1>11, <1>12, <1>13, <1>14, <2>1 DEF Walk
<1> QED BY <1>9, <1>10, <1>15, <1>16

(* When the n-th is expanded the next one is, or the search is over.       *)
LEMMA StepWalk ==
  ASSUME NEW g, NEW n, NEW S, NEW M, Walk(g, n, S, M),
         \A e \in S, s \in Ids : {e[2], e[3]} = {g[n][1], s} => Near(g, s, g[n][2] + 1)
  PROVE  /\ Expanded(g, n, S)
         /\ n # Len(g) /\ ~(g[n + 1][2] > g[n][2] /\ g[n][2] + 1 = Depth)
              => Walk(g, n + 1, S, M)
<1>1. /\ g \in Seq(Ids \X (0..Depth)) /\ n \in 1..Len(g) /\ Len(g) \in Nat /\ Depth \in Nat
      /\ DOMAIN g = 1..Len(g) /\ \A j \in 1..Len(g) : g[j][2] \in Nat
  BY StoreAssumption DEF StoreAssumption, Walk
<1>2. Expanded(g, n, S)
  <2>1. \A i \in 1..n : i = n \/ i \in 1..(n - 1)
    BY <1>1
  <2> QED BY <2>1 DEF Walk, Expanded
<1>3. ASSUME n # Len(g), ~(g[n + 1][2] > g[n][2] /\ g[n][2] + 1 = Depth)
      PROVE  Walk(g, n + 1, S, M)
  <2>1. n + 1 \in 1..Len(g) /\ (n + 1) - 1 = n /\ n < n + 1
    BY <1>1, <1>3
  <2>2. g[n][2] <= g[n + 1][2] /\ g[n + 1][2] <= g[n][2] + 1
    BY <1>1, <2>1 DEF Walk, Once
  <2>3. g[n][2] < Depth
    BY DEF Walk
  <2>4. PICK a, b \in Nat : a = g[n][2] /\ b = g[n + 1][2]
    BY <1>1, <2>1
  <2>5. a <= b /\ b <= a + 1 /\ a < Depth /\ ~(b > a /\ a + 1 = Depth)
    BY <1>3, <2>2, <2>3, <2>4
  <2>6. b < Depth
    BY <1>1, <2>4, <2>5
  <2>7. \A j \in DOMAIN g : g[j][2] <= g[n + 1][2] + 1
    <3> TAKE j \in DOMAIN g
    <3>1. g[j][2] \in Nat /\ g[j][2] <= a + 1
      BY <1>1, <2>4 DEF Walk
    <3> QED BY <2>4, <2>5, <3>1
  <2>8. Expanded(g, (n + 1) - 1, S)
    BY <1>2, <2>1
  <2> QED BY <1>1, <2>1, <2>4, <2>6, <2>7, <2>8 DEF Walk
<1> QED BY <1>2, <1>3

Ended(g, n) ==
  \/ n = Len(g)
  \/ g[n + 1][2] > g[n][2] /\ (g[n][2] + 1 = Depth \/ Len(g) > Limit)
Cut(g) == SubSeq(g, 1, Min({Len(g), Limit + 1}))

LEMMA Lesser ==
  ASSUME NEW a \in Nat, NEW b \in Nat
  PROVE  LET m == Min({a, b}) IN m \in Nat /\ m <= a /\ m <= b /\ (m = a \/ m = b)
<1>1. \E x \in {a, b} : \A y \in {a, b} : x <= y
  OBVIOUS
<1>2. Min({a, b}) \in {a, b} /\ \A y \in {a, b} : Min({a, b}) <= y
  BY <1>1 DEF Min
<1> QED BY <1>2

(* The answer: the list is cut at Limit results when nothing is left, or   *)
(* the last round has ended, or one that made the list long enough.        *)
LEMMA CutAnswers ==
  ASSUME NEW g, NEW n, NEW S, NEW M, Walk(g, n, S, M), Expanded(g, n, S), Ended(g, n),
         NEW f, f = Cut(g)
  PROVE  f \in Seq(Ids \X (0..Depth)) /\ Answer(f, S, M)
<1>1. /\ g \in Seq(Ids \X (0..Depth)) /\ n \in 1..Len(g) /\ Len(g) \in Nat /\ Depth \in Nat
      /\ DOMAIN g = 1..Len(g) /\ \A j \in 1..Len(g) : g[j][2] \in Nat
      /\ Limit \in Nat \ {0}
  BY StoreAssumption DEF StoreAssumption, Walk
<1>2. PICK len, lim \in Nat : len = Len(g) /\ lim = Limit
  BY <1>1
<1>3. PICK m \in Nat :
        /\ m <= len /\ m <= lim + 1 /\ (m = len \/ m = lim + 1)
        /\ f \in Seq(Ids \X (0..Depth)) /\ Len(f) = m /\ DOMAIN f = 1..m
        /\ \A i \in 1..m : f[i] = g[i] /\ i \in 1..Len(g)
  <2>1. PICK m \in Nat : /\ f = SubSeq(g, 1, m)
                         /\ m <= len /\ m <= lim + 1 /\ (m = len \/ m = lim + 1)
    BY <1>2, Lesser DEF Cut
  <2>2. PICK X : X = Ids \X (0..Depth)
    OBVIOUS
  <2>3. g \in Seq(X) /\ m <= Len(g)
    BY <1>1, <1>2, <2>1, <2>2
  <2>4. f \in Seq(X) /\ Len(f) = m /\ \A i \in 1..m : f[i] = g[i]
    BY <2>1, <2>3
  <2>5. \A i \in 1..m : i \in 1..Len(g)
    BY <1>1, <2>3
  <2> QED BY <2>1, <2>2, <2>4, <2>5
<1>4. Once(f)
  <2>1. ASSUME NEW i \in 1..m, NEW j \in 1..m, i < j
        PROVE  f[i][1] # f[j][1] /\ f[i][2] <= f[j][2]
    <3>1. g[i][1] # g[j][1] /\ g[i][2] <= g[j][2]
      BY <1>1, <1>3, <2>1 DEF Walk, Once
    <3> QED BY <1>3, <3>1
  <2> QED BY <1>3, <2>1 DEF Once
<1>5. Reached(f, M)
  <2> SUFFICES ASSUME NEW j \in DOMAIN f \ {1}
               PROVE  \E i \in 1..(j - 1) :
                        f[j][2] = f[i][2] + 1 /\ <<f[i][1], f[j][1]>> \in M
    BY DEF Reached
  <2>1. j \in 1..m /\ j \in DOMAIN g \ {1} /\ f[j] = g[j]
    BY <1>1, <1>3
  <2>2. PICK i \in 1..(j - 1) : g[j][2] = g[i][2] + 1 /\ <<g[i][1], g[j][1]>> \in M
    BY <2>1 DEF Walk, Reached
  <2>3. i \in 1..m /\ f[i] = g[i]
    BY <1>3, <2>1
  <2> QED BY <2>1, <2>2, <2>3
<1>6. ASSUME NEW e \in S, NEW i \in 1..m, NEW s \in Ids,
             {e[2], e[3]} = {f[i][1], s}, f[i][2] < Depth
      PROVE  \/ Near(f, s, f[i][2] + 1)
             \/ Len(f) = Limit + 1 /\ \A j \in DOMAIN f : f[j][2] <= f[i][2] + 1
  <2>1. f[i] = g[i] /\ i \in 1..Len(g)
    BY <1>3
  <2>2. CASE i <= n
    <3>1. PICK k \in 1..Len(g) : g[k][1] = s /\ g[k][2] <= g[i][2] + 1
      <4>1. i \in 1..n
        BY <1>1, <2>1, <2>2
      <4>2. {e[2], e[3]} = {g[i][1], s}
        BY <1>6, <2>1
      <4>3. Near(g, s, g[i][2] + 1)
        BY <4>1, <4>2 DEF Expanded
      <4> QED BY <1>1, <4>3 DEF Near
    <3>2. CASE k <= m
      <4>1. k \in 1..m
        BY <1>1, <3>2
      <4> QED BY <1>3, <2>1, <3>1, <4>1 DEF Near
    <3>3. CASE m < k
      <4>1. m = Limit + 1 /\ m < k
        <5>1. k \in Nat /\ k <= len
          BY <1>2
        <5> QED BY <1>2, <1>3, <3>3, <5>1
      <4>2. ASSUME NEW j \in 1..m PROVE f[j][2] <= f[i][2] + 1
        <5>1. f[j] = g[j] /\ j \in 1..Len(g) /\ j < k
          BY <1>3, <4>1
        <5>2. g[j][2] <= g[k][2]
          BY <1>1, <5>1 DEF Walk, Once
        <5>3. g[j][2] \in Nat /\ g[k][2] \in Nat /\ g[i][2] \in Nat
          BY <1>1, <2>1, <5>1
        <5>4. g[j][2] <= g[i][2] + 1
          BY <3>1, <5>2, <5>3
        <5> QED BY <2>1, <5>1, <5>4
      <4> QED BY <1>3, <4>1, <4>2
    <3> QED BY <3>2, <3>3
  <2>3. CASE n < i
    <3>1. PICK a, b \in Nat : a = g[n][2] /\ b = g[i][2]
      BY <1>1, <2>1
    <3>2. n + 1 \in 1..Len(g) /\ n # Len(g) /\ g[n + 1][2] \in Nat
      <4>1. n \in Nat /\ i \in Nat /\ i <= len
        BY <1>1, <1>2, <2>1
      <4>2. n + 1 \in 1..len /\ n # len
        BY <2>3, <4>1
      <4> QED BY <1>1, <1>2, <4>2
    <3>3. g[n + 1][2] > g[n][2] /\ (g[n][2] + 1 = Depth \/ Len(g) > Limit)
      BY <3>2 DEF Ended
    <3>4. g[n + 1][2] <= g[i][2]
      <4>1. n + 1 = i \/ n + 1 < i
        BY <1>1, <2>1, <2>3
      <4>2. CASE n + 1 = i
        BY <3>2, <4>2
      <4>3. CASE n + 1 < i
        BY <1>1, <2>1, <3>2, <4>3 DEF Walk, Once
      <4> QED BY <4>1, <4>2, <4>3
    <3>5. a < b
      BY <3>1, <3>2, <3>3, <3>4
    <3>6. b < Depth
      BY <1>6, <2>1, <3>1
    <3>7. Len(g) > Limit
      BY <1>1, <3>1, <3>3, <3>5, <3>6
    <3>8. m = Limit + 1
      BY <1>2, <1>3, <3>7
    <3>9. ASSUME NEW j \in 1..m PROVE f[j][2] <= f[i][2] + 1
      <4>1. f[j] = g[j] /\ j \in DOMAIN g /\ g[j][2] \in Nat
        BY <1>1, <1>3
      <4>2. g[j][2] <= a + 1
        BY <3>1, <4>1 DEF Walk
      <4>3. g[j][2] <= b + 1
        BY <3>1, <3>5, <4>1, <4>2
      <4> QED BY <2>1, <3>1, <4>1, <4>3
    <3> QED BY <1>3, <3>8, <3>9
  <2> QED BY <1>1, <2>1, <2>2, <2>3
<1>7. Len(f) <= Limit + 1
  BY <1>2, <1>3
<1> QED BY <1>3, <1>4, <1>5, <1>6, <1>7 DEF Answer

-----------------------------------------------------------------------------
(* The searches beside everything else.                                    *)

\* A call inserts its entity last.
Own == \A q \in Calls : entities[q] # NoRow => At(q, "ok")

SearchOf(q) ==
  /\ Searching(q) =>
       /\ Walk(found[q], next[q], stood[q], met[q])
       /\ stood[q] \subseteq Standing /\ Meetings \subseteq met[q]
  /\ At(q, "incoming") =>
       \A e \in stood[q] :
         e[2] = Current(q)[1] => Near(found[q], e[3], Current(q)[2] + 1)
  /\ At(q, "found") => Answer(found[q], stood[q], met[q])

SInv == SearchTyped /\ Own /\ \A q \in Calls : SearchOf(q)

LEMMA InitSInv == Init => SInv
<1> SUFFICES ASSUME Init PROVE SInv
  OBVIOUS
<1>1. \A q \in Calls : call[q].at = "new"
  BY DEF Init, NoCall
<1>2. SearchTyped
  BY StoreAssumption DEF StoreAssumption, Init, SearchTyped
<1>3. Own
  BY StoreAssumption DEF StoreAssumption, Init, Own, Stored
<1> QED BY <1>1, <1>2, <1>3 DEF SInv, SearchOf, Searching, At

(* Less that stood, and more that was met, is no harm to a search.         *)
LEMMA WeakerSearch ==
  ASSUME NEW q \in Calls, SearchOf(q), call'[q].at = call[q].at,
         found'[q] = found[q], next'[q] = next[q],
         stood'[q] \subseteq stood[q], met[q] \subseteq met'[q],
         Searching(q) => stood'[q] \subseteq Standing' /\ Meetings' \subseteq met'[q]
  PROVE  SearchOf(q)'
<1>1. (Searching(q)' <=> Searching(q)) /\ Current(q)' = Current(q)
  BY DEF Searching, Current
<1>2. \A f : Reached(f, met[q]) => Reached(f, met'[q])
  BY DEF Reached
<1>3. \A f, n : Walk(f, n, stood[q], met[q]) => Walk(f, n, stood'[q], met'[q])
  BY <1>2 DEF Walk, Expanded
<1>4. \A f : Answer(f, stood[q], met[q]) => Answer(f, stood'[q], met'[q])
  BY <1>2 DEF Answer
<1>5. Searching(q)' => /\ Walk(found[q], next[q], stood'[q], met'[q])
                       /\ stood'[q] \subseteq Standing' /\ Meetings' \subseteq met'[q]
  BY <1>1, <1>3 DEF SearchOf
<1>6. At(q, "incoming")' => \A e \in stood'[q] :
         e[2] = Current(q)[1] => Near(found[q], e[3], Current(q)[2] + 1)
  BY DEF SearchOf, At
<1>7. At(q, "found")' => Answer(found[q], stood'[q], met'[q])
  BY <1>4 DEF SearchOf, At
<1> QED BY <1>1, <1>5, <1>6, <1>7 DEF SearchOf

(* The calls that write: what stood for a search goes on standing, or it   *)
(* is dropped; whom it may run into is noted.                              *)
LEMMA WritersKeepSearches ==
  ASSUME IInv, IInv', SInv, NEW q \in Calls,
         \/ \E p \in Paths : Watch(q, p) \/ Unwatch(q, p)
         \/ WatchLink(q)
         \/ \E project \in Ids, key \in Keys, content \in Contents :
              UpsertByHash(q, project, key, content)
         \/ ReadExisting(q) \/ Create(q) \/ Update(q)
         \/ \E r, s \in Ids : SoftDelete(q, r) \/ RemoveEdgesFor(q, r) \/ AddEdge(q, r, s)
  PROVE  SInv'
<1> DEFINE
    Apart ==
      /\ \A t \in Calls \ {q} : call'[t] = call[t]
      /\ call[q].at \notin {"outgoing", "incoming", "found", "ok"}
      /\ call'[q].at \notin {"outgoing", "incoming", "found"}
    Weaker ==
      /\ \A t \in Calls : /\ stood'[t] \subseteq stood[t] /\ met[t] \subseteq met'[t]
                          /\ Searching(t) => stood'[t] \subseteq Standing'
                                             /\ Meetings' \subseteq met'[t]
      /\ stood' \in [Calls -> SUBSET (Ids \X Ids \X Ids)]
      /\ met' \in [Calls -> SUBSET (Ids \X Ids)]
    Inserted == \A t \in Calls :
      entities'[t] # NoRow => entities[t] # NoRow \/ call'[t].at = "ok"
<1>1. Apart
  <2> USE DEF IInv, StoreTyped, At, Goto
  <2>1. CASE (\E p \in Paths : Watch(q, p) \/ Unwatch(q, p)) \/ WatchLink(q)
    <3>1. CASE WatchLink(q)
      BY <3>1 DEF WatchLink
    <3>2. ASSUME NEW p \in Paths, Watch(q, p) PROVE Apart
      <4>1. /\ call[q].at = "new"
            /\ call' = [call EXCEPT ![q] = [@ EXCEPT !.at = "link", !.path = p]]
        BY <3>2 DEF Watch
      <4>2. call'[q] = [call[q] EXCEPT !.at = "link", !.path = p]
            /\ \A t \in Calls \ {q} : call'[t] = call[t]
        BY <4>1
      <4>3. call'[q].at = "link"
        BY <4>2
      <4> QED BY <4>1, <4>2, <4>3
    <3>3. ASSUME NEW p \in Paths, Unwatch(q, p) PROVE Apart
      BY <3>3 DEF Unwatch
    <3> QED BY <2>1, <3>1, <3>2, <3>3
  <2>2. ASSUME NEW project \in Ids, NEW key \in Keys, NEW content \in Contents,
               UpsertByHash(q, project, key, content)
        PROVE  Apart
    BY <2>2 DEF UpsertByHash
  <2>3. CASE ReadExisting(q)
    BY <2>3 DEF ReadExisting
  <2>4. CASE Create(q) \/ Update(q)
    BY <2>4 DEF Create, Update
  <2>5. CASE \E r, s \in Ids : SoftDelete(q, r) \/ RemoveEdgesFor(q, r) \/ AddEdge(q, r, s)
    BY <2>5 DEF SoftDelete, RemoveEdgesFor, AddEdge
  <2> QED BY <2>1, <2>2, <2>3, <2>4, <2>5
<1>2. UNCHANGED <<found, next>>
  BY DEF Watch, Unwatch, WatchLink, UpsertByHash, ReadExisting, Create, Update, SoftDelete,
     RemoveEdgesFor, AddEdge, Observed, search
<1>3. Weaker
  <2> USE DEF SInv, SearchTyped
  <2>1. CASE Observed
    <3>1. Meetings' \subseteq Ids \X Ids
      BY DEF Meetings, Rows, Live
    <3>2. \A t \in Calls :
            /\ stood'[t] = IF Searching(t) THEN stood[t] \cap Standing' ELSE stood[t]
            /\ met'[t] = IF Searching(t) THEN met[t] \cup Meetings' ELSE met[t]
      BY <2>1 DEF Observed
    <3>3. stood' \in [Calls -> SUBSET (Ids \X Ids \X Ids)]
      <4>1. \A t \in Calls : (IF Searching(t) THEN stood[t] \cap Standing' ELSE stood[t])
                               \in SUBSET (Ids \X Ids \X Ids)
        OBVIOUS
      <4> QED BY <2>1, <4>1 DEF Observed
    <3>4. met' \in [Calls -> SUBSET (Ids \X Ids)]
      <4>1. \A t \in Calls : (IF Searching(t) THEN met[t] \cup Meetings' ELSE met[t])
                               \in SUBSET (Ids \X Ids)
        BY <3>1
      <4> QED BY <2>1, <4>1 DEF Observed
    <3> QED BY <3>2, <3>3, <3>4
  <2>2. ASSUME UNCHANGED <<stood, met>>, Standing \subseteq Standing', Meetings' \subseteq Meetings
        PROVE  Weaker
    BY <2>2 DEF SearchOf
  <2>3. CASE UNCHANGED <<entities, edges, search>>
    <3>1. Standing' = Standing /\ Meetings' = Meetings
      BY <2>3 DEF Standing, Meetings, Neighbors, Rows, Live
    <3> QED BY <2>2, <2>3, <3>1 DEF search
  <2>4. CASE Create(q)
    <3>1. q \in Ids /\ q \notin Rows /\ edges \subseteq Ids \X Rows \X Rows
      BY <1>1 DEF Own, Rows, Ids, At, IInv, StoreTyped
    <3>2. /\ \A i \in Ids \ {q} : entities'[i] = entities[i]
          /\ edges' = edges /\ UNCHANGED search
      BY <2>4 DEF Create
    <3>3. \A i \in Rows : i \in Rows' /\ (i \in Live <=> i \in Live')
      BY <3>1, <3>2 DEF Rows, Live
    <3>4. Standing' = Standing
      BY <3>1, <3>2, <3>3 DEF Standing
    <3>5. Meetings' \subseteq Meetings
      <4>1. ASSUME NEW r, NEW s, NEW e \in edges, {e[2], e[3]} = {r, s}
            PROVE  r \in Rows /\ s \in Rows
        BY <3>1, <4>1
      <4> QED BY <3>2, <3>3, <4>1 DEF Meetings, Neighbors
    <3> QED BY <2>2, <3>2, <3>4, <3>5 DEF search
  <2>5. CASE Update(q)
    <3>1. PICK r \in Rows, c \in Contents :
            /\ entities' = [entities EXCEPT ![r] = [entities[r] EXCEPT !.content = c]]
            /\ [entities[r] EXCEPT !.content = c] \in Entity
            /\ edges' = edges /\ UNCHANGED search
      <4>1. call[q].row \in Rows /\ call[q].content \in Contents
        BY <2>5 DEF Update, At, IInv, StoreTyped
      <4>2. entities[call[q].row] \in Entity
        BY <4>1 DEF IInv, StoreTyped, Rows
      <4>3. [entities[call[q].row] EXCEPT !.content = call[q].content] \in Entity
        BY <4>1, <4>2 DEF Entity
      <4> QED BY <2>5, <4>1, <4>3 DEF Update
    <3>2. entities[r] \in Entity /\ r \in Ids /\ entities \in [Ids -> Entity \cup {NoRow}]
      BY DEF IInv, StoreTyped, Rows
    <3>3. [entities[r] EXCEPT !.content = c].live = entities[r].live /\ NoRow \notin Entity
      BY <3>2, StoreAssumption DEF Entity, StoreAssumption
    <3>4. Rows' = Rows /\ Live' = Live
      BY <3>1, <3>2, <3>3 DEF Rows, Live
    <3>5. Standing' = Standing /\ Meetings' = Meetings
      BY <3>1, <3>4 DEF Standing, Meetings, Neighbors
    <3> QED BY <2>2, <3>1, <3>5 DEF search
  <2> QED
    BY <2>1, <2>3, <2>4, <2>5 DEF Watch, Unwatch, WatchLink, UpsertByHash, ReadExisting,
       SoftDelete, RemoveEdgesFor, AddEdge
<1>4. SearchTyped'
  BY <1>2, <1>3 DEF SInv, SearchTyped
<1>5. Own'
  <2>1. Inserted
    <3> USE DEF IInv, StoreTyped
    <3>1. CASE UNCHANGED entities
      BY <3>1
    <3>2. CASE Create(q)
      BY <3>2 DEF Create, Goto, Ids
    <3>3. CASE Update(q)
      BY <3>3 DEF Update, At, Rows
    <3>4. ASSUME NEW r \in Ids, SoftDelete(q, r) PROVE Inserted
      BY <3>4 DEF SoftDelete, Live, Rows
    <3> QED
      BY <3>1, <3>2, <3>3, <3>4 DEF Watch, Unwatch, WatchLink, UpsertByHash, ReadExisting,
         RemoveEdgesFor, AddEdge
  <2>2. \A t \in Calls : entities[t] # NoRow => call'[t].at = "ok"
    BY <1>1 DEF SInv, Own, At
  <2> QED BY <2>1, <2>2 DEF Own, At
<1>6. ASSUME NEW t \in Calls PROVE SearchOf(t)'
  <2>1. CASE t = q
    BY <1>1, <2>1 DEF SearchOf, Searching, At
  <2>2. CASE t # q
    BY <1>1, <1>2, <1>3, <2>2, WeakerSearch DEF SInv
  <2> QED BY <2>1, <2>2
<1> QED BY <1>4, <1>5, <1>6 DEF SInv

(* A search keeps to itself.                                               *)
LEMMA OtherSearches ==
  ASSUME IInv, SInv, NEW q \in Calls, UNCHANGED <<entities, edges>>,
         call[q].at \in {"new", "outgoing", "incoming"},
         \A t \in Calls \ {q} : /\ call'[t] = call[t] /\ found'[t] = found[t]
                                /\ next'[t] = next[t] /\ stood'[t] = stood[t]
                                /\ met'[t] = met[t],
         SearchTyped', SearchOf(q)'
  PROVE  SInv'
<1>1. Standing' = Standing /\ Meetings' = Meetings
  BY DEF Standing, Meetings, Neighbors, Rows, Live
<1>2. ASSUME NEW t \in Calls \ {q} PROVE SearchOf(t)'
  <2>1. SearchOf(t)
    BY DEF SInv
  <2> QED BY <1>1, <2>1, WeakerSearch DEF SearchOf
<1>3. Own'
  BY DEF SInv, Own, At
<1> QED BY <1>2, <1>3 DEF SInv

LEMMA BeginKeeps ==
  ASSUME IInv, SInv, NEW q \in Calls, NEW r \in Ids, GetNeighbors(q, r)
  PROVE  SInv'
<1> USE DEF SInv, SearchTyped, IInv, StoreTyped
<1>1. /\ call' = [call EXCEPT ![q].at = "outgoing"] /\ UNCHANGED <<entities, edges>>
      /\ found' = [found EXCEPT ![q] = <<<<r, 0>>>>] /\ next' = [next EXCEPT ![q] = 1]
      /\ stood' = [stood EXCEPT ![q] = Standing] /\ met' = [met EXCEPT ![q] = Meetings]
      /\ call[q].at = "new" /\ Depth \in Nat /\ 0 < Depth
  BY StoreAssumption DEF StoreAssumption, GetNeighbors, Goto, At
<1>2. Standing' = Standing /\ Meetings' = Meetings
  BY <1>1 DEF Standing, Meetings, Neighbors, Rows, Live
<1>3. <<<<r, 0>>>> \in Seq(Ids \X (0..Depth))
  BY <1>1
<1>4. Standing \in SUBSET (Ids \X Ids \X Ids) /\ Meetings \in SUBSET (Ids \X Ids)
  BY DEF Standing, Meetings, Rows, Live
<1>5. SearchTyped'
  BY <1>1, <1>3, <1>4
<1>6. Walk(<<<<r, 0>>>>, 1, Standing, Meetings)
  <2>1. /\ Len(<<<<r, 0>>>>) = 1 /\ DOMAIN <<<<r, 0>>>> = {1}
        /\ <<<<r, 0>>>>[1] = <<r, 0>>
    OBVIOUS
  <2>2. PICK f : f = <<<<r, 0>>>>
    OBVIOUS
  <2>3. DOMAIN f = {1} /\ f[1][2] = 0 /\ f \in Seq(Ids \X (0..Depth)) /\ 1..0 = {} /\ 1 - 1 = 0
    BY <1>3, <2>1, <2>2
  <2>4. Once(f) /\ Reached(f, Meetings) /\ Expanded(f, 0, Standing)
    BY <2>3 DEF Once, Reached, Expanded
  <2>5. Walk(f, 1, Standing, Meetings)
    BY <1>1, <2>3, <2>4 DEF Walk
  <2> QED BY <2>2, <2>5
<1>7. SearchOf(q)'
  <2>1. /\ call'[q].at = "outgoing" /\ found'[q] = <<<<r, 0>>>> /\ next'[q] = 1
        /\ stood'[q] = Standing /\ met'[q] = Meetings
    BY <1>1
  <2> QED BY <1>2, <1>6, <2>1 DEF SearchOf, Searching, At
<1>8. \A t \in Calls \ {q} : /\ call'[t] = call[t] /\ found'[t] = found[t]
                             /\ next'[t] = next[t] /\ stood'[t] = stood[t]
                             /\ met'[t] = met[t]
  BY <1>1
<1> HIDE DEF SInv, SearchTyped, IInv, StoreTyped
<1> QED BY <1>1, <1>5, <1>7, <1>8, OtherSearches

(* A query of the search q: its rows are neighbours now, so they are met,  *)
(* and an edge that stood leads to a row of it.                            *)
LEMMA QueryExtends ==
  ASSUME IInv, SInv, NEW q \in Calls, Searching(q), NEW rows,
         rows \subseteq Neighbors(Current(q)[1]), NEW list \in Extended(q, rows)
  PROVE  /\ Walk(list, next[q], stood[q], met[q])
         /\ list[next[q]] = Current(q)
         /\ \A j \in DOMAIN found[q] : j \in DOMAIN list /\ list[j] = found[q][j]
         /\ \A s \in rows : Near(list, s, Current(q)[2] + 1)
<1> DEFINE f == found[q]
           n == next[q]
<1>1. Walk(f, n, stood[q], met[q]) /\ Meetings \subseteq met[q]
  BY DEF SInv, SearchOf
<1>2. Visited(q) = Known(f)
  BY DEF Visited, ToSet, Known
<1>3. PICK order \in SetToSeqs(rows \ Visited(q)) :
        list = f \o [i \in DOMAIN order |-> <<order[i], Current(q)[2] + 1>>]
  BY DEF Extended
<1>4. f[n] = Current(q) /\ n \in DOMAIN f
  BY <1>1 DEF Current, Walk
<1>5. Met(f, n, rows, met[q])
  <2> SUFFICES ASSUME NEW s \in rows PROVE s \in Ids /\ <<f[n][1], s>> \in met[q]
    BY DEF Met
  <2>1. s \in Live /\ s \in Neighbors(f[n][1])
    BY <1>4 DEF Neighbors
  <2>2. f[n][1] \in Rows
    BY <2>1 DEF Neighbors, IInv, StoreTyped
  <2>3. s \in Ids /\ <<f[n][1], s>> \in Rows \X Live
    BY <2>1, <2>2 DEF Live, Rows
  <2> QED BY <1>1, <2>1, <2>3 DEF Meetings
<1> HIDE DEF f, n
<1>6. Adds(f, n, rows, list)
  BY <1>2, <1>3, <1>4 DEF Adds
<1>7. /\ Walk(list, n, stood[q], met[q])
      /\ \A j \in DOMAIN f : j \in DOMAIN list /\ list[j] = f[j]
      /\ \A s \in rows : Near(list, s, list[n][2] + 1)
  BY <1>1, <1>5, <1>6, ExtendWalk
<1> QED BY <1>4, <1>7 DEF f, n

LEMMA OutgoingKeeps ==
  ASSUME IInv, SInv, NEW q \in Calls, QueryOutgoing(q)
  PROVE  SInv'
<1>1. PICK list \in Extended(q, Outgoing(Current(q)[1])) :
        found' = [found EXCEPT ![q] = list]
  BY DEF QueryOutgoing
<1>2. /\ call' = [call EXCEPT ![q].at = "incoming"] /\ call[q].at = "outgoing"
      /\ UNCHANGED <<entities, edges, next, stood, met>>
  BY DEF QueryOutgoing, Goto, At
<1>3. Searching(q) /\ Outgoing(Current(q)[1]) \subseteq Neighbors(Current(q)[1])
  BY <1>2 DEF Searching, Outgoing, Neighbors
<1>4. /\ Walk(list, next[q], stood[q], met[q]) /\ list[next[q]] = Current(q)
      /\ \A s \in Outgoing(Current(q)[1]) : Near(list, s, Current(q)[2] + 1)
  BY <1>3, QueryExtends
<1>5. found'[q] = list /\ call'[q].at = "incoming" /\ Current(q)' = Current(q)
  BY <1>1, <1>2, <1>4 DEF SInv, SearchTyped, IInv, StoreTyped, Current
<1>6. SearchTyped'
  BY <1>1, <1>2, <1>4 DEF SInv, SearchTyped, Walk
<1>7. Standing' = Standing /\ Meetings' = Meetings
  BY <1>2 DEF Standing, Meetings, Neighbors, Rows, Live
<1>8. stood[q] \subseteq Standing /\ Meetings \subseteq met[q]
  BY <1>3 DEF SInv, SearchOf
<1>9. \A e \in stood[q] : e[2] = Current(q)[1] => Near(list, e[3], Current(q)[2] + 1)
  BY <1>4, <1>8 DEF Standing, Outgoing
<1>10. SearchOf(q)'
  BY <1>2, <1>4, <1>5, <1>7, <1>8, <1>9 DEF SearchOf, Searching, At
<1>11. \A t \in Calls \ {q} : /\ call'[t] = call[t] /\ found'[t] = found[t]
                              /\ next'[t] = next[t] /\ stood'[t] = stood[t]
                              /\ met'[t] = met[t]
  BY <1>1, <1>2 DEF SInv, SearchTyped, IInv, StoreTyped
<1> QED BY <1>2, <1>6, <1>10, <1>11, OtherSearches

LEMMA IncomingKeeps ==
  ASSUME IInv, SInv, NEW q \in Calls, QueryIncoming(q)
  PROVE  SInv'
<1> DEFINE n == next[q]
<1>1. PICK list \in Extended(q, Incoming(Current(q)[1])) :
        IF Over(q, list)
          THEN /\ found' = [found EXCEPT ![q] = SubSeq(list, 1, Min({Len(list), Limit + 1}))]
               /\ Goto(q, "found") /\ UNCHANGED next
          ELSE /\ found' = [found EXCEPT ![q] = list]
               /\ next' = [next EXCEPT ![q] = n + 1] /\ Goto(q, "outgoing")
  BY DEF QueryIncoming
<1>2. call[q].at = "incoming" /\ UNCHANGED <<entities, edges, stood, met>>
  BY DEF QueryIncoming, At
<1>3. Searching(q) /\ Incoming(Current(q)[1]) \subseteq Neighbors(Current(q)[1])
  BY <1>2 DEF Searching, Incoming, Neighbors
<1>4. /\ Walk(list, n, stood[q], met[q]) /\ list[n] = Current(q)
      /\ \A j \in DOMAIN found[q] : j \in DOMAIN list /\ list[j] = found[q][j]
      /\ \A s \in Incoming(Current(q)[1]) : Near(list, s, Current(q)[2] + 1)
  BY <1>3, QueryExtends
<1>5. Standing' = Standing /\ Meetings' = Meetings
  BY <1>2 DEF Standing, Meetings, Neighbors, Rows, Live
<1>6. stood[q] \subseteq Standing /\ Meetings \subseteq met[q]
  BY <1>3 DEF SInv, SearchOf
<1>7. ASSUME NEW e \in stood[q], NEW s \in Ids, {e[2], e[3]} = {list[n][1], s}
      PROVE  Near(list, s, list[n][2] + 1)
  <2>1. CASE e[2] = list[n][1] /\ e[3] = s
    <3>1. Near(found[q], s, Current(q)[2] + 1)
      BY <1>2, <1>4, <2>1 DEF SInv, SearchOf, At
    <3> QED BY <1>4, <3>1 DEF Near
  <2>2. CASE e[3] = list[n][1] /\ e[2] = s
    <3>1. s \in Incoming(Current(q)[1])
      BY <1>4, <1>6, <2>2 DEF Standing, Incoming
    <3> QED BY <1>4, <3>1
  <2> QED BY <1>7, <2>1, <2>2
<1>8. /\ Expanded(list, n, stood[q])
      /\ n # Len(list) /\ ~(list[n + 1][2] > list[n][2] /\ list[n][2] + 1 = Depth)
           => Walk(list, n + 1, stood[q], met[q])
  BY <1>4, <1>7, StepWalk
<1>9. CASE Over(q, list)
  <2>1. PICK near : near = SubSeq(list, 1, Min({Len(list), Limit + 1}))
    OBVIOUS
  <2>2. near \in Seq(Ids \X (0..Depth)) /\ Answer(near, stood[q], met[q])
    <3>1. Ended(list, n)
      BY <1>4, <1>9 DEF Over, Ended
    <3> QED BY <1>4, <1>8, <2>1, <3>1, CutAnswers DEF Cut
  <2>3. /\ found' = [found EXCEPT ![q] = near] /\ next' = next
        /\ call' = [call EXCEPT ![q].at = "found"]
    BY <1>1, <1>9, <2>1 DEF Goto
  <2>4. found'[q] = near /\ call'[q].at = "found"
    BY <2>3 DEF SInv, SearchTyped, IInv, StoreTyped
  <2>5. SearchTyped'
    BY <1>2, <2>2, <2>3 DEF SInv, SearchTyped
  <2>6. SearchOf(q)'
    BY <1>2, <2>2, <2>4 DEF SearchOf, Searching, At
  <2>7. \A t \in Calls \ {q} : /\ call'[t] = call[t] /\ found'[t] = found[t]
                               /\ next'[t] = next[t] /\ stood'[t] = stood[t]
                               /\ met'[t] = met[t]
    BY <1>2, <2>3 DEF SInv, SearchTyped, IInv, StoreTyped
  <2> QED BY <1>2, <2>5, <2>6, <2>7, OtherSearches
<1>10. CASE ~Over(q, list)
  <2>1. /\ found' = [found EXCEPT ![q] = list] /\ next' = [next EXCEPT ![q] = n + 1]
        /\ call' = [call EXCEPT ![q].at = "outgoing"]
    BY <1>1, <1>10 DEF Goto
  <2>2. Walk(list, n + 1, stood[q], met[q])
    BY <1>4, <1>8, <1>10 DEF Over
  <2>3. found'[q] = list /\ next'[q] = n + 1 /\ call'[q].at = "outgoing" /\ n + 1 \in Nat
    BY <2>1 DEF SInv, SearchTyped, IInv, StoreTyped
  <2> HIDE DEF n
  <2>4. SearchTyped'
    BY <1>2, <2>1, <2>2, <2>3 DEF SInv, SearchTyped, Walk
  <2>5. SearchOf(q)'
    BY <1>2, <1>5, <1>6, <2>2, <2>3 DEF SearchOf, Searching, At
  <2>6. \A t \in Calls \ {q} : /\ call'[t] = call[t] /\ found'[t] = found[t]
                               /\ next'[t] = next[t] /\ stood'[t] = stood[t]
                               /\ met'[t] = met[t]
    BY <1>2, <2>1 DEF SInv, SearchTyped, IInv, StoreTyped
  <2> QED BY <1>2, <2>4, <2>5, <2>6, OtherSearches
<1> QED BY <1>9, <1>10

LEMMA NextSInv == IInv /\ SInv /\ [Next]_vars => SInv'
<1> SUFFICES ASSUME IInv, SInv, [Next]_vars PROVE SInv'
  OBVIOUS
<1>1. IInv'
  BY NextIInv
<1>2. CASE Next
  <2>1. PICK q \in Calls :
          \/ \E p \in Paths : Watch(q, p) \/ Unwatch(q, p)
          \/ WatchLink(q)
          \/ \E project \in Ids, key \in Keys, content \in Contents :
               UpsertByHash(q, project, key, content)
          \/ ReadExisting(q) \/ Create(q) \/ Update(q)
          \/ \E r, s \in Ids : SoftDelete(q, r) \/ RemoveEdgesFor(q, r) \/ AddEdge(q, r, s)
          \/ (\E r \in Ids : GetNeighbors(q, r)) \/ QueryOutgoing(q) \/ QueryIncoming(q)
    BY <1>2 DEF Next
  <2> QED
    BY <1>1, <2>1, WritersKeepSearches, BeginKeeps, OutgoingKeeps, IncomingKeeps
<1>3. CASE UNCHANGED vars
  <2>1. UNCHANGED <<entities, edges, call, found, next, stood, met>>
    BY <1>3 DEF vars, search
  <2>2. Standing' = Standing /\ Meetings' = Meetings
    BY <2>1 DEF Standing, Meetings, Neighbors, Rows, Live
  <2>3. ASSUME NEW q \in Calls PROVE SearchOf(q)'
    <3>1. SearchOf(q)
      BY DEF SInv
    <3> QED BY <2>1, <2>2, <3>1, WeakerSearch DEF SearchOf
  <2> QED BY <2>1, <2>3 DEF SInv, SearchTyped, Own, At
<1> QED BY <1>2, <1>3

-----------------------------------------------------------------------------
(* The theorems                                                            *)

(* The inductive invariant.                                                *)
THEOREM Inductive == Spec => [](IInv /\ SInv)
<1>1. Init => IInv /\ SInv
  BY InitIInv, InitSInv
<1>2. IInv /\ SInv /\ [Next]_vars => (IInv /\ SInv)'
  BY NextIInv, NextSInv
<1> QED BY <1>1, <1>2, PTL DEF Spec

(* Tables and calls keep their types; edges join rows that exist.          *)
THEOREM TypeCorrect == Spec => []TypeOK
<1>1. IInv /\ SInv => TypeOK
  BY DEF IInv, SInv, TypeOK
<1> QED BY <1>1, Inductive, PTL

(* watch.py:21-28: whatever requests overlap, a watched path leads to its  *)
(* project, and whoever was answered "watching" is watched.                *)
THEOREM AnsweredPathsAreWatched == Spec => []WatchingIsWatched
<1>1. IInv => WatchingIsWatched
  BY DEF IInv
<1> QED BY <1>1, Inductive, PTL

(* entities.py:119-143: while no two upserts of one name overlap, it has   *)
(* one live entity.                                                        *)
THEOREM NamesAreUnique == Spec => []OneEntityPerName
<1>1. IInv => OneEntityPerName
  BY DEF IInv
<1> QED BY <1>1, Inductive, PTL

(* graph.py:65-113: whatever changes under it, a search answers entities   *)
(* it met, once, nearest first and within the limit, and what an edge that *)
(* stood leads to is among them unless others as near have filled it.      *)
THEOREM StandingNeighborsAreFound == Spec => []NeighborsAreFound
<1>1. SInv => \A q \in Calls : At(q, "found") => Answer(found[q], stood[q], met[q])
  BY DEF SInv, SearchOf
<1>2. SInv => NeighborsAreFound
  <2> SUFFICES ASSUME SInv PROVE NeighborsAreFound
    OBVIOUS
  <2>1. ASSUME NEW q \in Calls, At(q, "found"), NEW f, f = found[q]
        PROVE  LET Places == DOMAIN f
                   Id(i) == f[i][1]
                   Distance(i) == f[i][2]
               IN  /\ Len(f) <= Limit + 1
                   /\ \A i, j \in Places : i < j => Id(i) # Id(j) /\ Distance(i) <= Distance(j)
                   /\ \A j \in Places \ {1} : \E i \in 1..(j - 1) :
                        Distance(j) = Distance(i) + 1 /\ <<Id(i), Id(j)>> \in met[q]
                   /\ \A e \in stood[q], i \in Places, s \in Ids :
                        {e[2], e[3]} = {Id(i), s} /\ Distance(i) < Depth
                        => \/ \E j \in Places : Id(j) = s /\ Distance(j) <= Distance(i) + 1
                           \/ Len(f) = Limit + 1
                              /\ \A j \in Places : Distance(j) <= Distance(i) + 1
    <3>1. Answer(f, stood[q], met[q])
      BY <1>1, <2>1
    <3> QED BY <3>1 DEF Answer, Once, Reached, Near
  <2> QED BY <2>1 DEF NeighborsAreFound
<1> QED BY <1>2, Inductive, PTL
=============================================================================
