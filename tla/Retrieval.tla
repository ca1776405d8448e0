----------------------------- MODULE Retrieval ------------------------------
(***************************************************************************)
(* One request for context: ContextAssembler.assemble of brain/context.py  *)
(* over UnifiedSearch.search of memory/search.py, search_related of        *)
(* memory/graph.py and VectorStore of memory/vectors.py.                   *)
(*                                                                         *)
(* The search reads the database in many queries, one per await, and       *)
(* entities, edges, texts and vectors change between them.  How well FTS5  *)
(* and sqlite-vec find an entity to match is a number, the lower the       *)
(* better; scores are exact, in units that all the fractions               *)
(* 1/(RRF_K + rank + 1) are whole numbers of.                              *)
(***************************************************************************)
EXTENDS Integers, Sequences, FiniteSets, Functions

CONSTANTS
  Entity,
  Project,      \* the entities of the project that is asked about
  Deleted,      \* inputs: what may have been deleted before the request
  Links,        \* inputs: the edges there may be before it
  Texts,        \* inputs: how well entities match the query before it
  Vectors,      \* inputs: how near their vectors are
  Worst,        \* bound: matches are 1..Worst; 0 is no match, or no vector
  Limits,       \* inputs: how many results are asked for
  Budgets,      \* inputs: budget arguments in tokens; 0 stands for None too
  MaxTokens,    \* max_context_tokens
  Length,       \* Length[e]: characters of the formatted entry of e
  Tokens,       \* Tokens[e]: what the tokenizer counts for it
  Dense, Slack, \* a text of n tokens has Dense * n + Slack characters at most:
                \* 4 and 3 where len(text) // 4 counts; with tiktoken the length
                \* of the longest token and 0
  RRF_K,        \* 60
  Unit,         \* one, in units of a score
  Expanded,     \* 5: text matches whose neighbours are looked up
  Fanout,       \* 10: neighbours taken of each
  MaxWrites     \* bound: changes of the database during the request

ASSUME RetrievalAssumption ==
  /\ IsFiniteSet(Entity) /\ Project \subseteq Entity
  /\ Deleted \subseteq SUBSET Entity /\ Links \subseteq SUBSET (Entity \X Entity)
  /\ Worst \in Nat /\ Texts \cup Vectors \subseteq [Entity -> 0..Worst]
  /\ Limits \subseteq Nat /\ Budgets \subseteq Nat /\ MaxTokens \in Nat
  /\ Length \in [Entity -> Nat] /\ Tokens \in [Entity -> Nat]
  /\ Dense \in Nat /\ Dense >= 4 /\ Slack \in Nat
  /\ \A e \in Entity : Length[e] <= Dense * Tokens[e] + Slack
  /\ Expanded \in Nat /\ Fanout \in Nat /\ MaxWrites \in Nat

\* Every share of a score is a whole number of units.
ASSUME UnitAssumption ==
  /\ Unit \in Nat \ {0} /\ RRF_K \in Nat
  /\ \A r \in 1..Cardinality(Entity) : (RRF_K + r) * (Unit \div (RRF_K + r)) = Unit

VARIABLES
  live,         \* entities that are not soft-deleted
  edges,
  texts,        \* texts[e]: how well the text of e matches the query
  vectors,      \* vectors[e]: how near the vector of e is
  writes,       \* counts MaxWrites
  wasLive,      \* history: entities live at some time of the request
  wasEdge,      \* history: edges there at some time of the request
  pc,
  limit, budget,   \* arguments
  fts,          \* fts_results
  graph,        \* the keys of all_results, later graph_results
  matches,      \* how many of them the text query of the graph found
  front,        \* the match whose neighbours are looked up
  near,         \* the targets of its edges
  vec,          \* vector_results
  results,
  next,         \* the result to be packed
  used, chars, entries   \* used_tokens; characters and entries of packed

database == <<live, edges, texts, vectors, writes, wasLive, wasEdge>>
arguments == <<limit, budget>>
sources == <<fts, graph, matches, front, near, vec>>
packing == <<next, used, chars, entries>>
vars == <<database, pc, arguments, sources, results, packing>>

\* A ranking names no entity twice.
Ranking(s) == s \in Seq(Entity) /\ IsInjective(s)

TypeOK ==
  /\ live \subseteq Entity /\ edges \subseteq Entity \X Entity
  /\ texts \in [Entity -> 0..Worst] /\ vectors \in [Entity -> 0..Worst]
  /\ wasLive \subseteq Entity /\ wasEdge \subseteq Entity \X Entity
  /\ writes \in 0..MaxWrites
  /\ pc \in {"fts", "graph", "out", "in", "vectors", "fuse", "pack", "done", "raised"}
  /\ limit \in Limits /\ budget \in Nat
  /\ Ranking(fts) /\ Ranking(graph) /\ Ranking(vec) /\ Ranking(results)
  /\ near \subseteq Entity /\ matches \in Nat /\ front \in Nat \ {0}
  /\ next \in Nat \ {0} /\ used \in Nat /\ chars \in Nat /\ entries \in Nat

Init ==
  /\ \E D \in Deleted : live = Entity \ D
  /\ edges \in Links
  /\ texts \in Texts /\ vectors \in Vectors
  /\ writes = 0 /\ wasLive = live /\ wasEdge = edges
  /\ pc = "fts"
  /\ limit \in Limits
  /\ \E b \in Budgets : budget = IF b = 0 THEN MaxTokens ELSE b
  /\ fts = <<>> /\ graph = <<>> /\ matches = 0 /\ front = 1 /\ near = {} /\ vec = <<>>
  /\ results = <<>> /\ next = 1 /\ used = 0 /\ chars = 0 /\ entries = 0

Lesser(j, k) == IF j <= k THEN j ELSE k
Cut(s, n) == SubSeq(s, 1, Lesser(n, Len(s)))

\* The lowest n of S in order; that of equal ones is left open.
Ordered(S, value, n) ==
  {r \in [1..Lesser(n, Cardinality(S)) -> S] :
     /\ IsInjective(r)
     /\ \A k \in DOMAIN r : \A e \in S :
          value[e] < value[r[k]] => \E j \in 1..(k - 1) : r[j] = e}
Orders(S) == {r \in [1..Cardinality(S) -> S] : IsInjective(r)}

-----------------------------------------------------------------------------
(* UnifiedSearch.search, GraphStore.search_related and get_neighbors.      *)

\* SELECT ... MATCH ? AND project_id = ? AND deleted_at IS NULL ORDER BY rank
\* LIMIT ?; any exception counts as no results.
TextQuery(n) ==
  Ordered({e \in Project \cap live : texts[e] > 0}, texts, n) \cup {<<>>}

\* _fts_search
FtsSearch ==
  /\ pc = "fts"
  /\ fts' \in TextQuery(2 * limit)
  /\ pc' = "graph"
  /\ UNCHANGED <<database, arguments, graph, matches, front, near, vec, results, packing>>

\* search_related asks the same question again.
GraphMatches ==
  /\ pc = "graph"
  /\ graph' \in TextQuery(2 * limit)
  /\ matches' = Len(graph')
  /\ front' = 1 /\ pc' = "out"
  /\ UNCHANGED <<database, arguments, fts, near, vec, results, packing>>

\* get_neighbors with depth 1 takes the first of the targets and then of the
\* sources, in an order SQL leaves open; it knows no entity twice.
Targets(e) == {f \in live \ {e} : <<e, f>> \in edges}
Sources(e) == {f \in live \ {e} : <<f, e>> \in edges}

\* The first n of S, whatever their order, behind what the graph found already.
Joined(S, n) ==
  UNION {{graph \o r : r \in Orders(T \ Range(graph))} :
           T \in {U \in SUBSET S : Cardinality(U) = Lesser(n, Cardinality(S))}}

NeighborsOut ==
  /\ pc = "out" /\ front <= Lesser(matches, Expanded)
  /\ near' = Targets(graph[front])
  /\ graph' \in Joined(near', Fanout)
  /\ pc' = "in"
  /\ UNCHANGED <<database, arguments, fts, matches, front, vec, results, packing>>

\* Mutant: what the graph found already is found again.
NeighborsInAgain ==
  /\ pc = "in"
  /\ \E r \in Orders(Sources(graph[front]) \ near) :
       graph' = graph \o Cut(r, Fanout - Lesser(Fanout, Cardinality(near)))
  /\ near' = {} /\ front' = front + 1 /\ pc' = "out"
  /\ UNCHANGED <<database, arguments, fts, matches, vec, results, packing>>

NeighborsIn ==
  /\ pc = "in"
  /\ graph' \in Joined(Sources(graph[front]) \ near,
                       Fanout - Lesser(Fanout, Cardinality(near)))
  /\ near' = {} /\ front' = front + 1 /\ pc' = "out"
  /\ UNCHANGED <<database, arguments, fts, matches, vec, results, packing>>

\* list(all_results.values())[:limit]
GraphReturns ==
  /\ pc = "out" /\ front > Lesser(matches, Expanded)
  /\ graph' = Cut(graph, 2 * limit)
  /\ pc' = "vectors"
  /\ UNCHANGED <<database, arguments, fts, matches, front, near, vec, results, packing>>

\* VectorStore.search looks at no project and at no deleted_at; without an
\* embedding of the query or without the extension there is nothing.
VectorSearch ==
  /\ pc = "vectors"
  /\ vec' \in Ordered({e \in Entity : vectors[e] > 0}, vectors, 2 * limit) \cup {<<>>}
  /\ pc' = "fuse"
  /\ UNCHANGED <<database, arguments, fts, graph, matches, front, near, results, packing>>

\* Only the text queries catch their exceptions.
QueryRaises ==
  /\ pc \in {"out", "in", "vectors"} /\ (pc = "out" => front <= Lesser(matches, Expanded))
  /\ pc' = "raised"
  /\ UNCHANGED <<database, arguments, sources, results, packing>>

\* 1 / (RRF_K + rank + 1), with ranks from zero; nothing if e is not ranked.
Part(s, e) == IF e \in Range(s)
                THEN Unit \div (RRF_K + CHOOSE k \in DOMAIN s : s[k] = e)
                ELSE 0

\* Mutant: a vector's score replaces the others instead of adding to them.
LastScore(e) ==
  IF e \in Range(vec) THEN Part(vec, e) ELSE Part(fts, e) + Part(graph, e)

Score(e) == Part(fts, e) + Part(graph, e) + Part(vec, e)

Scored == Range(fts) \cup Range(graph) \cup Range(vec)

\* sorted(scores)[:limit]; rounding may put equal scores in either order.
Penalty == [e \in Scored |-> -Score(e)]

\* Mutant: a result that only the vectors know is kept.
FuseWithVectors ==
  /\ pc = "fuse"
  /\ results' \in Ordered(Scored, Penalty, limit)
  /\ pc' = "pack"
  /\ UNCHANGED <<database, arguments, sources, packing>>

\* Reciprocal rank fusion: the best, without those that have no entity data
\* because only the vectors know them.
Fuse ==
  /\ pc = "fuse"
  /\ \E best \in Ordered(Scored, Penalty, limit) :
       results' \in Ordered(Range(best) \cap (Range(fts) \cup Range(graph)), Penalty, limit)
  /\ pc' = "pack"
  /\ UNCHANGED <<database, arguments, sources, packing>>

-----------------------------------------------------------------------------
(* ContextAssembler.assemble: the loop over the results.                   *)

Separator == 7    \* "\n\n---\n\n"
Heading == 21     \* "## Relevant Context\n\n"
Marker == 39      \* "\n\n... (truncated to fit context budget)"
Worth == 100      \* fewer remaining tokens are not used

Fits == used + Tokens[results[next]] <= budget

\* Mutant: the tokens of an entry are not counted.
PackUncounted ==
  /\ pc = "pack" /\ next <= Len(results)
  /\ Fits
  /\ chars' = chars + Length[results[next]] /\ entries' = entries + 1
  /\ next' = next + 1
  /\ UNCHANGED <<database, pc, arguments, sources, results, used>>

Pack ==
  /\ pc = "pack" /\ next <= Len(results)
  /\ Fits
  /\ used' = used + Tokens[results[next]]
  /\ chars' = chars + Length[results[next]] /\ entries' = entries + 1
  /\ next' = next + 1
  /\ UNCHANGED <<database, pc, arguments, sources, results>>

\* _truncate_to_tokens: int(len(text) * ratio * 0.9) and the marker; the
\* product is a float, so it may come out one lower or higher.
Truncated(e, remaining) ==
  {(9 * Length[e] * remaining) \div (10 * Tokens[e]) + slip + Marker : slip \in -1..1}

\* The first entry that does not fit ends the loop.
Overflow ==
  /\ pc = "pack" /\ next <= Len(results)
  /\ ~Fits
  /\ IF budget - used > Worth
       THEN \E c \in Truncated(results[next], budget - used) :
              chars' = chars + c /\ entries' = entries + 1
       ELSE UNCHANGED <<chars, entries>>
  /\ pc' = "done"
  /\ UNCHANGED <<database, arguments, sources, results, next, used>>

\* tiktoken refuses a text that spells one of its special tokens, and nobody
\* catches that.
CountRaises ==
  /\ pc = "pack" /\ next <= Len(results)
  /\ pc' = "raised"
  /\ UNCHANGED <<database, arguments, sources, results, packing>>

Answer ==
  /\ pc = "pack" /\ next > Len(results)
  /\ pc' = "done"
  /\ UNCHANGED <<database, arguments, sources, results, packing>>

\* The characters of the context; without results it is a fixed sentence.
ContextLength == Heading + chars + (IF entries = 0 THEN 0 ELSE Separator * (entries - 1))

-----------------------------------------------------------------------------
(* Meanwhile: EntityStore, GraphStore and VectorStore write.               *)

Written ==
  /\ writes < MaxWrites /\ writes' = writes + 1
  /\ pc \notin {"pack", "done", "raised"}
  /\ UNCHANGED <<pc, arguments, sources, results, packing>>

Create(e) ==
  /\ e \notin wasLive
  /\ live' = live \cup {e} /\ wasLive' = wasLive \cup {e}
  /\ Written /\ UNCHANGED <<edges, texts, vectors, wasEdge>>

SoftDelete(e) ==
  /\ e \in live
  /\ live' = live \ {e}
  /\ Written /\ UNCHANGED <<edges, texts, vectors, wasLive, wasEdge>>

\* update: the new text may match better, worse or not at all.
Update(e, n) ==
  /\ texts' = [texts EXCEPT ![e] = n]
  /\ Written /\ UNCHANGED <<live, edges, vectors, wasLive, wasEdge>>

AddEdge(e, f) ==
  /\ edges' = edges \cup {<<e, f>>} /\ wasEdge' = wasEdge \cup {<<e, f>>}
  /\ Written /\ UNCHANGED <<live, texts, vectors, wasLive>>

RemoveEdgesFor(e) ==
  /\ edges' = {link \in edges : link[1] # e /\ link[2] # e}
  /\ Written /\ UNCHANGED <<live, texts, vectors, wasLive, wasEdge>>

\* store of VectorStore.
StoreVector(e, n) ==
  /\ vectors' = [vectors EXCEPT ![e] = n]
  /\ Written /\ UNCHANGED <<live, edges, texts, wasLive, wasEdge>>

\* delete of VectorStore.
DeleteVector(e) ==
  /\ vectors' = [vectors EXCEPT ![e] = 0]
  /\ Written /\ UNCHANGED <<live, edges, texts, wasLive, wasEdge>>

Search ==
  \/ FtsSearch \/ GraphMatches \/ NeighborsOut \/ NeighborsIn \/ GraphReturns
  \/ VectorSearch \/ QueryRaises \/ Fuse

Assemble == Pack \/ Overflow \/ CountRaises \/ Answer

Meanwhile ==
  \/ \E e \in Entity : Create(e) \/ SoftDelete(e) \/ RemoveEdgesFor(e) \/ DeleteVector(e)
  \/ \E e \in Entity, n \in 0..Worst : Update(e, n) \/ (n > 0 /\ StoreVector(e, n))
  \/ \E e, f \in Entity : AddEdge(e, f)

Next == Search \/ Assemble \/ Meanwhile

Spec == Init /\ [][Next]_vars

-----------------------------------------------------------------------------
(* Properties                                                              *)

\* search.py:38-78, graph.py:123-154: whatever is deleted, moved or linked
\* between the queries, a result was live during the request, and it is of the
\* project or was linked to a live entity of the project.  Vectors of deleted
\* and foreign entities, which nobody filters, bring none in.
ResultsAreRelated ==
  \A e \in Range(results) :
    /\ e \in wasLive
    /\ \/ e \in Project
       \/ \E f \in Project \cap wasLive : <<e, f>> \in wasEdge \/ <<f, e>> \in wasEdge

\* Everywhere y was found, x was found before it.
Dominates(x, y) ==
  \A s \in {fts, graph, vec} : \A k \in DOMAIN s :
    s[k] = y => \E j \in 1..(k - 1) : s[j] = x

\* search.py:48-78: a result never displaces, nor precedes, an entity with
\* data that every source ranks above it, although the sources saw different
\* states of the database.
FusionRespectsRanks ==
  pc = "pack" =>
    \A k \in DOMAIN results : \A x \in Range(fts) \cup Range(graph) :
      Dominates(x, results[k]) => \E j \in 1..(k - 1) : results[j] = x

\* context.py:55-76: "within a token budget" (line 18) is not kept to the token:
\* heading, separators and marker are not counted, and a truncated entry is cut
\* by characters, wherever its tokens are.  But the characters of the context
\* are bounded by those of budget tokens and by the number of entries alone,
\* whatever tokenizer counts, and however its count varies from text to text.
OverrunIsBounded ==
  pc = "done" /\ entries > 0 =>
    ContextLength <= Dense * budget + (Slack + Separator) * entries + Heading - Separator
=============================================================================
