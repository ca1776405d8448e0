-------------------------- MODULE RetrievalProofs ---------------------------
(***************************************************************************)
(* Proofs about Retrieval, for any database, ranking, limit and budget and *)
(* any number of concurrent writes.  That results are related rests on     *)
(* what each source holds while it is put together (SourcesRelated); the   *)
(* order of the results on the scores alone; the overrun of the context on *)
(* a bound that every packed entry keeps.                                  *)
(***************************************************************************)
EXTENDS Retrieval, FiniteSetTheorems, TLAPS

-----------------------------------------------------------------------------
(* Orders and cuts                                                         *)

(* Every set of entities is finite, so it has a size.                      *)
LEMMA Sizes == ASSUME NEW S, S \subseteq Entity PROVE Cardinality(S) \in Nat
<1>1. IsFiniteSet(Entity)
  BY RetrievalAssumption DEF RetrievalAssumption
<1> QED
  BY <1>1, FS_Subset, FS_CardinalityType

(* What a query, a set of neighbours or the fusion returns is a ranking of  *)
(* the entities it was asked for.                                           *)
LEMMA OrderedIsRanking ==
  ASSUME NEW S, S \subseteq Entity, NEW value, NEW n \in Nat, NEW r \in Ordered(S, value, n)
  PROVE  Ranking(r) /\ Range(r) \subseteq S
<1>1. Lesser(n, Cardinality(S)) \in Nat
  BY Sizes DEF Lesser
<1>2. r \in [1..Lesser(n, Cardinality(S)) -> S] /\ IsInjective(r)
  BY DEF Ordered
<1> QED
  BY <1>1, <1>2 DEF Ranking, Range

(* So is an order of a set.                                                *)
LEMMA OrdersAreRankings ==
  ASSUME NEW S, S \subseteq Entity, NEW r \in Orders(S)
  PROVE  Ranking(r) /\ Range(r) \subseteq S
<1>1. Cardinality(S) \in Nat
  BY Sizes
<1>2. r \in [1..Cardinality(S) -> S] /\ IsInjective(r)
  BY DEF Orders
<1> QED
  BY <1>1, <1>2 DEF Ranking, Range

(* A ranking that is cut short is one.                                     *)
LEMMA CutIsRanking ==
  ASSUME NEW s, Ranking(s), NEW n \in Nat
  PROVE  Ranking(Cut(s, n)) /\ Range(Cut(s, n)) \subseteq Range(s)
<1> DEFINE m == Lesser(n, Len(s))
<1>1. m \in 0..Len(s)
  BY DEF Ranking, Lesser
<1>2. /\ SubSeq(s, 1, m) \in Seq(Entity) /\ Len(SubSeq(s, 1, m)) = m
      /\ \A k \in 1..m : SubSeq(s, 1, m)[k] = s[k]
  BY <1>1 DEF Ranking
<1> QED
  BY <1>1, <1>2 DEF Ranking, IsInjective, Range, Cut

(* Neighbours that are new to the graph search leave it a ranking.         *)
LEMMA JoinedIsRanking ==
  ASSUME TypeOK, NEW S \in SUBSET Entity, NEW n \in Int, NEW g \in Joined(S, n)
  PROVE  /\ Ranking(g) /\ Len(graph) <= Len(g)
         /\ \A k \in 1..Len(graph) : g[k] = graph[k]
         /\ Range(g) \subseteq Range(graph) \cup S
<1>1. PICK T \in SUBSET S : \E r \in Orders(T \ Range(graph)) : g = graph \o r
  BY DEF Joined
<1>2. PICK r \in Orders(T \ Range(graph)) : g = graph \o r
  BY <1>1
<1>3. Ranking(r) /\ Range(r) \subseteq T \ Range(graph)
  BY <1>1, <1>2, OrdersAreRankings
<1> DEFINE m == Len(graph)
           n2 == Len(r)
<1>4. /\ m \in Nat /\ n2 \in Nat
      /\ \A j, k \in 1..m : graph[j] = graph[k] => j = k
      /\ \A j, k \in 1..n2 : r[j] = r[k] => j = k
      /\ \A j \in 1..m, k \in 1..n2 : graph[j] # r[k]
      /\ \A k \in 1..m : graph[k] \in Range(graph)
      /\ \A k \in 1..n2 : r[k] \in S
  <2>1. DOMAIN graph = 1..m /\ DOMAIN r = 1..n2 /\ m \in Nat /\ n2 \in Nat
    BY <1>3 DEF TypeOK, Ranking
  <2>2. \A k \in 1..m : graph[k] \in Range(graph)
    BY <2>1 DEF Range
  <2>3. \A k \in 1..n2 : r[k] \in T \ Range(graph)
    BY <2>1, <1>3 DEF Range
  <2>4. \A j, k \in 1..m : graph[j] = graph[k] => j = k
    BY <2>1 DEF TypeOK, Ranking, IsInjective
  <2>5. \A j, k \in 1..n2 : r[j] = r[k] => j = k
    BY <2>1, <1>3 DEF Ranking, IsInjective
  <2> QED BY <2>1, <2>2, <2>3, <2>4, <2>5, <1>1
<1>5. /\ g \in Seq(Entity) /\ Len(g) = m + n2 /\ DOMAIN g = 1..(m + n2)
      /\ \A k \in 1..m : g[k] = graph[k]
      /\ \A k \in 1..(m + n2) : k > m => g[k] = r[k - m] /\ k - m \in 1..n2
  BY <1>2, <1>3 DEF TypeOK, Ranking
<1> HIDE DEF m, n2
<1>6. \A j, k \in 1..(m + n2) : j < k => g[j] # g[k]
  <2> SUFFICES ASSUME NEW j \in 1..(m + n2), NEW k \in 1..(m + n2), j < k PROVE g[j] # g[k]
    OBVIOUS
  <2>1. CASE k <= m
    BY <2>1, <1>4, <1>5
  <2>2. CASE j > m
    BY <2>2, <1>4, <1>5
  <2>3. CASE j <= m /\ k > m
    <3>1. g[j] = graph[j] /\ g[k] = r[k - m] /\ k - m \in 1..n2 /\ j \in 1..m
      BY <2>3, <1>4, <1>5
    <3> QED BY <3>1, <1>4
  <2> QED BY <2>1, <2>2, <2>3, <1>4
<1>7. IsInjective(g)
  BY <1>4, <1>5, <1>6 DEF IsInjective
<1>8. \A k \in 1..(m + n2) : g[k] \in Range(graph) \cup S
  BY <1>4, <1>5
<1>9. Range(g) \subseteq Range(graph) \cup S
  BY <1>5, <1>8 DEF Range
<1> QED BY <1>4, <1>5, <1>7, <1>9 DEF Ranking, m

-----------------------------------------------------------------------------
(* The size of a truncated entry                                           *)

(* Division rounds down.                                                   *)
LEMMA Rounding ==
  ASSUME NEW n \in Nat, NEW d \in Nat \ {0}
  PROVE  n \div d \in Nat /\ (n \div d) * d <= n
<1>1. n \div d \in Nat
  OBVIOUS
<1>2. d * (n \div d) <= n
  BY SMTT(30)
<1>3. d * (n \div d) = (n \div d) * d
  BY <1>1
<1> QED
  BY <1>1, <1>2, <1>3

(* A factor is cancelled.                                                  *)
LEMMA Cancel ==
  ASSUME NEW t \in Nat, t > 0, NEW i \in Nat, NEW j \in Nat, t * i <= t * j
  PROVE  i <= j
<1> SUFFICES ASSUME i > j PROVE FALSE
  OBVIOUS
<1>1. PICK k \in Nat : i = j + 1 + k
  <2>1. i - j - 1 \in Nat /\ i = j + 1 + (i - j - 1)
    OBVIOUS
  <2> QED BY <2>1
<1>2. t * i = t * j + t + t * k
  BY <1>1
<1>3. t * k >= 0 /\ t * j \in Nat
  OBVIOUS
<1> QED
  BY <1>2, <1>3

(* A truncated entry with its marker takes no more characters than the      *)
(* tokens that remained stand for: the margin of a tenth pays the marker.   *)
LEMMA TruncatedFits ==
  ASSUME NEW e \in Entity, NEW rest \in Nat, rest > Worth, Tokens[e] > rest,
         NEW c \in Truncated(e, rest)
  PROVE  c \in Nat /\ c <= Dense * rest + Slack
<1>1. PICK t, length, dense, slack \in Nat :
        /\ t = Tokens[e] /\ length = Length[e] /\ dense = Dense /\ slack = Slack
        /\ t > rest /\ rest > 100 /\ dense >= 4 /\ length <= dense * t + slack
  BY RetrievalAssumption DEF RetrievalAssumption, Worth
<1>2. PICK n \in Nat : n = 9 * length * rest
  BY <1>1
<1>3. PICK d \in Nat : d = 10 * t /\ d # 0
  BY <1>1
<1>4. PICK q \in Nat : q = n \div d /\ q * d <= n
  BY <1>2, <1>3, Rounding
<1>5. PICK k \in Nat : k = dense * rest
  BY <1>1
<1>6. n <= t * (9 * k + 9 * slack)
  <2>1. length * rest <= (dense * t + slack) * rest
    BY <1>1
  <2>2. (dense * t + slack) * rest = t * k + slack * rest
    <3>1. (dense * t + slack) * rest = (dense * t) * rest + slack * rest
      BY <1>1
    <3>2. (dense * t) * rest = t * (dense * rest)
      BY <1>1
    <3> QED BY <1>5, <3>1, <3>2
  <2>3. slack * rest <= t * slack
    BY <1>1
  <2>4. t * (9 * k + 9 * slack) = 9 * (t * k) + 9 * (t * slack)
    BY <1>1
  <2>5. n = 9 * (length * rest)
    BY <1>2
  <2>6. /\ length * rest \in Nat /\ (dense * t + slack) * rest \in Nat
        /\ t * k \in Nat /\ slack * rest \in Nat /\ t * slack \in Nat
    BY <1>1
  <2> QED BY <2>1, <2>2, <2>3, <2>4, <2>5, <2>6
<1>7. 10 * q <= 9 * k + 9 * slack
  <2>1. q * d = t * (10 * q)
    BY <1>1, <1>3, <1>4
  <2>2. t * (10 * q) <= t * (9 * k + 9 * slack)
    <3>1. t * (10 * q) \in Nat /\ t * (9 * k + 9 * slack) \in Nat
      BY <1>1
    <3> QED BY <1>4, <1>6, <2>1, <3>1
  <2>3. t > 0 /\ 10 * q \in Nat /\ 9 * k + 9 * slack \in Nat
    BY <1>1
  <2> QED BY <1>1, <2>2, <2>3, Cancel
<1>8. k >= 404
  <2>1. 4 * rest <= dense * rest
    BY <1>1
  <2> QED BY <1>1, <1>5, <2>1
<1>9. PICK slip \in -1..1 : c = q + slip + 39
  <2>1. 9 * Length[e] * rest = n /\ 10 * Tokens[e] = d
    BY <1>1, <1>2, <1>3
  <2> QED BY <1>4, <2>1 DEF Truncated, Marker
<1>10. c \in Nat /\ c <= k + slack
  BY <1>7, <1>8, <1>9
<1> QED BY <1>1, <1>5, <1>10

-----------------------------------------------------------------------------
(* Types, and what the sources hold                                        *)

Related(e) ==
  /\ e \in wasLive
  /\ \/ e \in Project
     \/ \E f \in Project \cap wasLive : <<e, f>> \in wasEdge \/ <<f, e>> \in wasEdge

SourcesRelated ==
  /\ live \subseteq wasLive /\ edges \subseteq wasEdge
  /\ \A e \in Range(fts) \cup Range(graph) : Related(e)
  /\ pc \in {"out", "in"} =>
       /\ matches <= Len(graph)
       /\ \A k \in 1..matches : graph[k] \in Project \cap wasLive
  /\ pc = "in" => front <= matches

(* Every packed entry keeps the characters below those of its tokens.      *)
PackedFits ==
  /\ used <= budget
  /\ pc # "done" => chars <= Dense * used + Slack * entries
  /\ pc = "done" => chars <= Dense * budget + Slack * entries

IInv == TypeOK /\ SourcesRelated /\ PackedFits /\ ResultsAreRelated

(* The invariant holds before the request.                                 *)
LEMMA InitIInv == Init => IInv
<1> SUFFICES ASSUME Init PROVE IInv
  OBVIOUS
<1> USE RetrievalAssumption DEF RetrievalAssumption, Init
<1>1. Ranking(<<>>) /\ Range(<<>>) = {}
  BY DEF Ranking, IsInjective, Range
<1>2. budget \in Nat
  OBVIOUS
<1>3. TypeOK
  BY <1>1, <1>2 DEF TypeOK
<1>4. SourcesRelated /\ ResultsAreRelated
  BY <1>1 DEF SourcesRelated, ResultsAreRelated
<1>5. PackedFits
  <2>1. Dense * 0 + Slack * 0 = 0
    OBVIOUS
  <2> QED BY <1>2, <2>1 DEF PackedFits
<1> QED BY <1>3, <1>4, <1>5 DEF IInv

(* What a text query finds.                                                *)
LEMMA TextQueryFinds ==
  ASSUME IInv, NEW r \in TextQuery(2 * limit)
  PROVE  Ranking(r) /\ Range(r) \subseteq Project \cap live
<1>1. CASE r = <<>>
  BY <1>1 DEF Ranking, IsInjective, Range
<1>2. CASE r # <<>>
  <2> DEFINE S == {e \in Project \cap live : texts[e] > 0}
  <2>1. S \subseteq Entity /\ 2 * limit \in Nat
    BY RetrievalAssumption DEF RetrievalAssumption, IInv, TypeOK
  <2>2. r \in Ordered(S, texts, 2 * limit)
    BY <1>2 DEF TextQuery
  <2>3. Ranking(r) /\ Range(r) \subseteq S
    BY <2>1, <2>2, OrderedIsRanking
  <2> QED BY <2>3
<1> QED BY <1>1, <1>2

(* What happens meanwhile takes nothing back of what was live or linked.   *)
LEMMA MeanwhileKeeps == ASSUME IInv, Meanwhile PROVE IInv'
<1> USE DEF IInv, TypeOK
<1> DEFINE Kept ==
      /\ Written
      /\ live' \subseteq Entity /\ edges' \subseteq Entity \X Entity
      /\ wasLive' \subseteq Entity /\ wasEdge' \subseteq Entity \X Entity
      /\ texts' \in [Entity -> 0..Worst] /\ vectors' \in [Entity -> 0..Worst]
      /\ wasLive \subseteq wasLive' /\ wasEdge \subseteq wasEdge'
      /\ live' \subseteq wasLive' /\ edges' \subseteq wasEdge'
<1>1. Kept
  <2> USE DEF SourcesRelated
  <2>1. ASSUME NEW e \in Entity, Create(e) \/ SoftDelete(e) PROVE Kept
    BY <2>1 DEF Create, SoftDelete
  <2>2. ASSUME NEW e \in Entity, NEW n \in 0..Worst, Update(e, n) PROVE Kept
    BY <2>2 DEF Update
  <2>3. ASSUME NEW e \in Entity, NEW n \in 0..Worst, StoreVector(e, n) PROVE Kept
    BY <2>3 DEF StoreVector
  <2>4. ASSUME NEW e \in Entity, DeleteVector(e) PROVE Kept
    <3>1. 0 \in 0..Worst
      BY RetrievalAssumption DEF RetrievalAssumption
    <3> QED BY <2>4, <3>1 DEF DeleteVector
  <2>5. ASSUME NEW e \in Entity, NEW f \in Entity, AddEdge(e, f) PROVE Kept
    BY <2>5 DEF AddEdge
  <2>6. ASSUME NEW e \in Entity, RemoveEdgesFor(e) PROVE Kept
    BY <2>6 DEF RemoveEdgesFor
  <2> QED BY <2>1, <2>2, <2>3, <2>4, <2>5, <2>6 DEF Meanwhile
<1>2. writes' \in 0..MaxWrites /\ UNCHANGED <<pc, arguments, sources, results, packing>>
  BY <1>1, RetrievalAssumption DEF Written, RetrievalAssumption
<1>3. TypeOK'
  BY <1>1, <1>2 DEF arguments, sources, packing
<1>4. ASSUME NEW e, Related(e) PROVE Related(e)'
  BY <1>1, <1>4 DEF Related
<1>5. SourcesRelated'
  BY <1>1, <1>2, <1>4 DEF SourcesRelated, sources
<1>6. ResultsAreRelated'
  BY <1>1, <1>2 DEF ResultsAreRelated
<1>7. PackedFits'
  BY <1>2 DEF PackedFits, arguments, packing
<1> QED BY <1>3, <1>5, <1>6, <1>7

(* Nor does a step of the search, which reads what was there just now.     *)
LEMMA SearchKeeps == ASSUME IInv, Search PROVE IInv'
<1> USE DEF IInv, TypeOK
<1>0. limit \in Nat /\ Fanout \in Nat /\ Expanded \in Nat
  BY RetrievalAssumption DEF RetrievalAssumption
<1>1. UNCHANGED <<database, arguments, packing>> /\ pc # "done" /\ pc' # "done"
  BY DEF Search, FtsSearch, GraphMatches, NeighborsOut, NeighborsIn, GraphReturns,
     VectorSearch, QueryRaises, Fuse
<1>2. PackedFits'
  BY <1>1 DEF PackedFits, arguments, packing
<1>3. \A e : Related(e) <=> Related(e)'
  BY <1>1 DEF Related, database
<1>4. UNCHANGED results /\ ResultsAreRelated => ResultsAreRelated'
  BY <1>1 DEF ResultsAreRelated, database
<1>5. CASE FtsSearch
  <2>1. Ranking(fts') /\ Range(fts') \subseteq Project \cap live
    BY <1>5, TextQueryFinds DEF FtsSearch
  <2>2. TypeOK'
    BY <1>1, <1>5, <2>1 DEF FtsSearch, database, arguments, packing
  <2>3. SourcesRelated'
    BY <1>1, <1>3, <1>5, <2>1 DEF FtsSearch, SourcesRelated, Related, database
  <2> QED BY <1>2, <1>4, <1>5, <2>2, <2>3 DEF FtsSearch
<1>6. CASE GraphMatches
  <2>1. Ranking(graph') /\ Range(graph') \subseteq Project \cap live
    BY <1>6, TextQueryFinds DEF GraphMatches
  <2>2. matches' = Len(graph') /\ matches' \in Nat
    BY <1>6, <2>1 DEF GraphMatches, Ranking
  <2>3. TypeOK'
    <3>1. front' \in Nat \ {0} /\ pc' = "out" /\ UNCHANGED <<fts, near, vec, results>>
      BY <1>6 DEF GraphMatches
    <3> QED BY <1>1, <2>1, <2>2, <3>1 DEF database, arguments, packing
  <2>4. \A k \in 1..matches' : graph'[k] \in Project \cap live
    <3>1. DOMAIN graph' = 1..matches'
      BY <2>1, <2>2 DEF Ranking
    <3>2. \A k \in 1..matches' : graph'[k] \in Range(graph')
      BY <3>1 DEF Range
    <3> QED BY <2>1, <3>2
  <2>5. SourcesRelated'
    <3>1. pc' = "out" /\ fts' = fts /\ live' = live /\ wasLive' = wasLive
      BY <1>1, <1>6 DEF GraphMatches, database
    <3>2. \A e \in Range(graph') : Related(e)
      BY <2>1 DEF SourcesRelated, Related
    <3>3. matches' <= Len(graph') /\ \A k \in 1..matches' : graph'[k] \in Project \cap wasLive
      BY <2>2, <2>4 DEF SourcesRelated
    <3> QED BY <1>1, <1>3, <3>1, <3>2, <3>3 DEF SourcesRelated, database
  <2> QED BY <1>2, <1>4, <1>6, <2>3, <2>5 DEF GraphMatches
<1>7. ASSUME pc \in {"out", "in"}, pc' \in {"out", "in"}, front <= matches,
             NEW S \in SUBSET (Targets(graph[front]) \cup Sources(graph[front])),
             NEW n \in Int, graph' \in Joined(S, n),
             near' \subseteq Entity, pc' = "in" => front' = front, front' \in Nat \ {0},
             UNCHANGED <<fts, matches, vec, results>>
      PROVE  IInv'
  <2>1. S \in SUBSET Entity
    BY <1>7 DEF Targets, Sources
  <2>2. /\ Ranking(graph') /\ Len(graph) <= Len(graph')
        /\ \A k \in 1..Len(graph) : graph'[k] = graph[k]
        /\ Range(graph') \subseteq Range(graph) \cup S
    BY <1>7, <2>1, JoinedIsRanking
  <2>3. TypeOK'
    BY <1>1, <1>7, <2>2 DEF database, arguments, packing
  <2>4. matches <= Len(graph) /\ \A k \in 1..matches : graph[k] \in Project \cap wasLive
    BY <1>7 DEF SourcesRelated
  <2>5. graph[front] \in Project \cap wasLive
    BY <1>7, <2>4
  <2>6. \A e \in S : Related(e)
    BY <1>7, <2>5 DEF Targets, Sources, Related, SourcesRelated
  <2>7. matches <= Len(graph') /\ \A k \in 1..matches : graph'[k] \in Project \cap wasLive
    <3>1. Len(graph) \in Nat /\ Len(graph') \in Nat
      BY <2>2 DEF Ranking
    <3>2. \A k \in 1..matches : k \in 1..Len(graph)
      BY <2>4, <3>1
    <3> QED BY <2>2, <2>4, <3>1, <3>2
  <2>8. SourcesRelated'
    BY <1>1, <1>3, <1>7, <2>2, <2>6, <2>7 DEF SourcesRelated, database
  <2> QED BY <1>2, <1>4, <1>7, <2>3, <2>8
<1>8. CASE NeighborsOut
  <2>1. Targets(graph[front]) \in SUBSET (Targets(graph[front]) \cup Sources(graph[front]))
    OBVIOUS
  <2>2. /\ pc = "out" /\ pc' = "in" /\ near' = Targets(graph[front])
        /\ graph' \in Joined(Targets(graph[front]), Fanout) /\ front' = front
        /\ UNCHANGED <<fts, matches, vec, results>>
    BY <1>8 DEF NeighborsOut
  <2>3. front <= matches
    BY <1>0, <1>8 DEF NeighborsOut, Lesser
  <2>4. near' \subseteq Entity /\ front' \in Nat \ {0}
    BY <2>2 DEF Targets
  <2> HIDE DEF IInv, TypeOK
  <2> QED BY <1>0, <1>7, <2>1, <2>2, <2>3, <2>4
<1>9. CASE NeighborsIn
  <2>1. Fanout - Lesser(Fanout, Cardinality(near)) \in Int
    <3>1. Cardinality(near) \in Nat
      BY Sizes
    <3> QED BY <1>0, <3>1 DEF Lesser
  <2>2. Sources(graph[front]) \ near \in SUBSET (Targets(graph[front]) \cup Sources(graph[front]))
    OBVIOUS
  <2>3. front <= matches
    BY <1>9 DEF NeighborsIn, SourcesRelated
  <2>4. /\ pc = "in" /\ pc' = "out" /\ near' = {} /\ front' = front + 1
        /\ graph' \in Joined(Sources(graph[front]) \ near,
                             Fanout - Lesser(Fanout, Cardinality(near)))
        /\ UNCHANGED <<fts, matches, vec, results>>
    BY <1>9 DEF NeighborsIn
  <2>5. front' \in Nat \ {0} /\ near' \subseteq Entity
    BY <2>4
  <2> HIDE DEF IInv, TypeOK
  <2> QED BY <1>7, <2>1, <2>2, <2>3, <2>4, <2>5
<1>10. CASE GraphReturns
  <2>1. Ranking(graph') /\ Range(graph') \subseteq Range(graph)
    BY <1>0, <1>10, CutIsRanking DEF GraphReturns
  <2>2. TypeOK'
    BY <1>1, <1>10, <2>1 DEF GraphReturns, database, arguments, packing
  <2>3. SourcesRelated'
    BY <1>1, <1>3, <1>10, <2>1 DEF GraphReturns, SourcesRelated, database
  <2> QED BY <1>2, <1>4, <1>10, <2>2, <2>3 DEF GraphReturns
<1>11. CASE VectorSearch
  <2>1. Ranking(vec')
    <3> DEFINE S == {e \in Entity : vectors[e] > 0}
    <3>1. CASE vec' = <<>>
      BY <3>1 DEF Ranking, IsInjective
    <3>2. CASE vec' \in Ordered(S, vectors, 2 * limit)
      <4>1. 2 * limit \in Nat
        BY <1>0
      <4> QED BY <3>2, <4>1, OrderedIsRanking
    <3> QED BY <1>11, <3>1, <3>2 DEF VectorSearch
  <2>2. TypeOK'
    BY <1>1, <1>11, <2>1 DEF VectorSearch, database, arguments, packing
  <2>3. SourcesRelated'
    BY <1>1, <1>3, <1>11 DEF VectorSearch, SourcesRelated, database
  <2> QED BY <1>2, <1>4, <1>11, <2>2, <2>3 DEF VectorSearch
<1>12. CASE QueryRaises
  <2>1. TypeOK'
    BY <1>1, <1>12 DEF QueryRaises, database, arguments, packing, sources
  <2>2. SourcesRelated'
    BY <1>1, <1>3, <1>12 DEF QueryRaises, SourcesRelated, database, sources
  <2> QED BY <1>2, <1>4, <1>12, <2>1, <2>2 DEF QueryRaises
<1>13. CASE Fuse
  <2>1. PICK best \in Ordered(Scored, Penalty, limit) :
          results' \in Ordered(Range(best) \cap (Range(fts) \cup Range(graph)), Penalty, limit)
    BY <1>13 DEF Fuse
  <2>2. Range(fts) \subseteq Entity /\ Range(graph) \subseteq Entity
    BY DEF Ranking, Range
  <2>3. Ranking(results') /\ Range(results') \subseteq Range(fts) \cup Range(graph)
    <3> DEFINE S == Range(best) \cap (Range(fts) \cup Range(graph))
    <3>1. S \subseteq Entity /\ limit \in Nat /\ results' \in Ordered(S, Penalty, limit)
      BY <1>0, <2>1, <2>2
    <3> HIDE DEF S
    <3>2. Ranking(results') /\ Range(results') \subseteq S
      BY <3>1, OrderedIsRanking
    <3> QED BY <3>2 DEF S
  <2>4. TypeOK'
    BY <1>1, <1>13, <2>3 DEF Fuse, database, arguments, packing, sources
  <2>5. SourcesRelated'
    BY <1>1, <1>3, <1>13 DEF Fuse, SourcesRelated, database, sources
  <2>6. ResultsAreRelated'
    BY <1>1, <2>3 DEF ResultsAreRelated, SourcesRelated, Related, database
  <2> QED BY <1>2, <2>4, <2>5, <2>6
<1> QED
  BY <1>5, <1>6, <1>8, <1>9, <1>10, <1>11, <1>12, <1>13 DEF Search

(* Packing takes what an entry counts off the budget, and a truncated one  *)
(* takes no more than what remained.                                       *)
LEMMA AssembleKeeps == ASSUME IInv, Assemble PROVE IInv'
<1>1. UNCHANGED <<database, arguments, sources, results>> /\ pc = "pack"
  BY DEF Assemble, Pack, Overflow, CountRaises, Answer
<1>2. SourcesRelated' /\ ResultsAreRelated'
  <2>1. SourcesRelated'
    BY <1>1 DEF IInv, SourcesRelated, Related, database, sources,
       Assemble, Pack, Overflow, CountRaises, Answer
  <2>2. ResultsAreRelated'
    BY <1>1 DEF IInv, ResultsAreRelated, database
  <2> QED BY <2>1, <2>2
<1>3. PICK dense, slack \in Nat : dense = Dense /\ slack = Slack
  BY RetrievalAssumption DEF RetrievalAssumption
<1>4. /\ used \in Nat /\ chars \in Nat /\ entries \in Nat /\ next \in Nat \ {0}
      /\ budget \in Nat /\ used <= budget /\ chars <= dense * used + slack * entries
  BY <1>1, <1>3 DEF IInv, TypeOK, PackedFits
<1>5. ASSUME next <= Len(results) PROVE results[next] \in Entity
  BY <1>4, <1>5 DEF IInv, TypeOK, Ranking
<1>6. budget' = budget
  BY <1>1 DEF arguments
<1>7. ASSUME /\ used' \in Nat /\ chars' \in Nat /\ entries' \in Nat
             /\ next' \in Nat \ {0} /\ pc' \in {"pack", "done", "raised"}
             /\ used' <= budget
             /\ chars' <= dense * (IF pc' = "done" THEN budget ELSE used') + slack * entries'
      PROVE  IInv'
  <2>1. TypeOK'
    BY <1>1, <1>7 DEF IInv, TypeOK, database, arguments, sources
  <2>2. PackedFits'
    BY <1>3, <1>6, <1>7 DEF PackedFits
  <2> QED BY <1>2, <2>1, <2>2 DEF IInv
<1>8. dense * used <= dense * budget
  BY <1>3, <1>4
<1>9. CASE Pack
  <2>1. PICK n, t \in Nat : /\ n = Length[results[next]] /\ t = Tokens[results[next]]
                            /\ n <= dense * t + slack
    BY <1>3, <1>5, <1>9, RetrievalAssumption DEF RetrievalAssumption, Pack
  <2>2. /\ used + t <= budget /\ used' = used + t /\ chars' = chars + n
        /\ entries' = entries + 1 /\ next' = next + 1 /\ pc' = pc
    BY <1>9, <2>1 DEF Pack, Fits
  <2>3. dense * (used + t) = dense * used + dense * t
    BY <1>3, <1>4, <2>1
  <2>4. slack * (entries + 1) = slack * entries + slack
    BY <1>3, <1>4
  <2>5. /\ dense * used \in Nat /\ dense * t \in Nat /\ slack * entries \in Nat
    BY <1>3, <1>4, <2>1
  <2>6. chars + n <= dense * (used + t) + slack * (entries + 1)
    BY <1>3, <1>4, <2>1, <2>3, <2>4, <2>5
  <2> QED BY <1>1, <1>4, <1>7, <2>1, <2>2, <2>6
<1>10. CASE Overflow
  <2>1. UNCHANGED <<next, used>> /\ pc' = "done"
    BY <1>10 DEF Overflow
  <2>2. PICK rest \in Nat : rest = budget - used
    BY <1>4
  <2>3. CASE rest > Worth
    <3>1. PICK c \in Truncated(results[next], rest) :
            chars' = chars + c /\ entries' = entries + 1
      BY <1>10, <2>2, <2>3 DEF Overflow
    <3>2. results[next] \in Entity /\ Tokens[results[next]] \in Nat
      BY <1>5, <1>10, RetrievalAssumption DEF Overflow, RetrievalAssumption
    <3>3. Tokens[results[next]] > rest
      BY <1>4, <1>10, <2>2, <3>2 DEF Overflow, Fits
    <3>4. c \in Nat /\ c <= dense * rest + slack
      BY <1>3, <2>3, <3>1, <3>2, <3>3, TruncatedFits
    <3>5. dense * budget = dense * used + dense * rest
      <4>1. budget = used + rest
        BY <1>4, <2>2
      <4> QED BY <1>3, <1>4, <2>2, <4>1
    <3>6. slack * (entries + 1) = slack * entries + slack
      BY <1>3, <1>4
    <3>7. /\ dense * used \in Nat /\ dense * rest \in Nat /\ slack * entries \in Nat
          /\ dense * budget \in Nat
      BY <1>3, <1>4, <2>2
    <3>8. chars + c <= dense * budget + slack * (entries + 1)
      BY <1>3, <1>4, <3>4, <3>5, <3>6, <3>7
    <3> QED BY <1>4, <1>7, <2>1, <3>1, <3>4, <3>8
  <2>4. CASE ~(rest > Worth)
    <3>1. UNCHANGED <<chars, entries>>
      BY <1>10, <2>2, <2>4 DEF Overflow
    <3>2. dense * used \in Nat /\ dense * budget \in Nat /\ slack * entries \in Nat
      BY <1>3, <1>4
    <3> QED BY <1>4, <1>7, <1>8, <2>1, <3>1, <3>2
  <2> QED BY <2>3, <2>4
<1>11. CASE CountRaises \/ Answer
  <2>1. UNCHANGED packing /\ pc' \in {"raised", "done"}
    BY <1>11 DEF CountRaises, Answer
  <2>2. dense * used \in Nat /\ dense * budget \in Nat /\ slack * entries \in Nat
    BY <1>3, <1>4
  <2> QED BY <1>4, <1>7, <1>8, <2>1, <2>2 DEF packing
<1> QED BY <1>9, <1>10, <1>11 DEF Assemble

(* The invariant holds throughout.                                         *)
THEOREM Inductive == Spec => []IInv
<1>1. IInv /\ [Next]_vars => IInv'
  <2> SUFFICES ASSUME IInv, [Next]_vars PROVE IInv'
    OBVIOUS
  <2>1. CASE UNCHANGED vars
    BY <2>1 DEF vars, database, arguments, sources, packing, IInv, TypeOK, SourcesRelated,
       Related, PackedFits, ResultsAreRelated
  <2> QED BY <2>1, SearchKeeps, AssembleKeeps, MeanwhileKeeps DEF Next
<1> QED BY <1>1, InitIInv, PTL DEF Spec

(* Every variable keeps its type: no source names an entity twice, however  *)
(* often the search finds it.                                              *)
THEOREM TypeCorrect == Spec => []TypeOK
<1>1. IInv => TypeOK
  BY DEF IInv
<1> QED BY <1>1, Inductive, PTL

(* Every result was live during the request, and of the project or linked   *)
(* to it, whatever is written between the queries.                          *)
THEOREM ResultsStayRelated == Spec => []ResultsAreRelated
<1>1. IInv => ResultsAreRelated
  BY DEF IInv
<1> QED BY <1>1, Inductive, PTL

(* Whatever tokenizer counts, a context has at most the characters of       *)
(* budget tokens, and for each entry a separator and the slack of a count.  *)
THEOREM ContextOverrunIsBounded == Spec => []OverrunIsBounded
<1>1. IInv => OverrunIsBounded
  <2> SUFFICES ASSUME IInv, pc = "done", entries > 0
               PROVE  ContextLength <= Dense * budget + (Slack + Separator) * entries
                                         + Heading - Separator
    BY DEF OverrunIsBounded
  <2>1. PICK dense, slack \in Nat : dense = Dense /\ slack = Slack
    BY RetrievalAssumption DEF RetrievalAssumption
  <2>2. /\ chars \in Nat /\ entries \in Nat /\ budget \in Nat
        /\ chars <= dense * budget + slack * entries
    BY <2>1 DEF IInv, TypeOK, PackedFits
  <2>3. ContextLength = 21 + chars + 7 * (entries - 1)
    BY <2>2 DEF ContextLength, Heading, Separator
  <2>4. (slack + 7) * entries = slack * entries + 7 * entries
    BY <2>1, <2>2
  <2>5. dense * budget \in Nat /\ slack * entries \in Nat
    BY <2>1, <2>2
  <2>6. ContextLength <= dense * budget + (slack + 7) * entries + 21 - 7
    BY <2>2, <2>3, <2>4, <2>5
  <2> QED BY <2>1, <2>6 DEF Heading, Separator
<1> QED BY <1>1, Inductive, PTL

-----------------------------------------------------------------------------
(* The order of the results                                                *)

(* What a ranking adds to the score of the entity at rank k.               *)
LEMMA PartOfRank ==
  ASSUME NEW s, Ranking(s), NEW k \in DOMAIN s
  PROVE  Part(s, s[k]) = Unit \div (RRF_K + k)
<1>1. \A j \in DOMAIN s : s[j] = s[k] => j = k
  BY DEF Ranking, IsInjective
<1>2. (CHOOSE j \in DOMAIN s : s[j] = s[k]) = k
  BY <1>1
<1>3. s[k] \in Range(s)
  BY DEF Range
<1> QED BY <1>2, <1>3 DEF Part

(* A ranking is no longer than there are entities.                         *)
LEMMA RanksAreFew ==
  ASSUME NEW s, Ranking(s), NEW k \in DOMAIN s
  PROVE  k \in 1..Cardinality(Entity)
<1>1. IsFiniteSet(Entity) /\ Cardinality(Entity) \in Nat
  BY RetrievalAssumption, Sizes DEF RetrievalAssumption
<1>2. Len(s) \in Nat /\ DOMAIN s = 1..Len(s) /\ s \in [1..Len(s) -> Entity]
  BY DEF Ranking
<1>3. s \in Injection(1..Len(s), Entity)
  BY <1>2 DEF Ranking, IsInjective, Injection, IsInjective
<1>4. Cardinality(1..Len(s)) = Len(s)
  <2> DEFINE n == Len(s)
  <2>1. n \in Nat
    BY <1>2
  <2> HIDE DEF n
  <2>2. Cardinality(1..n) = IF 1 > n THEN 0 ELSE n - 1 + 1
    BY <2>1, FS_Interval
  <2>3. Cardinality(1..n) = n
    BY <2>1, <2>2
  <2> QED BY <2>3 DEF n
<1>5. Cardinality(1..Len(s)) <= Cardinality(Entity)
  BY <1>1, <1>3, FS_Injection
<1> QED BY <1>1, <1>2, <1>4, <1>5

(* A source adds to a score, and more to that of an earlier entity.        *)
LEMMA PartsFall ==
  ASSUME NEW s, Ranking(s)
  PROVE  /\ \A e : Part(s, e) \in Nat
         /\ \A j, k \in DOMAIN s : j < k => Part(s, s[j]) > Part(s, s[k])
<1> USE UnitAssumption DEF UnitAssumption
<1>1. ASSUME NEW k \in DOMAIN s
      PROVE  /\ RRF_K + k \in Nat \ {0} /\ Unit \div (RRF_K + k) \in Nat
             /\ (RRF_K + k) * (Unit \div (RRF_K + k)) = Unit
  <2>1. k \in 1..Cardinality(Entity) /\ k \in Nat \ {0}
    <3>1. k \in 1..Cardinality(Entity)
      BY RanksAreFew
    <3>2. Cardinality(Entity) \in Nat
      BY Sizes
    <3> QED BY <3>1, <3>2
  <2>2. RRF_K + k \in Nat \ {0}
    BY <2>1
  <2> QED BY <2>1, <2>2, Rounding
<1>2. ASSUME NEW e PROVE Part(s, e) \in Nat
  <2>1. CASE e \in Range(s)
    <3>1. PICK k \in DOMAIN s : s[k] = e
      BY <2>1 DEF Range
    <3> QED BY <3>1, <1>1, PartOfRank
  <2>2. CASE e \notin Range(s)
    BY <2>2 DEF Part
  <2> QED BY <2>1, <2>2
<1>3. ASSUME NEW j \in DOMAIN s, NEW k \in DOMAIN s, j < k
      PROVE  Part(s, s[j]) > Part(s, s[k])
  <2> DEFINE c == RRF_K + j
             d == RRF_K + k
             p == Unit \div c
             q == Unit \div d
  <2>1. j \in Nat /\ k \in Nat
    BY DEF Ranking
  <2>2. /\ c \in Nat \ {0} /\ d \in Nat \ {0} /\ c < d
        /\ p \in Nat /\ q \in Nat /\ c * p = Unit /\ d * q = Unit /\ Unit > 0
    BY <1>1, <1>3, <2>1
  <2> HIDE DEF c, d, p, q
  <2>3. p > q
    <3> SUFFICES ASSUME p <= q PROVE FALSE
      BY <2>2
    <3>1. PICK i \in Nat : d = c + 1 + i
      <4>1. d - c - 1 \in Nat /\ d = c + 1 + (d - c - 1)
        BY <2>2
      <4> QED BY <4>1
    <3>2. d * q = c * q + q + i * q
      BY <2>2, <3>1
    <3>3. c * p <= c * q
      <4>1. PICK h \in Nat : q = p + h
        <5>1. q - p \in Nat /\ q = p + (q - p)
          BY <2>2
        <5> QED BY <5>1
      <4>2. c * q = c * p + c * h /\ c * h \in Nat
        BY <2>2, <4>1
      <4> QED BY <2>2, <4>2
    <3>4. i * q \in Nat /\ c * q \in Nat
      BY <2>2
    <3>5. q = 0
      BY <2>2, <3>2, <3>3, <3>4
    <3> QED BY <2>2, <3>5
  <2> QED BY <2>3, PartOfRank DEF c, d, p, q
<1> QED BY <1>2, <1>3

(* An entity that dominates a scored one has the higher score.             *)
LEMMA DominantScoresHigher ==
  ASSUME TypeOK, NEW x, NEW y \in Scored, Dominates(x, y)
  PROVE  Score(x) \in Int /\ Score(y) \in Int /\ Score(x) > Score(y)
<1>1. ASSUME NEW s \in {fts, graph, vec}
      PROVE  /\ Part(s, x) \in Nat /\ Part(s, y) \in Nat
             /\ Part(s, x) >= Part(s, y)
             /\ y \in Range(s) => Part(s, x) > Part(s, y)
  <2>1. Ranking(s)
    BY DEF TypeOK
  <2>2. Part(s, x) \in Nat /\ Part(s, y) \in Nat
    BY <2>1, PartsFall
  <2>3. CASE y \in Range(s)
    <3>1. PICK k \in DOMAIN s : s[k] = y
      BY <2>3 DEF Range
    <3>2. PICK j \in 1..(k - 1) : s[j] = x
      BY <3>1 DEF Dominates
    <3>3. j \in DOMAIN s /\ j < k
      <4>1. Len(s) \in Nat /\ DOMAIN s = 1..Len(s)
        BY <2>1 DEF Ranking
      <4> QED BY <4>1, <3>1, <3>2
    <3> QED BY <2>1, <2>2, <3>1, <3>2, <3>3, PartsFall
  <2>4. CASE y \notin Range(s)
    BY <2>2, <2>4 DEF Part
  <2> QED BY <2>2, <2>3, <2>4
<1>2. y \in Range(fts) \/ y \in Range(graph) \/ y \in Range(vec)
  BY DEF Scored
<1> QED BY <1>1, <1>2 DEF Score

(* So the fusion keeps what every source says, whatever the sources saw.   *)
LEMMA FuseRespectsRanks == ASSUME IInv, Fuse PROVE FusionRespectsRanks'
<1>1. PICK best \in Ordered(Scored, Penalty, limit) :
        results' \in Ordered(Range(best) \cap (Range(fts) \cup Range(graph)), Penalty, limit)
  BY DEF Fuse
<1>2. UNCHANGED <<fts, graph, vec>>
  BY DEF Fuse, sources
<1> DEFINE known == Range(fts) \cup Range(graph)
           R == Range(best) \cap known
<1>3. Scored \subseteq Entity /\ limit \in Nat /\ R \subseteq Scored /\ R \subseteq Entity
  BY RetrievalAssumption DEF RetrievalAssumption, IInv, TypeOK, Ranking, Range, Scored
<1>4. /\ Ranking(best) /\ Range(best) \subseteq Scored
      /\ Ranking(results') /\ Range(results') \subseteq R
  <2>1. results' \in Ordered(R, Penalty, limit)
    BY <1>1
  <2> HIDE DEF R
  <2> QED BY <1>1, <1>3, <2>1, OrderedIsRanking
<1>5. SUFFICES ASSUME NEW k \in DOMAIN results', NEW x \in known,
                      Dominates(x, results'[k])
               PROVE  \E j \in 1..(k - 1) : results'[j] = x
  BY <1>2 DEF FusionRespectsRanks, Dominates
<1> DEFINE y == results'[k]
<1>6. y \in R /\ x \in Scored
  BY <1>4 DEF Range, Scored
<1>7. Penalty[x] < Penalty[y]
  <2>1. Score(x) \in Int /\ Score(y) \in Int /\ Score(x) > Score(y)
    BY <1>3, <1>5, <1>6, DominantScoresHigher DEF IInv
  <2>2. Penalty[x] = -Score(x) /\ Penalty[y] = -Score(y)
    BY <1>3, <1>6 DEF Penalty
  <2> QED BY <2>1, <2>2
<1> HIDE DEF y
<1>8. x \in Range(best)
  <2>1. PICK m \in DOMAIN best : best[m] = y
    BY <1>6 DEF Range
  <2>2. PICK j \in 1..(m - 1) : best[j] = x
    BY <1>1, <1>6, <1>7, <2>1 DEF Ordered
  <2>3. j \in DOMAIN best
    <3>1. Len(best) \in Nat /\ DOMAIN best = 1..Len(best)
      BY <1>4 DEF Ranking
    <3> QED BY <2>1, <2>2, <3>1
  <2> QED BY <2>2, <2>3 DEF Range
<1>9. x \in R
  BY <1>8
<1> QED
  BY <1>1, <1>7, <1>9 DEF Ordered, y

(* No result precedes or displaces one that every source ranks above it.   *)
THEOREM FusionRespectsRankings == Spec => []FusionRespectsRanks
<1>1. Init => FusionRespectsRanks
  BY DEF Init, FusionRespectsRanks
<1>2. IInv /\ FusionRespectsRanks /\ [Next]_vars => FusionRespectsRanks'
  <2> SUFFICES ASSUME IInv, FusionRespectsRanks, [Next]_vars PROVE FusionRespectsRanks'
    OBVIOUS
  <2>1. CASE Fuse
    BY <2>1, FuseRespectsRanks
  <2>2. CASE ~Fuse
    <3>1. pc' = "pack" => pc = "pack" /\ UNCHANGED <<sources, results>>
      BY <2>2 DEF Next, Search, FtsSearch, GraphMatches, NeighborsOut, NeighborsIn,
         GraphReturns, VectorSearch, QueryRaises, Assemble, Pack, Overflow,
         CountRaises, Answer, Meanwhile, Create, SoftDelete, Update, AddEdge,
         RemoveEdgesFor, StoreVector, DeleteVector,
         Written, vars
    <3> QED BY <3>1 DEF FusionRespectsRanks, Dominates, sources
  <2> QED BY <2>1, <2>2
<1> QED BY <1>1, <1>2, Inductive, PTL DEF Spec
=============================================================================
