-------------------------- MODULE MCKnowledgeStore --------------------------
(* One directory and two contents.  The daemon starts on an empty database *)
(* or on one with a watched project and four entities: o1 -> o2 and, on    *)
(* the far side of o2, o3 -> o2 and o2 -> o4.  Three calls: two overlapping *)
(* upserts of a name and its deletion, two overlapping watches and an      *)
(* unwatch, or a search with two changes under it.  Depth and Limit are 2, *)
(* so a search ends for either of them, and cuts.  Calls are               *)
(* interchangeable.                                                        *)
EXTENDS KnowledgeStore, TLC

CONSTANTS p1, k1, k2, k3, k4, c1, o1, o2, o3, o4, project

Empty ==
  [projects |-> [i \in Ids |-> NoRow], watched |-> [p \in Paths |-> NoRow],
   entities |-> [i \in Ids |-> NoRow], edges |-> {}]

Entities == o1 :> k1 @@ o2 :> k2 @@ o3 :> k3 @@ o4 :> k4

Linked ==
  [projects |-> [i \in Ids |-> IF i = project THEN p1 ELSE NoRow],
   watched |-> [p \in Paths |-> project],
   entities |-> [i \in Ids |->
                   IF i \in DOMAIN Entities
                     THEN [project |-> project, key |-> Entities[i], content |-> c1, live |-> TRUE]
                     ELSE NoRow],
   edges |-> {<<o1, o1, o2>>, <<o2, o3, o2>>, <<o3, o2, o4>>}]

MCDatabases == {Empty, Linked}

CallSymmetry == Permutations(Calls)
=============================================================================
