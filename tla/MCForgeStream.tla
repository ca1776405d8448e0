--------------------------- MODULE MCForgeStream ----------------------------
(* One forge and another event; a stream of everything and a handler of    *)
(* one family.                                                             *)
EXTENDS ForgeStream

CONSTANTS live, family

MCTopics == {"forge.requested", "forge.completed", "forge.failed", "system.started"}
MCTopicOf ==
  [k \in {"requested", "completed", "failed"} |->
     CASE k = "requested" -> "forge.requested"
       [] k = "completed" -> "forge.completed"
       [] k = "failed" -> "forge.failed"]
MCFamily == [t \in MCTopics |-> IF t = "system.started" THEN "system.*" ELSE "forge.*"]
MCPattern == [s \in {live, family} |-> IF s = live THEN "*" ELSE "forge.*"]
=============================================================================
