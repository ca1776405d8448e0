--------------------------- MODULE MCIntentQueue ---------------------------
(* Two overlapping drains, and a batch smaller than the queue.             *)
EXTENDS IntentQueue
=============================================================================
