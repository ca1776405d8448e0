---------------------------- MODULE MCRetrieval -----------------------------
(* Three entities of the project and a foreign one.  Some entries have as  *)
(* few tokens as their characters allow, others more.                      *)
EXTENDS Retrieval, TLC

CONSTANTS a, b, c, x

Four(i, j, k, l) == (a :> i) @@ (b :> j) @@ (c :> k) @@ (x :> l)
MCLength == Four(200, 3, 480, 900)
MCTokens == Four(50, 1, 120, 240)
MCDeleted == {{}, {c}}
MCLinks == {{<<x, a>>, <<a, c>>, <<a, b>>}}
MCTexts == {Four(1, 0, 2, 0), Four(3, 2, 3, 1)}
MCVectors == {Four(0, 2, 1, 0), Four(3, 1, 0, 2)}
=============================================================================
