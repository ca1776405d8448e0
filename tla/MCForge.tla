------------------------------ MODULE MCForge ------------------------------
(* Three requests for one slot or two.                                     *)
EXTENDS Forge
=============================================================================
