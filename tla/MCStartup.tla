----------------------------- MODULE MCStartup ------------------------------
(* Three starts over two migrations, of two statements and of one.         *)
EXTENDS Startup

MCStatements == <<2, 1>>
=============================================================================
