-------------------------- MODULE MCToolLifecycle ---------------------------
(* Two tools, two requests in flight, five in a behaviour, one crash, one  *)
(* statement that fails.                                                   *)
EXTENDS ToolLifecycle
=============================================================================
