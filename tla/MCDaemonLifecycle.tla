------------------------- MODULE MCDaemonLifecycle --------------------------
(* One terminal, three launches, two crashes or signals and a reused PID.  *)
EXTENDS DaemonLifecycle
=============================================================================
