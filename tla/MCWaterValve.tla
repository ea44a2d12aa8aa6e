----------------------------- MODULE MCWaterValve -----------------------------
(* Small instances of WaterValve for TLC: which commands reach the node.   *)
EXTENDS WaterValve

AllCommands == CommandKinds
ButtonCommands == {"press", "sync", "restart"}

=============================================================================
