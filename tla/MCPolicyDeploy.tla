--------------------------- MODULE MCPolicyDeploy ---------------------------
(* Instance of PolicyDeploy for TLC: the constants are in the .cfg files.   *)
EXTENDS PolicyDeploy
=============================================================================
