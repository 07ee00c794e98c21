----------------------------- MODULE MCMcpUsers -----------------------------
(* Model-checking instances of McpUsers: one process for everything, and   *)
(* the deployment of start.sh, the MCP server beside the admin API.        *)
EXTENDS McpUsers

OneUser == [k \in Keys |-> "alice"]
=============================================================================
