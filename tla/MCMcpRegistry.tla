--------------------------- MODULE MCMcpRegistry ---------------------------
(* Two callers overlap any operations on one server.  Servers share no     *)
(* state, so one shows what any number would.                              *)
EXTENDS McpRegistry, TLC

CONSTANTS s1, c1, c2

MCServers == {s1}
MCCallers == {c1, c2}
MCWorlds  == {"ok", "broken"}

=============================================================================
