--------------------------- MODULE MCHttpSession ---------------------------
(* Two requests at once, and two session ids: one request can stand on the  *)
(* session that another has just replaced.  When both ids are in somebody's *)
(* hands, a handshake gets none or fails.  The safety properties are proved  *)
(* for any number of both.                                                   *)
EXTENDS HttpSession

CONSTANTS t1, t2

MCTasks    == {t1, t2}
MCRequests == {"call", "close"}
MCSids     == 1..2

=============================================================================
