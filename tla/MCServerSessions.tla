-------------------------- MODULE MCServerSessions --------------------------
(* Three identifiers and a window of two, so one can expire; one of the       *)
(* sessions runs operations, two of them, with two callbacks at most.        *)
EXTENDS ServerSessions

MCBusy == {2}

=============================================================================
