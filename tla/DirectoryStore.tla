--------------------------- MODULE DirectoryStore ---------------------------
(***************************************************************************)
(* What a module that serves several data directories promises: each       *)
(* directory answers with one client configuration or not at all, one      *)
(* directory changes at a time, to what was asked for and in one step, and *)
(* no more than MaxOpen are served.                                        *)
(***************************************************************************)
EXTENDS Naturals, FiniteSets

CONSTANTS
    Dirs,      \* data directories
    Clients,   \* client configurations
    None,      \* not served; nothing is changing
    MaxOpen    \* how many directories are served at once

VARIABLES
    serving,   \* the configuration each directory answers with
    changing   \* the change under way

storeVars == <<serving, changing>>

Changes == [dir : Dirs, to : Clients \cup {None}]

StoreInit ==
    /\ serving \in [Dirs -> Clients \cup {None}]
    /\ Cardinality({d \in Dirs : serving[d] # None}) <= MaxOpen
    /\ changing = None

Begin(d, c) ==
    /\ changing = None
    /\ serving[d] # c
    /\ serving[d] = None => Cardinality({e \in Dirs : serving[e] # None}) < MaxOpen
    /\ changing' = [dir |-> d, to |-> c]
    /\ UNCHANGED serving

Commit ==
    /\ changing # None
    /\ serving' = [serving EXCEPT ![changing.dir] = changing.to]
    /\ changing' = None

Abort ==
    /\ changing # None
    /\ changing' = None
    /\ UNCHANGED serving

StoreNext ==
    \/ \E d \in Dirs, c \in Clients \cup {None} : Begin(d, c)
    \/ Commit
    \/ Abort

StoreSpec == StoreInit /\ [][StoreNext]_storeVars

=============================================================================
