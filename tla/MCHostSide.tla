---------------------------- MODULE MCHostSide ----------------------------
(***************************************************************************)
(* What a host drives: the clients it opens in directories, a sign-in, and *)
(* the lookup that says whether a server wants one.  They share no state,  *)
(* and `part` says which of them a behaviour is about.                     *)
(***************************************************************************)
EXTENDS ClientLifecycle, OAuthFlow, AuthDiscovery, TLC

VARIABLE part

CONSTANTS root, d1, c1, c2

MCDirs == {root, d1}
MCOwned == {d1}
MCClients == {c1, c2}
Symmetry == Permutations(Tasks) \cup Permutations(States)

\* One server a resource may name; metadata that is complete, that lacks an
\* endpoint, and that writes its issuer with a slash.
MCNamedServers == {"named"}
MCPublishable ==
    {Nothing,
     [resource |-> "own", names |-> MCNamedServers, issuer |-> "none", has |-> {}],
     [resource |-> "none", names |-> {}, issuer |-> "own", has |-> {"authorize"}],
     [resource |-> "none", names |-> {}, issuer |-> "slash", has |-> {"authorize", "token"}],
     [resource |-> "none", names |-> {}, issuer |-> "own", has |-> Endpoints]}

MCInit ==
    /\ part \in {"clients", "signIn", "lookup"}
    /\ Init /\ OAuthInit /\ DiscoveryInit
    \* one starting point for the parts that are not explored
    /\ part # "clients" => legacy = Default
    /\ part # "signIn" => ~rotates
    /\ part # "lookup" => start = "root"

MCNext ==
    /\ \/ part = "clients" /\ Next /\ UNCHANGED <<oauthVars, discoveryVars>>
       \/ part = "signIn" /\ OAuthNext /\ UNCHANGED <<vars, discoveryVars>>
       \/ part = "lookup" /\ DiscoveryNext /\ UNCHANGED <<vars, oauthVars>>
    /\ UNCHANGED part

MCSpec == MCInit /\ [][MCNext]_<<part, vars, oauthVars, discoveryVars>>

=============================================================================
