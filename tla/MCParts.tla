------------------------------ MODULE MCParts ------------------------------
(***************************************************************************)
(* Components that share no state, each explored by itself: `part` says    *)
(* which of them a behaviour is about; of the served protocol, the lines   *)
(* and the HTTP sessions are looked at one at a time.                      *)
(***************************************************************************)
EXTENDS SetupFlow, StdioJail, StdioSession, ServerProtocol, SpawnPath

VARIABLE part

CONSTANTS h1, f1, f2, l1, l2, c1, c2, z1, s1, s2, p1, p2

MCHandles == {h1}
MCFlows == {f1, f2}
MCLaunches == {l1, l2}
MCCallers == {c1, c2}
MCClosers == {z1}
MCSessionIds == {s1, s2}

\* Directories, and what the machine has in them: of nvm, versions that sort otherwise
\* as text, one without a bin and a name that is no version.
MCStarters == {p1, p2}
Volta == <<"volta">>
Brew == <<"brew">>
Usr == <<"usr">>
MCHomeDirs == <<Volta>>
MCFixedDirs == <<Brew>>
MCDirs == {Volta, Brew, Usr, <<"nvm", 9>>, <<"nvm", 10>>}
MCPaths == {<<>>, <<Usr>>, <<Usr, Volta>>, <<<<"nvm", 9>>, <<>>, Usr>>, <<Brew, Brew>>}
Entry(v, bin) == [version |-> v, bin |-> bin]
MCListings ==
    {<<>>, <<Entry(<<>>, TRUE)>>,
     <<Entry(<<9>>, TRUE), Entry(<<10>>, TRUE)>>,
     <<Entry(<<10>>, FALSE), Entry(<<9, 1>>, TRUE), Entry(<<9>>, TRUE)>>}
MCOwnPaths == {<<>>, <<<<Brew>>, <<Usr, Volta>>>>}

partVars == <<setupVars, jailVars, stdioVars, protocolVars, spawnVars>>

\* A start for the parts that start no launch.
SpawnIdle ==
    /\ machine = [process |-> <<>>, there |-> {}, nvm |-> <<>>]
    /\ cell = <<>> /\ shells = {} /\ place = [l \in Starters |-> "idle"]
    /\ own = [l \in Starters |-> <<>>]

Init ==
    /\ part \in {"setup", "jail", "stdio", "line", "http", "spawn"}
    /\ SetupInit /\ JailInit /\ StdioInit /\ LineInit /\ HttpInit
    /\ IF part = "spawn" THEN SpawnInit ELSE SpawnIdle
    \* one line for the parts that read none
    /\ part # "line" => line = <<[kind |-> "notification", length |-> 0]>> /\ ~batch /\ limit = 0

Next ==
    /\ \/ /\ part = "setup" /\ SetupNext
          /\ UNCHANGED <<jailVars, stdioVars, protocolVars, spawnVars>>
       \/ /\ part = "jail" /\ JailNext
          /\ UNCHANGED <<setupVars, stdioVars, protocolVars, spawnVars>>
       \/ /\ part = "stdio" /\ StdioNext
          /\ UNCHANGED <<setupVars, jailVars, protocolVars, spawnVars>>
       \/ /\ part = "line" /\ LineNext
          /\ UNCHANGED <<setupVars, jailVars, stdioVars, httpVars, spawnVars>>
       \/ /\ part = "http" /\ HttpNext
          /\ UNCHANGED <<setupVars, jailVars, stdioVars, lineVars, spawnVars>>
       \/ /\ part = "spawn" /\ SpawnNext
          /\ UNCHANGED <<setupVars, jailVars, stdioVars, protocolVars>>
    /\ UNCHANGED part

\* The fairness is that of the one component it is about.
Spec ==
    /\ Init /\ [][Next]_<<part, partVars>>
    /\ part = "stdio" => StdioFairness
    /\ part = "spawn" => SpawnFairness

=============================================================================
