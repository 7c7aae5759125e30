----------------------------- MODULE SpawnPath -----------------------------
(***************************************************************************)
(* The PATH of stdio servers: transport/stdio/spawn_env, and its use in    *)
(* initialize_inner of transport/stdio/mod.rs.  The first launch to need   *)
(* it asks the login shell and keeps the result for the process; launches  *)
(* that come meanwhile wait, and one of them takes over when the one that  *)
(* asks is dropped.                                                        *)
(*                                                                         *)
(* A directory is a tuple: a name, and for nvm's a version.  <<>> is an    *)
(* empty entry of a PATH.  Unix only: on Windows no shell is asked.        *)
(***************************************************************************)
EXTENDS Naturals, Sequences, SequencesExt

CONSTANTS
    Starters,   \* launches
    Dirs,       \* directories that may hold commands
    Paths,      \* what a PATH may be
    HomeDirs,   \* the shim directories looked for, in order
    FixedDirs,  \* and those looked for after nvm's
    NvmListings, \* what nvm's directory may list: sequences of entries
    OwnPaths    \* the PATHs of a server's own environment: sequences of them

ASSUME SpawnAssumption ==
    /\ Paths \subseteq Seq(Dirs \cup {<<>>})
    /\ HomeDirs \in Seq(Dirs) /\ FixedDirs \in Seq(Dirs)
    /\ NvmListings \subseteq Seq([version : Seq(Nat), bin : BOOLEAN])
    /\ OwnPaths \subseteq Seq(Seq(Dirs \cup {<<>>}))

VARIABLES
    machine,   \* the process's PATH, the directories there are, nvm's listing
    cell,      \* SPAWN_PATH, by the shell's answer it was made from: <<>>, or <<answer>>
    place,     \* where each launch is
    shells,    \* launches whose probe shell runs
    own        \* the PATHs in the environment of its server

spawnVars == <<machine, cell, place, shells, own>>

SpawnInit ==
    /\ \E process \in Paths, nvm \in NvmListings, there \in SUBSET (ToSet(HomeDirs) \cup ToSet(FixedDirs)) :
           machine = [process |-> process, there |-> there, nvm |-> nvm]
    /\ cell = <<>> /\ shells = {}
    /\ place = [l \in Starters |-> "idle"]
    /\ own \in [Starters -> OwnPaths]

\* Vec<u32>, in its order.
Below(v, w) ==
    \/ IsStrictPrefix(v, w)
    \/ \E k \in 1..Len(v) :
           /\ k <= Len(w) /\ SubSeq(v, 1, k - 1) = SubSeq(w, 1, k - 1)
           /\ v[k] < w[k]

\* nvm_latest_bin_dir: what is no version, or has no bin, is skipped.
LaterBin(best, entry) ==
    IF entry.version = <<>> \/ ~entry.bin \/ (best # <<>> /\ ~Below(best, entry.version))
    THEN best ELSE entry.version

LatestBin(listing) == FoldLeft(LaterBin, <<>>, listing)

PushIfDir(dirs, dir) == IF dir \in machine.there THEN Append(dirs, dir) ELSE dirs

\* version_manager_dirs
VersionManagerDirs ==
    LET latest == LatestBin(machine.nvm)
        home == FoldLeft(PushIfDir, <<>>, HomeDirs)
    IN  FoldLeft(PushIfDir, IF latest = <<>> THEN home ELSE Append(home, <<"nvm">> \o latest),
                 FixedDirs)

OrderSources(login) ==
    IF login = <<>> THEN <<VersionManagerDirs, machine.process>>
    ELSE login \o <<machine.process, VersionManagerDirs>>

\* merge_path_strings: the first occurrence of every entry.
KeepFirst(merged, entry) ==
    IF entry = <<>> \/ entry \in ToSet(merged) THEN merged ELSE Append(merged, entry)

Merge(sources) == FoldLeft(KeepFirst, <<>>, FlattenSeq(sources))

\* locate_command, of a bare name some files of which are executable: the directory.
Locate(files, path) ==
    LET at == {k \in DOMAIN path : path[k] # <<>> /\ path[k] \in files}
    IN  IF at = {} THEN <<>> ELSE path[CHOOSE k \in at : \A j \in at : k <= j]

\* The value of SPAWN_PATH.
Resolved == Merge(OrderSources(cell[1]))

\* The lookup that takes the first PATH of the server's environment.
FirstOwn(l) == IF own[l] = <<>> THEN Resolved ELSE Head(own[l])

\* effective_path: the last one counts.
EffectivePath(l) == IF own[l] = <<>> THEN Resolved ELSE Last(own[l])

\* What the child gets: the resolved path, then its server's environment.
ChildPath(l) == Last(<<Resolved>> \o own[l])

Go(l, here, there) == place[l] = here /\ place' = [place EXCEPT ![l] = there]

Ask(l) ==
    /\ Go(l, "idle", "waiting")
    /\ UNCHANGED <<machine, cell, shells, own>>

\* Every launch that finds nothing asks for itself.
ProbeAlongside(l) ==
    /\ cell = <<>>
    /\ Go(l, "waiting", "probing")
    /\ shells' = shells \cup {l}
    /\ UNCHANGED <<machine, cell, own>>

\* get_or_init: one launch at a time has the permit, while there is nothing yet.
Probe(l) ==
    /\ cell = <<>>
    /\ \A k \in Starters : place[k] # "probing"
    /\ Go(l, "waiting", "probing")
    /\ shells' = shells \cup {l}
    /\ UNCHANGED <<machine, cell, own>>

\* The shell has exited, or kill_on_drop ends it.
Ended(l) == shells' = shells \ {l}

\* login_shell_path: a PATH between the markers, or nothing (the shell did not run,
\* failed, printed none, or took longer than the timeout).
ProbeEnds(l) ==
    /\ Go(l, "probing", "waiting")
    /\ \E login \in {<<>>} \cup {<<p>> : p \in Paths \ {<<>>}} : cell' = <<login>>
    /\ Ended(l)
    /\ UNCHANGED <<machine, own>>

\* Its command is looked up and it is started.
Launch(l) ==
    /\ cell # <<>>
    /\ Go(l, "waiting", "launched")
    /\ UNCHANGED <<machine, cell, shells, own>>

\* The caller gives up, and its future is dropped.
DropStart(l) ==
    /\ \/ Go(l, "waiting", "dropped") /\ UNCHANGED shells
       \/ Go(l, "probing", "dropped") /\ Ended(l)
    /\ UNCHANGED <<machine, cell, own>>

SpawnNext ==
    \E l \in Starters : Ask(l) \/ Probe(l) \/ ProbeEnds(l) \/ Launch(l) \/ DropStart(l)

SpawnSpec == SpawnInit /\ [][SpawnNext]_spawnVars

\* A shell that hangs is given up after LOGIN_SHELL_TIMEOUT, and the permit wakes the
\* next in line.
SpawnFairness ==
    \A l \in Starters : WF_spawnVars(Probe(l)) /\ WF_spawnVars(ProbeEnds(l)) /\ WF_spawnVars(Launch(l))

-----------------------------------------------------------------------------
(* Properties. *)

SpawnTypeOK ==
    /\ place \in [Starters -> {"idle", "waiting", "probing", "launched", "dropped"}]
    /\ shells \subseteq Starters
    /\ Len(cell) \in 0..1

\* No shell outlives the launch that asks it.
\* (transport/stdio/spawn_env/mod.rs:117-121)
NoShellIsLeft == \A l \in shells : place[l] = "probing"

\* Where a command is found differs between two PATHs as soon as some one or two
\* directories show it.
Files == {{d, e} : d, e \in Dirs}

\* What `lead` has is found where it has it.
Leads(lead, path) ==
    \A files \in Files : Locate(files, lead) # <<>> => Locate(files, path) = Locate(files, lead)

\* The directories of the version managers "never override the Node version the user's
\* shell selected"; when the shell cannot be asked, they lead instead.
\* (transport/stdio/spawn_env/mod.rs:26-28)
ShellIsAuthority ==
    cell # <<>> => Leads(IF cell[1] = <<>> THEN VersionManagerDirs ELSE cell[1][1], Resolved)

\* What any of the sources has is found, and nothing else is.
NothingIsHidden ==
    cell # <<>> =>
        LET sources == ToSet(OrderSources(cell[1]))
            path == Resolved
        IN  \A files \in Files :
                (Locate(files, path) # <<>>) <=> \E source \in sources : Locate(files, source) # <<>>

\* The directory of nvm is that of the highest version that is usable.
LatestIsHighest ==
    LET usable == {e \in ToSet(machine.nvm) : e.bin /\ e.version # <<>>}
        latest == LatestBin(machine.nvm)
    IN  /\ (latest = <<>>) <=> (usable = {})
        /\ \A e \in usable : e.version = latest \/ Below(e.version, latest)

\* The check before the launch looks where the child will.
\* (transport/stdio/mod.rs:300-335)
ChecksWhatTheChildSees ==
    \A l \in Starters : place[l] = "launched" => EffectivePath(l) = ChildPath(l)

SpawnInv ==
    /\ SpawnTypeOK
    /\ NoShellIsLeft
    /\ ShellIsAuthority
    /\ NothingIsHidden
    /\ LatestIsHighest
    /\ ChecksWhatTheChildSees

\* A launch does not wait forever for one that was dropped while it asked the shell.
StartsMoveOn == \A l \in Starters : place[l] = "waiting" ~> place[l] # "waiting"

\* One path is resolved, and every launch of the process has it.
\* (transport/stdio/spawn_env/mod.rs:67-72)
ResolvedOnce == [][cell = <<>>]_cell

SpawnKeeps == []SpawnInv /\ ResolvedOnce /\ StartsMoveOn

=============================================================================
