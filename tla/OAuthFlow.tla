----------------------------- MODULE OAuthFlow -----------------------------
(***************************************************************************)
(* Browser sign-in and token refresh for one HTTP-remote server:           *)
(* registry/oauth (flow.rs, tokens.rs, pending.rs, credentials.rs), the    *)
(* refresh a connect makes first (Connections::dial_remote) and the        *)
(* credential merge of McpRegistry::update_env that may overlap them.      *)
(*                                                                         *)
(* The authorization server and the browser are external: a grant is what  *)
(* one sign-in obtains, its refresh tokens are numbered, and a server that *)
(* rotates them accepts the last one it issued.  A credential map is       *)
(* replaced whole; its version counts the writes.                          *)
(***************************************************************************)
EXTENDS Naturals, FiniteSets

CONSTANTS
    Tasks,       \* callers of begin, complete, connect and update_env
    States,      \* the `state` values of authorizations
    Absent,
    Ttl,         \* PENDING_TTL_SECS, in clock units
    Skew,        \* REFRESH_SKEW_SECS
    Lifetime,    \* how long an access token lasts
    MaxNow,      \* bound: the clock stops here
    MaxEdits,    \* bound: values the user sets
    MaxTokens    \* bound: tokens of a grant

ASSUME OAuthAssumption ==
    /\ Absent \notin Tasks \cup States \cup Nat
    /\ Ttl \in Nat /\ Skew \in Nat /\ Lifetime \in Nat
    /\ MaxNow \in Nat /\ MaxEdits \in Nat /\ MaxTokens \in Nat \ {0}

VARIABLES
    now,         \* now_unix
    parked,      \* the pending store: when each authorization was parked
    code,        \* the authorization server's codes
    issued,      \* the last refresh token it has issued for each state's grant
    rotates,     \* whether a refresh replaces the refresh token
    cred,        \* the stored credential map
    task,        \* what each caller is doing
    posted,      \* history: how often each state's code was sent
    overdue,     \* history: whether a state older than Ttl was completed
    missed,      \* history: a merge replaced a write it had not read, or a store
                 \* call failed after the tokens were issued
    stale        \* history: a session was opened with an expired token that a
                 \* refresh could have replaced

oauthVars == <<now, parked, code, issued, rotates, cred, task, posted, overdue, missed, stale>>

\* An access token and its bundle.  `until` is when the server stops accepting the
\* access token, `expires` what the bundle says of it.
Bundles == [grant : States, refresh : 0..MaxTokens,
            until : 0..MaxNow + Lifetime, expires : 0..MaxNow + Lifetime]

ASSUME AbsentAssumption == Absent \notin Bundles

NoCredentials == [version |-> 0, custom |-> 0, bundle |-> Absent]

Resting == [at |-> "idle", state |-> Absent, read |-> NoCredentials, tokens |-> Absent,
            since |-> 0, looked |-> 0, refused |-> FALSE]

Steps == {"idle", "begin", "exchange", "merge", "store", "due", "refresh", "superseded",
          "dial", "edit"}

OAuthTypeOK ==
    /\ now \in 0..MaxNow
    /\ parked \in [States -> 0..MaxNow \cup {Absent}]
    /\ code \in [States -> {"none", "issued", "spent"}]
    /\ issued \in [States -> 0..MaxTokens]
    /\ cred.bundle \in Bundles \cup {Absent}
    /\ cred.custom \in 0..MaxEdits
    /\ \A t \in Tasks : task[t].at \in Steps /\ task[t].state \in States \cup {Absent}
    /\ \A s \in States : code[s] = "none" => issued[s] = 0

OAuthInit ==
    /\ now = 0
    /\ parked = [s \in States |-> Absent]
    /\ code = [s \in States |-> "none"]
    /\ issued = [s \in States |-> 0]
    /\ rotates \in BOOLEAN
    /\ cred = NoCredentials
    /\ task = [t \in Tasks |-> Resting]
    /\ posted = [s \in States |-> 0]
    /\ overdue = FALSE /\ missed = FALSE /\ stale = FALSE

AtStep(t, step) == task[t].at = step
Goes(t, rec) == task' = [task EXCEPT ![t] = rec]
StepsTo(t, step) == Goes(t, [task[t] EXCEPT !.at = step])
Rests(t) == Goes(t, Resting)

history == <<posted, overdue, missed, stale>>
server == <<code, issued, rotates>>

-----------------------------------------------------------------------------
(* begin: discovery, registration and parking.                             *)

\* Discovery or registration fails, or there is nothing to sign in to.
BeginSignIn(t) ==
    /\ AtStep(t, "idle")
    /\ StepsTo(t, "begin")
    /\ UNCHANGED <<now, parked, server, cred, history>>

BeginFails(t) ==
    /\ AtStep(t, "begin") /\ Rests(t)
    /\ UNCHANGED <<now, parked, server, cred, history>>

\* The store parks under a new state; the user may consent from here on.
Park(t) ==
    /\ AtStep(t, "begin") /\ Rests(t)
    /\ \E s \in States :
          /\ code[s] = "none"
          /\ parked' = [parked EXCEPT ![s] = now]
          /\ code' = [code EXCEPT ![s] = "issued"]
    /\ UNCHANGED <<now, issued, rotates, cred, history>>

\* expired_at, which takes the difference on the side that cannot go below zero.
ExpiredAt(started, time) == started < (IF time > Ttl THEN time - Ttl ELSE 0)

\* A store may drop what has expired, the memory store whenever it is touched.
Pruned(old, new) ==
    \/ new = old
    \/ new = [s \in States |-> IF old[s] # Absent /\ ExpiredAt(old[s], now)
                               THEN Absent ELSE old[s]]

-----------------------------------------------------------------------------
(* complete: the redirect comes back, perhaps more than once.              *)

\* An entry that is taken while another caller takes it too.
TakenShared(s) == parked

Taken(s) == [parked EXCEPT ![s] = Absent]

\* A completion that leaves expiry to the store.
UsableWhenFound(started) == started # Absent

Usable(started) == started # Absent /\ ~ExpiredAt(started, now)

Take(t) ==
    \E s \in States :
        /\ AtStep(t, "idle") /\ code[s] # "none"
        /\ Pruned(Taken(s), parked')
        /\ IF Usable(parked[s])
           THEN /\ Goes(t, [Resting EXCEPT !.at = "exchange", !.state = s])
                /\ overdue' = (overdue \/ now - parked[s] > Ttl)
           ELSE UNCHANGED <<task, overdue>>
        /\ UNCHANGED <<now, server, cred, posted, missed, stale>>

\* The tokens of a grant's next issue; a server may issue no refresh token.
Issue(s, refresh) ==
    [grant |-> s, refresh |-> refresh, until |-> now + Lifetime, expires |-> now + Lifetime]

Exchange(t) ==
    LET s == task[t].state
    IN  /\ AtStep(t, "exchange")
        /\ posted' = [posted EXCEPT ![s] = @ + 1]
        /\ \/ /\ code[s] = "issued"
              /\ \E refresh \in {0, 1} :
                    /\ issued' = [issued EXCEPT ![s] = refresh]
                    /\ Goes(t, [task[t] EXCEPT !.at = "merge", !.tokens = Issue(s, refresh)])
           \/ Rests(t) /\ UNCHANGED issued      \* refused, unreachable or unusable
        /\ code' = [code EXCEPT ![s] = "spent"]
        /\ UNCHANGED <<now, parked, rotates, cred, overdue, missed, stale>>

-----------------------------------------------------------------------------
(* persist, for complete and for a refresh: load, merge, store.            *)

\* What is kept of a reply without a refresh token.
Forgetting(tokens, bundle) == tokens

Keeping(tokens, bundle) ==
    IF tokens.refresh = 0 THEN [tokens EXCEPT !.refresh = bundle.refresh] ELSE tokens

Merge(t) ==
    /\ AtStep(t, "merge")
    /\ Goes(t, [task[t] EXCEPT !.at = "store", !.read = cred])
    /\ UNCHANGED <<now, parked, server, cred, history>>

\* What is left to do for a connect.
Dials(t, refused) ==
    Goes(t, [Resting EXCEPT !.at = "dial", !.since = task[t].since, !.refused = refused])

\* A refresh goes on to the dial it was made for.
AfterStore(t) == IF task[t].state = Absent THEN Dials(t, FALSE) ELSE Rests(t)

StoreTokens(t) ==
    LET p == task[t]
    IN  /\ AtStep(t, "store")
        /\ \/ /\ cred' = [p.read EXCEPT !.version = cred.version + 1,
                            !.bundle = [p.tokens EXCEPT !.expires = now + Lifetime]]
              /\ missed' = (missed \/ p.read.version # cred.version)
           \/ missed' = TRUE /\ UNCHANGED cred
        /\ AfterStore(t)
        /\ UNCHANGED <<now, parked, server, posted, overdue, stale>>

-----------------------------------------------------------------------------
(* A connect: due_refresh, exchange_refresh, then the dial.                *)

\* A token is due when it has expired, and not before.
DueAtExpiry(b) == b # Absent /\ b.refresh # 0 /\ b.expires <= now

Due(b) == b # Absent /\ b.refresh # 0 /\ b.expires <= now + Skew

\* The load can fail, and the dial goes on with what there is.
BeginConnect(t) ==
    /\ AtStep(t, "idle") /\ cred.bundle # Absent
    /\ \/ /\ Due(cred.bundle)
          /\ Goes(t, [Resting EXCEPT !.at = "refresh", !.read = cred, !.since = now])
       \/ /\ ~Due(cred.bundle)
          /\ Goes(t, [Resting EXCEPT !.at = "dial", !.since = now])
       \/ Goes(t, [Resting EXCEPT !.at = "dial", !.refused = TRUE, !.since = now])
    /\ UNCHANGED <<now, parked, server, cred, history>>

\* The server knows the refresh token the bundle holds.
Accepts(b) == b.refresh # 0 /\ (rotates => b.refresh = issued[b.grant])

\* A refresh is answered, refused, or answered with the reply lost.
Refresh(t) ==
    LET b    == task[t].read.bundle
        next == IF rotates THEN issued[b.grant] + 1 ELSE 0
        Answers == /\ Accepts(b) /\ next <= MaxTokens
                   /\ issued' = [issued EXCEPT ![b.grant] = IF rotates THEN next ELSE @]
        Fails   == Dials(t, TRUE)
    IN  /\ AtStep(t, "refresh")
        /\ \/ /\ Answers /\ UNCHANGED missed
              /\ Goes(t, [task[t] EXCEPT !.at = "superseded",
                              !.tokens = Keeping(Issue(b.grant, next), b)])
           \/ Answers /\ Fails /\ missed' = TRUE
           \/ Fails /\ UNCHANGED <<issued, missed>>
        /\ UNCHANGED <<now, parked, code, rotates, cred, posted, overdue, stale>>

\* A refresh that trusts what it read before it asked.
SameAsEver(b) == TRUE

\* The bundle says nothing of the access token.
SameBundle(b) ==
    cred.bundle # Absent /\ [cred.bundle EXCEPT !.until = 0] = [b EXCEPT !.until = 0]

\* The stored bundle is loaded and compared; the load may fail.
Superseded(t) ==
    /\ AtStep(t, "superseded")
    /\ \/ /\ IF SameBundle(task[t].read.bundle)
             THEN Goes(t, [task[t] EXCEPT !.at = "merge", !.looked = cred.version,
                                   !.read = NoCredentials])
             ELSE Dials(t, FALSE)
          /\ UNCHANGED missed
       \/ /\ Dials(t, TRUE)
          /\ missed' = TRUE
    /\ UNCHANGED <<now, parked, server, cred, posted, overdue, stale>>

\* The credentials are read again for the request.
Dial(t) ==
    /\ AtStep(t, "dial") /\ Rests(t)
    /\ stale' = (stale \/ (/\ cred.bundle # Absent
                           /\ cred.bundle.until <= now
                           /\ cred.bundle.refresh # 0
                           /\ ~task[t].refused))
    /\ UNCHANGED <<now, parked, server, cred, posted, overdue, missed>>

-----------------------------------------------------------------------------
(* update_env loads, merges and stores; the clock.                         *)

BeginEdit(t) ==
    /\ AtStep(t, "idle") /\ cred.custom < MaxEdits
    /\ Goes(t, [Resting EXCEPT !.at = "edit", !.read = cred])
    /\ UNCHANGED <<now, parked, server, cred, history>>

Edit(t) ==
    LET read == task[t].read
    IN  /\ AtStep(t, "edit") /\ Rests(t)
        /\ cred' = [read EXCEPT !.version = cred.version + 1, !.custom = @ + 1]
        /\ missed' = (missed \/ read.version # cred.version)
        /\ UNCHANGED <<now, parked, server, posted, overdue, stale>>

\* Answers are stored within a clock unit, and a connect dials within the skew of
\* its look at the bundle.
Prompt ==
    \A t \in Tasks :
        /\ task[t].at \notin {"superseded", "merge", "store"}
        /\ task[t].at \in {"refresh", "dial"} => now + 1 <= task[t].since + Skew

ClockTick ==
    /\ now < MaxNow /\ Prompt
    /\ now' = now + 1
    /\ UNCHANGED <<parked, server, cred, task, history>>

OAuthNext ==
    \/ \E t \in Tasks :
          \/ BeginSignIn(t) \/ BeginFails(t) \/ Park(t)
          \/ Take(t) \/ Exchange(t) \/ Merge(t) \/ StoreTokens(t)
          \/ BeginConnect(t) \/ Refresh(t) \/ Superseded(t) \/ Dial(t)
          \/ BeginEdit(t) \/ Edit(t)
    \/ ClockTick

OAuthSpec == OAuthInit /\ [][OAuthNext]_oauthVars

-----------------------------------------------------------------------------
(* Properties. *)

\* "two completions of one state exchange the code at most once", whether or not
\* the exchange succeeds.  (registry/oauth/flow.rs:313-317)
CodePostedOnce == \A s \in States : posted[s] <= 1

\* "a store that expires lazily (or never) still cannot complete a stale sign-in"
\* (registry/oauth/pending.rs:18-20)
StaleIsRefused == ~overdue

\* Nobody holds tokens of the grant that are not stored yet.
Settled(g) ==
    \A t \in Tasks : ~(task[t].tokens # Absent /\ task[t].tokens.grant = g
                       /\ task[t].at \in {"superseded", "merge", "store"})

\* A sign-in that obtained a refresh token can be refreshed for good: while every merge has seen the write
\* before it and every store call succeeded, the refresh token that is stored is
\* one the server accepts.  (registry/oauth/tokens.rs:137-141)
RefreshStaysPossible ==
    (/\ cred.bundle # Absent /\ issued[cred.bundle.grant] # 0
     /\ ~missed /\ Settled(cred.bundle.grant))
        => Accepts(cred.bundle)

\* A refresh replaces the tokens of another sign-in only when those were stored
\* after it had looked: the window is narrow, though not closed.
\* (registry/oauth/tokens.rs:143-146, 159-163)
SignInSurvives ==
    [][\A t \in Tasks :
         /\ AtStep(t, "store") /\ task[t].state = Absent /\ cred' # cred
         /\ cred.bundle # Absent /\ cred.bundle.grant # task[t].tokens.grant
         => cred.version > task[t].looked]_oauthVars

\* "a session never opens with a stale token", unless the refresh it needed was
\* refused or could not be stored.  (registry/connections/types.rs:386-397)
SessionsOpenFresh == stale => missed

\* "a value the user set beside their sign-in survives it"
\* (registry/oauth/credentials.rs:28-30)
UserValueSurvives == [][cred'.custom >= cred.custom]_oauthVars

\* A code is posted once and in time, and the tokens it brought stay usable: a
\* refresh is possible as long as the server grants one, and no session opens
\* with a token that a refresh could have replaced.
OAuthInv ==
    /\ OAuthTypeOK
    /\ CodePostedOnce /\ StaleIsRefused
    /\ RefreshStaysPossible /\ SessionsOpenFresh

=============================================================================
