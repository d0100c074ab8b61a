-------------------------- MODULE DriveConnection --------------------------
(***************************************************************************)
(* The connection of the service to one Google Drive account               *)
(* (google-drive-oauth/): processes that refresh access tokens beside each *)
(* other, people who connect, reconnect and disconnect meanwhile, and      *)
(* tasks that wait for a reconnection.                                     *)
(*                                                                         *)
(* There is one connection row.  Its revision matters only by comparison:  *)
(* an update succeeds if nobody has written since the row was read, which  *)
(* is what current remembers.  A refresh token stands for the grant it     *)
(* belongs to, a number: Google may rotate it, the old one and the new one *)
(* are good until the grant is withdrawn.  The names leave room for those  *)
(* of Publication, so that one module can extend both.                     *)
(***************************************************************************)
EXTENDS Integers

CONSTANTS Worker,    \* processes with a token provider, each with a task that needs Drive
          Operation, \* authorization operations, from the click to the callback
          Account,   \* Google accounts
          NoAccount, NoOperation,
          MaxToken   \* grants that Google gives

ASSUME ConnectionAssumption ==
    /\ MaxToken \in Nat
    /\ NoAccount \notin Account /\ NoOperation \notin Operation
    /\ "disconnect" \notin Worker

NoToken == 0
Token == 1..MaxToken
Reader == Worker \union {"disconnect"}

VARIABLES
    state,      \* google_drive_oauth_connections.state, or NONE
    token,      \* its token envelope
    owner,      \* .owner_subject
    id,         \* .id, named by the operation that inserted the row
    alive,      \* grants whose tokens Google accepts
    issued,     \* the last grant
    current,    \* readers whose row is still the one stored
    held,       \* the token of the row a worker has read
    provider,   \* where DurableGoogleAccessTokenProvider.refresh of a worker is
    cached,     \* whether the provider has an access token that is good for a minute
    waiting,    \* whether the worker's run waits for a human
    phase,      \* where an operation is
    grant,      \* the refresh token an operation was given
    account,    \* the account an operation was granted by
    target      \* the connection id an operation works for

connection == <<state, token, owner, id>>
google == <<alive, issued>>
workers == <<provider, cached, waiting>>
operations == <<phase, grant, account, target>>
connectionVars == <<connection, google, current, held, workers, operations>>

ConnectionInit ==
    /\ state = "NONE" /\ token = NoToken /\ owner = NoAccount /\ id = NoOperation
    /\ alive = {} /\ issued = 0
    /\ current = {} /\ held = [w \in Worker |-> NoToken]
    /\ provider = [w \in Worker |-> "idle"]
    /\ cached = [w \in Worker |-> FALSE]
    /\ waiting = [w \in Worker |-> FALSE]
    /\ phase = [o \in Operation |-> "none"]
    /\ grant = [o \in Operation |-> NoToken]
    /\ account = [o \in Operation |-> NoAccount]
    /\ target = [o \in Operation |-> NoOperation]


(* A write raises the revision: whatever was read before is outdated.      *)
Written == current' = {}

(***************************************************************************)
(* accessToken of a worker.                                                *)
(***************************************************************************)

Becomes(w, next) == provider' = [provider EXCEPT ![w] = next]
Leave(w, next) == Becomes(w, next) /\ held' = [held EXCEPT ![w] = NoToken]
Idle(w) == Leave(w, "idle")
Refused(w) == Leave(w, "refused")

Usable == state = "CONNECTED" /\ token # NoToken

(* drive() and refresh read the connection; one refresh is under way per   *)
(* process, further callers share it.  A task belongs to a folder that was *)
(* found on the Drive, so there has been a connection.                     *)
StartRefresh(w) ==
    /\ state # "NONE"
    /\ provider[w] = "idle" /\ ~cached[w] /\ ~waiting[w]
    /\ IF Usable
       THEN /\ Becomes(w, "requested")
            /\ current' = current \union {w}
            /\ held' = [held EXCEPT ![w] = token]
       ELSE Becomes(w, "refused") /\ UNCHANGED <<current, held>>
    /\ UNCHANGED <<connection, google, cached, waiting, operations>>

(* drive() refuses also while an access token is cached.                   *)
Refuse(w) ==
    /\ provider[w] = "idle" /\ cached[w] /\ ~waiting[w] /\ state # "CONNECTED"
    /\ Becomes(w, "refused")
    /\ UNCHANGED <<connection, google, current, held, cached, waiting, operations>>

Refreshed(w) ==
    /\ provider[w] = "requested" /\ held[w] \in alive
    /\ Becomes(w, "refreshed")
    /\ UNCHANGED <<connection, google, current, held, cached, waiting, operations>>

InvalidGrant(w) ==
    /\ provider[w] = "requested" /\ held[w] \notin alive
    /\ Becomes(w, "invalid")
    /\ UNCHANGED <<connection, google, current, held, cached, waiting, operations>>

(* A timeout, an overload, or a restart of the process.                    *)
BreakOff(w) ==
    /\ provider[w] # "idle"
    /\ Idle(w) /\ current' = current \ {w}
    /\ \/ UNCHANGED cached
       \/ cached' = [cached EXCEPT ![w] = FALSE]
    /\ UNCHANGED <<connection, google, waiting, operations>>

Cache(w) == cached' = [cached EXCEPT ![w] = TRUE]

(* Mutant: the update does not compare the revision. *)
StoreRefreshMut(w) ==
    /\ provider[w] = "refreshed"
    /\ state' = "CONNECTED" /\ token' = held[w]
    /\ Written /\ Cache(w) /\ Idle(w)
    /\ UNCHANGED <<owner, id, google, waiting, operations>>

StoreRefresh(w) ==
    /\ provider[w] = "refreshed"
    /\ IF w \in current
       THEN Written /\ Cache(w) /\ Idle(w)
       ELSE Becomes(w, "conflict") /\ UNCHANGED <<current, held, cached>>
    /\ UNCHANGED <<connection, google, waiting, operations>>

(* The row has changed under the refresh.  Its id and owner never change.  *)
AcceptWinner(w) ==
    /\ provider[w] = "conflict"
    /\ IF Usable THEN Cache(w) ELSE UNCHANGED cached
    /\ Idle(w)
    /\ UNCHANGED <<connection, google, current, waiting, operations>>

(* Mutant: the connection is given up without comparing the revision. *)
RequireReauthMut(w) ==
    /\ provider[w] = "invalid"
    /\ state' = "REAUTH_REQUIRED" /\ Written /\ Refused(w)
    /\ UNCHANGED <<token, owner, id, google, cached, waiting, operations>>

(* Mutant: an invalid grant is retried like any other error. *)
RetryInvalidMut(w) ==
    /\ provider[w] = "invalid"
    /\ Idle(w)
    /\ UNCHANGED <<connection, google, current, cached, waiting, operations>>

(* A conflict is an error of another kind, which is retried.               *)
RequireReauth(w) ==
    /\ provider[w] = "invalid"
    /\ IF w \in current
       THEN state' = "REAUTH_REQUIRED" /\ Written /\ Refused(w)
       ELSE Idle(w) /\ UNCHANGED <<state, current>>
    /\ UNCHANGED <<token, owner, id, google, cached, waiting, operations>>

(* The tool answers WAITING_FOR_HUMAN, and its run waits.                  *)
WaitForHuman(w) ==
    /\ provider[w] = "refused"
    /\ waiting' = [waiting EXCEPT ![w] = TRUE]
    /\ Idle(w)
    /\ UNCHANGED <<connection, google, current, cached, operations>>

ExpireCache(w) ==
    /\ cached[w]
    /\ cached' = [cached EXCEPT ![w] = FALSE]
    /\ UNCHANGED <<connection, google, current, held, provider, waiting, operations>>

(***************************************************************************)
(* start and callback of an operation.                                     *)
(***************************************************************************)

Proceed(o, from, to) == phase[o] = from /\ phase' = [phase EXCEPT ![o] = to]

Clear(o) ==
    /\ grant' = [grant EXCEPT ![o] = NoToken]
    /\ account' = [account EXCEPT ![o] = NoAccount]
    /\ target' = [target EXCEPT ![o] = NoOperation]

Start(o) ==
    /\ Proceed(o, "none", "started")
    /\ UNCHANGED <<connection, google, current, held, workers, grant, account, target>>

(* The state of an operation is consumed once, then the code is exchanged. *)
Exchange(o) ==
    /\ Proceed(o, "started", "exchanged")
    /\ issued < MaxToken
    /\ issued' = issued + 1
    /\ alive' = alive \union {issued + 1}
    /\ grant' = [grant EXCEPT ![o] = issued + 1]
    /\ \E a \in Account : account' = [account EXCEPT ![o] = a]
    /\ UNCHANGED <<connection, current, held, workers, target>>

(* Another account is refused; the root is bound for the existing          *)
(* connection or for a new one.                                            *)
BindRoot(o) ==
    /\ Proceed(o, "exchanged", "bound")
    /\ state # "NONE" => owner = account[o]
    /\ target' = [target EXCEPT ![o] = IF state = "NONE" THEN o ELSE id]
    /\ UNCHANGED <<connection, google, current, held, workers, grant, account>>

(* Of two first connections the second finds a row: it keeps its id, and   *)
(* its owner must be the same.                                             *)
SaveConnection(o) ==
    /\ Proceed(o, "bound", "saved")
    /\ state # "NONE" => owner = account[o]
    /\ state' = "CONNECTED" /\ token' = grant[o] /\ owner' = account[o]
    /\ id' = IF state = "NONE" THEN target[o] ELSE id
    /\ Written
    /\ UNCHANGED <<google, held, workers, grant, account, target>>

(* An object is registered for an existing connection only.                *)
RegisterRoot(o) ==
    /\ Proceed(o, "saved", "registered")
    /\ target[o] = id
    /\ UNCHANGED <<connection, google, current, held, workers, grant, account, target>>

(* A reconnection resumes the runs that wait, a first connection does not. *)
ResumeRuns(o) ==
    /\ Proceed(o, "registered", "done")
    /\ waiting' = IF target[o] # o THEN [w \in Worker |-> FALSE] ELSE waiting
    /\ Clear(o)
    /\ UNCHANGED <<connection, google, current, held, provider, cached>>

(* The operation expires, is refused, or meets an error or a restart.      *)
Fail(o) ==
    /\ phase[o] \notin {"none", "done", "failed"}
    /\ phase' = [phase EXCEPT ![o] = "failed"]
    /\ Clear(o)
    /\ UNCHANGED <<connection, google, current, held, workers>>

(***************************************************************************)
(* disconnect, and what the user does at Google.                           *)
(***************************************************************************)

(* disconnect reads the row and revokes the grant before it writes the     *)
(* row; the grant may be one that cannot be revoked.                       *)
Revoke ==
    /\ state # "NONE" /\ "disconnect" \notin current
    /\ current' = current \union {"disconnect"}
    /\ \/ token \in alive /\ alive' = {}
       \/ UNCHANGED alive
    /\ UNCHANGED <<connection, issued, held, workers, operations>>

Disconnect ==
    /\ "disconnect" \in current
    /\ state' = "DISCONNECTED" /\ token' = NoToken
    /\ Written
    /\ UNCHANGED <<owner, id, google, held, workers, operations>>

(* External: the user withdraws the grant, with all tokens of the account. *)
WithdrawGrant ==
    /\ alive # {}
    /\ alive' = {}
    /\ UNCHANGED <<connection, issued, current, held, workers, operations>>

Refresh(w) ==
    \/ StartRefresh(w) \/ Refuse(w) \/ Refreshed(w) \/ InvalidGrant(w)
    \/ StoreRefresh(w) \/ AcceptWinner(w) \/ RequireReauth(w) \/ WaitForHuman(w)

ConnectionNext ==
    \/ \E w \in Worker : Refresh(w) \/ BreakOff(w) \/ ExpireCache(w)
    \/ \E o \in Operation :
        \/ Start(o) \/ Exchange(o) \/ BindRoot(o) \/ SaveConnection(o)
        \/ RegisterRoot(o) \/ ResumeRuns(o) \/ Fail(o)
    \/ Revoke \/ Disconnect \/ WithdrawGrant

ConnectionSpec == ConnectionInit /\ [][ConnectionNext]_connectionVars

(* The scheduler comes back to a task until its run waits, access tokens   *)
(* expire, and requests to Google are not broken off for ever.             *)
FairSpec ==
    /\ ConnectionSpec
    /\ \A w \in Worker : WF_connectionVars(Refresh(w) \/ ExpireCache(w))
    /\ <>[][\A w \in Worker : ~BreakOff(w)]_connectionVars

(***************************************************************************)
(* Properties.                                                             *)
(***************************************************************************)

(* Every variable holds a value of its kind; a connection that exists has  *)
(* an owner (google_drive_oauth_connections, db/schema.ts:108).            *)
ConnectionTypeOK ==
    /\ state \in {"NONE", "CONNECTED", "REAUTH_REQUIRED", "DISCONNECTED"}
    /\ token \in {NoToken} \union Token
    /\ owner \in Account \union {NoAccount} /\ (state = "NONE" <=> owner = NoAccount)
    /\ id \in Operation \union {NoOperation}
    /\ alive \subseteq Token /\ issued \in {NoToken} \union Token
    /\ current \subseteq Reader /\ held \in [Worker -> {NoToken} \union Token]
    /\ provider \in [Worker -> {"idle", "requested", "refreshed", "conflict", "invalid", "refused"}]
    /\ cached \in [Worker -> BOOLEAN] /\ waiting \in [Worker -> BOOLEAN]
    /\ phase \in [Operation -> {"none", "started", "exchanged", "bound", "saved", "registered", "done", "failed"}]
    /\ grant \in [Operation -> {NoToken} \union Token]
    /\ account \in [Operation -> Account \union {NoAccount}]
    /\ target \in [Operation -> Operation \union {NoOperation}]

(* A worker that learns of an invalid grant late, after somebody has       *)
(* reconnected, does not disconnect the new grant                          *)
(* (token-provider.ts:53).                                                 *)
GoodGrantStays ==
    [][state = "CONNECTED" /\ state' = "REAUTH_REQUIRED" => token \notin alive]_connectionVars

(* Only a person who has authorized it again makes a disconnected Drive    *)
(* usable: no refresh that was under way stores its token again            *)
(* (token-provider.ts:40, oauth-service.ts:78).                            *)
DisconnectedStays ==
    [][state = "DISCONNECTED" /\ state' # "DISCONNECTED"
        => \E o \in Operation : phase[o] = "bound" /\ phase'[o] = "saved"]_connectionVars

(* A connection whose grant is gone does not look connected for ever, as   *)
(* long as a worker needs it (token-provider.ts:53).                       *)
Lost == state = "CONNECTED" /\ token \notin alive

LostGrantIsNoticed == Lost ~> (~Lost \/ \A w \in Worker : waiting[w])

(* After a reconnection the tasks that wait can be resumed: a run waits    *)
(* only as long as Drive is not connected, or while a callback is about to *)
(* resume it.                                                              *)
WaitEndsWithReconnect ==
    \A w \in Worker :
        waiting[w] => state # "CONNECTED" \/ \E o \in Operation : phase[o] \in {"saved", "registered", "failed"}

=============================================================================
