----------------------------- MODULE OAuthToken -----------------------------
(***************************************************************************)
(* One OAuth token with refresh-token rotation, shared by the StremThru    *)
(* processes through its oauth_token row (internal/oauth/token_source.go)  *)
(* in a PostgreSQL database.                                               *)
(* A client is what GetAPIClient keeps for the token for an hour: a        *)
(* dbTokenSource behind a ReuseTokenSource, whose mutex lets one call in   *)
(* at a time.                                                              *)
(*                                                                         *)
(* The tokens the provider has issued are numbered.  A number stands for   *)
(* the access token and for the refresh token that came with it; the       *)
(* provider honours only the refresh token it issued last, once.  expired  *)
(* says whether the last access token has expired; the older ones have.    *)
(***************************************************************************)
EXTENDS Integers

CONSTANTS
    Client,       \* the token sources, in whatever process
    Nobody,       \* the owner of the free advisory lock
    MaxToken,     \* bound on the tokens issued
    MaxFault      \* bound on failed requests and statements

ASSUME NobodyAssumption == Nobody \notin Client
ASSUME BoundAssumption == MaxToken \in Nat \ {0, 1} /\ MaxFault \in Nat

VARIABLES
    issued,      \* the token the provider issued last
    expired,     \* whether its access token has expired
    saved,       \* the token in the oauth_token row
    pc,          \* where each client is in Token()
    tok,         \* dbTokenSource.tok; 0 for a client that does not exist
    refresher,   \* the token inside dbTokenSource.TokenSource: the one it
                 \* refreshes with, and reuses while it is valid
    old,         \* the clients made before the last token was saved
    lockOwner,
    broken,      \* whether a holder has lost the lock since the last expiry (history)
    rejected,    \* whether the provider turned down a refresh when none had (history)
    wasted,      \* whether a token that was issued went unsaved (history)
    faults

vars == <<issued, expired, saved, pc, tok, refresher, old, lockOwner, broken, rejected, wasted, faults>>

Lock == INSTANCE AbstractLock WITH Owner <- Client, owner <- lockOwner

Exists(c) == tok[c] # 0
Valid(n) == n = issued /\ ~expired

Init ==
    /\ issued = 1
    /\ expired \in BOOLEAN
    /\ saved = 1
    /\ pc = [c \in Client |-> "idle"]
    /\ tok = [c \in Client |-> 0]
    /\ refresher = [c \in Client |-> 0]
    /\ old = {}
    /\ lockOwner = Nobody
    /\ broken = FALSE
    /\ rejected = FALSE
    /\ wasted = FALSE
    /\ faults = 0

goto(c, l) == pc' = [pc EXCEPT ![c] = l]
Fault == faults < MaxFault /\ faults' = faults + 1

-----------------------------------------------------------------------------
(* The life of a client.                                                   *)

\* GetAPIClient makes a client from the row when there is none in the cache ...
NewClient(c) ==
    /\ pc[c] = "idle"
    /\ ~Exists(c)
    /\ tok' = [tok EXCEPT ![c] = saved]
    /\ refresher' = [refresher EXCEPT ![c] = saved]
    /\ UNCHANGED <<issued, expired, saved, pc, old, lockOwner, broken, rejected, wasted, faults>>

\* ... where it stays for an hour.
Drop(c) ==
    /\ pc[c] = "idle"
    /\ Exists(c)
    /\ tok' = [tok EXCEPT ![c] = 0]
    /\ refresher' = [refresher EXCEPT ![c] = 0]
    /\ old' = old \ {c}
    /\ UNCHANGED <<issued, expired, saved, pc, lockOwner, broken, rejected, wasted, faults>>

\* An access token lives longer than a client, and than a call: when it
\* expires, the clients made before it was saved are gone.
Expire ==
    /\ ~expired
    /\ issued < MaxToken
    /\ old = {}
    /\ \A c \in Client : pc[c] = "idle"
    /\ expired' = TRUE
    /\ broken' = FALSE
    /\ UNCHANGED <<issued, saved, pc, tok, refresher, old, lockOwner, rejected, wasted, faults>>

-----------------------------------------------------------------------------
(* Token(), step by step.                                                  *)

\* It answers from memory while its token is valid.
Call(c) ==
    /\ pc[c] = "idle"
    /\ Exists(c)
    /\ ~Valid(tok[c])
    /\ goto(c, "acquire")
    /\ UNCHANGED <<issued, expired, saved, tok, refresher, old, lockOwner, broken, rejected, wasted, faults>>

\* Mutant: the result of Acquire is ignored.
AcquireIgnored(c) ==
    /\ pc[c] = "acquire"
    /\ IF lockOwner = Nobody THEN Lock!Grant(c) ELSE UNCHANGED lockOwner
    /\ goto(c, "read")
    /\ UNCHANGED <<issued, expired, saved, tok, refresher, old, broken, rejected, wasted, faults>>

Acquire(c) ==
    /\ pc[c] = "acquire"
    /\ Lock!Grant(c)
    /\ goto(c, "read")
    /\ UNCHANGED <<issued, expired, saved, tok, refresher, old, broken, rejected, wasted, faults>>

\* "read from db, in case already refreshed token exists"
Read(c) ==
    /\ pc[c] = "read"
    /\ tok' = [tok EXCEPT ![c] = saved]
    /\ goto(c, IF Valid(saved) THEN "release" ELSE "refresh")
    /\ UNCHANGED <<issued, expired, saved, refresher, old, lockOwner, broken, rejected, wasted, faults>>

\* The inner token source still has a valid token, from a call that could not
\* save it.
Reuse(c) ==
    /\ pc[c] = "refresh"
    /\ Valid(refresher[c])
    /\ goto(c, "save")
    /\ UNCHANGED <<issued, expired, saved, tok, refresher, old, lockOwner, broken, rejected, wasted, faults>>

\* The provider issues a new token for the refresh token it issued last ...
Refresh(c) ==
    /\ pc[c] = "refresh"
    /\ refresher[c] = issued
    /\ expired
    /\ issued' = issued + 1
    /\ expired' = FALSE
    /\ refresher' = [refresher EXCEPT ![c] = issued + 1]
    /\ goto(c, "save")
    /\ UNCHANGED <<saved, tok, old, lockOwner, broken, rejected, wasted, faults>>

\* ... and turns down any older one.
RefreshRejected(c) ==
    /\ pc[c] = "refresh"
    /\ refresher[c] # issued
    /\ rejected' = (rejected \/ ~broken)
    /\ goto(c, "release")
    /\ UNCHANGED <<issued, expired, saved, tok, refresher, old, lockOwner, broken, wasted, faults>>

\* Mutant: the token that was read is saved, not the one it became.
SaveOld(c) ==
    /\ pc[c] = "save"
    /\ tok' = [tok EXCEPT ![c] = refresher[c]]
    /\ saved' = tok[c]
    /\ old' = {d \in Client : Exists(d)}
    /\ goto(c, "release")
    /\ UNCHANGED <<issued, expired, refresher, lockOwner, broken, rejected, wasted, faults>>

\* Mutant: PrepareToken drops both tokens, and save deletes the row.
SaveDeletes(c) ==
    /\ pc[c] = "save"
    /\ tok' = [tok EXCEPT ![c] = refresher[c]]
    /\ saved' = 0
    /\ old' = {d \in Client : Exists(d)}
    /\ goto(c, "release")
    /\ UNCHANGED <<issued, expired, refresher, lockOwner, broken, rejected, wasted, faults>>

\* get_user, PrepareToken and save.
Save(c) ==
    /\ pc[c] = "save"
    /\ tok' = [tok EXCEPT ![c] = refresher[c]]
    /\ saved' = refresher[c]
    /\ old' = {d \in Client : Exists(d)}
    /\ goto(c, "release")
    /\ UNCHANGED <<issued, expired, refresher, lockOwner, broken, rejected, wasted, faults>>

\* The refresh token has been used, but get_user or save fails: the row keeps
\* the old token.  After get_user, tok has the new one all the same.
SaveFails(c) ==
    /\ pc[c] = "save"
    /\ Fault
    /\ \/ UNCHANGED tok
       \/ tok' = [tok EXCEPT ![c] = refresher[c]]
    /\ old' = {d \in Client : Exists(d)}
    /\ wasted' = TRUE
    /\ goto(c, "release")
    /\ UNCHANGED <<issued, expired, saved, refresher, lockOwner, broken, rejected>>

\* The provider's answer to a refresh is lost, with the token in it.
RefreshLost(c) ==
    /\ pc[c] = "refresh"
    /\ refresher[c] = issued
    /\ expired
    /\ Fault
    /\ issued' = issued + 1
    /\ expired' = FALSE
    /\ old' = {d \in Client : Exists(d)}
    /\ wasted' = TRUE
    /\ goto(c, "release")
    /\ UNCHANGED <<saved, tok, refresher, lockOwner, broken, rejected>>

\* The lock, the read or the request to the provider fails.
Fails(c) ==
    /\ pc[c] \in {"acquire", "read", "refresh"}
    /\ Fault
    /\ goto(c, IF pc[c] = "acquire" THEN "idle" ELSE "release")
    /\ UNCHANGED <<issued, expired, saved, tok, refresher, old, lockOwner, broken, rejected, wasted>>

\* Mutant: no release on the way out.
ReleaseForgotten(c) ==
    /\ pc[c] = "release"
    /\ goto(c, "idle")
    /\ UNCHANGED <<issued, expired, saved, tok, refresher, old, lockOwner, broken, rejected, wasted, faults>>

\* The deferred Release; that of a lock that is lost fails.
Release(c) ==
    /\ pc[c] = "release"
    /\ IF lockOwner = c THEN Lock!Free(c) ELSE UNCHANGED lockOwner
    /\ goto(c, "idle")
    /\ UNCHANGED <<issued, expired, saved, tok, refresher, old, broken, rejected, wasted, faults>>

\* The connection behind the lock breaks: the server frees the lock, and its
\* holder goes on.
LoseLock(c) ==
    /\ lockOwner = c
    /\ Fault
    /\ Lock!Free(c)
    /\ broken' = TRUE
    /\ UNCHANGED <<issued, expired, saved, pc, tok, refresher, old, rejected, wasted>>

TokenCall(c) ==
    \/ Call(c) \/ Acquire(c) \/ Read(c) \/ Reuse(c)
    \/ Refresh(c) \/ RefreshRejected(c) \/ Save(c) \/ Release(c)

TokenCallFails(c) == SaveFails(c) \/ RefreshLost(c) \/ Fails(c) \/ LoseLock(c)

Next ==
    \/ \E c \in Client :
          NewClient(c) \/ Drop(c) \/ TokenCall(c) \/ TokenCallFails(c)
    \/ Expire

Spec == Init /\ [][Next]_vars

-----------------------------------------------------------------------------
Pc == {"idle", "acquire", "read", "refresh", "save", "release"}

TypeOK ==
    /\ issued \in 1 .. MaxToken
    /\ expired \in BOOLEAN
    /\ saved \in 1 .. MaxToken
    /\ pc \in [Client -> Pc]
    /\ tok \in [Client -> 0 .. MaxToken]
    /\ refresher \in [Client -> 0 .. MaxToken]
    /\ old \in SUBSET Client
    /\ lockOwner \in Client \cup {Nobody}
    /\ broken \in BOOLEAN
    /\ rejected \in BOOLEAN
    /\ wasted \in BOOLEAN
    /\ faults \in Nat

\* No refresh is turned down unless a token went unsaved before, or the lock was
\* lost in this round: whichever lock, read or request fails, clients of several
\* processes never present a refresh token that another of them has already
\* used, and a lost lock does no harm beyond the calls that overlap.
NoRefreshRejected == rejected => wasted

\* Until a token goes unsaved, and whenever no call is about to save one, the
\* row holds the token issued last: what a client of any process needs to go
\* on, also after a restart; calls that overlap because a lock was lost do not
\* spoil it.
RowIsCurrent ==
    wasted \/ saved = issued \/ \E c \in Client : pc[c] = "save"

-----------------------------------------------------------------------------
\* Requests and statements return; a caller waiting for the lock is served
\* among the others.
FairSpec ==
    /\ Spec
    /\ \A c \in Client : WF_vars(TokenCall(c)) /\ SF_vars(Acquire(c))

\* Every call of Token() returns, the failing ones included: none leaves with
\* the lock that the next one needs.
CallReturns == \A c \in Client : pc[c] = "acquire" ~> pc[c] = "idle"
=============================================================================
