----------------------------- MODULE OAuthTokens -----------------------------
(***************************************************************************)
(* One grant of the OAuth server: its authorization code, the tokens       *)
(* minted from it, their rows in the meta database and their copies in the *)
(* cache (modules/oauth/services/oauth-token.service.ts,                   *)
(* models/OAuthToken.ts, models/OAuthAuthorizationCode.ts).                *)
(*                                                                         *)
(* A request exchanges the code or refreshes a token and mints the token   *)
(* that bears its name.  Requests, revocations, bearers and the deletion   *)
(* of the client interleave at every await.  What the request is validated *)
(* against (redirect URI, PKCE, client, expiry) is an input: it passes or  *)
(* it does not.                                                            *)
(***************************************************************************)
EXTENDS Naturals, FiniteSets

CONSTANTS
    Requests,   \* token requests; each mints at most the token of its name
    Code,       \* the authorization code
    Nobody,     \* no credential
    MaxEvents   \* bound: revocations, bearers, deletions, failures, expiries

ASSUME RequestsAssumption ==
    /\ Code \notin Requests
    /\ Nobody \notin Requests \cup {Code}
    /\ MaxEvents \in Nat

VARIABLES
    codeRow,    \* is_used of the row of the code
    codeCache,  \* and of its cached copy
    row,        \* is_revoked of the row of each token
    cache,      \* and of its cached copy
    pc,         \* where each request is
    uses,       \* the credential a request presents
    seen,       \* what a request has read and is about to cache
    reader,     \* what a bearer has read of each token and is about to cache
    revoker,    \* where the revocation of each token is
    deleter,    \* where the deletion of the client is
    listed,     \* the tokens it has listed
    toClear,    \* those whose cached copy it has still to delete
    missed,     \* history: tokens whose cached copy may have missed a change of the
                \* row: a read was still to be cached, or the writer failed
    events      \* how many of them there have been

requestVars == <<pc, uses, seen>>
deleterVars == <<deleter, listed, toClear>>
vars == <<codeRow, codeCache, row, cache, requestVars, reader, revoker, deleterVars, missed, events>>

TypeOK ==
    /\ codeRow \in {"unused", "used", "deleted"}
    /\ codeCache \in {"none", "unused", "used"}
    /\ row \in [Requests -> {"none", "active", "revoked", "deleted"}]
    /\ cache \in [Requests -> {"none", "active", "revoked"}]
    /\ pc \in [Requests -> {"idle", "fillCode", "authenticate", "claim", "dropCode", "revoke",
                            "cacheRead", "cacheWrite", "insert", "readBack", "fillToken",
                            "markRead", "markWrite", "done"}]
    /\ uses \in [Requests -> Requests \cup {Code, Nobody}]
    /\ seen \in [Requests -> {"none", "unused", "used", "active", "revoked"}]
    /\ reader \in [Requests -> {"none", "active", "revoked"}]
    /\ revoker \in [Requests -> {"none", "row", "cacheRead", "cacheWrite"}]
    /\ deleter \in {"none", "clear", "rows", "codes", "codeRow", "done"}
    /\ listed \subseteq Requests /\ toClear \subseteq Requests
    /\ missed \subseteq Requests
    /\ events \in 0..MaxEvents

Init ==
    /\ codeRow = "unused" /\ codeCache \in {"none", "unused"}
    /\ row = [t \in Requests |-> "none"]
    /\ cache = [t \in Requests |-> "none"]
    /\ pc = [q \in Requests |-> "idle"]
    /\ uses = [q \in Requests |-> Nobody]
    /\ seen = [q \in Requests |-> "none"]
    /\ reader = [t \in Requests |-> "none"]
    /\ revoker = [t \in Requests |-> "none"]
    /\ deleter = "none" /\ listed = {} /\ toClear = {}
    /\ missed = {}
    /\ events = 0

Event == events < MaxEvents /\ events' = events + 1

Goto(q, place) == pc' = [pc EXCEPT ![q] = place]
Exists(t) == row[t] \in {"active", "revoked"}

\* A row is written while somebody holds what it said before and has not cached it.
Held(t) == reader[t] = "active" \/ (pc[t] = "fillToken" /\ seen[t] = "active")
Overtake(T) == missed' = missed \cup {t \in T : Held(t)}

-----------------------------------------------------------------------------
\* exchangeCodeForTokens(): getByCode() answers from the cache, or from the row,
\* which it then caches.  A code that is marked as used is refused.
ReadCode(q) ==
    /\ pc[q] = "idle"
    /\ uses' = [uses EXCEPT ![q] = Code]
    /\ \/ codeCache = "unused" /\ Goto(q, "authenticate") /\ UNCHANGED seen
       \/ codeCache = "used" /\ Goto(q, "done") /\ UNCHANGED seen
       \/ codeCache = "none" /\ codeRow = "deleted" /\ Goto(q, "done") /\ UNCHANGED seen
       \/ /\ codeCache = "none" /\ codeRow # "deleted"
          /\ seen' = [seen EXCEPT ![q] = codeRow]
          /\ Goto(q, "fillCode")
    /\ UNCHANGED <<codeRow, codeCache, row, cache, reader, revoker, deleterVars, missed, events>>

FillCode(q) ==
    /\ pc[q] = "fillCode"
    /\ codeCache' = seen[q]
    /\ seen' = [seen EXCEPT ![q] = "none"]
    /\ Goto(q, IF seen[q] = "used" THEN "done" ELSE "authenticate")
    /\ UNCHANGED <<codeRow, row, cache, uses, reader, revoker, deleterVars, missed, events>>

\* The request passes its checks and its tokens are generated, or it is refused.
Authenticate(q) ==
    /\ pc[q] = "authenticate"
    /\ \/ Goto(q, IF uses[q] = Code THEN "claim" ELSE "revoke")
       \/ Goto(q, "done")
    /\ UNCHANGED <<codeRow, codeCache, row, cache, uses, seen, reader, revoker, deleterVars, missed, events>>

\* claimByCode(): the update has the condition that the code is unused.
CodeExists == codeRow # "deleted"                 \* planted bug for CodeUnused
CodeUnused == codeRow = "unused"
Claim(q) ==
    /\ pc[q] = "claim"
    /\ IF CodeUnused THEN codeRow' = "used" /\ Goto(q, "dropCode")
                     ELSE Goto(q, "done") /\ UNCHANGED codeRow
    /\ UNCHANGED <<codeCache, row, cache, uses, seen, reader, revoker, deleterVars, missed, events>>

DropCode(q) ==
    /\ pc[q] = "dropCode"
    /\ codeCache' = "none"
    /\ Goto(q, "insert")
    /\ UNCHANGED <<codeRow, row, cache, uses, seen, reader, revoker, deleterVars, missed, events>>

-----------------------------------------------------------------------------
\* refreshAccessToken(): the row of the token is read, never its cached copy.
ReadToken(q, t) ==
    /\ pc[q] = "idle"
    /\ Exists(t)
    /\ uses' = [uses EXCEPT ![q] = t]
    /\ Goto(q, IF row[t] = "active" THEN "authenticate" ELSE "done")
    /\ UNCHANGED <<codeRow, codeCache, row, cache, seen, reader, revoker, deleterVars, missed, events>>

\* revokeIfActive(): the update has the condition that the token is not revoked.
TokenExists(t) == Exists(t)                       \* planted bug for TokenActive
TokenActive(t) == row[t] = "active"
CacheForgotten(q) == Goto(q, "insert")            \* planted bug for UpdateCache
UpdateCache(q) == Goto(q, "cacheRead")
RevokeIfActive(q) ==
    /\ pc[q] = "revoke"
    /\ IF TokenActive(uses[q])
       THEN /\ row' = [row EXCEPT ![uses[q]] = "revoked"]
            /\ Overtake({uses[q]})
            /\ UpdateCache(q)
       ELSE Goto(q, "done") /\ UNCHANGED <<row, missed>>
    /\ UNCHANGED <<codeRow, codeCache, cache, uses, seen, reader, revoker, deleterVars, events>>

\* NocoCache.update(): an entry that is not there is not written.
CacheRead(q) ==
    /\ pc[q] = "cacheRead"
    /\ Goto(q, IF cache[uses[q]] = "none" THEN "insert" ELSE "cacheWrite")
    /\ UNCHANGED <<codeRow, codeCache, row, cache, uses, seen, reader, revoker, deleterVars, missed, events>>

CacheWrite(q) ==
    /\ pc[q] = "cacheWrite"
    /\ cache' = [cache EXCEPT ![uses[q]] = "revoked"]
    /\ Goto(q, "insert")
    /\ UNCHANGED <<codeRow, codeCache, row, uses, seen, reader, revoker, deleterVars, missed, events>>

-----------------------------------------------------------------------------
\* OAuthToken.insert(), which reads the row back and caches it.
Insert(q) ==
    /\ pc[q] = "insert"
    /\ row' = [row EXCEPT ![q] = "active"]
    /\ Goto(q, "readBack")
    /\ UNCHANGED <<codeRow, codeCache, cache, uses, seen, reader, revoker, deleterVars, missed, events>>

Minted(q) == IF uses[q] = Code THEN "markRead" ELSE "done"

FoundAnyway(t) == TRUE                            \* planted bug for Found
Found(t) == Exists(t)
ReadBack(q) ==
    /\ pc[q] = "readBack"
    /\ IF cache[q] = "none" /\ Found(q)
       THEN seen' = [seen EXCEPT ![q] = row[q]] /\ Goto(q, "fillToken")
       ELSE Goto(q, Minted(q)) /\ UNCHANGED seen
    /\ UNCHANGED <<codeRow, codeCache, row, cache, uses, reader, revoker, deleterVars, missed, events>>

FillToken(q) ==
    /\ pc[q] = "fillToken"
    /\ cache' = [cache EXCEPT ![q] = seen[q]]
    /\ seen' = [seen EXCEPT ![q] = "none"]
    /\ Goto(q, Minted(q))
    /\ UNCHANGED <<codeRow, codeCache, row, uses, reader, revoker, deleterVars, missed, events>>

\* markAsUsed(): the row of the code says so already, the cached copy may not.
MarkRead(q) ==
    /\ pc[q] = "markRead"
    /\ Goto(q, IF codeCache = "none" THEN "done" ELSE "markWrite")
    /\ UNCHANGED <<codeRow, codeCache, row, cache, uses, seen, reader, revoker, deleterVars, missed, events>>

MarkWrite(q) ==
    /\ pc[q] = "markWrite"
    /\ codeCache' = "used"
    /\ Goto(q, "done")
    /\ UNCHANGED <<codeRow, row, cache, uses, seen, reader, revoker, deleterVars, missed, events>>

\* The process dies, or a database or the cache throws.
Fail(q) ==
    /\ pc[q] \notin {"idle", "done"}
    /\ Goto(q, "done")
    /\ missed' = missed \cup {t \in Requests : t = uses[q] /\ pc[q] \in {"cacheRead", "cacheWrite"}}
    /\ Event
    /\ UNCHANGED <<codeRow, codeCache, row, cache, uses, seen, reader, revoker, deleterVars>>

Exchange(q) == ReadCode(q) \/ FillCode(q) \/ Claim(q) \/ DropCode(q) \/ MarkRead(q) \/ MarkWrite(q)
Refresh(q) ==
    (\E t \in Requests : ReadToken(q, t)) \/ RevokeIfActive(q) \/ CacheRead(q) \/ CacheWrite(q)
Request(q) ==
    Exchange(q) \/ Refresh(q) \/ Authenticate(q) \/ Insert(q) \/ ReadBack(q) \/ FillToken(q) \/ Fail(q)

-----------------------------------------------------------------------------
\* revoke(), called for the token a client or its user names, or by
\* revokeAllByUser() for every token that is listed as active.
StartRevocation(T) ==
    /\ T # {}
    /\ revoker' = [t \in Requests |-> IF t \in T THEN "row" ELSE revoker[t]]
    /\ Event
    /\ UNCHANGED <<codeRow, codeCache, row, cache, requestVars, reader, deleterVars, missed>>

RevokeToken(t) == Exists(t) /\ revoker[t] = "none" /\ StartRevocation({t})
RevokeAllByUser == StartRevocation({t \in Requests : row[t] = "active" /\ revoker[t] = "none"})

RevokeRow(t) ==
    /\ revoker[t] = "row"
    /\ IF row[t] = "active" THEN row' = [row EXCEPT ![t] = "revoked"] /\ Overtake({t})
                            ELSE UNCHANGED <<row, missed>>
    /\ revoker' = [revoker EXCEPT ![t] = "cacheRead"]
    /\ UNCHANGED <<codeRow, codeCache, cache, requestVars, reader, deleterVars, events>>

RevokeCacheRead(t) ==
    /\ revoker[t] = "cacheRead"
    /\ revoker' = [revoker EXCEPT ![t] = IF cache[t] = "none" THEN "none" ELSE "cacheWrite"]
    /\ UNCHANGED <<codeRow, codeCache, row, cache, requestVars, reader, deleterVars, missed, events>>

RevokeCacheWrite(t) ==
    /\ revoker[t] = "cacheWrite"
    /\ cache' = [cache EXCEPT ![t] = "revoked"]
    /\ revoker' = [revoker EXCEPT ![t] = "none"]
    /\ UNCHANGED <<codeRow, codeCache, row, requestVars, reader, deleterVars, missed, events>>

RevokeFail(t) ==
    /\ revoker[t] # "none"
    /\ revoker' = [revoker EXCEPT ![t] = "none"]
    /\ missed' = missed \cup {u \in {t} : revoker[t] # "row"}
    /\ Event
    /\ UNCHANGED <<codeRow, codeCache, row, cache, requestVars, reader, deleterVars>>

Revocation(t) ==
    RevokeToken(t) \/ RevokeRow(t) \/ RevokeCacheRead(t) \/ RevokeCacheWrite(t) \/ RevokeFail(t)

-----------------------------------------------------------------------------
\* A request with an access token: getByAccessToken() reads the row if there is no
\* cached copy, and caches it.
BearerRead(t) ==
    /\ reader[t] = "none"
    /\ cache[t] = "none"
    /\ Exists(t)
    /\ reader' = [reader EXCEPT ![t] = row[t]]
    /\ Event
    /\ UNCHANGED <<codeRow, codeCache, row, cache, requestVars, revoker, deleterVars, missed>>

BearerFill(t) ==
    /\ reader[t] # "none"
    /\ cache' = [cache EXCEPT ![t] = reader[t]]
    /\ reader' = [reader EXCEPT ![t] = "none"]
    /\ UNCHANGED <<codeRow, codeCache, row, requestVars, revoker, deleterVars, missed, events>>

Bearer(t) == BearerRead(t) \/ BearerFill(t)

Expire ==
    /\ \/ codeCache # "none" /\ codeCache' = "none" /\ UNCHANGED cache
       \/ \E t \in Requests : /\ cache[t] # "none"
                            /\ cache' = [cache EXCEPT ![t] = "none"]
                            /\ UNCHANGED codeCache
    /\ Event
    /\ UNCHANGED <<codeRow, row, requestVars, reader, revoker, deleterVars, missed>>

-----------------------------------------------------------------------------
\* deleteClient(): the tokens are listed, then their cached copies are deleted one
\* by one, then their rows; the same for the code.
ListTokens ==
    /\ deleter = "none"
    /\ deleter' = "clear"
    /\ listed' = {t \in Requests : Exists(t)}
    /\ toClear' = listed'
    /\ Event
    /\ UNCHANGED <<codeRow, codeCache, row, cache, requestVars, reader, revoker, missed>>

ClearToken(t) ==
    /\ deleter = "clear"
    /\ t \in toClear
    /\ cache' = [cache EXCEPT ![t] = "none"]
    /\ toClear' = toClear \ {t}
    /\ UNCHANGED <<codeRow, codeCache, row, requestVars, reader, revoker, deleter, listed, missed, events>>

DeleteTokens ==
    /\ deleter = "clear"
    /\ toClear = {}
    /\ row' = [t \in Requests |-> IF t \in listed THEN "deleted" ELSE row[t]]
    /\ Overtake(listed)
    /\ deleter' = "codes"
    /\ UNCHANGED <<codeRow, codeCache, cache, requestVars, reader, revoker, listed, toClear, events>>

ClearCode ==
    /\ deleter = "codes"
    /\ codeCache' = "none"
    /\ deleter' = "codeRow"
    /\ UNCHANGED <<codeRow, row, cache, requestVars, reader, revoker, listed, toClear, missed, events>>

DeleteCode ==
    /\ deleter = "codeRow"
    /\ codeRow' = "deleted"
    /\ deleter' = "done"
    /\ UNCHANGED <<codeCache, row, cache, requestVars, reader, revoker, listed, toClear, missed, events>>

DeleteClient ==
    ListTokens \/ DeleteTokens \/ ClearCode \/ DeleteCode \/ \E t \in Requests : ClearToken(t)

Next ==
    \/ \E q \in Requests : Request(q) \/ Revocation(q) \/ Bearer(q)
    \/ RevokeAllByUser \/ Expire \/ DeleteClient

Spec == Init /\ [][Next]_vars

-----------------------------------------------------------------------------
HasMinted(q) == row[q] # "none"
Minting(q) == pc[q] \in {"dropCode", "cacheRead", "cacheWrite", "insert"}

Live == {t \in Requests : row[t] = "active"} \cup {c \in {Code} : codeRow = "unused"}
Spent == {t \in Requests : row[t] \in {"revoked", "deleted"}}
            \cup {c \in {Code} : codeRow \in {"used", "deleted"}}

\* A code or a refresh token buys at most one token, however many requests present
\* it at the same time and whatever the caches say: the loser of the race is
\* rejected "instead of minting a second valid token chain".
SingleSuccessor ==
    \A p, q \in Requests :
        /\ uses[p] = uses[q]
        /\ HasMinted(p) \/ Minting(p)
        /\ HasMinted(q) \/ Minting(q)
        => p = q

\* The grant is a chain with at most one live credential.
Chain == INSTANCE CredentialChain
            WITH Credentials <- Requests \cup {Code},
                 live <- Live, spent <- Spent,
                 minting <- \E q \in Requests : Minting(q)
ImplementsChain == Chain!Spec

\* The cached copy of a token says that it is active after its row has said
\* otherwise only while the copy is about to be changed, or when the row changed
\* under a read that was still to be cached.  (Of the writers of the cache, refreshes
\* of its lifetime on a hit and updateLastUsed() are not modelled.)
Updating(t) ==
    \/ revoker[t] \in {"cacheRead", "cacheWrite"}
    \/ \E q \in Requests : uses[q] = t /\ pc[q] \in {"cacheRead", "cacheWrite"}
CacheFollowsRow ==
    \A t \in Requests :
        cache[t] = "active" /\ row[t] = "revoked" => Updating(t) \/ t \in missed
=============================================================================
