-------------------------- MODULE ConnectionManager --------------------------
(***************************************************************************)
(* The connection of one external source on every server                   *)
(* (utils/common/NcConnectionMgrv2.ts) and the version in Redis by which   *)
(* servers learn that it is stale (utils/RedisVersionTracker.ts).          *)
(*                                                                         *)
(* The configuration of the source counts its edits.  A connection is the  *)
(* configuration it was built from.  A caller of get() passes the source   *)
(* object it has read before.  A version is a timestamp: no two are made   *)
(* in the same millisecond, and any two of them differ.                    *)
(*                                                                         *)
(* A version is an entry of the cache (cache/CacheMgr.ts), and the cache   *)
(* refreshes the time to live of an entry by reading it and writing what   *)
(* it has read back: when an entry that is read is older than a day, and   *)
(* after every entry it writes.  Reading and writing are two commands.     *)
(***************************************************************************)
EXTENDS Naturals, FiniteSets

CONSTANTS
    Servers,
    Gets,       \* calls of get()
    Edits,      \* calls that edit the source or clean it up
    MaxRunning, \* bound: calls that run at a time
    MaxBumps,   \* bound: versions made
    MaxLosses,  \* bound: entries of a map and versions lost or grown old
    None        \* no connection, no server

ASSUME BoundsAssumption ==
    /\ MaxRunning \in Nat /\ MaxBumps \in Nat /\ MaxLosses \in Nat
    /\ None \notin Nat \cup Servers
    /\ Gets \cap Edits = {}

VARIABLES
    config,     \* the configuration, in the meta database and its cache
    version,    \* the version in Redis; 0 is no version
    covered,    \* history: the newest configuration a bump has announced
    clock,      \* versions made so far
    losses,     \* entries of a map and versions lost or grown old so far
    aged,       \* TRUE when the version was written more than NC_REDIS_GRACE_TTL ago
    ref,        \* connectionRefs of each server
    local,      \* localVersions of each server; 0 is no version
    blind,      \* history: servers whose connection is stale and may not be found so
    pc,         \* where each call is
    at,         \* the server of each call that runs
    source,     \* the configuration a get() has been given, or an edit has made
    read,       \* the version a get() has read, or an edit has made
    copy,       \* the version a refresh has read and is about to write back
    floor       \* history: the newest announced configuration when it was read

redisVars == <<version, aged, covered, clock>>
callVars == <<pc, at, source, read, copy, floor>>
vars == <<config, version, covered, clock, losses, aged, ref, local, blind, callVars>>

Calls == Gets \cup Edits
Configs == Nat

TypeOK ==
    /\ config \in Configs /\ covered \in Configs
    /\ version \in 0..MaxBumps /\ clock \in 0..MaxBumps /\ losses \in 0..MaxLosses
    /\ ref \in [Servers -> Configs \cup {None}]
    /\ local \in [Servers -> 0..MaxBumps]
    /\ blind \subseteq Servers /\ aged \in BOOLEAN
    /\ pc \in [Calls -> {"idle", "given", "reread", "writeback", "compare", "destroying",
                         "lookup", "build", "edited", "bump", "set", "sync", "done"}]
    /\ at \in [Calls -> Servers \cup {None}]
    /\ source \in [Calls -> Configs]
    /\ read \in [Calls -> 0..MaxBumps] /\ copy \in [Calls -> 0..MaxBumps]
    /\ floor \in [Gets -> Configs]

Init ==
    /\ config = 0 /\ covered = 0
    /\ version = 0 /\ clock = 0 /\ losses = 0 /\ aged = FALSE
    /\ ref = [s \in Servers |-> None]
    /\ local = [s \in Servers |-> 0]
    /\ blind = {}
    /\ pc = [c \in Calls |-> "idle"]
    /\ at = [c \in Calls |-> None]
    /\ source = [c \in Calls |-> 0]
    /\ read = [c \in Calls |-> 0] /\ copy = [c \in Calls |-> 0]
    /\ floor = [g \in Gets |-> 0]

Running == {c \in Calls : pc[c] \notin {"idle", "done"}}
MayStart(c) == pc[c] = "idle" /\ Cardinality(Running) < MaxRunning

Goto(c, place) == pc' = [pc EXCEPT ![c] = place]
StaleAt(s) == ref[s] # None /\ ref[s] < covered

\* deleteConnectionRef(): the entry goes before its teardown is awaited.
Delete(s) ==
    /\ ref' = [ref EXCEPT ![s] = None]
    /\ blind' = blind \ {s}

-----------------------------------------------------------------------------
(* CacheMgr.execRefreshTTL(): the entry is read again and written back.    *)

\* Where a call goes on: set() refreshes before its write an old entry it has read,
\* and after its write the one it finds.
AfterRefresh(c) ==
    IF c \in Gets THEN "compare" ELSE IF read[c] = 0 THEN "set" ELSE "sync"

\* Nothing is written back if the entry has gone or was written in this millisecond.
Reread(c) ==
    /\ pc[c] = "reread"
    /\ \/ /\ version # 0
          /\ copy' = [copy EXCEPT ![c] = version]
          /\ Goto(c, "writeback")
       \/ /\ version = 0 \/ ~aged
          /\ Goto(c, AfterRefresh(c))
          /\ UNCHANGED copy
    /\ UNCHANGED <<config, redisVars, losses, ref, local, blind, at, source, read, floor>>

\* A server with the version v, or a get() of it that is about to adopt v.
Holds(s, v) ==
    local[s] = v \/ \E g \in Gets : pc[g] = "destroying" /\ at[g] = s /\ read[g] = v

\* A version made since the copy was read is overwritten: servers that hold the copy
\* do not see it any more.
WriteBack(c) ==
    /\ pc[c] = "writeback"
    /\ version' = copy[c]
    /\ aged' = FALSE
    /\ blind' = blind \cup {s \in Servers : StaleAt(s) /\ Holds(s, copy[c])}
    /\ copy' = [copy EXCEPT ![c] = 0]
    /\ Goto(c, AfterRefresh(c))
    /\ UNCHANGED <<config, covered, clock, losses, ref, local, at, source, read, floor>>

-----------------------------------------------------------------------------
\* The caller reads the source, and later calls get() with it.
Call(g) ==
    /\ MayStart(g)
    /\ \E s \in Servers : at' = [at EXCEPT ![g] = s]
    /\ source' = [source EXCEPT ![g] = config]
    /\ Goto(g, "given")
    /\ UNCHANGED <<config, redisVars, losses, ref, local, blind, read, copy, floor>>

\* checkStaleness(): the version is read from Redis, and refreshed first when it is
\* old ...
ReadVersion(g) ==
    /\ pc[g] = "given"
    /\ read' = [read EXCEPT ![g] = version]
    /\ floor' = [floor EXCEPT ![g] = covered]
    /\ Goto(g, IF aged THEN "reread" ELSE "compare")
    /\ UNCHANGED <<config, redisVars, losses, ref, local, blind, at, source, copy>>

\* ... and compared with the local one; if it differs the connection is deleted.
DiffersIfKnown(g) ==                              \* planted bug for Differs
    read[g] # 0 /\ local[at[g]] # 0 /\ read[g] # local[at[g]]
Differs(g) == read[g] # 0 /\ read[g] # local[at[g]]
Compare(g) ==
    /\ pc[g] = "compare"
    /\ IF Differs(g) THEN Delete(at[g]) /\ Goto(g, "destroying")
                     ELSE Goto(g, "lookup") /\ UNCHANGED <<ref, blind>>
    /\ IF Differs(g) THEN UNCHANGED read ELSE read' = [read EXCEPT ![g] = 0]
    /\ UNCHANGED <<config, redisVars, losses, local, at, source, floor, copy>>

\* The version that was read becomes the local one, not the one Redis has by now.
Adopt(g) == read[g]
Destroyed(g) ==
    /\ pc[g] = "destroying"
    /\ local' = [local EXCEPT ![at[g]] = Adopt(g)]
    /\ read' = [read EXCEPT ![g] = 0]
    /\ Goto(g, "lookup")
    /\ UNCHANGED <<config, redisVars, losses, ref, blind, at, source, floor, copy>>

\* get() returns: the next call may begin, on any server.
Return(g) ==
    /\ at' = [at EXCEPT ![g] = None]
    /\ source' = [source EXCEPT ![g] = 0]
    /\ floor' = [floor EXCEPT ![g] = 0]
    /\ Goto(g, "idle")

Lookup(g) ==
    /\ pc[g] = "lookup"
    /\ IF ref[at[g]] # None THEN Return(g)
                            ELSE Goto(g, "build") /\ UNCHANGED <<at, source, floor>>
    /\ UNCHANGED <<config, redisVars, losses, ref, local, blind, read, copy>>

\* The connection is built from the source object and put in the map, over one that
\* another get() may have put there meanwhile.
BuiltFrom(g) == source[g]
Build(g) ==
    /\ pc[g] = "build"
    /\ ref' = [ref EXCEPT ![at[g]] = BuiltFrom(g)]
    /\ blind' = IF source[g] < covered THEN blind \cup {at[g]} ELSE blind \ {at[g]}
    /\ Return(g)
    /\ UNCHANGED <<config, redisVars, losses, local, read, copy>>

Get(g) ==
    \/ Call(g) \/ ReadVersion(g) \/ Reread(g) \/ WriteBack(g)
    \/ Compare(g) \/ Destroyed(g) \/ Lookup(g) \/ Build(g)

-----------------------------------------------------------------------------
\* A call starts on some server; the configuration its version will announce.
Start(e, announced) ==
    /\ MayStart(e)
    /\ clock < MaxBumps
    /\ \E s \in Servers : at' = [at EXCEPT ![e] = s]
    /\ source' = [source EXCEPT ![e] = announced]

Edit(e) ==
    /\ Start(e, config + 1)
    /\ config' = config + 1

\* updateIntegrationSourceConfig(): the configuration changes, then resetSource()
\* deletes the connection and awaits its teardown before it makes a version.
EditIntegration(e) ==
    /\ Edit(e)
    /\ Goto(e, "edited")
    /\ UNCHANGED <<redisVars, losses, ref, local, blind, read, copy, floor>>

Reset(e) ==
    /\ pc[e] = "edited"
    /\ Delete(at[e])
    /\ Goto(e, "bump")
    /\ UNCHANGED <<config, redisVars, losses, local, at, source, read, copy, floor>>

\* baseUpdate(): the configuration changes and the version is bumped; nothing
\* deletes the connection of this server.
EditSource(e) ==
    /\ Edit(e)
    /\ Goto(e, "bump")
    /\ UNCHANGED <<redisVars, losses, ref, local, blind, read, copy, floor>>

\* populateMeta() and the like: a bump without a change of the configuration.
EditMetadata(e) ==
    /\ Start(e, config)
    /\ Goto(e, "bump")
    /\ UNCHANGED <<config, redisVars, losses, ref, local, blind, read, copy, floor>>

\* sourceCleanup(): deleteAwait(), then the bump.
Cleanup(e) ==
    /\ Start(e, config)
    /\ Goto(e, "edited")
    /\ UNCHANGED <<config, redisVars, losses, ref, local, blind, read, copy, floor>>

\* bumpAndSync(): set() reads the entry before it writes the new version ...
Prepare(e) ==
    /\ pc[e] = "bump"
    /\ Goto(e, IF aged THEN "reread" ELSE "set")
    /\ UNCHANGED <<config, redisVars, losses, ref, local, blind, at, source, read, copy, floor>>

SyncOnly(e) == UNCHANGED version                  \* planted bug for SetVersion
SetVersion(e) == version' = clock + 1
Bump(e) ==
    /\ pc[e] = "set"
    /\ clock < MaxBumps
    /\ clock' = clock + 1
    /\ SetVersion(e)
    /\ aged' = FALSE
    /\ read' = [read EXCEPT ![e] = clock + 1]
    /\ covered' = IF source[e] > covered THEN source[e] ELSE covered
    /\ Goto(e, "reread")
    /\ UNCHANGED <<config, losses, ref, local, blind, at, source, floor, copy>>

\* ... which becomes the local one after the refresh: a bump of another server that
\* this one has not read is never seen.
Sync(e) ==
    /\ pc[e] = "sync"
    /\ local' = [local EXCEPT ![at[e]] = read[e]]
    /\ blind' = IF StaleAt(at[e]) THEN blind \cup {at[e]} ELSE blind
    /\ at' = [at EXCEPT ![e] = None]
    /\ source' = [source EXCEPT ![e] = 0]
    /\ read' = [read EXCEPT ![e] = 0]
    /\ Goto(e, "done")
    /\ UNCHANGED <<config, redisVars, losses, ref, floor, copy>>

EditCall(e) ==
    EditIntegration(e) \/ Reset(e) \/ EditSource(e) \/ EditMetadata(e) \/ Cleanup(e)
        \/ Prepare(e) \/ Bump(e) \/ Reread(e) \/ WriteBack(e) \/ Sync(e)

-----------------------------------------------------------------------------
Lose == losses < MaxLosses /\ losses' = losses + 1

\* Another source takes the place of this one in an LRU map, a connection pool is
\* cleared without a bump, or the server restarts.
Evict(s) ==
    /\ Lose
    /\ ref[s] # None
    /\ Delete(s)
    /\ UNCHANGED <<config, redisVars, local, callVars>>

ForgetVersion(s) ==
    /\ Lose
    /\ local[s] # 0
    /\ local' = [local EXCEPT ![s] = 0]
    /\ UNCHANGED <<config, redisVars, ref, blind, callVars>>

\* The version expires: nobody has read it for three days.
ExpireVersion ==
    /\ Lose
    /\ version # 0
    /\ version' = 0
    /\ aged' = FALSE
    /\ blind' = blind \cup {s \in Servers : StaleAt(s)}
    /\ UNCHANGED <<config, covered, clock, ref, local, callVars>>

\* More than a day passes since the version was written.
Age ==
    /\ Lose
    /\ version # 0 /\ ~aged
    /\ aged' = TRUE
    /\ UNCHANGED <<config, version, covered, clock, ref, local, blind, callVars>>

Next ==
    \/ \E g \in Gets : Get(g)
    \/ \E e \in Edits : EditCall(e)
    \/ \E s \in Servers : Evict(s) \/ ForgetVersion(s)
    \/ ExpireVersion \/ Age

Spec == Init /\ [][Next]_vars

-----------------------------------------------------------------------------
\* A connection that is older than what has been announced is found to be stale by
\* the next get() of its server: the version in Redis is not the local one.  The
\* exceptions are the four ways in which a server goes blind: it stores a connection
\* built from a source that was read before the edit, it makes its own version while
\* its connection is stale, the version expires, or a refresh writes the version of
\* this server back over a newer one.
StaleIsNoticed ==
    \A s \in Servers :
        StaleAt(s) => s \in blind \/ (version # 0 /\ version # local[s])

\* The connection a get() returns is the one it leaves in the map of its server.
Returns(g) == pc[g] \in {"lookup", "build"} /\ pc'[g] = "idle"
ReturnsFresh(g) == ref'[at[g]] >= floor[g]

\* A get() that begins after an edit has been announced, with a source read after
\* the edit, returns a connection of that edit or a later one, on every server that
\* has not gone blind.
FreshUnlessBlind ==
    [][\A g \in Gets :
        Returns(g) /\ source[g] >= floor[g] => ReturnsFresh(g) \/ at[g] \in blind]_vars

\* "Bump the Redis version for a source so all servers invalidate their cached
\* connection on the next get()".
NextGetIsFresh ==
    [][\A g \in Gets : Returns(g) /\ source[g] >= floor[g] => ReturnsFresh(g)]_vars
=============================================================================
