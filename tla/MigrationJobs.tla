---------------------------- MODULE MigrationJobs ----------------------------
(***************************************************************************)
(* The lock that lets one instance at a time run the background            *)
(* migrations: InitMigrationJobs.job() and the helpers of                  *)
(* helpers/migrationJobs.ts.                                               *)
(*                                                                         *)
(* The state is one row of the store table.  It is read whole and written  *)
(* whole, and nothing but the code below keeps two runs apart: the row is  *)
(* written without a condition, a run that wrote its id waits, reads the   *)
(* row again and goes on only if its id is still there.                    *)
(*                                                                         *)
(* A chain is the sequence of runs that starts with the job an instance    *)
(* adds when it boots: a run adds at most one successor.  Every chain is   *)
(* taken to live in an instance of its own.  Times are kept as ages, which *)
(* stop counting once they are past every limit they are compared with.    *)
(***************************************************************************)
EXTENDS Naturals

CONSTANTS
    Chains,        \* chains of runs, one per instance that boots
    Gone,          \* the id of any run that is over; ids are only compared
    Last,          \* version of the last entry of migrationJobsList
    ConfirmWait,   \* the 5 seconds between taking the lock and confirming it
    Heartbeat,     \* the 5 minutes between two updates of stall_check
    StallAfter,    \* the 10 minutes after which a lock is taken for stalled
    Timely,        \* TRUE: database calls and due timers never wait for a tick
    ShortRuns,     \* TRUE: a migration returns before its first heartbeat
    MayFail,       \* TRUE: a migration may return false or throw
    MaxCrashes     \* bound on the number of crashes

ASSUME ConstantsAssumption ==
    /\ Gone \notin Chains
    /\ Last \in Nat \ {0}
    /\ ConfirmWait \in Nat \ {0}
    /\ Heartbeat \in Nat \ {0}
    /\ StallAfter \in Nat
    /\ ConfirmWait + Heartbeat <= StallAfter
    /\ Timely \in BOOLEAN /\ ShortRuns \in BOOLEAN /\ MayFail \in BOOLEAN
    /\ MaxCrashes \in Nat

VARIABLES
    store,     \* the row NC_MIGRATION_JOBS
    pc,        \* where the current run of a chain is
    snap,      \* the run's migrationJobsState
    wait,      \* time since the run went to sleep
    beat,      \* time since the last heartbeat of the run, while it migrates
    inFlight,  \* what a heartbeat has read and not yet written back
    applied,   \* history: the migrations whose job() has returned true
    crashes

vars == <<store, pc, snap, wait, beat, inFlight, applied, crashes>>

Versions == 1 .. Last
Ages == 0 .. StallAfter + 1          \* StallAfter + 1 stands for any larger age
Older(age) == IF age > StallAfter THEN age ELSE age + 1

Rows == [version: {0} \cup Versions, locked: BOOLEAN, age: Ages,
         instance: Chains \cup {Gone}]
NoRow == [version |-> 0, locked |-> FALSE, age |-> 0, instance |-> Gone]

Places == {"queued", "release", "lock", "confirm", "migrate", "finishOk",
           "finishFailed", "retry", "done", "down"}

\* The state a run computes before it writes it.
Unlocked(row) == [row EXCEPT !.locked = FALSE, !.age = 0]
LockedBy(c, row) == [row EXCEPT !.locked = TRUE, !.age = 0, !.instance = c]
StalledNever(row) == FALSE                     \* planted bug for Stalled
Stalled(row) == row.locked /\ row.age > StallAfter

\* Is the filtered list not empty; the run of c takes its head.
PendingInclusive(row) == row.version <= Last   \* planted bug for Pending
Pending(row) == row.version < Last
TargetNewest(c) == Last                        \* planted bug for Target
Target(c) == snap[c].version + 1

\* The run of c is over: nobody will compare anything with its id again.
Forget(c, row) == IF row.instance = c THEN [row EXCEPT !.instance = Gone] ELSE row
EndRun(c, row) ==
    /\ store' = Forget(c, row)
    /\ snap' = [d \in Chains |-> IF d = c THEN NoRow ELSE Forget(c, snap[d])]
    /\ inFlight' = [d \in Chains |-> {Forget(c, read) : read \in inFlight[d]}]

TypeOK ==
    /\ store \in Rows
    /\ pc \in [Chains -> Places]
    /\ snap \in [Chains -> Rows]
    /\ wait \in [Chains -> Ages]
    /\ beat \in [Chains -> Ages]
    /\ inFlight \in [Chains -> SUBSET Rows]
    /\ applied \subseteq Versions
    /\ crashes \in 0 .. MaxCrashes

Init ==
    /\ store = NoRow
    /\ pc = [c \in Chains |-> "queued"]
    /\ snap = [c \in Chains |-> NoRow]
    /\ wait = [c \in Chains |-> 0]
    /\ beat = [c \in Chains |-> 0]
    /\ inFlight = [c \in Chains |-> {}]
    /\ applied = {}
    /\ crashes = 0

Migrating(c) == pc[c] = "migrate"
Goto(c, place) == pc' = [pc EXCEPT ![c] = place]

-----------------------------------------------------------------------------
(* InitMigrationJobs.job(), from one await to the next.                    *)

\* The row is locked and has not been touched for StallAfter: prepare to unlock.
FindStalled(c) ==
    /\ pc[c] = "queued"
    /\ Stalled(store)
    /\ snap' = [snap EXCEPT ![c] = Unlocked(store)]
    /\ Goto(c, "release")
    /\ UNCHANGED <<store, wait, beat, inFlight, applied, crashes>>

\* Unlock and start over with a new id.
Release(c) ==
    /\ pc[c] = "release"
    /\ store' = snap[c]
    /\ Goto(c, "queued")
    /\ snap' = [snap EXCEPT ![c] = NoRow]
    /\ UNCHANGED <<wait, beat, inFlight, applied, crashes>>

\* Somebody else holds the lock: look again after the stall limit.
FindLocked(c) ==
    /\ pc[c] = "queued"
    /\ store.locked /\ ~Stalled(store)
    /\ Goto(c, "retry")
    /\ wait' = [wait EXCEPT ![c] = 0]
    /\ UNCHANGED <<store, snap, beat, inFlight, applied, crashes>>

Retry(c) ==
    /\ pc[c] = "retry"
    /\ wait[c] >= StallAfter
    /\ Goto(c, "queued")
    /\ UNCHANGED <<store, snap, wait, beat, inFlight, applied, crashes>>

\* Every migration has been applied.
FindNothing(c) ==
    /\ pc[c] = "queued"
    /\ ~store.locked
    /\ ~Pending(store)
    /\ Goto(c, "done")
    /\ UNCHANGED <<store, snap, wait, beat, inFlight, applied, crashes>>

FindPending(c) ==
    /\ pc[c] = "queued"
    /\ ~store.locked
    /\ Pending(store)
    /\ snap' = [snap EXCEPT ![c] = LockedBy(c, store)]
    /\ Goto(c, "lock")
    /\ UNCHANGED <<store, wait, beat, inFlight, applied, crashes>>

\* The lock is written over whatever the row holds by now.
Lock(c) ==
    /\ pc[c] = "lock"
    /\ store' = snap[c]
    /\ Goto(c, "confirm")
    /\ wait' = [wait EXCEPT ![c] = 0]
    /\ UNCHANGED <<snap, beat, inFlight, applied, crashes>>

ConfirmedByAnyone(c) == store.locked           \* planted bug for Confirmed
Confirmed(c) == store.locked /\ store.instance = c

Confirm(c) ==
    /\ pc[c] = "confirm"
    /\ wait[c] >= ConfirmWait
    /\ Confirmed(c)
    /\ Goto(c, "migrate")
    /\ beat' = [beat EXCEPT ![c] = 0]
    /\ UNCHANGED <<store, snap, wait, inFlight, applied, crashes>>

\* The loser ends without scheduling anything.
LoseLock(c) ==
    /\ pc[c] = "confirm"
    /\ wait[c] >= ConfirmWait
    /\ ~Confirmed(c)
    /\ Goto(c, "done")
    /\ EndRun(c, store)
    /\ UNCHANGED <<wait, beat, applied, crashes>>

\* migration.service.job() returns true; the interval is cleared, but a
\* heartbeat that is in flight stays in flight.
Migrate(c) ==
    /\ Migrating(c)
    /\ applied' = applied \cup {Target(c)}
    /\ snap' = [snap EXCEPT ![c] = [Unlocked(snap[c]) EXCEPT !.version = Target(c)]]
    /\ Goto(c, "finishOk")
    /\ UNCHANGED <<store, wait, beat, inFlight, crashes>>

\* It returns false or throws.
MigrateFails(c) ==
    /\ MayFail
    /\ Migrating(c)
    /\ snap' = [snap EXCEPT ![c] = Unlocked(snap[c])]
    /\ Goto(c, "finishFailed")
    /\ UNCHANGED <<store, wait, beat, inFlight, applied, crashes>>

\* The new state is written; only a success adds the next job.
Finish(c) ==
    /\ pc[c] \in {"finishOk", "finishFailed"}
    /\ EndRun(c, snap[c])
    /\ Goto(c, IF pc[c] = "finishOk" THEN "queued" ELSE "done")
    /\ UNCHANGED <<wait, beat, applied, crashes>>

-----------------------------------------------------------------------------
(* setMigrationJobsStallInterval(): read the row, write it back with a new *)
(* stall_check.  At most one heartbeat of a chain is in flight.            *)

BeatNever(c) == FALSE                          \* planted bug for BeatDue
BeatDue(c) == Migrating(c) /\ beat[c] >= Heartbeat

BeatRead(c) ==
    /\ BeatDue(c)
    /\ inFlight[c] = {}
    /\ inFlight' = [inFlight EXCEPT ![c] = {[store EXCEPT !.age = 0]}]
    /\ beat' = [beat EXCEPT ![c] = 0]
    /\ UNCHANGED <<store, pc, snap, wait, applied, crashes>>

BeatWrite(c) ==
    /\ \E read \in inFlight[c] : store' = read
    /\ inFlight' = [inFlight EXCEPT ![c] = {}]
    /\ UNCHANGED <<pc, snap, wait, beat, applied, crashes>>

-----------------------------------------------------------------------------
(* The environment: instances die and boot, time passes.                   *)

\* The run, its interval and its timers are gone.  A database call that fails
\* ends a run in the same way.
Crash(c) ==
    /\ crashes < MaxCrashes
    /\ pc[c] # "down"
    /\ crashes' = crashes + 1
    /\ Goto(c, "down")
    /\ store' = Forget(c, store)
    /\ snap' = [d \in Chains |-> IF d = c THEN NoRow ELSE Forget(c, snap[d])]
    /\ inFlight' = [d \in Chains |-> IF d = c THEN {}
                                       ELSE {Forget(c, read) : read \in inFlight[d]}]
    /\ UNCHANGED <<wait, beat, applied>>

\* JobsService.onModuleInit() adds the job of a new chain.
Boot(c) ==
    /\ pc[c] = "down"
    /\ Goto(c, "queued")
    /\ UNCHANGED <<store, snap, wait, beat, inFlight, applied, crashes>>

Writing(c) == pc[c] \in {"release", "lock", "finishOk", "finishFailed"}
Asleep(c) == pc[c] \in {"confirm", "retry"}

\* Something of chain c that takes no noticeable time is still to happen.
Due(c) ==
    \/ Writing(c)
    \/ pc[c] = "confirm" /\ wait[c] >= ConfirmWait
    \/ BeatDue(c)
    \/ inFlight[c] # {}

LongRun(c) == Migrating(c) /\ beat[c] + 1 >= Heartbeat

\* Nobody looks at the stall_check of an unlocked row.
OlderRow(row) == IF row.locked THEN [row EXCEPT !.age = Older(@)] ELSE row

Tick ==
    /\ Timely => \A c \in Chains : ~Due(c)
    /\ ShortRuns => \A c \in Chains : ~LongRun(c)
    /\ store' = OlderRow(store)
    /\ snap' = [c \in Chains |-> IF Writing(c) THEN OlderRow(snap[c]) ELSE snap[c]]
    /\ inFlight' = [c \in Chains |-> {OlderRow(read) : read \in inFlight[c]}]
    /\ wait' = [c \in Chains |-> IF Asleep(c) THEN Older(wait[c]) ELSE 0]
    /\ beat' = [c \in Chains |-> IF Migrating(c) THEN Older(beat[c]) ELSE 0]
    /\ UNCHANGED <<pc, applied, crashes>>

-----------------------------------------------------------------------------
Find(c) == FindStalled(c) \/ FindLocked(c) \/ FindNothing(c) \/ FindPending(c)
Job(c) ==
    \/ Find(c) \/ Release(c) \/ Retry(c) \/ Lock(c) \/ Confirm(c) \/ LoseLock(c)
    \/ Migrate(c) \/ MigrateFails(c) \/ Finish(c)

Next ==
    \/ \E c \in Chains : Job(c) \/ BeatRead(c) \/ BeatWrite(c) \/ Crash(c) \/ Boot(c)
    \/ Tick

Spec == Init /\ [][Next]_vars

\* The event loop runs what is ready, a migration returns, an instance that
\* died is started again, and time passes.
Fairness ==
    /\ \A c \in Chains : WF_vars(Job(c)) /\ WF_vars(BeatRead(c))
                         /\ WF_vars(BeatWrite(c)) /\ WF_vars(Boot(c))
    /\ WF_vars(Tick)

FairSpec == Spec /\ Fairness

-----------------------------------------------------------------------------
\* Two runs never migrate at the same time: what the row lock, its five second
\* confirmation and the heartbeat are for.
Exclusive == \A c, d \in Chains : Migrating(c) /\ Migrating(d) => c = d

\* A migration starts only when all the earlier ones have been applied, whatever
\* is overwritten, broken as stalled or lost in a crash: job() takes the first
\* version above the one in the row it has read.
InOrder == \A c \in Chains : Migrating(c) => \A v \in 1 .. Target(c) - 1 : v \in applied

\* A migration that has been applied does not run again: job() filters the list
\* for "migrations need to be applied".
AppliedOnce == \A c \in Chains : Migrating(c) => Target(c) \notin applied

\* The runs that migrate are those of SerialMigrations: whatever is overwritten, broken
\* as stalled or lost in a crash, one migration runs at a time, from its start to its
\* success or failure, and is the next or one that has been applied before.
Serial == INSTANCE SerialMigrations
            WITH Runners <- Chains,
                 turns <- {<<c, Target(c)>> : c \in {d \in Chains : Migrating(d)}}
ImplementsSerial == Serial!Spec

\* Every migration is applied in the end and the row says so, unlocked, for good.
Settles == <>[](applied = Versions /\ store.version = Last /\ ~store.locked)
=============================================================================
