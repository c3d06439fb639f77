------------------------------ MODULE JobRequeue ------------------------------
(***************************************************************************)
(* The worker side of the Redis job queue: JobsProcessor.process() and     *)
(* requeue() (modules/jobs/jobs.processor.ts), what JobsEventService does  *)
(* with the events of a job, and the nc_jobs row.                          *)
(*                                                                         *)
(* All jobs have the same name, one with a LOCAL_CONCURRENCY_LIMIT.  A     *)
(* worker that is skewed does not have the job, its function or its        *)
(* version (a rolling deploy).  The queue itself is Bull and external: it  *)
(* hands a waiting job to one worker, and hands it out again when that     *)
(* worker dies.  Delays are left out: a job that is put back may be taken  *)
(* at any time.                                                            *)
(*                                                                         *)
(* Updates of a row are started and not waited for, over a pool of         *)
(* connections: any of those that are pending may be carried out next.     *)
(***************************************************************************)
EXTENDS Naturals, Sequences, FiniteSets, SequencesExt

CONSTANTS
    Jobs,
    Workers,
    Nobody,       \* no worker has the job
    Limit,        \* JOB_REQUEUE_LIMIT
    LocalLimit,   \* LOCAL_CONCURRENCY_LIMIT of the name
    MaxCrashes    \* bound on the crashes of workers

ASSUME ConstantsAssumption ==
    /\ Nobody \notin Workers
    /\ Limit \in Nat /\ LocalLimit \in Nat \ {0} /\ MaxCrashes \in Nat

VARIABLES
    phase,     \* where a job is, in Bull or in the worker that has taken it
    at,        \* the worker that has taken it
    attempt,   \* data._jobAttempt
    requeues,  \* history: how often the job has been put back
    skewed,    \* workers that cannot run the job
    count,     \* LOCAL_JOB_COUNT_MAP of each worker
    row,       \* status in the row of the job
    updates,   \* updates of the row that are sent and not carried out
    overtaken, \* history: jobs whose end was carried out before an older update
    reply,     \* first message on the channel worker:job:<id>
    crashes

rowVars == <<row, updates, overtaken>>
vars == <<phase, at, attempt, requeues, skewed, count, rowVars, reply, crashes>>

Phases == {"queued", "running", "requeue", "removed", "readd",
           "completed", "failed", "dropped", "lost"}
Terminal == {"completed", "failed"}
Statuses == {"waiting", "active"} \cup Terminal
Replies == {"none", "requeued", "result", "error"}
Update == [status: Statuses, by: Workers]

Ended(j) == phase[j] \in {"completed", "failed", "dropped"}
RunningAt(w) == {j \in Jobs : phase[j] = "running" /\ at[j] = w}

TypeOK ==
    /\ phase \in [Jobs -> Phases]
    /\ at \in [Jobs -> Workers \cup {Nobody}]
    /\ attempt \in [Jobs -> 1 .. Limit + 1]
    /\ requeues \in [Jobs -> 0 .. Limit]
    /\ skewed \subseteq Workers
    /\ count \in [Workers -> Nat]
    /\ row \in [Jobs -> Statuses]
    /\ updates \in [Jobs -> Seq(Update)]
    /\ overtaken \subseteq Jobs
    /\ reply \in [Jobs -> Replies]
    /\ crashes \in 0 .. MaxCrashes

Init ==
    /\ phase = [j \in Jobs |-> "queued"]
    /\ at = [j \in Jobs |-> Nobody]
    /\ attempt = [j \in Jobs |-> 1]
    /\ requeues = [j \in Jobs |-> 0]
    /\ skewed \in SUBSET Workers
    /\ count = [w \in Workers |-> 0]
    /\ row = [j \in Jobs |-> "waiting"]
    /\ updates = [j \in Jobs |-> <<>>]
    /\ overtaken = {}
    /\ reply = [j \in Jobs |-> "none"]
    /\ crashes = 0

-----------------------------------------------------------------------------
(* JobsEventService.                                                       *)

Goto(j, place) == phase' = [phase EXCEPT ![j] = place]

\* Job.update() is not waited for.
SendUpdate(j, status) ==
    updates' = [updates EXCEPT ![j] = Append(@, [status |-> status, by |-> at'[j]])]

\* The caller of a @UseWorker method takes the first message and unsubscribes.
Publish(j, message) ==
    reply' = [reply EXCEPT ![j] = IF @ = "none" THEN message ELSE @]

OnCompleted(j) == Publish(j, "result") /\ SendUpdate(j, "completed")

OnFailedUnsaved(j) == Publish(j, "error") /\ UNCHANGED updates  \* planted bug for OnFailed
OnFailed(j) == Publish(j, "error") /\ SendUpdate(j, "failed")

Release(w) == count' = [count EXCEPT ![w] = IF @ > 0 THEN @ - 1 ELSE 0]

-----------------------------------------------------------------------------
(* JobsProcessor.process().                                                *)

FullOffByOne(w) == count[w] > LocalLimit             \* planted bug for Full
Full(w) == count[w] >= LocalLimit

Turned(w) == w \in skewed \/ Full(w)

\* Bull reports the job active; the worker cannot take it now.
TurnAway(w, j) ==
    /\ phase[j] = "queued"
    /\ Turned(w)
    /\ at' = [at EXCEPT ![j] = w]
    /\ SendUpdate(j, "active")
    /\ Goto(j, "requeue")
    /\ UNCHANGED <<attempt, requeues, skewed, count, row, overtaken, reply, crashes>>

Run(w, j) ==
    /\ phase[j] = "queued"
    /\ ~Turned(w)
    /\ at' = [at EXCEPT ![j] = w]
    /\ SendUpdate(j, "active")
    /\ count' = [count EXCEPT ![w] = @ + 1]
    /\ Goto(j, "running")
    /\ UNCHANGED <<attempt, requeues, skewed, row, overtaken, reply, crashes>>

\* The job returns or throws; in both cases the count goes down.
EndRun(j, place) ==
    /\ phase[j] = "running"
    /\ Release(at[j])
    /\ Goto(j, place)
    /\ UNCHANGED <<at, attempt, requeues, skewed, row, overtaken, crashes>>

Complete(j) == EndRun(j, "completed") /\ OnCompleted(j)
Fail(j) == EndRun(j, "failed") /\ OnFailed(j)

-----------------------------------------------------------------------------
(* JobsProcessor.requeue().                                                *)

\* releaseLock() and remove(): from here on only this worker knows the job.
TakeOut(j) ==
    /\ phase[j] = "requeue"
    /\ Goto(j, "removed")
    /\ UNCHANGED <<at, attempt, requeues, skewed, count, rowVars, reply, crashes>>

SpentEarly(j) == attempt[j] >= Limit                 \* planted bug for Spent
Spent(j) == attempt[j] > Limit

Drop(j) ==
    /\ phase[j] = "removed"
    /\ Spent(j)
    /\ Goto(j, "dropped")
    /\ UNCHANGED <<at, attempt, requeues, skewed, count, row, overtaken, crashes>>
    /\ OnFailed(j)

NextAttemptForgotten(n) == n                         \* planted bug for NextAttempt
NextAttempt(n) == n + 1

\* onCompleted(job, REQUEUED) publishes like any completion, and saves nothing.
AnnounceSaved(j) ==                                  \* planted bug for Announce
    /\ phase[j] = "removed"
    /\ ~Spent(j)
    /\ attempt' = [attempt EXCEPT ![j] = NextAttempt(@)]
    /\ Goto(j, "readd")
    /\ UNCHANGED <<at, requeues, skewed, count, row, overtaken, crashes>>
    /\ OnCompleted(j)
Announce(j) ==
    /\ phase[j] = "removed"
    /\ ~Spent(j)
    /\ Publish(j, "requeued")
    /\ attempt' = [attempt EXCEPT ![j] = NextAttempt(@)]
    /\ Goto(j, "readd")
    /\ UNCHANGED <<at, requeues, skewed, count, rowVars, crashes>>

\* JobsService.add() with the same id: the row waits again, then Bull has the job.
Readd(j) ==
    /\ phase[j] = "readd"
    /\ row' = [row EXCEPT ![j] = "waiting"]
    /\ Goto(j, "queued")
    /\ at' = [at EXCEPT ![j] = Nobody]
    /\ requeues' = [requeues EXCEPT ![j] = @ + 1]
    /\ UNCHANGED <<attempt, skewed, count, updates, overtaken, reply, crashes>>

-----------------------------------------------------------------------------
(* The meta database and the environment.                                  *)

\* The end of a job is the last update it sends.
Overtakes(j, i) == updates[j][i].status \in Terminal /\ Len(updates[j]) > 1
Land(j) ==
    /\ \E i \in 1 .. Len(updates[j]) :
          /\ overtaken' = IF Overtakes(j, i) THEN overtaken \cup {j} ELSE overtaken
          /\ row' = [row EXCEPT ![j] = updates[j][i].status]
          /\ updates' = [updates EXCEPT ![j] = RemoveAt(@, i)]
    /\ UNCHANGED <<phase, at, attempt, requeues, skewed, count, reply, crashes>>

\* The updates that are not those of a worker that dies, in their order.
Others(s, w) ==
    LET kept == {i \in 1 .. Len(s) : s[i].by # w}
        places == 1 .. Cardinality(kept) IN
    {[n \in places |-> s[f[n]]] :
        f \in {f \in [places -> kept] : \A m, n \in places : m < n => f[m] < f[n]}}
Survive(w) ==
    \E left \in [Jobs -> UNION {Others(updates[j], w) : j \in Jobs}] :
        /\ \A j \in Jobs : left[j] \in Others(updates[j], w)
        /\ updates' = left

\* The worker dies and comes back.  Bull hands out again what it still has.
Crash(w) ==
    /\ crashes < MaxCrashes
    /\ crashes' = crashes + 1
    /\ phase' = [j \in Jobs |->
                   IF at[j] # w THEN phase[j]
                   ELSE CASE phase[j] \in {"running", "requeue"} -> "queued"
                          [] phase[j] \in {"removed", "readd"} -> "lost"
                          [] OTHER -> phase[j]]
    /\ at' = [j \in Jobs |-> IF at[j] = w THEN Nobody ELSE at[j]]
    /\ count' = [count EXCEPT ![w] = 0]
    /\ Survive(w)
    /\ UNCHANGED <<attempt, requeues, skewed, row, overtaken, reply>>

Deploy(w) ==
    /\ w \in skewed
    /\ skewed' = skewed \ {w}
    /\ UNCHANGED <<phase, at, attempt, requeues, count, rowVars, reply, crashes>>

-----------------------------------------------------------------------------
Work(j) ==
    \/ \E w \in Workers : TurnAway(w, j) \/ Run(w, j)
    \/ Complete(j) \/ Fail(j) \/ TakeOut(j) \/ Drop(j) \/ Announce(j) \/ Readd(j)

Next ==
    \/ \E j \in Jobs : Work(j) \/ Land(j)
    \/ \E w \in Workers : Crash(w) \/ Deploy(w)

Spec == Init /\ [][Next]_vars

\* Bull hands out what waits, processors return, the database answers.  Nobody
\* has to deploy or to crash.
FairSpec == Spec /\ \A j \in Jobs : WF_vars(Work(j)) /\ WF_vars(Land(j))

-----------------------------------------------------------------------------
\* A worker never runs more jobs of the name than LOCAL_CONCURRENCY_LIMIT, and
\* its count is that number: no way out of process() leaves it too high or low.
LocalLimitKept ==
    \A w \in Workers : count[w] = Cardinality(RunningAt(w)) /\ count[w] <= LocalLimit

\* A job is given up only after its whole budget: "dropped after
\* ${JOB_REQUEUE_LIMIT} requeues".
FullBudget == \A j \in Jobs : phase[j] = "dropped" => requeues[j] = Limit

\* Once a job has ended and its updates are carried out, its row tells how.  The one
\* exception is a job whose end was carried out before an older update: its row says
\* that the job is active.  (As long as no worker has died with updates to make.)
RowTellsEnd ==
    crashes = 0 => \A j \in Jobs : Ended(j) /\ updates[j] = <<>> =>
        row[j] = IF j \in overtaken THEN "active"
                 ELSE IF phase[j] = "completed" THEN "completed" ELSE "failed"

\* When no worker dies, every job's row reaches a terminal state, deployed workers
\* or not, unless an older update overtakes its end: what is turned away for ever is
\* dropped, and then "listeners + nc_jobs row reach a terminal state".
RowEnds ==
    [](crashes = 0) => \A j \in Jobs : <>[](row[j] \in Terminal \/ j \in overtaken)
=============================================================================
