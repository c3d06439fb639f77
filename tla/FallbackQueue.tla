---------------------------- MODULE FallbackQueue ----------------------------
(***************************************************************************)
(* The in-memory job queue of a NocoDB without Redis: QueueService         *)
(* (modules/jobs/fallback/fallback-queue.service.ts) and the add() of the  *)
(* JobsService in front of it.                                             *)
(*                                                                         *)
(* Job objects are numbered in the order they are made; the queue compares *)
(* them by id, and an id may have several objects over time.  A delay may  *)
(* be of any length, and so may the interval of a repeated job.            *)
(*                                                                         *)
(* The listeners start the updates of a row and do not wait for them, over *)
(* a pool of connections: any of those that are pending may be carried out *)
(* next.                                                                   *)
(***************************************************************************)
EXTENDS Naturals, Sequences, FiniteSets, SequencesExt

CONSTANTS
    Ids,
    Repeated,     \* ids added with a cron pattern
    Unknown,      \* ids whose job name is not in jobsMap
    Concurrency,  \* of the PQueue
    MaxObjects,   \* bound on the job objects made
    MaxTimers,    \* bound on the delayed adds
    MaxRequests   \* bound on the adds

ASSUME ConstantsAssumption ==
    /\ Repeated \subseteq Ids /\ Unknown \subseteq Ids
    /\ Concurrency \in Nat \ {0} /\ MaxObjects \in Nat /\ MaxTimers \in Nat
    /\ MaxRequests \in Nat

VARIABLES
    job,      \* the objects made: [id, child, status]
    memory,   \* queueMemory
    queue,    \* tasks the PQueue has not started
    running,  \* objects of the runs under way
    armed,    \* timers of an object that have not fired
    ref,      \* job.timeoutRef, 0 when undefined
    held,     \* the timer in the closure of the helper functions, 0 for null
    timers,   \* how many delayed adds there have been
    requests, \* how many adds there have been
    events,   \* emitted, not handled
    calling,  \* ids whose add() is past the database and not in the queue
    row,      \* status in nc_jobs
    updates,  \* updates of the row that are sent and not carried out
    stale,    \* history: ids whose row was last written by an update older than
              \* one that had been carried out
    last,     \* history: how the last run of the id to end has ended
    readded,  \* history: ids added while a job with the id was in memory
    taken     \* history: ids of jobs that callers have removed, moved or reset

rowVars == <<row, updates, stale>>
history == <<readded, taken>>
vars == <<job, memory, queue, running, armed, ref, held, timers, requests, events,
          calling, rowVars, last, history>>

Objects == 1 .. MaxObjects
Made == 1 .. Len(job)
Outcomes == {"completed", "failed"}
Statuses == {"waiting", "active"} \cup Outcomes
Task == [kind : {"run", "next"}, of : Objects]
Update == [status : Statuses, late : BOOLEAN]
Event == [status : {"active"} \cup Outcomes, of : Objects, tell : BOOLEAN]

TypeOK ==
    /\ job \in Seq([id : Ids, child : BOOLEAN, status : Statuses])
    /\ Len(job) \in 0 .. MaxObjects
    /\ memory \subseteq Made
    /\ queue \in Seq(Task)
    /\ running \in Seq(Objects) /\ Len(running) <= Concurrency
    /\ armed \in [Objects -> SUBSET (0 .. MaxTimers)]
    /\ ref \in [Objects -> 0 .. MaxTimers]
    /\ held \in [Objects -> 0 .. MaxTimers]
    /\ timers \in 0 .. MaxTimers /\ requests \in 0 .. MaxRequests
    /\ events \in Seq(Event)
    /\ calling \subseteq Ids
    /\ row \in [Ids -> Statuses \cup {"none"}]
    /\ updates \in [Ids -> Seq(Update)] /\ stale \subseteq Ids
    /\ last \in [Ids -> Outcomes \cup {"none"}]
    /\ readded \subseteq Ids /\ taken \subseteq Ids

Init ==
    /\ job = <<>> /\ memory = {} /\ queue = <<>> /\ events = <<>>
    /\ running = <<>>
    /\ armed = [o \in Objects |-> {}]
    /\ ref = [o \in Objects |-> 0]
    /\ held = [o \in Objects |-> 0]
    /\ timers = 0 /\ requests = 0 /\ calling = {}
    /\ row = [i \in Ids |-> "none"]
    /\ updates = [i \in Ids |-> <<>>] /\ stale = {}
    /\ last = [i \in Ids |-> "none"]
    /\ readded = {} /\ taken = {}

-----------------------------------------------------------------------------
(* Job objects.                                                            *)

\* The id of a child is that of its parent and the time, so no other object has it.
SameId(o, p) == job[o].id = job[p].id /\ (job[o].child \/ job[p].child => o = p)

WithId(i) == {o \in memory : job[o].id = i /\ ~job[o].child}

Found(o) == {p \in memory : SameId(p, o)}

New == Len(job) + 1
NewJob(i, child) == [id |-> i, child |-> child, status |-> "waiting"]

SetStatus(o, s) == job' = [job EXCEPT ![o].status = s]

Enqueue(kind, o) == queue' = Append(queue, [kind |-> kind, of |-> o])

Emit(status, o, tell) ==
    events' = Append(events, [status |-> status, of |-> o, tell |-> tell])

-----------------------------------------------------------------------------
(* The row of a job.                                                       *)

\* Updates are late once a newer one has been carried out.
Late(s, n) == [m \in 1 .. Len(s) |-> [status |-> s[m].status, late |-> s[m].late \/ m < n]]

\* Job.update() of a listener is not waited for.
SendUpdate(i, status) ==
    updates' = [updates EXCEPT ![i] = Append(@, [status |-> status, late |-> FALSE])]

Land(i) ==
    /\ \E n \in 1 .. Len(updates[i]) :
          /\ row' = [row EXCEPT ![i] = updates[i][n].status]
          /\ updates' = [updates EXCEPT ![i] = RemoveAt(Late(@, n), n)]
          /\ stale' = IF updates[i][n].late THEN stale \cup {i} ELSE stale \ {i}
    /\ UNCHANGED <<job, memory, queue, running, armed, ref, held, timers, requests, events>>
    /\ UNCHANGED <<calling, last, history>>

\* JobsService.add() waits for its own: the row is made or waits again.
RowWaits(i) ==
    IF row[i] = "waiting" THEN UNCHANGED rowVars
    ELSE /\ row' = [row EXCEPT ![i] = "waiting"]
         /\ updates' = [updates EXCEPT ![i] = Late(@, Len(@) + 1)]
         /\ stale' = stale \ {i}

-----------------------------------------------------------------------------
(* JobsService.add() and QueueService.add().                               *)

\* Then the queue is called without an await.
Request(i) ==
    /\ i \notin calling
    /\ readded' = IF WithId(i) = {} THEN readded ELSE readded \cup {i}
    /\ requests < MaxRequests /\ requests' = requests + 1
    /\ RowWaits(i)
    /\ calling' = calling \cup {i}
    /\ UNCHANGED <<job, memory, queue, running, armed, ref, held, timers, events, last, taken>>

ExistingNone(i) == {}                                \* planted bug for Existing
Existing(i) == WithId(i)

\* The object with this id that is in memory, back to waiting, or a new one.
Take(i, o) ==
    \/ o \in Existing(i) /\ SetStatus(o, "waiting") /\ UNCHANGED memory
    \/ /\ Existing(i) = {} /\ o = New /\ o \in Objects
       /\ job' = Append(job, NewJob(i, FALSE))
       /\ memory' = memory \cup {o}

Called(i) == i \in calling /\ calling' = calling \ {i}

AddNow(i) ==
    /\ i \notin Repeated
    /\ Called(i)
    /\ \E o \in Objects : Take(i, o) /\ Enqueue("run", o)
    /\ UNCHANGED <<running, armed, ref, held, timers, requests, events, rowVars, last, history>>

\* The timer of an earlier add of the object stays armed.
AddDelayed(i) ==
    /\ i \notin Repeated
    /\ timers < MaxTimers
    /\ Called(i)
    /\ timers' = timers + 1
    /\ \E o \in Objects :
          /\ Take(i, o)
          /\ armed' = [armed EXCEPT ![o] = @ \cup {timers'}]
          /\ ref' = [ref EXCEPT ![o] = timers']
          /\ held' = [held EXCEPT ![o] = timers']
    /\ UNCHANGED <<queue, running, requests, events, rowVars, last, history>>

\* setTimeout() of scheduleNextExecution(); its handle is kept nowhere.  The
\* helper functions of the child are the parent's.
Schedule(child) == armed' = [armed EXCEPT ![child] = {0}]

AddRepeated(i) ==
    /\ i \in Repeated
    /\ Called(i)
    /\ \/ /\ Existing(i) # {}
          /\ UNCHANGED <<job, memory, armed>>
       \/ /\ Existing(i) = {}
          /\ New + 1 \in Objects
          /\ job' = job \o <<NewJob(i, FALSE), NewJob(i, TRUE)>>
          /\ memory' = memory \cup {New}
          /\ Schedule(New + 1)
    /\ UNCHANGED <<queue, running, ref, held, timers, requests, events, rowVars, last, history>>

-----------------------------------------------------------------------------
(* Timers.                                                                 *)

Fire(o) ==
    /\ \E t \in armed[o] : armed' = [armed EXCEPT ![o] = @ \ {t}]
    /\ Enqueue("run", o)
    /\ IF job[o].child
         THEN memory' = memory \cup {o} /\ UNCHANGED ref
         ELSE ref' = [ref EXCEPT ![o] = 0] /\ UNCHANGED memory
    /\ UNCHANGED <<job, running, held, timers, requests, events, calling, rowVars, last, history>>

-----------------------------------------------------------------------------
(* The PQueue and jobWrapper().                                            *)

HasSlotOffByOne == Len(running) <= Concurrency       \* planted bug for HasSlot
HasSlot == Len(running) < Concurrency

CanStart(kind) ==
    /\ queue # <<>> /\ HasSlot
    /\ Head(queue).kind = kind
    /\ queue' = Tail(queue)

StartRun ==
    /\ CanStart("run")
    /\ running' = Append(running, Head(queue).of)
    /\ Emit("active", Head(queue).of, TRUE)
    /\ UNCHANGED <<job, memory, armed, ref, held, timers, requests>>
    /\ UNCHANGED <<calling, rowVars, last, history>>

\* Bound: a schedule ends when the objects left are needed for adds.
Spare ==
    /\ New \in Objects
    /\ New + 2 * (Cardinality(calling) + MaxRequests - requests) <= MaxObjects

\* scheduleNextExecution(): the next child, a copy of the parent.
StartNext ==
    /\ CanStart("next")
    /\ IF Spare
         THEN /\ job' = Append(job, NewJob(job[Head(queue).of].id, TRUE))
              /\ Schedule(New)
         ELSE UNCHANGED <<job, armed>>
    /\ UNCHANGED <<memory, running, ref, held, timers, requests, events>>
    /\ UNCHANGED <<calling, rowVars, last, history>>

\* A run ends; the run of an unknown job ends at once and emits nothing.
EndRun(n) ==
    LET o == running[n] IN
    /\ running' = RemoveAt(running, n)
    /\ \/ job[o].id \in Unknown /\ UNCHANGED <<events, last>>
       \/ \E how \in Outcomes :
             /\ job[o].id \notin Unknown
             /\ Emit(how, o, TRUE)
             /\ last' = [last EXCEPT ![job[o].id] = how]
    /\ IF job[o].child THEN Enqueue("next", o) ELSE UNCHANGED queue
    /\ UNCHANGED <<job, memory, armed, ref, held, timers, requests, calling, rowVars, history>>

-----------------------------------------------------------------------------
(* The listeners of the emitter.                                           *)

\* Only the rows of jobs exist: an update for the id of a child changes nothing.
Told(e, p) ==
    IF e.tell /\ ~job[p].child THEN SendUpdate(job[p].id, e.status) ELSE UNCHANGED updates

AfterAnyEvent(e, p) == memory \ {p}                  \* planted bug for AfterEvent
AfterEventKept(e, p) == memory                       \* planted bug for AfterEvent
AfterEvent(e, p) == IF e.status \in Outcomes THEN memory \ {p} ELSE memory

Handle ==
    /\ events # <<>>
    /\ events' = Tail(events)
    /\ LET e == Head(events) IN
       \/ Found(e.of) = {} /\ UNCHANGED <<job, memory, updates>>
       \/ \E p \in Found(e.of) :
             /\ SetStatus(p, e.status)
             /\ Told(e, p)
             /\ memory' = AfterEvent(e, p)
    /\ UNCHANGED <<queue, running, armed, ref, held, timers, requests, calling, row, stale>>
    /\ UNCHANGED <<last, history>>

-----------------------------------------------------------------------------
(* What callers do with a job or with the queue.  The helper functions of  *)
(* a child are those of its parent.                                        *)

Clear(o) == armed' = [armed EXCEPT ![o] = @ \ ({held[o]} \ {0})]

RemoveJob(o) ==
    /\ o \in Made /\ ~job[o].child
    /\ Clear(o)
    /\ memory' = memory \ Found(o)
    /\ taken' = taken \cup {job[o].id}
    /\ UNCHANGED <<job, queue, running, ref, held, timers, requests, events>>
    /\ UNCHANGED <<calling, rowVars, last, readded>>

MoveTo(o) ==
    /\ o \in Made /\ ~job[o].child
    /\ Found(o) # {}  \* else it does what remove() does
    /\ events = <<>>  \* bound
    /\ Clear(o)
    /\ \E how \in Outcomes : Emit(how, o, FALSE)
    /\ taken' = taken \cup {job[o].id}
    /\ UNCHANGED <<job, memory, queue, running, ref, held, timers, requests>>
    /\ UNCHANGED <<calling, rowVars, last, readded>>

Reset ==
    /\ queue' = <<>>
    /\ armed' = [o \in Objects |-> IF o \in memory THEN armed[o] \ ({ref[o]} \ {0}) ELSE armed[o]]
    /\ ref' = [o \in Objects |-> IF o \in memory THEN 0 ELSE ref[o]]
    /\ memory' = {}
    /\ taken' = Ids
    /\ UNCHANGED <<job, running, held, timers, requests, events, calling, rowVars, last, readded>>

-----------------------------------------------------------------------------
Work ==
    \/ \E i \in Ids : AddNow(i) \/ AddDelayed(i) \/ AddRepeated(i)
    \/ \E o \in Objects : Fire(o)
    \/ StartRun \/ StartNext \/ Handle
    \/ \E n \in 1 .. Len(running) : EndRun(n)

Next ==
    \/ Work
    \/ \E i \in Ids : Request(i) \/ Land(i)
    \/ \E o \in Objects : RemoveJob(o) \/ MoveTo(o)
    \/ Reset

Spec == Init /\ [][Next]_vars

\* Timers fire, the PQueue starts what it can, runs end, listeners are called and the
\* database answers.
FairSpec == Spec /\ WF_vars(Work) /\ WF_vars(\E i \in Ids : Land(i))

-----------------------------------------------------------------------------
Queued(o) == \E n \in 1 .. Len(queue) : queue[n].of = o /\ queue[n].kind = "run"
Running(o) == \E n \in 1 .. Len(running) : running[n] = o
Reporting(o) == \E n \in 1 .. Len(events) : events[n].of = o /\ events[n].status \in Outcomes

\* Two jobs in memory never have the same id: find() has one to find.
UniqueIds == \A o, p \in memory : SameId(o, p) => o = p

\* A job stays in memory (and in jobList) only while a run of it is to come, is
\* under way or is being reported: whatever callers do, none is stuck there.
\* The parent of a repeated job stays, and so does a job nobody knows.
NoZombie ==
    \A o \in memory : \/ armed[o] # {} \/ Queued(o) \/ Running(o) \/ Reporting(o)
                      \/ job[o].id \in Unknown
                      \/ job[o].id \in Repeated /\ ~job[o].child

\* A repeated job has one schedule, however often it is added: "add() with the
\* same jobId+repeat is idempotent".  (As long as nobody takes its parent away.)
ChildOf(o, i) == o \in Made /\ job[o].id = i /\ job[o].child
SingleSchedule ==
    \A i \in Repeated \ taken :
        Cardinality({o \in Objects : ChildOf(o, i) /\ armed[o] # {}})
        + Cardinality({n \in 1 .. Len(queue) : ChildOf(queue[n].of, i)})
        + Cardinality({n \in 1 .. Len(running) : ChildOf(running[n], i)}) <= 1

\* When callers leave an id alone until its job has gone, and the updates are carried
\* out, its row tells how the job went, unless an older update has come after a newer.
RowTellsRun ==
    \A i \in Ids \ (Repeated \cup Unknown \cup readded \cup taken) :
        i \notin calling /\ WithId(i) = {} /\ updates[i] = <<>> /\ row[i] # "none" =>
            row[i] = last[i] \/ i \in stale

\* However ids are added again, the row of an id that was added does not stay
\* waiting or active, unless callers take its job away or an older update comes
\* after a newer.
RowEnds ==
    \A i \in Ids \ (Repeated \cup Unknown) :
        <>[](row[i] \in Outcomes \cup {"none"} \/ i \in taken \cup stale)
=============================================================================
