------------------------ MODULE FallbackQueue_proofs ------------------------
(***************************************************************************)
(* The in-memory queue for any number of jobs, adds, timers and runs: its  *)
(* state has its type, find() by id has at most one job to find, no job is *)
(* left in memory without a run to come or to report, a repeated job has   *)
(* one schedule, and a row tells how the run of its job has ended.         *)
(*                                                                         *)
(* Type correctness needs to know that tasks, runs, timers and events are  *)
(* of objects that exist; NoZombie needs UniqueIds, for the end of a run   *)
(* is reported by id and has to remove the very object that ran.  The last *)
(* two need to know that of all the objects of a schedule, or of an id     *)
(* that is left alone, at most one has a timer, a task or a run.           *)
(***************************************************************************)
EXTENDS FallbackQueue, FiniteSetTheorems, SequenceTheorems, TLAPS

Job == [id : Ids, child : BOOLEAN, status : Statuses]

RowTypes ==
    /\ row \in [Ids -> Statuses \cup {"none"}]
    /\ updates \in [Ids -> Seq(Update)]
    /\ stale \subseteq Ids

\* Whatever refers to an object refers to one that has been made.
Refer ==
    /\ \A n \in 1 .. Len(queue) : queue[n].of \in Made
    /\ \A n \in 1 .. Len(running) : running[n] \in Made
    /\ \A n \in 1 .. Len(events) : events[n].of \in Made
    /\ \A o \in Objects : armed[o] # {} => o \in Made

\* Why an object is in memory.
Alive(o) ==
    \/ armed[o] # {} \/ Queued(o) \/ Running(o) \/ Reporting(o)
    \/ job[o].id \in Unknown
    \/ job[o].id \in Repeated /\ ~job[o].child

IInv == TypeOK /\ Refer /\ UniqueIds /\ NoZombie

\* Objects are made and never unmade, and keep their ids.
Stable ==
    /\ job' \in Seq(Job)
    /\ Len(job') \in Len(job) .. MaxObjects
    /\ \A o \in Made : job'[o].id = job[o].id /\ job'[o].child = job[o].child

USE ConstantsAssumption DEF Made, New, Outcomes, Statuses

-----------------------------------------------------------------------------
(* Sequences.                                                              *)

LEMMA AppendSeq ==
    ASSUME NEW S, NEW s \in Seq(S), NEW e \in S
    PROVE  /\ Append(s, e) \in Seq(S)
           /\ Len(Append(s, e)) = Len(s) + 1
           /\ \A i \in 1 .. Len(s) : Append(s, e)[i] = s[i]
           /\ Append(s, e)[Len(s) + 1] = e
  OBVIOUS

LEMMA TailSeq ==
    ASSUME NEW S, NEW s \in Seq(S), s # <<>>
    PROVE  /\ Len(s) \in Nat \ {0}
           /\ Head(s) = s[1] /\ s[1] \in S
           /\ Tail(s) \in Seq(S)
           /\ Len(Tail(s)) = Len(s) - 1
           /\ \A i \in 1 .. Len(s) - 1 : Tail(s)[i] = s[i + 1]
  <1>1. Len(s) \in Nat \ {0}
    BY EmptySeq
  <1>2. Head(s) = s[1] /\ s[1] \in S
    BY <1>1, ElementOfSeq, HeadTailProperties
  <1>3. Tail(s) \in Seq(S) /\ Len(Tail(s)) = Len(s) - 1
    BY <1>1
  <1>4. \A i \in 1 .. Len(s) - 1 : Tail(s)[i] = s[i + 1]
    BY <1>1
  <1> QED
    BY <1>1, <1>2, <1>3, <1>4

LEMMA PairSeq ==
    ASSUME NEW S, NEW a \in S, NEW b \in S
    PROVE  <<a, b>> \in Seq(S) /\ Len(<<a, b>>) = 2 /\ <<a, b>>[1] = a /\ <<a, b>>[2] = b
  OBVIOUS

LEMMA RemoveAtSeq ==
    ASSUME NEW S, NEW s \in Seq(S), NEW n \in 1 .. Len(s)
    PROVE  /\ RemoveAt(s, n) \in Seq(S)
           /\ Len(RemoveAt(s, n)) = Len(s) - 1
           /\ \A i \in 1 .. n - 1 : RemoveAt(s, n)[i] = s[i]
           /\ \A i \in n .. Len(s) - 1 : RemoveAt(s, n)[i] = s[i + 1]
  <1> DEFINE a == SubSeq(s, 1, n - 1)
             b == SubSeq(s, n + 1, Len(s))
  <1>1. Len(s) \in Nat /\ n \in Nat
    OBVIOUS
  <1>2. a \in Seq(S) /\ Len(a) = n - 1 /\ \A i \in 1 .. n - 1 : a[i] = s[i]
    BY <1>1, SubSeqProperties
  <1>3. b \in Seq(S) /\ Len(b) = Len(s) - n /\ \A i \in 1 .. Len(s) - n : b[i] = s[n + i]
    BY <1>1, SubSeqProperties
  <1>4. RemoveAt(s, n) = a \o b
    BY DEF RemoveAt
  <1> HIDE DEF a, b
  <1>5. a \o b \in Seq(S) /\ Len(a \o b) = Len(s) - 1
    BY <1>1, <1>2, <1>3, ConcatProperties
  <1>6. \A i \in 1 .. n - 1 : (a \o b)[i] = s[i]
    BY <1>1, <1>2, <1>3, ConcatProperties
  <1>7. ASSUME NEW i \in n .. Len(s) - 1
        PROVE  (a \o b)[i] = s[i + 1]
    <2>1. (a \o b)[i] = b[i - Len(a)]
      BY <1>1, <1>2, <1>3, ConcatProperties
    <2>2. i - Len(a) = i - n + 1 /\ i - n + 1 \in 1 .. Len(s) - n
      BY <1>1, <1>2
    <2>3. b[i - n + 1] = s[n + (i - n + 1)]
      BY <1>3, <2>2
    <2> QED
      BY <1>1, <2>1, <2>2, <2>3
  <1> QED
    BY <1>4, <1>5, <1>6, <1>7

-----------------------------------------------------------------------------
(* Job objects.                                                            *)

LEMMA KeptJob ==
    ASSUME TypeOK, UNCHANGED job
    PROVE  Stable /\ Len(job') = Len(job)
  <1>1. Len(job) \in Nat
    BY DEF TypeOK
  <1> QED
    BY <1>1 DEF TypeOK, Stable, Job

LEMMA StatusJob ==
    ASSUME TypeOK, NEW o \in Made, NEW s \in Statuses, SetStatus(o, s)
    PROVE  Stable /\ Len(job') = Len(job)
  <1> DEFINE e == [job[o] EXCEPT !.status = s]
  <1>1. job \in Seq(Job) /\ Len(job) \in Nat /\ Len(job) <= MaxObjects
    BY DEF TypeOK, Job
  <1>2. job[o] \in Job
    BY <1>1, ElementOfSeq
  <1>3. e \in Job /\ e.id = job[o].id /\ e.child = job[o].child
    BY <1>2 DEF Job
  <1>4. job' = [job EXCEPT ![o] = e]
    BY DEF SetStatus
  <1> HIDE DEF e
  <1>5. /\ job' \in Seq(Job) /\ Len(job') = Len(job)
        /\ \A p \in Made : job'[p] = IF p = o THEN e ELSE job[p]
    BY <1>1, <1>3, <1>4, ExceptSeq
  <1> QED
    BY <1>1, <1>3, <1>5 DEF Stable

LEMMA NewJobType ==
    ASSUME NEW i \in Ids, NEW child \in BOOLEAN
    PROVE  NewJob(i, child) \in Job
  BY DEF NewJob, Job

LEMMA AppendJob ==
    ASSUME TypeOK, NEW i \in Ids, NEW child \in BOOLEAN, New \in Objects,
           job' = Append(job, NewJob(i, child))
    PROVE  /\ Stable /\ Len(job') = New
           /\ job'[New] = NewJob(i, child)
  <1>1. job \in Seq(Job) /\ Len(job) \in Nat
    BY DEF TypeOK, Job
  <1>2. NewJob(i, child) \in Job
    BY NewJobType
  <1>3. /\ job' \in Seq(Job) /\ Len(job') = Len(job) + 1
        /\ \A o \in Made : job'[o] = job[o]
        /\ job'[Len(job) + 1] = NewJob(i, child)
    BY <1>1, <1>2, AppendProperties
  <1> QED
    BY <1>1, <1>3 DEF Stable, Objects

\* An add without a schedule takes an object that is in memory or makes one.
LEMMA TakeFacts ==
    ASSUME IInv, NEW i \in Ids, NEW o \in Objects, Take(i, o)
    PROVE  /\ Stable
           /\ o \in Made'
           /\ memory' \subseteq Made'
           /\ \/ o \in memory /\ memory' = memory
              \/ /\ WithId(i) = {} /\ o = New /\ memory' = memory \cup {o}
                 /\ job'[o].id = i /\ ~job'[o].child
  <1>1. Len(job) \in Nat /\ memory \subseteq Made
    BY DEF IInv, TypeOK
  <1>2. CASE o \in Existing(i) /\ SetStatus(o, "waiting") /\ UNCHANGED memory
    <2>1. o \in memory
      BY <1>2 DEF Existing, WithId
    <2>2. Stable /\ Len(job') = Len(job)
      BY <1>1, <1>2, <2>1, StatusJob DEF IInv
    <2> QED
      BY <1>1, <1>2, <2>1, <2>2
  <1>3. CASE /\ Existing(i) = {} /\ o = New /\ o \in Objects
             /\ job' = Append(job, NewJob(i, FALSE))
             /\ memory' = memory \cup {o}
    <2>1. Stable /\ Len(job') = New /\ job'[New] = NewJob(i, FALSE)
      BY <1>3, AppendJob DEF IInv
    <2>2. job'[o].id = i /\ ~job'[o].child
      BY <1>3, <2>1 DEF NewJob
    <2>3. Made \subseteq Made' /\ o \in Made'
      BY <1>1, <1>3, <2>1
    <2> QED
      BY <1>1, <1>3, <2>1, <2>2, <2>3 DEF Existing
  <1> QED
    BY <1>2, <1>3 DEF Take

-----------------------------------------------------------------------------
(* The queue, the runs and the events.                                     *)

LEMMA MadeGrows ==
    ASSUME TypeOK, Stable
    PROVE  Made \subseteq Made' /\ Made' \subseteq Objects
  <1>1. Len(job) \in Nat /\ Len(job') \in Nat
    BY DEF TypeOK, Stable
  <1> QED
    BY <1>1 DEF Stable, Objects

LEMMA Enqueued ==
    ASSUME IInv, Stable, NEW kind \in {"run", "next"}, NEW o \in Made', Enqueue(kind, o)
    PROVE  /\ queue' \in Seq(Task)
           /\ \A n \in 1 .. Len(queue') : queue'[n].of \in Made'
           /\ \A p \in Objects : Queued(p) => Queued(p)'
           /\ kind = "run" => Queued(o)'
  <1> DEFINE t == [kind |-> kind, of |-> o]
  <1>1. queue \in Seq(Task) /\ Len(queue) \in Nat
    BY DEF IInv, TypeOK
  <1>2. t \in Task /\ t.of = o /\ t.kind = kind
    BY MadeGrows DEF IInv, Task
  <1>3. queue' = Append(queue, t)
    BY DEF Enqueue
  <1> HIDE DEF t
  <1>4. /\ queue' \in Seq(Task) /\ Len(queue') = Len(queue) + 1
        /\ \A n \in 1 .. Len(queue) : queue'[n] = queue[n]
        /\ queue'[Len(queue) + 1] = t
    BY <1>1, <1>2, <1>3, AppendSeq
  <1>5. ASSUME NEW n \in 1 .. Len(queue')
        PROVE  queue'[n].of \in Made'
    <2>1. n \in 1 .. Len(queue) \/ n = Len(queue) + 1
      BY <1>1, <1>4
    <2>2. CASE n \in 1 .. Len(queue)
      <3>1. queue[n].of \in Made
        BY <2>2 DEF IInv, Refer
      <3> QED
        BY <1>4, <2>2, <3>1, MadeGrows DEF IInv
    <2> QED
      BY <1>2, <1>4, <2>1, <2>2
  <1>6. ASSUME NEW p \in Objects, Queued(p)
        PROVE  Queued(p)'
    <2>1. PICK n \in 1 .. Len(queue) : queue[n].of = p /\ queue[n].kind = "run"
      BY <1>6 DEF Queued
    <2>2. n \in 1 .. Len(queue') /\ queue'[n] = queue[n]
      BY <1>1, <1>4, <2>1
    <2> QED
      BY <2>1, <2>2 DEF Queued
  <1>7. kind = "run" => Queued(o)'
    <2>1. Len(queue) + 1 \in 1 .. Len(queue')
      BY <1>1, <1>4
    <2> QED
      BY <1>2, <1>4, <2>1 DEF Queued
  <1> QED
    BY <1>4, <1>5, <1>6, <1>7

LEMMA Emitted ==
    ASSUME IInv, Stable, NEW status \in {"active"} \cup Outcomes, NEW o \in Made,
           NEW tell \in BOOLEAN, Emit(status, o, tell)
    PROVE  /\ events' \in Seq(Event)
           /\ \A n \in 1 .. Len(events') : events'[n].of \in Made'
           /\ \A p \in Objects : Reporting(p) => Reporting(p)'
           /\ status \in Outcomes => Reporting(o)'
  <1> DEFINE e == [status |-> status, of |-> o, tell |-> tell]
  <1>0. Made \subseteq Made' /\ Made' \subseteq Objects
    BY MadeGrows DEF IInv
  <1>1. events \in Seq(Event) /\ Len(events) \in Nat
    BY DEF IInv, TypeOK
  <1>2. e \in Event /\ e.of = o /\ e.status = status
    BY <1>0 DEF Event
  <1>3. events' = Append(events, e)
    BY DEF Emit
  <1> HIDE DEF e
  <1>4. /\ events' \in Seq(Event) /\ Len(events') = Len(events) + 1
        /\ \A n \in 1 .. Len(events) : events'[n] = events[n]
        /\ events'[Len(events) + 1] = e
    BY <1>1, <1>2, <1>3, AppendSeq
  <1>5. ASSUME NEW n \in 1 .. Len(events')
        PROVE  events'[n].of \in Made'
    <2>1. n \in 1 .. Len(events) \/ n = Len(events) + 1
      BY <1>1, <1>4
    <2>2. CASE n \in 1 .. Len(events)
      <3>1. events[n].of \in Made
        BY <2>2 DEF IInv, Refer
      <3> QED
        BY <1>0, <1>4, <2>2, <3>1
    <2> QED
      BY <1>0, <1>2, <1>4, <2>1, <2>2
  <1>6. ASSUME NEW p \in Objects, Reporting(p)
        PROVE  Reporting(p)'
    <2>1. PICK n \in 1 .. Len(events) : events[n].of = p /\ events[n].status \in Outcomes
      BY <1>6 DEF Reporting
    <2>2. n \in 1 .. Len(events') /\ events'[n] = events[n]
      BY <1>1, <1>4, <2>1
    <2> QED
      BY <2>1, <2>2 DEF Reporting
  <1>7. status \in Outcomes => Reporting(o)'
    <2>1. Len(events) + 1 \in 1 .. Len(events')
      BY <1>1, <1>4
    <2> QED
      BY <1>2, <1>4, <2>1 DEF Reporting
  <1> QED
    BY <1>4, <1>5, <1>6, <1>7

LEMMA Dequeued ==
    ASSUME IInv, NEW kind, CanStart(kind)
    PROVE  /\ queue' \in Seq(Task)
           /\ Head(queue).of \in Made /\ Len(running) < Concurrency
           /\ \A n \in 1 .. Len(queue') : queue'[n].of \in Made
           /\ \A p \in Objects : Queued(p) =>
                  Queued(p)' \/ (kind = "run" /\ p = Head(queue).of)
  <1>1. queue \in Seq(Task) /\ queue # <<>> /\ queue' = Tail(queue)
    BY DEF IInv, TypeOK, CanStart
  <1>2. /\ Len(queue) \in Nat \ {0} /\ Head(queue) = queue[1]
        /\ queue' \in Seq(Task) /\ Len(queue') = Len(queue) - 1
        /\ \A n \in 1 .. Len(queue) - 1 : queue'[n] = queue[n + 1]
    BY <1>1, TailSeq
  <1>3. \A n \in 1 .. Len(queue) : queue[n].of \in Made
    BY DEF IInv, Refer
  <1>4. Head(queue).of \in Made
    BY <1>2, <1>3
  <1>5. \A n \in 1 .. Len(queue') : queue'[n].of \in Made
    BY <1>2, <1>3
  <1>6. ASSUME NEW p \in Objects, Queued(p)
        PROVE  Queued(p)' \/ (kind = "run" /\ p = Head(queue).of)
    <2>1. PICK n \in 1 .. Len(queue) : queue[n].of = p /\ queue[n].kind = "run"
      BY <1>6 DEF Queued
    <2>2. CASE n = 1
      BY <1>2, <2>1, <2>2 DEF CanStart
    <2>3. CASE n # 1
      <3>1. n - 1 \in 1 .. Len(queue') /\ queue'[n - 1] = queue[n]
        BY <1>2, <2>3
      <3> QED
        BY <2>1, <3>1 DEF Queued
    <2> QED
      BY <2>2, <2>3
  <1>7. Len(running) < Concurrency
    BY DEF CanStart, HasSlot
  <1> QED
    BY <1>2, <1>4, <1>5, <1>6, <1>7

-----------------------------------------------------------------------------
(* The updates of a row.                                                   *)

\* Late ones are older than the others.
LateFirst(s) == \A m, n \in 1 .. Len(s) : m < n /\ s[n].late => s[m].late

LEMMA LateSeq ==
    ASSUME NEW s \in Seq(Update), NEW n \in Nat
    PROVE  /\ Late(s, n) \in Seq(Update)
           /\ Len(Late(s, n)) = Len(s)
           /\ \A m \in 1 .. Len(s) :
                  /\ Late(s, n)[m].status = s[m].status
                  /\ Late(s, n)[m].late <=> s[m].late \/ m < n
  <1> DEFINE e(m) == [status |-> s[m].status, late |-> s[m].late \/ m < n]
  <1>1. Len(s) \in Nat
    OBVIOUS
  <1>2. \A m \in 1 .. Len(s) : e(m) \in Update
    <2>1. \A m \in 1 .. Len(s) : s[m] \in Update
      BY ElementOfSeq
    <2> QED
      BY <2>1 DEF Update
  <1>3. Late(s, n) = [m \in 1 .. Len(s) |-> e(m)]
    BY DEF Late
  <1> HIDE DEF e
  <1>4. /\ Late(s, n) \in Seq(Update) /\ Len(Late(s, n)) = Len(s)
        /\ \A m \in 1 .. Len(s) : Late(s, n)[m] = e(m)
    BY <1>1, <1>2, <1>3, IsASeq
  <1>5. \A m \in 1 .. Len(s) : e(m).status = s[m].status /\ (e(m).late <=> s[m].late \/ m < n)
    BY DEF e
  <1> QED
    BY <1>4, <1>5

LEMMA LandedSeq ==
    ASSUME NEW s \in Seq(Update), NEW n \in 1 .. Len(s), NEW t, t = RemoveAt(Late(s, n), n)
    PROVE  /\ t \in Seq(Update)
           /\ Len(s) \in Nat /\ Len(t) = Len(s) - 1
           /\ \A m \in 1 .. n - 1 : t[m].status = s[m].status /\ t[m].late
           /\ \A m \in n .. Len(s) - 1 :
                  t[m].status = s[m + 1].status /\ (t[m].late <=> s[m + 1].late)
  <1> DEFINE l == Late(s, n)
  <1>1. Len(s) \in Nat /\ n \in Nat
    OBVIOUS
  <1>2. /\ l \in Seq(Update) /\ Len(l) = Len(s)
        /\ \A m \in 1 .. Len(s) :
               l[m].status = s[m].status /\ (l[m].late <=> s[m].late \/ m < n)
    BY <1>1, LateSeq
  <1> HIDE DEF l
  <1>3. /\ RemoveAt(l, n) \in Seq(Update) /\ Len(RemoveAt(l, n)) = Len(s) - 1
        /\ \A m \in 1 .. n - 1 : RemoveAt(l, n)[m] = l[m]
        /\ \A m \in n .. Len(s) - 1 : RemoveAt(l, n)[m] = l[m + 1]
    BY <1>2, RemoveAtSeq
  <1>4. t = RemoveAt(l, n)
    BY DEF l
  <1>5. \A m \in 1 .. n - 1 : m \in 1 .. Len(s) /\ m < n
    BY <1>1
  <1>6. \A m \in n .. Len(s) - 1 : m + 1 \in 1 .. Len(s) /\ ~(m + 1 < n)
    BY <1>1
  <1>7. ASSUME NEW m \in 1 .. n - 1
        PROVE  t[m].status = s[m].status /\ t[m].late
    <2>1. t[m] = l[m]
      BY <1>3, <1>4
    <2>2. m \in 1 .. Len(s) /\ m < n
      BY <1>5
    <2> QED
      BY <1>2, <2>1, <2>2
  <1>8. ASSUME NEW m \in n .. Len(s) - 1
        PROVE  t[m].status = s[m + 1].status /\ (t[m].late <=> s[m + 1].late)
    <2>1. t[m] = l[m + 1]
      BY <1>2, <1>3, <1>4
    <2>2. m + 1 \in 1 .. Len(s) /\ ~(m + 1 < n)
      BY <1>6
    <2> QED
      BY <1>2, <2>1, <2>2
  <1>9. t \in Seq(Update) /\ Len(t) = Len(s) - 1
    BY <1>2, <1>3, <1>4
  <1> QED
    BY <1>1, <1>7, <1>8, <1>9

LEMMA LandedOrder ==
    ASSUME NEW s \in Seq(Update), LateFirst(s), NEW n \in 1 .. Len(s)
    PROVE  LateFirst(RemoveAt(Late(s, n), n))
  <1> DEFINE t == RemoveAt(Late(s, n), n)
  <1>1. /\ Len(s) \in Nat /\ Len(t) = Len(s) - 1
        /\ \A m \in 1 .. n - 1 : t[m].late
        /\ \A m \in n .. Len(s) - 1 : t[m].late <=> s[m + 1].late
    BY LandedSeq
  <1> HIDE DEF t
  <1> SUFFICES ASSUME NEW m \in 1 .. Len(t), NEW k \in 1 .. Len(t), m < k, t[k].late
               PROVE  t[m].late
    BY DEF LateFirst, t
  <1>2. CASE m \in 1 .. n - 1
    BY <1>1, <1>2
  <1>3. CASE m \in n .. Len(s) - 1
    <2>1. k \in n .. Len(s) - 1 /\ m + 1 \in 1 .. Len(s) /\ k + 1 \in 1 .. Len(s) /\ m + 1 < k + 1
      BY <1>1, <1>3
    <2> QED
      BY <1>1, <1>3, <2>1 DEF LateFirst
  <1> QED
    BY <1>1, <1>2, <1>3

\* What the newest of those that are left is.
LandedLast(s, n, t) ==
    /\ s[Len(s)].late => s[n].late
    /\ n = Len(s) /\ t # <<>> => t[Len(t)].late
    /\ n # Len(s) => /\ t # <<>>
                     /\ t[Len(t)].status = s[Len(s)].status
                     /\ t[Len(t)].late <=> s[Len(s)].late

LEMMA LandedNewest ==
    ASSUME NEW s \in Seq(Update), LateFirst(s), NEW n \in 1 .. Len(s)
    PROVE  LandedLast(s, n, RemoveAt(Late(s, n), n))
  <1> DEFINE t == RemoveAt(Late(s, n), n)
  <1>1. /\ t \in Seq(Update) /\ Len(s) \in Nat /\ Len(t) = Len(s) - 1
        /\ \A m \in 1 .. n - 1 : t[m].status = s[m].status /\ t[m].late
        /\ \A m \in n .. Len(s) - 1 :
               t[m].status = s[m + 1].status /\ (t[m].late <=> s[m + 1].late)
    BY LandedSeq
  <1> HIDE DEF t
  <1>2. s[Len(s)].late => s[n].late
    <2>1. Len(s) \in 1 .. Len(s) /\ (n = Len(s) \/ n < Len(s))
      BY <1>1
    <2> QED
      BY <2>1 DEF LateFirst
  <1>3. ASSUME n = Len(s), t # <<>>
        PROVE  t[Len(t)].late
    <2>1. Len(t) >= 1
      BY <1>1, <1>3, EmptySeq
    <2> QED
      BY <1>1, <1>3, <2>1
  <1>4. ASSUME n # Len(s)
        PROVE  /\ t # <<>> /\ t[Len(t)].status = s[Len(s)].status
               /\ t[Len(t)].late <=> s[Len(s)].late
    <2>1. Len(t) \in n .. Len(s) - 1 /\ Len(t) + 1 = Len(s) /\ Len(t) >= 1
      BY <1>1, <1>4
    <2> QED
      BY <1>1, <2>1
  <1> QED
    BY <1>2, <1>3, <1>4 DEF LandedLast, t

\* A newer one is never late, and makes the others late when it does not wait.
LEMMA SentOrder ==
    ASSUME NEW s \in Seq(Update), LateFirst(s), NEW status \in Statuses
    PROVE  /\ Append(s, [status |-> status, late |-> FALSE]) \in Seq(Update)
           /\ LateFirst(Append(s, [status |-> status, late |-> FALSE]))
           /\ LateFirst(Late(s, Len(s) + 1))
  <1> DEFINE u == [status |-> status, late |-> FALSE]
  <1>1. u \in Update /\ ~u.late
    BY DEF Update
  <1> HIDE DEF u
  <1>2. /\ Append(s, u) \in Seq(Update) /\ Len(s) \in Nat /\ Len(Append(s, u)) = Len(s) + 1
        /\ \A m \in 1 .. Len(s) : Append(s, u)[m] = s[m]
        /\ Append(s, u)[Len(s) + 1] = u
    BY <1>1, AppendSeq
  <1>3. LateFirst(Append(s, u))
    BY <1>1, <1>2 DEF LateFirst
  <1>4. LateFirst(Late(s, Len(s) + 1))
    BY <1>2, LateSeq DEF LateFirst
  <1> QED
    BY <1>2, <1>3, <1>4 DEF u

-----------------------------------------------------------------------------
(* A step keeps the type if it keeps the type of what it changes.          *)

LEMMA TypeStep ==
    ASSUME IInv, Stable, memory' \subseteq Made', queue' \in Seq(Task),
           running' \in Seq(Objects), Len(running') <= Concurrency,
           armed' \in [Objects -> SUBSET (0 .. MaxTimers)],
           ref' \in [Objects -> 0 .. MaxTimers], held' \in [Objects -> 0 .. MaxTimers],
           timers' \in 0 .. MaxTimers, events' \in Seq(Event), calling' \subseteq Ids,
           UNCHANGED rowVars \/ RowTypes',
           last' \in [Ids -> Outcomes \cup {"none"}],
           UNCHANGED <<requests, readded>>, taken' \subseteq Ids
    PROVE  TypeOK'
  <1>1. job' \in Seq([id : Ids, child : BOOLEAN, status : Statuses])
    BY DEF Stable, Job
  <1>2. Len(job') \in 0 .. MaxObjects
    BY DEF IInv, TypeOK, Stable
  <1>3. requests' \in 0 .. MaxRequests /\ readded' \subseteq Ids
    BY DEF IInv, TypeOK
  <1>4. RowTypes'
    BY DEF IInv, TypeOK, RowTypes, rowVars
  <1>5. Len(running') <= Concurrency /\ memory' \subseteq Made'
    OBVIOUS
  <1> QED
    BY <1>1, <1>2, <1>3, <1>4, <1>5 DEF TypeOK, RowTypes

-----------------------------------------------------------------------------
(* Ids and lives of objects in memory.                                     *)

LEMMA UniqueSame ==
    ASSUME IInv, Stable, memory' \subseteq memory
    PROVE  UniqueIds'
  BY DEF IInv, TypeOK, Stable, UniqueIds, SameId

LEMMA UniqueAdd ==
    ASSUME IInv, Stable, NEW o \in Made', memory' \subseteq memory \cup {o},
           job'[o].child \/ (~job'[o].child /\ WithId(job'[o].id) = {})
    PROVE  UniqueIds'
  <1> SUFFICES ASSUME NEW p \in memory', NEW q \in memory', SameId(p, q)'
               PROVE  p = q
    BY DEF UniqueIds
  <1>1. memory \subseteq Made
    BY DEF IInv, TypeOK
  <1>2. job'[p].id = job'[q].id /\ (job'[p].child \/ job'[q].child => p = q)
    BY DEF SameId
  <1>3. CASE p \in memory /\ q \in memory
    BY <1>1, <1>2, <1>3 DEF IInv, Stable, UniqueIds, SameId
  <1>4. ASSUME NEW r \in memory, ~job'[o].child, job'[o].id = job'[r].id, ~job'[r].child
        PROVE  FALSE
    <2>1. r \in WithId(job'[o].id)
      BY <1>1, <1>4 DEF Stable, WithId
    <2> QED
      BY <1>4, <2>1
  <1> QED
    BY <1>2, <1>3, <1>4

LEMMA AliveStays ==
    ASSUME IInv, Stable, NEW o \in memory,
           armed[o] # {} => Alive(o)',
           Queued(o) => Queued(o)' \/ Alive(o)',
           Running(o) => Running(o)' \/ Alive(o)',
           Reporting(o) => Reporting(o)'
    PROVE  Alive(o)'
  <1>1. o \in Made /\ Alive(o)
    BY DEF IInv, TypeOK, NoZombie, Alive
  <1>2. job'[o].id = job[o].id /\ job'[o].child = job[o].child
    BY <1>1 DEF Stable
  <1> QED
    BY <1>1, <1>2 DEF Alive

\* What only looks at the queue, the runs and the events stays as they do.
LEMMA SameTasks ==
    /\ UNCHANGED queue => \A o : Queued(o)' = Queued(o)
    /\ UNCHANGED running => \A o : Running(o)' = Running(o)
    /\ UNCHANGED events => \A o : Reporting(o)' = Reporting(o)
  BY DEF Queued, Running, Reporting

-----------------------------------------------------------------------------
(* Adds.                                                                   *)

LEMMA RequestStep ==
    ASSUME IInv, NEW i \in Ids, Request(i)
    PROVE  IInv'
  <1>1. RowTypes'
    <2>1. updates[i] \in Seq(Update) /\ Len(updates[i]) + 1 \in Nat
      BY DEF IInv, TypeOK
    <2>2. Late(updates[i], Len(updates[i]) + 1) \in Seq(Update)
      BY <2>1, LateSeq
    <2> QED
      BY <2>2 DEF IInv, TypeOK, RowTypes, Request, RowWaits, rowVars
  <1>2. TypeOK'
    <2>1. UNCHANGED <<job, memory, queue, running, armed, ref, held, timers, events, last, taken>>
      BY DEF Request
    <2>2. readded' \subseteq Ids /\ calling' \subseteq Ids /\ requests' \in 0 .. MaxRequests
      BY DEF IInv, TypeOK, Request
    <2> QED
      BY <1>1, <2>1, <2>2 DEF IInv, TypeOK, RowTypes
  <1>3. Refer' /\ UniqueIds' /\ NoZombie'
    BY DEF IInv, Refer, UniqueIds, NoZombie, SameId, Queued, Running, Reporting, Request
  <1> QED
    BY <1>2, <1>3 DEF IInv

LEMMA LandStep ==
    ASSUME IInv, NEW i \in Ids, Land(i)
    PROVE  IInv'
  <1>1. PICK n \in 1 .. Len(updates[i]) :
            /\ row' = [row EXCEPT ![i] = updates[i][n].status]
            /\ updates' = [updates EXCEPT ![i] = RemoveAt(Late(@, n), n)]
            /\ stale' = IF updates[i][n].late THEN stale \cup {i} ELSE stale \ {i}
    BY DEF Land
  <1>2. updates[i] \in Seq(Update) /\ updates[i][n] \in Update
    <2>1. updates[i] \in Seq(Update)
      BY DEF IInv, TypeOK
    <2> QED
      BY <2>1, ElementOfSeq
  <1>3. RemoveAt(Late(updates[i], n), n) \in Seq(Update)
    BY <1>2, LandedSeq
  <1>4. updates[i][n].status \in Statuses
    BY <1>2 DEF Update
  <1>5. RowTypes'
    BY <1>1, <1>3, <1>4 DEF IInv, TypeOK, RowTypes
  <1>6. TypeOK'
    BY <1>5 DEF IInv, TypeOK, RowTypes, Land, history
  <1>7. Refer' /\ UniqueIds' /\ NoZombie'
    BY DEF IInv, Refer, UniqueIds, NoZombie, SameId, Queued, Running, Reporting, Land
  <1> QED
    BY <1>6, <1>7 DEF IInv

LEMMA AddNowStep ==
    ASSUME IInv, NEW i \in Ids, AddNow(i)
    PROVE  IInv'
  <1>1. PICK o \in Objects : Take(i, o) /\ Enqueue("run", o)
    BY DEF AddNow
  <1>2. /\ Stable /\ o \in Made' /\ memory' \subseteq Made'
        /\ \/ o \in memory /\ memory' = memory
           \/ /\ WithId(i) = {} /\ o = New /\ memory' = memory \cup {o}
              /\ job'[o].id = i /\ ~job'[o].child
    BY <1>1, TakeFacts
  <1>3. /\ queue' \in Seq(Task)
        /\ \A n \in 1 .. Len(queue') : queue'[n].of \in Made'
        /\ \A p \in Objects : Queued(p) => Queued(p)'
        /\ Queued(o)'
    BY <1>1, <1>2, Enqueued
  <1>4. Made \subseteq Made' /\ Made' \subseteq Objects
    BY <1>2, MadeGrows DEF IInv
  <1>5. UNCHANGED <<running, armed, ref, held, timers, requests, events, rowVars, last, history>>
        /\ calling' \subseteq Ids
    BY DEF AddNow, Called, IInv, TypeOK
  <1>6. TypeOK'
    <2>1. Stable /\ memory' \subseteq Made' /\ queue' \in Seq(Task)
      BY <1>2, <1>3
    <2> QED
      BY <1>5, <2>1, TypeStep DEF IInv, TypeOK, history
  <1>7. Refer'
    BY <1>3, <1>4, <1>5 DEF IInv, Refer
  <1>8. UniqueIds'
    BY <1>2, UniqueSame, UniqueAdd
  <1>9. NoZombie'
    <2> SUFFICES ASSUME NEW p \in memory'
                 PROVE  Alive(p)'
      BY DEF NoZombie, Alive
    <2>1. p = o => Alive(p)'
      BY <1>3 DEF Alive
    <2>2. ASSUME p \in memory
          PROVE  Alive(p)'
      <3>1. p \in Objects
        BY <1>4, <2>2 DEF IInv, TypeOK
      <3>2. armed[p] # {} => Alive(p)'
        BY <1>5 DEF Alive
      <3> QED
        BY <1>2, <1>3, <1>5, <2>2, <3>1, <3>2, AliveStays, SameTasks
    <2> QED
      BY <1>2, <2>1, <2>2
  <1> QED
    BY <1>6, <1>7, <1>8, <1>9 DEF IInv

LEMMA AddDelayedStep ==
    ASSUME IInv, NEW i \in Ids, AddDelayed(i)
    PROVE  IInv'
  <1>1. PICK o \in Objects :
            /\ Take(i, o)
            /\ armed' = [armed EXCEPT ![o] = @ \cup {timers'}]
            /\ ref' = [ref EXCEPT ![o] = timers']
            /\ held' = [held EXCEPT ![o] = timers']
    BY DEF AddDelayed
  <1>2. /\ Stable /\ o \in Made' /\ memory' \subseteq Made'
        /\ \/ o \in memory /\ memory' = memory
           \/ /\ WithId(i) = {} /\ o = New /\ memory' = memory \cup {o}
              /\ job'[o].id = i /\ ~job'[o].child
    BY <1>1, TakeFacts
  <1>3. Made \subseteq Made' /\ Made' \subseteq Objects
    BY <1>2, MadeGrows DEF IInv
  <1>4. UNCHANGED <<queue, running, requests, events, rowVars, last, history>>
        /\ calling' \subseteq Ids /\ timers' \in 0 .. MaxTimers
    BY DEF AddDelayed, Called, IInv, TypeOK
  <1>5. /\ armed' \in [Objects -> SUBSET (0 .. MaxTimers)]
        /\ ref' \in [Objects -> 0 .. MaxTimers]
        /\ held' \in [Objects -> 0 .. MaxTimers]
        /\ armed'[o] # {}
        /\ \A p \in Objects : p # o => armed'[p] = armed[p]
    BY <1>1, <1>4 DEF IInv, TypeOK
  <1>6. TypeOK'
    <2>1. Stable /\ memory' \subseteq Made'
      BY <1>2
    <2> QED
      BY <1>4, <1>5, <2>1, TypeStep DEF IInv, TypeOK, history
  <1>7. Refer'
    BY <1>2, <1>3, <1>4, <1>5 DEF IInv, Refer
  <1>8. UniqueIds'
    BY <1>2, UniqueSame, UniqueAdd
  <1>9. NoZombie'
    <2> SUFFICES ASSUME NEW p \in memory'
                 PROVE  Alive(p)'
      BY DEF NoZombie, Alive
    <2>1. p = o => Alive(p)'
      BY <1>5 DEF Alive
    <2>2. ASSUME p \in memory, p # o
          PROVE  Alive(p)'
      <3>1. armed[p] # {} => Alive(p)'
        BY <1>3, <1>5, <2>2 DEF Alive, IInv, TypeOK
      <3> QED
        BY <1>2, <1>4, <2>2, <3>1, AliveStays, SameTasks
    <2> QED
      BY <1>2, <2>1, <2>2
  <1> QED
    BY <1>6, <1>7, <1>8, <1>9 DEF IInv

\* The parent and the first child of a repeated job.
LEMMA RepeatedJobs ==
    ASSUME TypeOK, NEW i \in Ids, New + 1 \in Objects,
           job' = job \o <<NewJob(i, FALSE), NewJob(i, TRUE)>>
    PROVE  /\ Stable /\ Len(job') = New + 1
           /\ job'[New].id = i /\ ~job'[New].child
           /\ job'[New + 1].id = i /\ job'[New + 1].child
  <1> DEFINE t == <<NewJob(i, FALSE), NewJob(i, TRUE)>>
  <1>1. job \in Seq(Job) /\ Len(job) \in Nat
    BY DEF TypeOK, Job
  <1>2. t \in Seq(Job) /\ Len(t) = 2 /\ t[1] = NewJob(i, FALSE) /\ t[2] = NewJob(i, TRUE)
    <2>1. NewJob(i, FALSE) \in Job /\ NewJob(i, TRUE) \in Job
      BY NewJobType
    <2> QED
      BY <2>1, PairSeq
  <1>3. job' = job \o t
    OBVIOUS
  <1> HIDE DEF t
  <1>4. /\ job' \in Seq(Job) /\ Len(job') = Len(job) + 2
        /\ \A n \in 1 .. Len(job) + 2 :
               job'[n] = IF n <= Len(job) THEN job[n] ELSE t[n - Len(job)]
    <2> HIDE <1>3
    <2>1. /\ job \o t \in Seq(Job) /\ Len(job \o t) = Len(job) + Len(t)
          /\ \A n \in 1 .. Len(job) + Len(t) :
                 (job \o t)[n] = IF n <= Len(job) THEN job[n] ELSE t[n - Len(job)]
      BY <1>1, <1>2, ConcatProperties
    <2> QED
      BY <1>2, <1>3, <2>1
  <1>5. ASSUME NEW n \in Made
        PROVE  job'[n] = job[n]
    <2>1. n \in 1 .. Len(job) + 2 /\ n <= Len(job)
      BY <1>1
    <2> QED
      BY <1>4, <2>1
  <1>6. job'[New] = NewJob(i, FALSE)
    <2>1. New \in 1 .. Len(job) + 2 /\ ~(New <= Len(job)) /\ New - Len(job) = 1
      BY <1>1
    <2>2. job'[New] = t[New - Len(job)]
      BY <1>4, <2>1
    <2> QED
      BY <1>2, <2>1, <2>2
  <1>7. Len(job') = New + 1 /\ Len(job') \in Len(job) .. MaxObjects
    BY <1>1, <1>4 DEF Objects
  <1>8. job'[New].id = i /\ ~job'[New].child
    BY <1>6 DEF NewJob
  <1>9. job'[New + 1] = NewJob(i, TRUE)
    <2>1. PICK n \in 1 .. Len(job) + 2 : n = New + 1 /\ ~(n <= Len(job)) /\ n - Len(job) = 2
      BY <1>1
    <2>2. job'[n] = t[n - Len(job)]
      BY <1>4, <2>1
    <2> QED
      BY <1>2, <2>1, <2>2
  <1>10. job'[New + 1].id = i /\ job'[New + 1].child
    BY <1>9 DEF NewJob
  <1> QED
    BY <1>4, <1>5, <1>7, <1>8, <1>10 DEF Stable

LEMMA AddRepeatedStep ==
    ASSUME IInv, NEW i \in Ids, AddRepeated(i)
    PROVE  IInv'
  <1>1. UNCHANGED <<queue, running, ref, held, timers, requests, events, rowVars, last, history>>
        /\ calling' \subseteq Ids /\ i \in Repeated
    BY DEF AddRepeated, Called, IInv, TypeOK
  <1>2. CASE UNCHANGED <<job, memory, armed>>
    <2>1. Stable
      BY <1>2, KeptJob DEF IInv
    <2>2. TypeOK'
      BY <1>1, <1>2, <2>1, TypeStep DEF IInv, TypeOK, history
    <2>3. Refer' /\ UniqueIds' /\ NoZombie'
      BY <1>1, <1>2 DEF IInv, Refer, UniqueIds, NoZombie, SameId, Queued, Running, Reporting
    <2> QED
      BY <2>2, <2>3 DEF IInv
  <1>3. CASE /\ Existing(i) = {} /\ New + 1 \in Objects
             /\ job' = job \o <<NewJob(i, FALSE), NewJob(i, TRUE)>>
             /\ memory' = memory \cup {New} /\ Schedule(New + 1)
    <2>1. /\ Stable /\ Len(job') = New + 1
          /\ job'[New].id = i /\ ~job'[New].child
      <3>1. TypeOK /\ New + 1 \in Objects /\ job' = job \o <<NewJob(i, FALSE), NewJob(i, TRUE)>>
        BY <1>3 DEF IInv
      <3> QED
        BY <3>1, RepeatedJobs
    <2>2. /\ Made \subseteq Made' /\ Made' \subseteq Objects
          /\ New \in Made' /\ New + 1 \in Made'
      <3>1. TypeOK /\ Len(job) \in Nat
        BY DEF IInv, TypeOK
      <3>2. Made \subseteq Made' /\ Made' \subseteq Objects
        BY <2>1, <3>1, MadeGrows
      <3>3. New \in Made' /\ New + 1 \in Made'
        BY <2>1, <3>1
      <3> QED
        BY <3>2, <3>3
    <2>3. /\ armed' \in [Objects -> SUBSET (0 .. MaxTimers)]
          /\ \A p \in Objects : p # New + 1 => armed'[p] = armed[p]
      BY <1>3 DEF IInv, TypeOK, Schedule
    <2>4. memory \subseteq Made /\ memory' \subseteq Made'
      BY <1>3, <2>2 DEF IInv, TypeOK
    <2>5. TypeOK'
      BY <1>1, <2>1, <2>3, <2>4, TypeStep DEF IInv, TypeOK, history
    <2>6. Refer'
      BY <1>1, <2>2, <2>3 DEF IInv, Refer
    <2>7. UniqueIds'
      <3>1. WithId(job'[New].id) = {}
        BY <1>3, <2>1 DEF Existing
      <3> QED
        BY <1>3, <2>1, <2>2, <3>1, UniqueAdd
    <2>8. NoZombie'
      <3> SUFFICES ASSUME NEW p \in memory'
                   PROVE  Alive(p)'
        BY DEF NoZombie, Alive
      <3>1. p = New => Alive(p)'
        BY <1>1, <2>1 DEF Alive
      <3>2. ASSUME p \in memory
            PROVE  Alive(p)'
        <4>1. p \in Objects /\ p # New + 1
          <5>1. Len(job) \in Nat /\ p \in Made
            BY <2>4, <3>2 DEF IInv, TypeOK
          <5> QED
            BY <2>2, <5>1
        <4>2. armed[p] # {} => Alive(p)'
          BY <2>3, <4>1 DEF Alive
        <4> QED
          BY <1>1, <2>1, <3>2, <4>2, AliveStays, SameTasks
      <3> QED
        BY <1>3, <3>1, <3>2
    <2> QED
      BY <2>5, <2>6, <2>7, <2>8 DEF IInv
  <1> QED
    BY <1>2, <1>3 DEF AddRepeated

-----------------------------------------------------------------------------
(* Timers.                                                                 *)

LEMMA FireStep ==
    ASSUME IInv, NEW o \in Objects, Fire(o)
    PROVE  IInv'
  <1>1. o \in Made /\ Enqueue("run", o)
    BY DEF IInv, Refer, Fire
  <1>2. /\ UNCHANGED <<job, running, held, timers, requests, events, calling, rowVars, last,
                       history>>
        /\ memory' = (IF job[o].child THEN memory \cup {o} ELSE memory)
    BY DEF Fire
  <1>3. Stable /\ Made' = Made
    BY <1>2, KeptJob DEF IInv
  <1>4. /\ queue' \in Seq(Task)
        /\ \A n \in 1 .. Len(queue') : queue'[n].of \in Made'
        /\ \A p \in Objects : Queued(p) => Queued(p)'
        /\ Queued(o)'
    BY <1>1, <1>3, Enqueued
  <1>5. /\ armed' \in [Objects -> SUBSET (0 .. MaxTimers)]
        /\ \A p \in Objects : p # o => armed'[p] = armed[p]
    BY DEF IInv, TypeOK, Fire
  <1>6. ref' \in [Objects -> 0 .. MaxTimers]
    <2>1. ref' = ref \/ ref' = [ref EXCEPT ![o] = 0]
      BY DEF Fire
    <2>2. ref \in [Objects -> 0 .. MaxTimers] /\ 0 \in 0 .. MaxTimers
      BY DEF IInv, TypeOK
    <2>3. CASE ref' = ref
      BY <2>2, <2>3
    <2>4. CASE ref' = [ref EXCEPT ![o] = 0]
      BY <2>2, <2>4
    <2> QED
      BY <2>1, <2>3, <2>4
  <1>7. memory \subseteq Made /\ memory' \subseteq Made'
    BY <1>1, <1>2, <1>3 DEF IInv, TypeOK
  <1>8. TypeOK'
    BY <1>2, <1>3, <1>4, <1>5, <1>6, <1>7, TypeStep DEF IInv, TypeOK, history
  <1>9. Refer'
    BY <1>1, <1>2, <1>3, <1>4, <1>5 DEF IInv, Refer
  <1>10. UniqueIds'
    <2>1. CASE job[o].child
      BY <1>1, <1>2, <1>3, <2>1, UniqueAdd
    <2>2. CASE ~job[o].child
      BY <1>2, <1>3, <2>2, UniqueSame
    <2> QED
      BY <2>1, <2>2
  <1>11. NoZombie'
    <2> SUFFICES ASSUME NEW p \in memory'
                 PROVE  Alive(p)'
      BY DEF NoZombie, Alive
    <2>1. p = o => Alive(p)'
      BY <1>4 DEF Alive
    <2>2. ASSUME p \in memory, p # o
          PROVE  Alive(p)'
      <3>1. p \in Objects
        BY <1>7, <2>2, MadeGrows, <1>3 DEF IInv
      <3>2. armed[p] # {} => Alive(p)'
        BY <1>5, <2>2, <3>1 DEF Alive
      <3> QED
        BY <1>2, <1>3, <1>4, <2>2, <3>1, <3>2, AliveStays, SameTasks
    <2> QED
      BY <1>2, <2>1, <2>2
  <1> QED
    BY <1>8, <1>9, <1>10, <1>11 DEF IInv

-----------------------------------------------------------------------------
(* Runs.                                                                   *)

LEMMA StartRunStep ==
    ASSUME IInv, StartRun
    PROVE  IInv'
  <1>0. PICK o : o = Head(queue).of
    OBVIOUS
  <1>1. /\ queue' \in Seq(Task) /\ o \in Made /\ Len(running) < Concurrency
        /\ \A n \in 1 .. Len(queue') : queue'[n].of \in Made
        /\ \A p \in Objects : Queued(p) => Queued(p)' \/ p = o
    BY <1>0, Dequeued DEF StartRun
  <1>2. /\ UNCHANGED <<job, memory, armed, ref, held, timers, requests, calling, rowVars,
                       last, history>>
        /\ running' = Append(running, o) /\ Emit("active", o, TRUE)
    BY <1>0 DEF StartRun
  <1>3. Stable /\ Made' = Made /\ Made \subseteq Objects
    BY <1>2, KeptJob, MadeGrows DEF IInv
  <1>4. /\ events' \in Seq(Event)
        /\ \A n \in 1 .. Len(events') : events'[n].of \in Made'
        /\ \A p \in Objects : Reporting(p) => Reporting(p)'
    BY <1>1, <1>2, <1>3, Emitted
  <1>5. /\ running' \in Seq(Objects) /\ Len(running') = Len(running) + 1
        /\ Len(running) \in Nat
        /\ \A n \in 1 .. Len(running) : running'[n] = running[n]
        /\ running'[Len(running) + 1] = o
    <2>1. running \in Seq(Objects) /\ o \in Objects /\ running' = Append(running, o)
      BY <1>1, <1>2, <1>3 DEF IInv, TypeOK
    <2>2. Len(running) \in Nat
      BY <2>1
    <2> QED
      BY <1>1, <2>1, <2>2, AppendSeq
  <1>6. memory \subseteq Made
    BY DEF IInv, TypeOK
  <1>7. TypeOK'
    <2>1. Len(running') <= Concurrency
      BY <1>1, <1>5
    <2> QED
      BY <1>1, <1>2, <1>3, <1>4, <1>5, <2>1, TypeStep DEF IInv, TypeOK, history
  <1>8. Refer'
    <2>1. ASSUME NEW n \in 1 .. Len(running')
          PROVE  running'[n] \in Made
      <3>1. n \in 1 .. Len(running) \/ n = Len(running) + 1
        BY <1>5
      <3> QED
        BY <1>1, <1>5, <3>1 DEF IInv, Refer
    <2> QED
      BY <1>1, <1>2, <1>3, <1>4, <2>1 DEF IInv, Refer
  <1>9. UniqueIds'
    BY <1>2, <1>3, UniqueSame
  <1>10. NoZombie'
    <2> SUFFICES ASSUME NEW p \in memory
                 PROVE  Alive(p)'
      BY <1>2 DEF NoZombie, Alive
    <2>1. p \in Objects
      BY <1>3, <1>6
    <2>2. Running(o)'
      <3>1. Len(running) + 1 \in 1 .. Len(running')
        BY <1>5
      <3> QED
        BY <1>5, <3>1 DEF Running
    <2>3. Running(p) => Running(p)'
      <3> SUFFICES ASSUME NEW n \in 1 .. Len(running), running[n] = p
                   PROVE  Running(p)'
        BY DEF Running
      <3>1. n \in 1 .. Len(running') /\ running'[n] = p
        BY <1>5
      <3> QED
        BY <3>1 DEF Running
    <2>4. armed[p] # {} => Alive(p)'
      BY <1>2 DEF Alive
    <2>5. Queued(p) => Queued(p)' \/ Alive(p)'
      BY <1>1, <2>1, <2>2 DEF Alive
    <2> QED
      BY <1>3, <1>4, <2>1, <2>3, <2>4, <2>5, AliveStays
  <1> QED
    BY <1>7, <1>8, <1>9, <1>10 DEF IInv

LEMMA StartNextStep ==
    ASSUME IInv, StartNext
    PROVE  IInv'
  <1> DEFINE o == Head(queue).of
  <1>1. /\ queue' \in Seq(Task) /\ o \in Made
        /\ \A n \in 1 .. Len(queue') : queue'[n].of \in Made
        /\ \A p \in Objects : Queued(p) => Queued(p)'
    BY Dequeued DEF StartNext
  <1>2. UNCHANGED <<memory, running, ref, held, timers, requests, events, calling, rowVars, last,
                    history>>
    BY DEF StartNext
  <1>3. CASE UNCHANGED <<job, armed>>
    <2>1. Stable /\ Made' = Made
      BY <1>3, KeptJob DEF IInv
    <2>2. TypeOK'
      BY <1>1, <1>2, <1>3, <2>1, TypeStep DEF IInv, TypeOK, history
    <2>3. Refer'
      BY <1>1, <1>2, <1>3, <2>1 DEF IInv, Refer
    <2>4. UniqueIds'
      BY <1>2, <2>1, UniqueSame
    <2>5. NoZombie'
      <3> SUFFICES ASSUME NEW p \in memory
                   PROVE  Alive(p)'
        BY <1>2 DEF NoZombie, Alive
      <3>1. p \in Objects
        BY <2>1, MadeGrows DEF IInv, TypeOK
      <3>2. armed[p] # {} => Alive(p)'
        BY <1>3 DEF Alive
      <3> QED
        BY <1>1, <1>2, <2>1, <3>1, <3>2, AliveStays, SameTasks
    <2> QED
      BY <2>2, <2>3, <2>4, <2>5 DEF IInv
  <1>4. CASE /\ New \in Objects
             /\ job' = Append(job, NewJob(job[o].id, TRUE)) /\ Schedule(New)
    <2>1. job[o].id \in Ids
      <3>1. job \in Seq(Job)
        BY DEF IInv, TypeOK, Job
      <3>2. job[o] \in Job
        BY <1>1, <3>1, ElementOfSeq
      <3> QED
        BY <3>2 DEF Job
    <2>2. Stable /\ Len(job') = New
      BY <1>4, <2>1, AppendJob DEF IInv
    <2>3. Made \subseteq Made' /\ Made' \subseteq Objects /\ New \in Made'
      <3>1. TypeOK /\ Len(job) \in Nat
        BY DEF IInv, TypeOK
      <3>2. Made \subseteq Made' /\ Made' \subseteq Objects
        BY <2>2, <3>1, MadeGrows
      <3>3. New \in Made'
        BY <2>2, <3>1
      <3> QED
        BY <3>2, <3>3
    <2>4. /\ armed' \in [Objects -> SUBSET (0 .. MaxTimers)]
          /\ \A p \in Objects : p # New => armed'[p] = armed[p]
      BY <1>4 DEF IInv, TypeOK, Schedule
    <2>5. memory \subseteq Made /\ memory' \subseteq Made'
      BY <1>2, <2>3 DEF IInv, TypeOK
    <2>6. TypeOK'
      BY <1>1, <1>2, <2>2, <2>4, <2>5, TypeStep DEF IInv, TypeOK, history
    <2>7. Refer'
      BY <1>1, <1>2, <2>3, <2>4 DEF IInv, Refer
    <2>8. UniqueIds'
      BY <1>2, <2>2, UniqueSame
    <2>9. NoZombie'
      <3> SUFFICES ASSUME NEW p \in memory
                   PROVE  Alive(p)'
        BY <1>2 DEF NoZombie, Alive
      <3>1. p \in Objects /\ p # New
        <4>1. Len(job) \in Nat /\ p \in Made
          BY <2>5 DEF IInv, TypeOK
        <4> QED
          BY <2>3, <4>1
      <3>2. armed[p] # {} => Alive(p)'
        BY <2>4, <3>1 DEF Alive
      <3> QED
        BY <1>1, <1>2, <2>2, <3>1, <3>2, AliveStays, SameTasks
    <2> QED
      BY <2>6, <2>7, <2>8, <2>9 DEF IInv
  <1> QED
    BY <1>3, <1>4 DEF StartNext, Spare

LEMMA EndRunStep ==
    ASSUME IInv, NEW n \in 1 .. Len(running), EndRun(n)
    PROVE  IInv'
  <1>0. PICK o : o = running[n]
    OBVIOUS
  <1>1. o \in Made /\ running' = RemoveAt(running, n)
    BY <1>0 DEF EndRun, IInv, Refer
  <1>2. UNCHANGED <<job, memory, armed, ref, held, timers, requests, calling, rowVars, history>>
    BY DEF EndRun
  <1>3. Stable /\ Made' = Made /\ Made \subseteq Objects
    BY <1>2, KeptJob, MadeGrows DEF IInv
  <1>4. \/ job[o].id \in Unknown /\ UNCHANGED <<events, last>>
        \/ \E how \in Outcomes : Emit(how, o, TRUE) /\ last' = [last EXCEPT ![job[o].id] = how]
    BY <1>0 DEF EndRun
  <1>5. UNCHANGED queue \/ Enqueue("next", o)
    BY <1>0 DEF EndRun
  <1>6. /\ events' \in Seq(Event)
        /\ \A k \in 1 .. Len(events') : events'[k].of \in Made
        /\ \A p \in Objects : Reporting(p) => Reporting(p)'
        /\ last' \in [Ids -> Outcomes \cup {"none"}]
        /\ job[o].id \in Unknown \/ Reporting(o)'
    <2>1. CASE job[o].id \in Unknown /\ UNCHANGED <<events, last>>
      BY <2>1, SameTasks DEF IInv, TypeOK, Refer
    <2>2. ASSUME NEW how \in Outcomes, Emit(how, o, TRUE), last' = [last EXCEPT ![job[o].id] = how]
          PROVE  /\ events' \in Seq(Event)
                 /\ \A k \in 1 .. Len(events') : events'[k].of \in Made
                 /\ \A p \in Objects : Reporting(p) => Reporting(p)'
                 /\ last' \in [Ids -> Outcomes \cup {"none"}]
                 /\ Reporting(o)'
      <3>1. last' \in [Ids -> Outcomes \cup {"none"}]
        BY <2>2 DEF IInv, TypeOK
      <3> QED
        BY <1>1, <1>3, <2>2, <3>1, Emitted
    <2> QED
      BY <1>4, <2>1, <2>2
  <1>7. /\ queue' \in Seq(Task)
        /\ \A k \in 1 .. Len(queue') : queue'[k].of \in Made
        /\ \A p \in Objects : Queued(p) => Queued(p)'
    <2>1. CASE UNCHANGED queue
      BY <2>1, SameTasks DEF IInv, TypeOK, Refer
    <2>2. CASE Enqueue("next", o)
      BY <1>1, <1>3, <2>2, Enqueued
    <2> QED
      BY <1>5, <2>1, <2>2
  <1>8. running \in Seq(Objects) /\ Len(running) \in Nat /\ Len(running) <= Concurrency
    BY DEF IInv, TypeOK
  <1>9. /\ running' \in Seq(Objects) /\ Len(running') = Len(running) - 1
        /\ \A k \in 1 .. n - 1 : running'[k] = running[k]
        /\ \A k \in n .. Len(running) - 1 : running'[k] = running[k + 1]
    BY <1>1, <1>8, RemoveAtSeq
  <1>10. TypeOK'
    <2>1. Len(running') <= Concurrency
      BY <1>8, <1>9
    <2> QED
      BY <1>2, <1>3, <1>6, <1>7, <1>9, <2>1, TypeStep DEF IInv, TypeOK, history
  <1>11. Refer'
    <2>1. ASSUME NEW k \in 1 .. Len(running')
          PROVE  running'[k] \in Made
      <3>1. \A j \in 1 .. Len(running) : running[j] \in Made
        BY DEF IInv, Refer
      <3>2. CASE k < n
        <4>1. k \in 1 .. n - 1 /\ k \in 1 .. Len(running)
          BY <1>8, <1>9, <3>2
        <4> QED
          BY <1>9, <3>1, <4>1
      <3>3. CASE k >= n
        <4>1. k \in n .. Len(running) - 1 /\ k + 1 \in 1 .. Len(running)
          BY <1>8, <1>9, <3>3
        <4> QED
          BY <1>9, <3>1, <4>1
      <3> QED
        BY <3>2, <3>3
    <2> QED
      BY <1>2, <1>3, <1>6, <1>7, <2>1 DEF IInv, Refer
  <1>12. UniqueIds'
    BY <1>2, <1>3, UniqueSame
  <1>13. NoZombie'
    <2> SUFFICES ASSUME NEW p \in memory
                 PROVE  Alive(p)'
      BY <1>2 DEF NoZombie, Alive
    <2>1. p \in Objects
      BY <1>3 DEF IInv, TypeOK
    <2>2. p = o => Alive(p)'
      BY <1>2, <1>6 DEF Alive
    <2>3. ASSUME Running(p), p # o
          PROVE  Running(p)'
      <3>1. PICK k \in 1 .. Len(running) : running[k] = p
        BY <2>3 DEF Running
      <3>2. k # n
        BY <1>0, <2>3, <3>1
      <3>3. CASE k < n
        <4>1. k \in 1 .. n - 1 /\ k \in 1 .. Len(running')
          BY <1>8, <1>9, <3>3
        <4> QED
          BY <1>9, <3>1, <4>1 DEF Running
      <3>4. CASE k > n
        <4>1. k - 1 \in n .. Len(running) - 1 /\ k - 1 \in 1 .. Len(running') /\ (k - 1) + 1 = k
          BY <1>8, <1>9, <3>4
        <4>2. running'[k - 1] = p
          BY <1>9, <3>1, <4>1
        <4> QED
          BY <4>1, <4>2 DEF Running
      <3> QED
        BY <3>2, <3>3, <3>4
    <2>4. armed[p] # {} => Alive(p)'
      BY <1>2 DEF Alive
    <2> QED
      BY <1>3, <1>6, <1>7, <2>1, <2>2, <2>3, <2>4, AliveStays
  <1> QED
    BY <1>10, <1>11, <1>12, <1>13 DEF IInv

-----------------------------------------------------------------------------
(* Listeners.  The object that ran is the one found by id: UniqueIds.      *)

LEMMA HandleStep ==
    ASSUME IInv, Handle
    PROVE  IInv'
  <1>0. PICK e : e = Head(events)
    OBVIOUS
  <1>1. /\ Len(events) \in Nat \ {0} /\ events[1] = e /\ e \in Event
        /\ events' \in Seq(Event) /\ Len(events') = Len(events) - 1
        /\ \A n \in 1 .. Len(events) - 1 : events'[n] = events[n + 1]
    BY <1>0, TailSeq DEF IInv, TypeOK, Handle
  <1>2. /\ UNCHANGED <<queue, running, ref, held, timers, requests, armed, calling, last, history>>
        /\ UNCHANGED <<row, stale>>
    BY DEF Handle
  <1>3. PICK s \in SUBSET memory :
            /\ memory' = memory \ s
            /\ Stable /\ Made' = Made
            /\ RowTypes'
            /\ e.status \in Outcomes => \A p \in Found(e.of) : p \in s
    <2>1. CASE Found(e.of) = {} /\ UNCHANGED <<job, memory, updates>>
      <3>1. RowTypes'
        BY <1>2, <2>1 DEF IInv, TypeOK, RowTypes
      <3> WITNESS {} \in SUBSET memory
      <3> QED
        BY <2>1, <3>1, KeptJob DEF IInv
    <2>2. ASSUME NEW p \in Found(e.of), SetStatus(p, e.status), Told(e, p),
                 memory' = AfterEvent(e, p)
          PROVE  \E s \in SUBSET memory :
                     /\ memory' = memory \ s
                     /\ Stable /\ Made' = Made
                     /\ RowTypes'
                     /\ e.status \in Outcomes => \A q \in Found(e.of) : q \in s
      <3>1. p \in memory /\ p \in Made
        BY <2>2 DEF Found, IInv, TypeOK
      <3>2. e.status \in {"active"} \cup Outcomes
        BY <1>1 DEF Event
      <3>3. Stable /\ Made' = Made
        BY <2>2, <3>1, <3>2, StatusJob DEF IInv
      <3>4. RowTypes'
        <4>1. CASE UNCHANGED updates
          BY <1>2, <4>1 DEF IInv, TypeOK, RowTypes
        <4>2. CASE SendUpdate(job[p].id, e.status)
          <5>1. PICK i : i = job[p].id
            OBVIOUS
          <5>2. [status |-> e.status, late |-> FALSE] \in Update
            BY <3>2 DEF Update
          <5>3. i \in Ids => updates[i] \in Seq(Update)
            BY DEF IInv, TypeOK
          <5>4. i \in Ids =>
                    Append(updates[i], [status |-> e.status, late |-> FALSE]) \in Seq(Update)
            BY <5>2, <5>3, AppendSeq
          <5>5. updates' = [updates EXCEPT ![i] =
                                Append(updates[i], [status |-> e.status, late |-> FALSE])]
            BY <4>2, <5>1 DEF SendUpdate
          <5>6. updates' \in [Ids -> Seq(Update)]
            BY <5>4, <5>5 DEF IInv, TypeOK
          <5> QED
            BY <1>2, <5>6 DEF IInv, TypeOK, RowTypes
        <4> QED
          BY <2>2, <4>1, <4>2 DEF Told
      <3>5. \A q \in Found(e.of) : q = p
        BY <2>2, <3>1 DEF Found, SameId, IInv, UniqueIds
      <3>6. CASE e.status \in Outcomes
        <4>1. {p} \in SUBSET memory
          BY <3>1
        <4> WITNESS {p} \in SUBSET memory
        <4> QED
          BY <2>2, <3>3, <3>4, <3>5, <3>6 DEF AfterEvent
      <3>7. CASE e.status \notin Outcomes
        <4> WITNESS {} \in SUBSET memory
        <4> QED
          BY <2>2, <3>3, <3>4, <3>7 DEF AfterEvent
      <3> QED
        BY <3>6, <3>7
    <2> QED
      BY <1>0, <2>1, <2>2 DEF Handle
  <1>4. memory \subseteq Made /\ Made \subseteq Objects
    BY <1>3, MadeGrows DEF IInv, TypeOK
  <1>5. TypeOK'
    <2>1. memory' \subseteq Made'
      BY <1>3, <1>4
    <2> QED
      BY <1>1, <1>2, <1>3, <2>1, TypeStep DEF IInv, TypeOK, history
  <1>6. Refer'
    <2>1. ASSUME NEW n \in 1 .. Len(events')
          PROVE  events'[n].of \in Made
      <3>1. n \in 1 .. Len(events) - 1 /\ n + 1 \in 1 .. Len(events)
        BY <1>1
      <3> QED
        BY <1>1, <3>1 DEF IInv, Refer
    <2> QED
      BY <1>2, <1>3, <2>1 DEF IInv, Refer
  <1>7. UniqueIds'
    BY <1>3, UniqueSame
  <1>8. NoZombie'
    <2> SUFFICES ASSUME NEW p \in memory'
                 PROVE  Alive(p)'
      BY DEF NoZombie, Alive
    <2>1. p \in memory /\ p \in Made
      BY <1>3, <1>4
    <2>2. ASSUME Reporting(p)
          PROVE  Reporting(p)'
      <3>1. PICK n \in 1 .. Len(events) : events[n].of = p /\ events[n].status \in Outcomes
        BY <2>2 DEF Reporting
      <3>2. n # 1
        <4> SUFFICES ASSUME n = 1
                     PROVE  FALSE
          OBVIOUS
        <4>1. e.of = p /\ e.status \in Outcomes
          BY <1>1, <3>1
        <4>2. p \in Found(e.of)
          BY <2>1, <4>1 DEF Found, SameId
        <4> QED
          BY <1>3, <4>1, <4>2
      <3>3. n - 1 \in 1 .. Len(events) - 1 /\ n - 1 \in 1 .. Len(events') /\ (n - 1) + 1 = n
        BY <1>1, <3>2
      <3>4. events'[n - 1] = events[n]
        BY <1>1, <3>3
      <3> QED
        BY <3>1, <3>3, <3>4 DEF Reporting
    <2>3. armed[p] # {} => Alive(p)'
      BY <1>2 DEF Alive
    <2> QED
      BY <1>2, <1>3, <2>1, <2>2, <2>3, AliveStays, SameTasks
  <1> QED
    BY <1>5, <1>6, <1>7, <1>8 DEF IInv

-----------------------------------------------------------------------------
(* Callers.                                                                *)

LEMMA Cleared ==
    ASSUME IInv, NEW o \in Objects, Clear(o)
    PROVE  /\ armed' \in [Objects -> SUBSET (0 .. MaxTimers)]
           /\ \A p \in Objects : armed'[p] \subseteq armed[p]
           /\ \A p \in Objects : p # o => armed'[p] = armed[p]
  BY DEF IInv, TypeOK, Clear

LEMMA RemoveJobStep ==
    ASSUME IInv, NEW o \in Objects, RemoveJob(o)
    PROVE  IInv'
  <1>1. /\ UNCHANGED <<job, queue, running, ref, held, timers, requests, events, calling,
                       rowVars, last, readded>>
        /\ o \in Made /\ memory' = memory \ Found(o)
    BY DEF RemoveJob
  <1>2. Stable /\ Made' = Made /\ Made \subseteq Objects
    BY <1>1, KeptJob, MadeGrows DEF IInv
  <1>3. /\ armed' \in [Objects -> SUBSET (0 .. MaxTimers)]
        /\ \A p \in Objects : armed'[p] \subseteq armed[p]
        /\ \A p \in Objects : p # o => armed'[p] = armed[p]
    BY Cleared DEF RemoveJob
  <1>4. taken' \subseteq Ids
    <2>1. job \in Seq(Job)
      BY DEF IInv, TypeOK, Job
    <2>2. job[o] \in Job
      BY <1>1, <2>1, ElementOfSeq
    <2> QED
      BY <2>2 DEF Job, RemoveJob, IInv, TypeOK
  <1>5. memory \subseteq Made
    BY DEF IInv, TypeOK
  <1>6. TypeOK'
    <2>1. memory' \subseteq Made'
      BY <1>1, <1>2, <1>5
    <2> QED
      BY <1>1, <1>2, <1>3, <1>4, <2>1, TypeStep DEF IInv, TypeOK
  <1>7. Refer'
    BY <1>1, <1>2, <1>3 DEF IInv, Refer
  <1>8. UniqueIds'
    BY <1>1, <1>2, UniqueSame
  <1>9. NoZombie'
    <2> SUFFICES ASSUME NEW p \in memory, p \notin Found(o)
                 PROVE  Alive(p)'
      BY <1>1 DEF NoZombie, Alive
    <2>1. p \in Objects /\ p # o
      BY <1>2, <1>5 DEF Found, SameId
    <2>2. armed[p] # {} => Alive(p)'
      BY <1>3, <2>1 DEF Alive
    <2> QED
      BY <1>1, <1>2, <2>2, AliveStays, SameTasks
  <1> QED
    BY <1>6, <1>7, <1>8, <1>9 DEF IInv

LEMMA MoveToStep ==
    ASSUME IInv, NEW o \in Objects, MoveTo(o)
    PROVE  IInv'
  <1>1. /\ UNCHANGED <<job, memory, queue, running, ref, held, timers, requests, calling,
                       rowVars, last, readded>>
        /\ o \in Made
    BY DEF MoveTo
  <1>2. Stable /\ Made' = Made /\ Made \subseteq Objects
    BY <1>1, KeptJob, MadeGrows DEF IInv
  <1>3. memory \subseteq Made
    BY DEF IInv, TypeOK
  <1>4. /\ armed' \in [Objects -> SUBSET (0 .. MaxTimers)]
        /\ \A p \in Objects : armed'[p] \subseteq armed[p]
        /\ \A p \in Objects : p # o => armed'[p] = armed[p]
    BY Cleared DEF MoveTo
  <1>5. PICK how \in Outcomes : Emit(how, o, FALSE)
    BY DEF MoveTo
  <1>6. /\ events' \in Seq(Event)
        /\ \A n \in 1 .. Len(events') : events'[n].of \in Made'
        /\ \A p \in Objects : Reporting(p) => Reporting(p)'
        /\ Reporting(o)'
    BY <1>1, <1>2, <1>3, <1>5, Emitted
  <1>7. taken' \subseteq Ids
    <2>1. job \in Seq(Job)
      BY DEF IInv, TypeOK, Job
    <2>2. job[o] \in Job
      BY <1>1, <1>3, <2>1, ElementOfSeq
    <2> QED
      BY <2>2 DEF Job, MoveTo, IInv, TypeOK
  <1>8. TypeOK'
    <2>1. memory' \subseteq Made'
      BY <1>1, <1>2, <1>3
    <2> QED
      BY <1>1, <1>2, <1>4, <1>6, <1>7, <2>1, TypeStep DEF IInv, TypeOK
  <1>9. Refer'
    BY <1>1, <1>2, <1>4, <1>6 DEF IInv, Refer
  <1>10. UniqueIds'
    BY <1>1, <1>2, UniqueSame
  <1>11. NoZombie'
    <2> SUFFICES ASSUME NEW p \in memory
                 PROVE  Alive(p)'
      BY <1>1 DEF NoZombie, Alive
    <2>1. p \in Objects
      BY <1>2, <1>3
    <2>2. armed[p] # {} => Alive(p)'
      BY <1>4, <1>6, <2>1 DEF Alive
    <2> QED
      BY <1>1, <1>2, <1>6, <2>1, <2>2, AliveStays, SameTasks
  <1> QED
    BY <1>8, <1>9, <1>10, <1>11 DEF IInv

LEMMA ResetStep ==
    ASSUME IInv, Reset
    PROVE  IInv'
  <1>1. /\ UNCHANGED <<job, running, held, timers, requests, events, calling, rowVars, last,
                       readded>>
        /\ queue' = <<>> /\ memory' = {} /\ taken' = Ids
    BY DEF Reset
  <1>2. Stable /\ Made' = Made
    BY <1>1, KeptJob DEF IInv
  <1>3. /\ armed' \in [Objects -> SUBSET (0 .. MaxTimers)]
        /\ \A p \in Objects : armed'[p] \subseteq armed[p]
    BY DEF IInv, TypeOK, Reset
  <1>4. ref' \in [Objects -> 0 .. MaxTimers]
    <2>1. ref \in [Objects -> 0 .. MaxTimers] /\ 0 \in 0 .. MaxTimers
      BY DEF IInv, TypeOK
    <2> QED
      BY <2>1 DEF Reset
  <1>5. TypeOK'
    <2>1. queue' \in Seq(Task) /\ memory' \subseteq Made'
      BY <1>1
    <2> QED
      BY <1>1, <1>2, <1>3, <1>4, <2>1, TypeStep DEF IInv, TypeOK
  <1>6. Refer'
    BY <1>1, <1>2, <1>3 DEF IInv, Refer
  <1>7. UniqueIds' /\ NoZombie'
    BY <1>1 DEF UniqueIds, NoZombie
  <1> QED
    BY <1>5, <1>6, <1>7 DEF IInv

-----------------------------------------------------------------------------
(* Where the runs of a set of objects are.                                 *)

Has(s, P) == \E n \in 1 .. Len(s) : s[n] \in P
Once(s, P) == \A n, m \in 1 .. Len(s) : s[n] \in P /\ s[m] \in P => n = m

LEMMA AppendOnce ==
    ASSUME NEW S, NEW s \in Seq(S), NEW e \in S, NEW P
    PROVE  /\ Has(Append(s, e), P) <=> Has(s, P) \/ e \in P
           /\ Once(s, P) /\ (e \in P => ~Has(s, P)) => Once(Append(s, e), P)
  <1> DEFINE t == Append(s, e)
  <1>1. /\ Len(s) \in Nat /\ Len(t) = Len(s) + 1
        /\ \A i \in 1 .. Len(s) : t[i] = s[i]
        /\ t[Len(s) + 1] = e
    BY AppendSeq
  <1> HIDE DEF t
  <1>2. \A i \in 1 .. Len(t) : i \in 1 .. Len(s) \/ i = Len(s) + 1
    BY <1>1
  <1>3. Len(s) + 1 \in 1 .. Len(t) /\ \A i \in 1 .. Len(s) : i \in 1 .. Len(t)
    BY <1>1
  <1>4. Has(t, P) <=> Has(s, P) \/ e \in P
    BY <1>1, <1>2, <1>3 DEF Has
  <1>5. Once(s, P) /\ (e \in P => ~Has(s, P)) => Once(t, P)
    BY <1>1, <1>2 DEF Once, Has
  <1> QED
    BY <1>4, <1>5 DEF t

LEMMA TailOnce ==
    ASSUME NEW S, NEW s \in Seq(S), s # <<>>, NEW P
    PROVE  /\ Has(Tail(s), P) => Has(s, P)
           /\ Head(s) \in P => Has(s, P)
           /\ Once(s, P) => Once(Tail(s), P)
           /\ Once(s, P) /\ Head(s) \in P => ~Has(Tail(s), P)
  <1> DEFINE t == Tail(s)
  <1>1. /\ Len(s) \in Nat \ {0} /\ Head(s) = s[1] /\ Len(t) = Len(s) - 1
        /\ \A i \in 1 .. Len(s) - 1 : t[i] = s[i + 1]
    BY TailSeq
  <1> HIDE DEF t
  <1>2. \A i \in 1 .. Len(t) : i + 1 \in 1 .. Len(s) /\ i + 1 # 1 /\ t[i] = s[i + 1]
    BY <1>1
  <1>3. 1 \in 1 .. Len(s)
    BY <1>1
  <1>4. \A i, k \in 1 .. Len(t) : i + 1 = k + 1 => i = k
    BY <1>1
  <1>5. Has(t, P) => Has(s, P)
    BY <1>2 DEF Has
  <1>6. Once(s, P) => Once(t, P)
    BY <1>2, <1>4 DEF Once
  <1>7. Once(s, P) /\ s[1] \in P => ~Has(t, P)
    BY <1>2, <1>3 DEF Once, Has
  <1>8. s[1] \in P => Has(s, P)
    BY <1>3 DEF Has
  <1> QED
    BY <1>1, <1>5, <1>6, <1>7, <1>8 DEF t

LEMMA RemoveAtOnce ==
    ASSUME NEW S, NEW s \in Seq(S), NEW n \in 1 .. Len(s), NEW P
    PROVE  /\ Has(RemoveAt(s, n), P) => Has(s, P)
           /\ s[n] \in P => Has(s, P)
           /\ Once(s, P) => Once(RemoveAt(s, n), P)
           /\ Once(s, P) /\ s[n] \in P => ~Has(RemoveAt(s, n), P)
  <1> DEFINE t == RemoveAt(s, n)
  <1>0. Len(s) \in Nat /\ n \in Nat
    OBVIOUS
  <1>1. /\ Len(t) = Len(s) - 1
        /\ \A i \in 1 .. n - 1 : t[i] = s[i]
        /\ \A i \in n .. Len(s) - 1 : t[i] = s[i + 1]
    BY RemoveAtSeq
  <1> HIDE DEF t
  <1> DEFINE At(i) == IF i < n THEN i ELSE i + 1
  <1>2. ASSUME NEW i \in 1 .. Len(t)
        PROVE  At(i) \in 1 .. Len(s) /\ At(i) # n /\ t[i] = s[At(i)]
    <2>1. i \in Nat /\ 1 <= i /\ i <= Len(s) - 1
      BY <1>0, <1>1
    <2>2. CASE i < n
      <3>1. i \in 1 .. n - 1 /\ i \in 1 .. Len(s) /\ i # n
        BY <1>0, <1>1, <2>1, <2>2
      <3> QED
        BY <1>1, <2>2, <3>1
    <2>3. CASE ~(i < n)
      <3>1. i \in n .. Len(s) - 1 /\ i + 1 \in 1 .. Len(s) /\ i + 1 # n
        BY <1>0, <1>1, <2>1, <2>3
      <3> QED
        BY <1>1, <2>3, <3>1
    <2> QED
      BY <2>2, <2>3
  <1>3. \A i, k \in 1 .. Len(t) : At(i) = At(k) => i = k
    BY <1>0, <1>1
  <1> HIDE DEF At
  <1>4. Has(t, P) => Has(s, P)
    BY <1>2 DEF Has
  <1>5. Once(s, P) => Once(t, P)
    BY <1>2, <1>3 DEF Once
  <1>6. Once(s, P) /\ s[n] \in P => ~Has(t, P)
    BY <1>2 DEF Once, Has
  <1>7. s[n] \in P => Has(s, P)
    BY DEF Has
  <1> QED
    BY <1>4, <1>5, <1>6, <1>7 DEF t

TasksOf(K) == {t \in Task : t.of \in K}

Waits(K) == \E o \in K : armed[o] # {}
Listed(K) == Has(queue, TasksOf(K))
Runs(K) == Has(running, K)
Idle(K) == ~Waits(K) /\ ~Listed(K) /\ ~Runs(K)

\* Of all the objects of a set, at most one has at most one timer, task or run.
OnePlace(K) ==
    /\ \A o, p \in K : armed[o] # {} /\ armed[p] # {} => o = p
    /\ \A o \in K : \A t, u \in armed[o] : t = u
    /\ Once(queue, TasksOf(K))
    /\ Once(running, K)
    /\ ~(Waits(K) /\ Listed(K)) /\ ~(Waits(K) /\ Runs(K)) /\ ~(Listed(K) /\ Runs(K))

\* Objects that are not made yet are nowhere.
LEMMA Widened ==
    ASSUME IInv, NEW K \in SUBSET Objects, NEW L \in SUBSET Objects,
           \A o \in Made : o \in K <=> o \in L
    PROVE  /\ Idle(K) <=> Idle(L)
           /\ OnePlace(K) => OnePlace(L)
  <1>1. queue \in Seq(Task) /\ armed \in [Objects -> SUBSET (0 .. MaxTimers)]
    BY DEF IInv, TypeOK
  <1>2. \A n \in 1 .. Len(queue) : queue[n] \in TasksOf(K) <=> queue[n] \in TasksOf(L)
    <2> SUFFICES ASSUME NEW n \in 1 .. Len(queue)
                 PROVE  queue[n] \in TasksOf(K) <=> queue[n] \in TasksOf(L)
      OBVIOUS
    <2>1. queue[n].of \in Made
      BY DEF IInv, Refer
    <2> QED
      BY <2>1 DEF TasksOf
  <1>3. \A n \in 1 .. Len(running) : running[n] \in K <=> running[n] \in L
    BY DEF IInv, Refer
  <1>4. \A o \in Objects : armed[o] # {} => (o \in K <=> o \in L)
    BY DEF IInv, Refer
  <1>5. /\ Waits(K) <=> Waits(L)
        /\ Listed(K) <=> Listed(L)
        /\ Runs(K) <=> Runs(L)
    BY <1>2, <1>3, <1>4 DEF Waits, Listed, Runs, Has
  <1>6. Once(queue, TasksOf(K)) => Once(queue, TasksOf(L))
    BY <1>2 DEF Once
  <1>7. Once(running, K) => Once(running, L)
    BY <1>3 DEF Once
  <1> QED
    BY <1>4, <1>5, <1>6, <1>7 DEF Idle, OnePlace

LEMMA IdleOne ==
    ASSUME NEW K, Idle(K)
    PROVE  OnePlace(K)
  BY DEF Idle, Waits, Listed, Runs, Has, Once, OnePlace

LEMMA ListedMore ==
    ASSUME IInv, NEW K, NEW kind \in {"run", "next"}, NEW o \in Objects, Enqueue(kind, o)
    PROVE  /\ Listed(K)' <=> Listed(K) \/ o \in K
           /\ Once(queue, TasksOf(K)) /\ (o \in K => ~Listed(K)) => Once(queue', TasksOf(K))
  <1> DEFINE t == [kind |-> kind, of |-> o]
  <1>1. queue \in Seq(Task) /\ t \in Task /\ (t \in TasksOf(K) <=> o \in K)
    BY DEF IInv, TypeOK, Task, TasksOf
  <1>2. queue' = Append(queue, t)
    BY DEF Enqueue
  <1> HIDE DEF t
  <1>3. /\ Has(queue', TasksOf(K)) <=> Has(queue, TasksOf(K)) \/ t \in TasksOf(K)
        /\ Once(queue, TasksOf(K)) /\ (t \in TasksOf(K) => ~Has(queue, TasksOf(K)))
             => Once(queue', TasksOf(K))
    BY <1>1, <1>2, AppendOnce
  <1> QED
    BY <1>1, <1>3 DEF Listed, TasksOf

LEMMA ListedLess ==
    ASSUME IInv, NEW K, NEW kind, CanStart(kind)
    PROVE  /\ Listed(K)' => Listed(K)
           /\ Head(queue).of \in K => Listed(K)
           /\ Once(queue, TasksOf(K)) => Once(queue', TasksOf(K))
           /\ Once(queue, TasksOf(K)) /\ Head(queue).of \in K => ~Listed(K)'
  <1>1. queue \in Seq(Task) /\ queue # <<>> /\ queue' = Tail(queue)
    BY DEF IInv, TypeOK, CanStart
  <1>2. Head(queue) \in Task
    BY <1>1, TailSeq
  <1>3. Head(queue) \in TasksOf(K) <=> Head(queue).of \in K
    BY <1>2 DEF TasksOf
  <1>4. /\ Has(queue', TasksOf(K)) => Has(queue, TasksOf(K))
        /\ Head(queue) \in TasksOf(K) => Has(queue, TasksOf(K))
        /\ Once(queue, TasksOf(K)) => Once(queue', TasksOf(K))
        /\ Once(queue, TasksOf(K)) /\ Head(queue) \in TasksOf(K) => ~Has(queue', TasksOf(K))
    BY <1>1, TailOnce
  <1> QED
    BY <1>3, <1>4 DEF Listed, TasksOf

\* What each step does to the places of a fixed set of objects.
LEMMA TimersLess ==
    ASSUME NEW K \in SUBSET Objects, UNCHANGED <<queue, running>>,
           \A o \in K : armed'[o] \subseteq armed[o]
    PROVE  /\ OnePlace(K) => OnePlace(K)'
           /\ Idle(K) => Idle(K)'
  BY DEF OnePlace, Idle, Waits, Listed, Runs, Has, Once, TasksOf

LEMMA TimerMore ==
    ASSUME NEW K \in SUBSET Objects, UNCHANGED <<queue, running>>, NEW o \in Objects,
           \A p \in K \ {o} : armed'[p] = armed[p],
           o \in K => Idle(K) /\ \A t, u \in armed'[o] : t = u
    PROVE  /\ OnePlace(K) => OnePlace(K)'
           /\ Idle(K) /\ o \notin K => Idle(K)'
  <1>1. (Listed(K)' <=> Listed(K)) /\ (Runs(K)' <=> Runs(K))
    BY DEF Listed, Runs, Has, TasksOf
  <1>2. /\ Once(queue, TasksOf(K)) => Once(queue', TasksOf(K))
        /\ Once(running, K) => Once(running', K)
    BY DEF Once
  <1>3. CASE o \notin K
    <2>1. \A p \in K : armed'[p] = armed[p]
      BY <1>3
    <2> QED
      BY <1>3, <2>1, TimersLess
  <1>4. CASE o \in K
    <2>1. Idle(K)
      BY <1>4
    <2>2. \A p \in K : p # o => armed'[p] = {}
      BY <2>1 DEF Idle, Waits
    <2>3. OnePlace(K)
      BY <2>1, IdleOne
    <2>4. /\ \A p, q \in K : armed'[p] # {} /\ armed'[q] # {} => p = q
          /\ \A p \in K : \A t, u \in armed'[p] : t = u
      BY <1>4, <2>2
    <2>5. ~Listed(K)' /\ ~Runs(K)'
      BY <1>1, <2>1 DEF Idle
    <2>6. OnePlace(K)'
      BY <1>2, <2>3, <2>4, <2>5 DEF OnePlace, TasksOf
    <2> QED
      BY <1>4, <2>6
  <1> QED
    BY <1>3, <1>4

LEMMA TaskMore ==
    ASSUME IInv, NEW K \in SUBSET Objects, UNCHANGED <<running, armed>>,
           NEW kind \in {"run", "next"}, NEW o \in Objects, Enqueue(kind, o),
           o \in K => Idle(K)
    PROVE  /\ OnePlace(K) => OnePlace(K)'
           /\ Idle(K) /\ o \notin K => Idle(K)'
  <1>1. /\ Listed(K)' <=> Listed(K) \/ o \in K
        /\ Once(queue, TasksOf(K)) /\ (o \in K => ~Listed(K)) => Once(queue', TasksOf(K))
    BY ListedMore
  <1>2. (Waits(K)' <=> Waits(K)) /\ (Runs(K)' <=> Runs(K))
    BY DEF Waits, Runs, Has
  <1>3. Once(running, K) => Once(running', K)
    BY DEF Once
  <1> QED
    BY <1>1, <1>2, <1>3 DEF OnePlace, Idle, TasksOf

LEMMA FirePlace ==
    ASSUME IInv, NEW K \in SUBSET Objects, NEW o \in Objects, Fire(o)
    PROVE  /\ OnePlace(K) => OnePlace(K)'
           /\ Idle(K) => Idle(K)'
  <1>1. PICK t \in armed[o] : armed' = [armed EXCEPT ![o] = @ \ {t}]
    BY DEF Fire
  <1>2. Enqueue("run", o) /\ UNCHANGED running
    BY DEF Fire
  <1>3. /\ armed'[o] = armed[o] \ {t}
        /\ \A p \in Objects \ {o} : armed'[p] = armed[p]
    BY <1>1 DEF IInv, TypeOK
  <1>4. /\ Listed(K)' <=> Listed(K) \/ o \in K
        /\ Once(queue, TasksOf(K)) /\ (o \in K => ~Listed(K)) => Once(queue', TasksOf(K))
    BY <1>2, ListedMore
  <1>5. /\ Runs(K)' <=> Runs(K)
        /\ Once(running, K) => Once(running', K)
    BY <1>2 DEF Runs, Has, Once
  <1>6. /\ o \in K => Waits(K)
        /\ Waits(K)' => Waits(K)
    BY <1>1, <1>3 DEF Waits
  <1>7. ASSUME OnePlace(K)
        PROVE  OnePlace(K)'
    <2>1. /\ \A p, q \in K : armed'[p] # {} /\ armed'[q] # {} => p = q
          /\ \A p \in K : \A u, v \in armed'[p] : u = v
      BY <1>3, <1>7 DEF OnePlace
    <2>2. CASE o \in K
      <3>1. armed'[o] = {}
        BY <1>1, <1>3, <1>7, <2>2 DEF OnePlace
      <3>2. \A p \in K \ {o} : armed[p] = {}
        BY <1>1, <1>7, <2>2 DEF OnePlace
      <3>3. ~Waits(K)'
        BY <1>3, <3>1, <3>2 DEF Waits
      <3>4. ~Listed(K) /\ ~Runs(K)
        BY <1>6, <1>7, <2>2 DEF OnePlace
      <3> QED
        BY <1>4, <1>5, <1>7, <2>1, <3>3, <3>4 DEF OnePlace, TasksOf
    <2>3. CASE o \notin K
      BY <1>4, <1>5, <1>6, <1>7, <2>1, <2>3 DEF OnePlace, TasksOf
    <2> QED
      BY <2>2, <2>3
  <1> QED
    BY <1>4, <1>5, <1>6, <1>7 DEF Idle

LEMMA StartRunPlace ==
    ASSUME IInv, NEW K \in SUBSET Objects, StartRun
    PROVE  /\ OnePlace(K) => OnePlace(K)'
           /\ Idle(K) => Idle(K)' /\ Head(queue).of \notin K
  <1>0. PICK o : o = Head(queue).of
    OBVIOUS
  <1>1. CanStart("run") /\ running' = Append(running, o) /\ UNCHANGED armed
    BY <1>0 DEF StartRun
  <1>2. o \in Objects
    BY <1>0, <1>1, Dequeued, MadeGrows, KeptJob DEF IInv, StartRun
  <1>3. /\ Listed(K)' => Listed(K)
        /\ o \in K => Listed(K)
        /\ Once(queue, TasksOf(K)) => Once(queue', TasksOf(K))
        /\ Once(queue, TasksOf(K)) /\ o \in K => ~Listed(K)'
    BY <1>0, <1>1, ListedLess
  <1>4. running \in Seq(Objects)
    BY DEF IInv, TypeOK
  <1>5. /\ Has(running', K) <=> Has(running, K) \/ o \in K
        /\ Once(running, K) /\ (o \in K => ~Has(running, K)) => Once(running', K)
    BY <1>1, <1>2, <1>4, AppendOnce
  <1>6. Runs(K)' <=> Runs(K) \/ o \in K
    BY <1>5 DEF Runs
  <1>7. Waits(K)' <=> Waits(K)
    BY <1>1 DEF Waits
  <1>8. ASSUME OnePlace(K)
        PROVE  OnePlace(K)'
    BY <1>1, <1>3, <1>5, <1>6, <1>7, <1>8 DEF OnePlace, Runs, TasksOf
  <1> QED
    BY <1>0, <1>3, <1>6, <1>7, <1>8 DEF Idle

\* The next child takes the place of the one whose schedule goes on.
LEMMA StartNextPlace ==
    ASSUME IInv, NEW K \in SUBSET Objects, StartNext,
           New \in K => Head(queue).of \in K
    PROVE  /\ OnePlace(K) => OnePlace(K)'
           /\ Idle(K) => Idle(K)'
  <1>1. CanStart("next") /\ UNCHANGED running
    BY DEF StartNext
  <1>2. /\ Listed(K)' => Listed(K)
        /\ Head(queue).of \in K => Listed(K)
        /\ Once(queue, TasksOf(K)) => Once(queue', TasksOf(K))
        /\ Once(queue, TasksOf(K)) /\ Head(queue).of \in K => ~Listed(K)'
    BY <1>1, ListedLess
  <1>3. /\ Runs(K)' <=> Runs(K)
        /\ Once(running, K) => Once(running', K)
    BY <1>1 DEF Runs, Has, Once
  <1>4. CASE UNCHANGED armed
    <2>1. Waits(K)' <=> Waits(K)
      BY <1>4 DEF Waits
    <2> QED
      BY <1>2, <1>3, <1>4, <2>1 DEF OnePlace, Idle, TasksOf
  <1>5. CASE New \in Objects /\ Schedule(New)
    <2>1. armed'[New] = {0} /\ \A p \in Objects \ {New} : armed'[p] = armed[p]
      BY <1>5 DEF Schedule, IInv, TypeOK
    <2>2. CASE New \notin K
      <3>1. \A p \in K : armed'[p] = armed[p]
        BY <2>1, <2>2
      <3>2. Waits(K)' <=> Waits(K)
        BY <3>1 DEF Waits
      <3> QED
        BY <1>2, <1>3, <3>1, <3>2 DEF OnePlace, Idle, TasksOf
    <2>3. CASE New \in K
      <3>1. Listed(K) /\ ~Idle(K)
        BY <1>2, <2>3 DEF Idle
      <3>2. ASSUME OnePlace(K)
            PROVE  OnePlace(K)'
        <4>1. ~Waits(K) /\ ~Runs(K) /\ ~Listed(K)'
          BY <1>2, <2>3, <3>1, <3>2 DEF OnePlace
        <4>2. \A p \in K \ {New} : armed'[p] = {}
          BY <2>1, <4>1 DEF Waits
        <4> QED
          BY <1>2, <1>3, <2>1, <3>2, <4>1, <4>2 DEF OnePlace, TasksOf
      <3> QED
        BY <3>1, <3>2
    <2> QED
      BY <2>2, <2>3
  <1> QED
    BY <1>4, <1>5 DEF StartNext, Spare

LEMMA EndRunPlace ==
    ASSUME IInv, NEW K \in SUBSET Objects, NEW n \in 1 .. Len(running), EndRun(n)
    PROVE  /\ OnePlace(K) => OnePlace(K)'
           /\ Idle(K) => Idle(K)' /\ running[n] \notin K
           /\ OnePlace(K) /\ running[n] \in K /\ ~job[running[n]].child => Idle(K)'
  <1>0. PICK o : o = running[n]
    OBVIOUS
  <1>1. running' = RemoveAt(running, n) /\ UNCHANGED armed
    BY DEF EndRun
  <1>2. running \in Seq(Objects) /\ o \in Objects
    BY <1>0, ElementOfSeq DEF IInv, TypeOK
  <1>3. /\ Has(running', K) => Has(running, K)
        /\ o \in K => Has(running, K)
        /\ Once(running, K) => Once(running', K)
        /\ Once(running, K) /\ o \in K => ~Has(running', K)
    BY <1>0, <1>1, <1>2, RemoveAtOnce
  <1>4. Waits(K)' <=> Waits(K)
    BY <1>1 DEF Waits
  <1>5. CASE ~job[o].child /\ UNCHANGED queue
    <2>1. /\ Listed(K)' <=> Listed(K)
          /\ Once(queue, TasksOf(K)) => Once(queue', TasksOf(K))
      BY <1>5 DEF Listed, Has, Once, TasksOf
    <2> QED
      BY <1>0, <1>1, <1>3, <1>4, <2>1 DEF OnePlace, Idle, Runs, TasksOf
  <1>6. CASE job[o].child /\ Enqueue("next", o)
    <2>1. /\ Listed(K)' <=> Listed(K) \/ o \in K
          /\ Once(queue, TasksOf(K)) /\ (o \in K => ~Listed(K)) => Once(queue', TasksOf(K))
      BY <1>2, <1>6, ListedMore
    <2> QED
      BY <1>0, <1>1, <1>3, <1>4, <1>6, <2>1 DEF OnePlace, Idle, Runs, TasksOf
  <1> QED
    BY <1>0, <1>5, <1>6 DEF EndRun

-----------------------------------------------------------------------------
(* The objects of an id: the jobs that are added, or the children.         *)

Own(i) == {o \in Made : job[o].id = i /\ ~job[o].child}
Kids(i) == {o \in Made : job[o].id = i /\ job[o].child}

LEMMA StepStable == IInv /\ [Next]_vars => Stable
  <1> SUFFICES ASSUME IInv, [Next]_vars
               PROVE  Stable
    OBVIOUS
  <1>1. ASSUME NEW i \in Ids, AddNow(i) \/ AddDelayed(i)
        PROVE  Stable
    <2>1. PICK o \in Objects : Take(i, o)
      BY <1>1 DEF AddNow, AddDelayed
    <2> QED
      BY <2>1, TakeFacts
  <1>2. ASSUME NEW i \in Ids, AddRepeated(i)
        PROVE  Stable
    <2>1. TypeOK
      BY DEF IInv
    <2>2. CASE UNCHANGED job
      BY <2>1, <2>2, KeptJob
    <2>3. CASE New + 1 \in Objects /\ job' = job \o <<NewJob(i, FALSE), NewJob(i, TRUE)>>
      BY <2>1, <2>3, RepeatedJobs
    <2> QED
      BY <1>2, <2>2, <2>3 DEF AddRepeated
  <1>3. CASE StartNext
    <2>1. job \in Seq(Job) /\ Head(queue).of \in Made
      BY <1>3, Dequeued DEF StartNext, IInv, TypeOK, Job
    <2>2. job[Head(queue).of] \in Job
      BY <2>1, ElementOfSeq
    <2>3. job[Head(queue).of].id \in Ids
      BY <2>2 DEF Job
    <2> QED
      BY <1>3, <2>3, AppendJob, KeptJob DEF StartNext, Spare, IInv
  <1>4. CASE Handle
    <2>1. CASE UNCHANGED job
      BY <2>1, KeptJob DEF IInv
    <2>2. ASSUME NEW p \in Found(Head(events).of), SetStatus(p, Head(events).status)
          PROVE  Stable
      <3>1. Head(events) \in Event
        BY <1>4, TailSeq DEF Handle, IInv, TypeOK
      <3>2. Head(events).status \in Statuses /\ p \in Made
        BY <2>2, <3>1 DEF Event, Found, IInv, TypeOK
      <3> QED
        BY <2>2, <3>2, StatusJob DEF IInv
    <2> QED
      BY <1>4, <2>1, <2>2 DEF Handle
  <1>5. CASE UNCHANGED job
    BY <1>5, KeptJob DEF IInv
  <1> QED
    BY <1>1, <1>2, <1>3, <1>4, <1>5
       DEF Next, Work, Fire, StartRun, EndRun, Request, Land, RemoveJob, MoveTo, Reset, vars,
           history

\* The object an add takes has the id, and is the one there is or a new one.
LEMMA TakeOwn ==
    ASSUME IInv, NEW i \in Ids, NEW o \in Objects, Take(i, o)
    PROVE  /\ o \in Made' /\ job'[o].id = i /\ ~job'[o].child
           /\ \A p \in Made' : p \in Made \/ p = o
           /\ memory' = memory \cup {o}
           /\ WithId(i) = {} => o \notin Made
  <1>1. Len(job) \in Nat /\ memory \subseteq Made
    BY DEF IInv, TypeOK
  <1>2. CASE o \in Existing(i) /\ SetStatus(o, "waiting") /\ UNCHANGED memory
    <2>1. o \in memory /\ o \in WithId(i) /\ job[o].id = i /\ ~job[o].child
      BY <1>2 DEF Existing, WithId
    <2>2. Stable /\ Len(job') = Len(job)
      BY <1>1, <1>2, <2>1, StatusJob DEF IInv
    <2> QED
      BY <1>1, <1>2, <2>1, <2>2 DEF Stable
  <1>3. CASE /\ Existing(i) = {} /\ o = New /\ o \in Objects
             /\ job' = Append(job, NewJob(i, FALSE))
             /\ memory' = memory \cup {o}
    <2>1. Stable /\ Len(job') = New /\ job'[New] = NewJob(i, FALSE)
      BY <1>3, AppendJob DEF IInv
    <2>2. job'[o].id = i /\ ~job'[o].child
      BY <1>3, <2>1 DEF NewJob
    <2>3. o \in Made' /\ o \notin Made /\ \A p \in Made' : p \in Made \/ p = o
      BY <1>1, <1>3, <2>1
    <2> QED
      BY <1>3, <2>2, <2>3
  <1> QED
    BY <1>2, <1>3 DEF Take

\* The objects of an id after a step, as a fixed set.
LEMMA KidsAfter ==
    ASSUME IInv, Stable, NEW i, NEW L, L = Kids(i)'
    PROVE  /\ L \in SUBSET Objects /\ L \subseteq Made'
           /\ \A o \in Made' : o \in L <=> job'[o].id = i /\ job'[o].child
           /\ \A o \in Made : o \in L <=> job[o].id = i /\ job[o].child
           /\ \A o \in Made : o \in L <=> o \in Kids(i)
           /\ Idle(Kids(i)) => Idle(L)
           /\ OnePlace(Kids(i)) => OnePlace(L)
           /\ Idle(L)' => Idle(Kids(i))'
           /\ OnePlace(L)' => OnePlace(Kids(i))'
  <1>1. Made \subseteq Made' /\ Made' \subseteq Objects
    BY MadeGrows DEF IInv
  <1>2. /\ L \in SUBSET Objects /\ L \subseteq Made'
        /\ \A o \in Made' : o \in L <=> job'[o].id = i /\ job'[o].child
    BY <1>1 DEF Kids
  <1>3. \A o \in Made : o \in L <=> job[o].id = i /\ job[o].child
    BY <1>1, <1>2 DEF Stable
  <1>4. Kids(i) \in SUBSET Objects /\ \A o \in Made : o \in L <=> o \in Kids(i)
    BY <1>1, <1>3 DEF Kids
  <1>5. PICK K : K = Kids(i)
    OBVIOUS
  <1>6. (Idle(K) => Idle(L)) /\ (OnePlace(K) => OnePlace(L))
    BY <1>2, <1>4, <1>5, Widened
  <1>7. Idle(L)' => Idle(Kids(i))'
    BY DEF Idle, Waits, Listed, Runs, Has, TasksOf
  <1>8. OnePlace(L)' => OnePlace(Kids(i))'
    BY DEF OnePlace, Waits, Listed, Runs, Has, Once, TasksOf
  <1> QED
    BY <1>2, <1>3, <1>4, <1>5, <1>6, <1>7, <1>8

LEMMA OwnAfter ==
    ASSUME IInv, Stable, NEW i, NEW L, L = Own(i)'
    PROVE  /\ L \in SUBSET Objects /\ L \subseteq Made'
           /\ \A o \in Made' : o \in L <=> job'[o].id = i /\ ~job'[o].child
           /\ \A o \in Made : o \in L <=> job[o].id = i /\ ~job[o].child
           /\ \A o \in Made : o \in L <=> o \in Own(i)
           /\ Idle(Own(i)) => Idle(L)
           /\ OnePlace(Own(i)) => OnePlace(L)
           /\ Idle(L)' => Idle(Own(i))'
           /\ OnePlace(L)' => OnePlace(Own(i))'
  <1>1. Made \subseteq Made' /\ Made' \subseteq Objects
    BY MadeGrows DEF IInv
  <1>2. /\ L \in SUBSET Objects /\ L \subseteq Made'
        /\ \A o \in Made' : o \in L <=> job'[o].id = i /\ ~job'[o].child
    BY <1>1 DEF Own
  <1>3. \A o \in Made : o \in L <=> job[o].id = i /\ ~job[o].child
    BY <1>1, <1>2 DEF Stable
  <1>4. Own(i) \in SUBSET Objects /\ \A o \in Made : o \in L <=> o \in Own(i)
    BY <1>1, <1>3 DEF Own
  <1>5. PICK K : K = Own(i)
    OBVIOUS
  <1>6. (Idle(K) => Idle(L)) /\ (OnePlace(K) => OnePlace(L))
    BY <1>2, <1>4, <1>5, Widened
  <1>7. Idle(L)' => Idle(Own(i))'
    BY DEF Idle, Waits, Listed, Runs, Has, TasksOf
  <1>8. OnePlace(L)' => OnePlace(Own(i))'
    BY DEF OnePlace, Waits, Listed, Runs, Has, Once, TasksOf
  <1> QED
    BY <1>2, <1>3, <1>4, <1>5, <1>6, <1>7, <1>8

-----------------------------------------------------------------------------
(* The schedule of a repeated job.                                         *)

\* Only repeated jobs have children, and only children are scheduled again.
Kinds ==
    /\ \A o \in Made : job[o].child => job[o].id \in Repeated
    /\ \A n \in 1 .. Len(queue) : queue[n].kind = "next" => job[queue[n].of].child

\* The children of an id have one place, and a parent while there are any.  The
\* parent itself never runs, so that no event makes it leave.
OneSchedule(i) ==
    /\ OnePlace(Kids(i))
    /\ Kids(i) # {} => WithId(i) # {}
    /\ Idle(Own(i))
    /\ \A n \in 1 .. Len(events) : events[n].of \notin Own(i)

Schedules == \A i \in Repeated \ taken : OneSchedule(i)

LEMMA KindsKept ==
    ASSUME IInv, Kinds, Stable,
           \A o \in Made' \ Made : job'[o].child => job'[o].id \in Repeated,
           \A n \in 1 .. Len(queue') : queue'[n].kind = "next" =>
               \E m \in 1 .. Len(queue) : queue'[n] = queue[m]
    PROVE  Kinds'
  <1>1. \A o \in Made' : job'[o].child => job'[o].id \in Repeated
    BY DEF Kinds, Stable
  <1>2. ASSUME NEW n \in 1 .. Len(queue'), queue'[n].kind = "next"
        PROVE  job'[queue'[n].of].child
    <2>1. PICK m \in 1 .. Len(queue) : queue'[n] = queue[m]
      BY <1>2
    <2>2. queue[m].of \in Made /\ job[queue[m].of].child
      BY <1>2, <2>1 DEF IInv, Refer, Kinds
    <2> QED
      BY <2>1, <2>2 DEF Stable
  <1> QED
    BY <1>1, <1>2 DEF Kinds

\* A task is added at the end.
LEMMA EnqueuedTask ==
    ASSUME IInv, NEW kind \in {"run", "next"}, NEW o \in Objects, Enqueue(kind, o)
    PROVE  \A n \in 1 .. Len(queue') :
               \/ n \in 1 .. Len(queue) /\ queue'[n] = queue[n]
               \/ queue'[n].kind = kind /\ queue'[n].of = o
  <1> DEFINE t == [kind |-> kind, of |-> o]
  <1>1. queue \in Seq(Task) /\ t \in Task /\ t.kind = kind /\ t.of = o
    BY DEF IInv, TypeOK, Task
  <1>2. queue' = Append(queue, t)
    BY DEF Enqueue
  <1> HIDE DEF t
  <1>3. /\ Len(queue) \in Nat /\ Len(queue') = Len(queue) + 1
        /\ \A n \in 1 .. Len(queue) : queue'[n] = queue[n]
        /\ queue'[Len(queue) + 1] = t
    BY <1>1, <1>2, AppendSeq
  <1>4. \A n \in 1 .. Len(queue') : n \in 1 .. Len(queue) \/ n = Len(queue) + 1
    BY <1>3
  <1> QED
    BY <1>1, <1>3, <1>4

LEMMA StartedTask ==
    ASSUME IInv, NEW kind, CanStart(kind)
    PROVE  /\ 1 \in 1 .. Len(queue) /\ Head(queue) = queue[1] /\ queue[1].kind = kind
           /\ \A n \in 1 .. Len(queue') : n + 1 \in 1 .. Len(queue) /\ queue'[n] = queue[n + 1]
  <1>1. queue \in Seq(Task) /\ queue # <<>> /\ queue' = Tail(queue) /\ Head(queue).kind = kind
    BY DEF IInv, TypeOK, CanStart
  <1>2. /\ Len(queue) \in Nat \ {0} /\ Head(queue) = queue[1]
        /\ Len(queue') = Len(queue) - 1
        /\ \A n \in 1 .. Len(queue) - 1 : queue'[n] = queue[n + 1]
    BY <1>1, TailSeq
  <1>3. \A n \in 1 .. Len(queue') : n \in 1 .. Len(queue) - 1 /\ n + 1 \in 1 .. Len(queue)
    BY <1>2
  <1>4. 1 \in 1 .. Len(queue)
    BY <1>2
  <1> QED
    BY <1>1, <1>2, <1>3, <1>4

LEMMA StepKinds ==
    ASSUME IInv, Kinds, [Next]_vars
    PROVE  Kinds'
  <1>0. Stable
    BY StepStable
  <1>1. CASE UNCHANGED <<job, queue>>
    <2>1. Made' = Made
      BY <1>1
    <2> QED
      BY <1>0, <1>1, <2>1, KindsKept
  <1>2. ASSUME NEW i \in Ids, NEW o \in Objects, Take(i, o),
               UNCHANGED queue \/ Enqueue("run", o)
        PROVE  Kinds'
    <2>1. \A p \in Made' \ Made : ~job'[p].child
      BY <1>2, TakeOwn
    <2>2. \A n \in 1 .. Len(queue') : queue'[n].kind = "next" =>
              \E m \in 1 .. Len(queue) : queue'[n] = queue[m]
      <3>1. CASE UNCHANGED queue
        BY <3>1
      <3>2. CASE Enqueue("run", o)
        BY <3>2, EnqueuedTask
      <3> QED
        BY <1>2, <3>1, <3>2
    <2> QED
      BY <1>0, <2>1, <2>2, KindsKept
  <1>3. ASSUME NEW i \in Ids, AddRepeated(i)
        PROVE  Kinds'
    <2>1. UNCHANGED queue /\ i \in Repeated
      BY <1>3 DEF AddRepeated
    <2>2. CASE UNCHANGED job
      BY <1>1, <2>1, <2>2
    <2>3. CASE New + 1 \in Objects /\ job' = job \o <<NewJob(i, FALSE), NewJob(i, TRUE)>>
      <3>1. Len(job') = New + 1 /\ job'[New].id = i /\ job'[New + 1].id = i
        <4>1. TypeOK /\ New + 1 \in Objects /\ job' = job \o <<NewJob(i, FALSE), NewJob(i, TRUE)>>
          BY <2>3 DEF IInv
        <4> QED
          BY <4>1, RepeatedJobs
      <3>2. \A p \in Made' \ Made : p = New \/ p = New + 1
        <4>1. Len(job) \in Nat
          BY DEF IInv, TypeOK
        <4> QED
          BY <3>1, <4>1
      <3> QED
        BY <1>0, <2>1, <3>1, <3>2, KindsKept
    <2> QED
      BY <1>3, <2>2, <2>3 DEF AddRepeated
  <1>4. ASSUME NEW o \in Objects, Fire(o)
        PROVE  Kinds'
    <2>1. UNCHANGED job /\ Enqueue("run", o) /\ Made' = Made
      BY <1>4 DEF Fire
    <2>2. \A n \in 1 .. Len(queue') : queue'[n].kind = "next" =>
              \E m \in 1 .. Len(queue) : queue'[n] = queue[m]
      BY <2>1, EnqueuedTask
    <2> QED
      BY <1>0, <2>1, <2>2, KindsKept
  <1>5. CASE StartRun
    <2>1. UNCHANGED job /\ Made' = Made /\ CanStart("run")
      BY <1>5 DEF StartRun
    <2>2. \A n \in 1 .. Len(queue') : \E m \in 1 .. Len(queue) : queue'[n] = queue[m]
      BY <2>1, StartedTask
    <2> QED
      BY <1>0, <2>1, <2>2, KindsKept
  <1>6. CASE StartNext
    <2>1. CanStart("next")
      BY <1>6 DEF StartNext
    <2>2. \A n \in 1 .. Len(queue') : \E m \in 1 .. Len(queue) : queue'[n] = queue[m]
      BY <2>1, StartedTask
    <2>3. Head(queue).of \in Made /\ job[Head(queue).of].child
      BY <2>1, StartedTask, Dequeued DEF Kinds
    <2>4. \A p \in Made' \ Made : job'[p].id \in Repeated
      <3>1. CASE UNCHANGED job
        BY <3>1
      <3>2. CASE New \in Objects /\ job' = Append(job, NewJob(job[Head(queue).of].id, TRUE))
        <4>1. job[Head(queue).of].id \in Repeated /\ job[Head(queue).of].id \in Ids
          BY <2>3 DEF Kinds
        <4>2. Len(job') = New /\ job'[New] = NewJob(job[Head(queue).of].id, TRUE)
          BY <3>2, <4>1, AppendJob DEF IInv
        <4>3. Len(job) \in Nat
          BY DEF IInv, TypeOK
        <4>4. \A p \in Made' \ Made : p = New
          BY <4>2, <4>3
        <4> QED
          BY <4>1, <4>2, <4>4 DEF NewJob
      <3> QED
        BY <1>6, <3>1, <3>2 DEF StartNext, Spare
    <2> QED
      BY <1>0, <2>2, <2>4, KindsKept
  <1>7. ASSUME NEW n \in 1 .. Len(running), EndRun(n)
        PROVE  Kinds'
    <2>1. UNCHANGED job /\ Made' = Made
      BY <1>7 DEF EndRun
    <2>2. CASE UNCHANGED queue
      BY <1>1, <2>1, <2>2
    <2>3. CASE job[running[n]].child /\ Enqueue("next", running[n])
      <3>1. running[n] \in Objects /\ running[n] \in Made
        BY <1>0, MadeGrows DEF IInv, Refer
      <3>2. \A m \in 1 .. Len(queue') :
                \/ m \in 1 .. Len(queue) /\ queue'[m] = queue[m]
                \/ queue'[m].of = running[n]
        BY <2>3, <3>1, EnqueuedTask
      <3>3. \A m \in 1 .. Len(queue') : queue'[m].kind = "next" => job[queue'[m].of].child
        BY <2>3, <3>2 DEF Kinds
      <3> QED
        BY <2>1, <3>3 DEF Kinds
    <2> QED
      BY <1>7, <2>2, <2>3 DEF EndRun
  <1>8. CASE Handle
    <2>1. UNCHANGED queue
      BY <1>8 DEF Handle
    <2>2. Made' = Made
      <3>1. CASE UNCHANGED job
        BY <3>1
      <3>2. ASSUME NEW p \in Found(Head(events).of), SetStatus(p, Head(events).status)
            PROVE  Made' = Made
        <4>1. job \in Seq(Job)
          BY DEF IInv, TypeOK, Job
        <4> QED
          BY <3>2, <4>1 DEF SetStatus
      <3> QED
        BY <1>8, <3>1, <3>2 DEF Handle
    <2> QED
      BY <1>0, <2>1, <2>2, KindsKept
  <1>9. CASE Reset
    <2>1. UNCHANGED job /\ queue' = <<>> /\ Made' = Made
      BY <1>9 DEF Reset
    <2> QED
      BY <1>0, <2>1, KindsKept
  <1>10. ASSUME NEW i \in Ids, AddNow(i) \/ AddDelayed(i)
         PROVE  Kinds'
    BY <1>2, <1>10 DEF AddNow, AddDelayed
  <1> QED
    BY <1>1, <1>3, <1>4, <1>5, <1>6, <1>7, <1>8, <1>9, <1>10
       DEF Next, Work, Request, Land, RemoveJob, MoveTo, vars, history

LEMMA EmittedEvent ==
    ASSUME IInv, NEW status \in {"active"} \cup Outcomes, NEW o \in Objects,
           NEW tell \in BOOLEAN, Emit(status, o, tell)
    PROVE  /\ Len(events) \in Nat /\ Len(events') = Len(events) + 1
           /\ \A n \in 1 .. Len(events) : events'[n] = events[n]
           /\ \A n \in 1 .. Len(events') : n \in 1 .. Len(events) \/ n = Len(events) + 1
           /\ events'[Len(events) + 1].of = o
           /\ events'[Len(events) + 1].status = status
           /\ events'[Len(events) + 1].tell = tell
  <1> DEFINE e == [status |-> status, of |-> o, tell |-> tell]
  <1>1. events \in Seq(Event) /\ e \in Event
        /\ e.of = o /\ e.status = status /\ e.tell = tell
    BY DEF IInv, TypeOK, Event
  <1>2. events' = Append(events, e)
    BY DEF Emit
  <1> HIDE DEF e
  <1>3. /\ Len(events) \in Nat /\ Len(events') = Len(events) + 1
        /\ \A n \in 1 .. Len(events) : events'[n] = events[n]
        /\ events'[Len(events) + 1] = e
    BY <1>1, <1>2, AppendSeq
  <1>4. \A n \in 1 .. Len(events') : n \in 1 .. Len(events) \/ n = Len(events) + 1
    BY <1>3
  <1> QED
    BY <1>1, <1>3, <1>4

LEMMA HandledEvent ==
    ASSUME IInv, Handle
    PROVE  /\ 1 \in 1 .. Len(events) /\ Head(events) = events[1] /\ events[1] \in Event
           /\ \A n \in 1 .. Len(events') : n + 1 \in 1 .. Len(events) /\ events'[n] = events[n + 1]
  <1>1. events \in Seq(Event) /\ events # <<>> /\ events' = Tail(events)
    BY DEF IInv, TypeOK, Handle
  <1>2. /\ Len(events) \in Nat \ {0} /\ Head(events) = events[1] /\ events[1] \in Event
        /\ Len(events') = Len(events) - 1
        /\ \A n \in 1 .. Len(events) - 1 : events'[n] = events[n + 1]
    BY <1>1, TailSeq
  <1>3. \A n \in 1 .. Len(events') : n \in 1 .. Len(events) - 1 /\ n + 1 \in 1 .. Len(events)
    BY <1>2
  <1>4. 1 \in 1 .. Len(events)
    BY <1>2
  <1> QED
    BY <1>2, <1>3, <1>4

\* A parent that is still in memory is still the parent.
LEMMA ParentStays ==
    ASSUME IInv, Stable, NEW i, NEW o \in WithId(i), o \in memory'
    PROVE  WithId(i)' # {}
  <1>1. o \in Made /\ job[o].id = i /\ ~job[o].child
    BY DEF WithId, IInv, TypeOK
  <1>2. job'[o].id = i /\ ~job'[o].child
    BY <1>1 DEF Stable
  <1> QED
    BY <1>2 DEF WithId

LEMMA ScheduleStep ==
    ASSUME IInv, Kinds, [Next]_vars, NEW i \in Repeated, i \notin taken, i \notin taken',
           OneSchedule(i)
    PROVE  OneSchedule(i)'
  <1>0. Stable
    BY StepStable
  <1>1. PICK K : K = Kids(i)'
    OBVIOUS
  <1>2. PICK P : P = Own(i)'
    OBVIOUS
  <1>3. /\ K \in SUBSET Objects /\ K \subseteq Made' /\ OnePlace(K)
        /\ \A o \in Made' : o \in K <=> job'[o].id = i /\ job'[o].child
        /\ \A o \in Made : o \in K <=> job[o].id = i /\ job[o].child
        /\ \A o \in Made : o \in K <=> o \in Kids(i)
        /\ Idle(Kids(i)) => Idle(K)
        /\ OnePlace(K)' => OnePlace(Kids(i))'
    BY <1>0, <1>1, KidsAfter DEF OneSchedule
  <1>4. /\ P \in SUBSET Objects /\ P \subseteq Made' /\ Idle(P)
        /\ \A o \in Made' : o \in P <=> job'[o].id = i /\ ~job'[o].child
        /\ \A o \in Made : o \in P <=> job[o].id = i /\ ~job[o].child
        /\ Idle(P)' => Idle(Own(i))'
    BY <1>0, <1>2, OwnAfter DEF OneSchedule
  <1>5. \A n \in 1 .. Len(events) : events[n].of \in Made /\ events[n].of \notin P
    <2>1. \A n \in 1 .. Len(events) : events[n].of \in Made /\ events[n].of \notin Own(i)
      BY DEF IInv, Refer, OneSchedule
    <2>2. \A o \in Made : o \in P <=> o \in Own(i)
      BY <1>0, <1>2, OwnAfter
    <2> QED
      BY <2>1, <2>2
  <1>6. ASSUME NEW o \in Made, o \in K
        PROVE  WithId(i) # {}
    BY <1>3, <1>6 DEF OneSchedule
  <1>7. SUFFICES /\ OnePlace(K)' /\ Idle(P)'
                 /\ K # {} => WithId(i)' # {}
                 /\ \A n \in 1 .. Len(events') : events'[n].of \notin P
    BY <1>1, <1>2, <1>3, <1>4 DEF OneSchedule
  <1>8. ASSUME memory \subseteq memory', NEW o \in Made, o \in K
        PROVE  WithId(i)' # {}
    <2>1. PICK p : p \in WithId(i)
      BY <1>6, <1>8
    <2>2. p \in memory'
      BY <1>8, <2>1 DEF WithId
    <2> QED
      BY <1>0, <2>1, <2>2, ParentStays
  <1>9. ASSUME NEW j \in Ids, j # i, NEW o \in Objects, Take(j, o)
        PROVE  o \notin K /\ o \notin P /\ (K # {} => WithId(i)' # {})
    <2>1. /\ o \in Made' /\ job'[o].id = j
          /\ \A p \in Made' : p \in Made \/ p = o
          /\ memory \subseteq memory'
      BY <1>9, TakeOwn
    <2>2. o \notin K /\ o \notin P
      BY <1>3, <1>4, <1>9, <2>1
    <2>3. \A p \in K : p \in Made
      BY <1>3, <2>1, <2>2
    <2> QED
      BY <1>8, <2>1, <2>2, <2>3
  <1>10. ASSUME NEW j \in Ids, AddNow(j)
         PROVE  /\ OnePlace(K)' /\ Idle(P)'
                /\ K # {} => WithId(i)' # {}
                /\ UNCHANGED events
    <2>1. PICK o \in Objects : Take(j, o) /\ Enqueue("run", o)
      BY <1>10 DEF AddNow
    <2>2. j # i /\ UNCHANGED <<running, armed, events>>
      BY <1>10 DEF AddNow
    <2>3. o \notin K /\ o \notin P /\ (K # {} => WithId(i)' # {})
      BY <1>9, <2>1, <2>2
    <2> QED
      BY <1>3, <1>4, <2>1, <2>2, <2>3, TaskMore
  <1>11. ASSUME NEW j \in Ids, AddDelayed(j)
         PROVE  /\ OnePlace(K)' /\ Idle(P)'
                /\ K # {} => WithId(i)' # {}
                /\ UNCHANGED events
    <2>1. PICK o \in Objects : Take(j, o) /\ armed' = [armed EXCEPT ![o] = @ \cup {timers'}]
      BY <1>11 DEF AddDelayed
    <2>2. j # i /\ UNCHANGED <<queue, running, events>>
      BY <1>11 DEF AddDelayed
    <2>3. o \notin K /\ o \notin P /\ (K # {} => WithId(i)' # {})
      BY <1>9, <2>1, <2>2
    <2>4. \A p \in Objects \ {o} : armed'[p] = armed[p]
      BY <2>1 DEF IInv, TypeOK
    <2> QED
      BY <1>3, <1>4, <2>2, <2>3, <2>4, TimerMore
  <1>12. ASSUME NEW j \in Ids, AddRepeated(j)
         PROVE  /\ OnePlace(K)' /\ Idle(P)'
                /\ K # {} => WithId(i)' # {}
                /\ UNCHANGED events
    <2>1. UNCHANGED <<queue, running, events>>
      BY <1>12 DEF AddRepeated
    <2>2. CASE UNCHANGED <<job, memory, armed>>
      <3>1. K \subseteq Made
        BY <1>3, <2>2
      <3> QED
        BY <1>3, <1>4, <1>8, <2>1, <2>2, <3>1, TimersLess
    <2>3. CASE /\ Existing(j) = {} /\ New + 1 \in Objects
               /\ job' = job \o <<NewJob(j, FALSE), NewJob(j, TRUE)>>
               /\ memory' = memory \cup {New} /\ Schedule(New + 1)
      <3>1. /\ Len(job') = New + 1
            /\ job'[New].id = j /\ ~job'[New].child
            /\ job'[New + 1].id = j /\ job'[New + 1].child
        <4>1. TypeOK /\ New + 1 \in Objects /\ job' = job \o <<NewJob(j, FALSE), NewJob(j, TRUE)>>
          BY <2>3 DEF IInv
        <4> QED
          BY <4>1, RepeatedJobs
      <3>2. /\ New \in Made' /\ New + 1 \in Made'
            /\ \A o \in Made' : o \in Made \/ o = New \/ o = New + 1
        <4>1. Len(job) \in Nat
          BY DEF IInv, TypeOK
        <4> QED
          BY <3>1, <4>1
      <3>3. /\ armed'[New + 1] = {0}
            /\ \A o \in Objects \ {New + 1} : armed'[o] = armed[o]
        BY <2>3 DEF Schedule, IInv, TypeOK
      <3>4. New + 1 \notin P
        BY <1>4, <3>1, <3>2
      <3>5. Idle(P)'
        BY <1>4, <2>1, <2>3, <3>3, <3>4, TimerMore
      <3>6. New + 1 \in K <=> j = i
        BY <1>3, <3>1, <3>2
      <3>7. j = i => Idle(K)
        <4> SUFFICES ASSUME j = i
                     PROVE  Idle(K)
          OBVIOUS
        <4>1. Kids(i) = {}
          BY <2>3 DEF OneSchedule, Existing
        <4>2. Idle({})
          BY DEF Idle, Waits, Listed, Runs, Has, TasksOf
        <4> QED
          BY <1>3, <4>1, <4>2
      <3>8. OnePlace(K)'
        BY <1>3, <2>1, <2>3, <3>3, <3>6, <3>7, TimerMore
      <3>9. K # {} => WithId(i)' # {}
        <4>1. CASE j = i
          BY <2>3, <3>1, <4>1 DEF WithId
        <4>2. CASE j # i
          <5>1. \A o \in K : o \in Made
            BY <1>3, <3>1, <3>2, <4>2
          <5> QED
            BY <1>8, <2>3, <5>1
        <4> QED
          BY <4>1, <4>2
      <3> QED
        BY <2>1, <3>5, <3>8, <3>9
    <2> QED
      BY <1>12, <2>2, <2>3 DEF AddRepeated
  <1>13. ASSUME NEW o \in Objects, Fire(o)
         PROVE  /\ OnePlace(K)' /\ Idle(P)'
                /\ K # {} => WithId(i)' # {}
                /\ UNCHANGED events
    <2>1. UNCHANGED <<job, events>> /\ memory \subseteq memory'
      BY <1>13 DEF Fire
    <2>2. OnePlace(K)' /\ Idle(P)'
      BY <1>3, <1>4, <1>13, FirePlace
    <2>3. K \subseteq Made
      BY <1>3, <2>1
    <2> QED
      BY <1>8, <2>1, <2>2, <2>3
  <1>14. CASE StartRun
    <2> DEFINE o == Head(queue).of
    <2>1. UNCHANGED <<job, memory>> /\ CanStart("run") /\ Emit("active", o, TRUE)
      BY <1>14 DEF StartRun
    <2>2. OnePlace(K)' /\ Idle(P)' /\ o \notin P
      BY <1>3, <1>4, <1>14, StartRunPlace
    <2>3. K \subseteq Made
      BY <1>3, <2>1
    <2>4. o \in Objects
      BY <1>0, <2>1, Dequeued, MadeGrows DEF IInv
    <2> HIDE DEF o
    <2>5. \A n \in 1 .. Len(events') : events'[n].of \notin P
      BY <1>5, <2>1, <2>2, <2>4, EmittedEvent
    <2> QED
      BY <1>8, <2>1, <2>2, <2>3, <2>5
  <1>15. CASE StartNext
    <2> DEFINE o == Head(queue).of
    <2>1. UNCHANGED <<memory, events>> /\ CanStart("next")
      BY <1>15 DEF StartNext
    <2>2. o \in Made /\ job[o].child
      BY <2>1, StartedTask, Dequeued DEF Kinds
    <2>3. /\ New \notin P
          /\ New \in K => o \in K
          /\ \A p \in K : p \in Made \/ o \in K
      <3>1. CASE UNCHANGED job
        <4>1. New \notin Made /\ Made' = Made
          <5>1. Len(job) \in Nat
            BY DEF IInv, TypeOK
          <5> QED
            BY <3>1, <5>1
        <4> QED
          BY <1>3, <1>4, <4>1
      <3>2. CASE New \in Objects /\ job' = Append(job, NewJob(job[o].id, TRUE))
        <4>1. job[o].id \in Ids
          BY <2>2 DEF Kinds
        <4>2. Len(job') = New /\ job'[New] = NewJob(job[o].id, TRUE)
          BY <3>2, <4>1, AppendJob DEF IInv
        <4>3. New \in Made' /\ \A p \in Made' : p \in Made \/ p = New
          <5>1. Len(job) \in Nat
            BY DEF IInv, TypeOK
          <5> QED
            BY <4>2, <5>1
        <4>4. job'[New].id = job[o].id /\ job'[New].child
          BY <4>2 DEF NewJob
        <4>5. New \notin P /\ (New \in K => o \in K)
          BY <1>3, <1>4, <2>2, <4>3, <4>4
        <4> QED
          BY <1>3, <4>3, <4>5
      <3> QED
        BY <1>15, <3>1, <3>2 DEF StartNext, Spare
    <2>4. OnePlace(K)' /\ Idle(P)'
      BY <1>3, <1>4, <1>15, <2>3, StartNextPlace
    <2>5. K # {} => WithId(i)' # {}
      BY <1>8, <2>1, <2>2, <2>3
    <2> QED
      BY <1>5, <2>1, <2>4, <2>5
  <1>16. ASSUME NEW n \in 1 .. Len(running), EndRun(n)
         PROVE  /\ OnePlace(K)' /\ Idle(P)'
                /\ K # {} => WithId(i)' # {}
                /\ \A m \in 1 .. Len(events') : events'[m].of \notin P
    <2>0. PICK o : o = running[n]
      OBVIOUS
    <2>1. UNCHANGED <<job, memory>>
      BY <1>16 DEF EndRun
    <2>2. OnePlace(K)' /\ Idle(P)' /\ o \notin P
      BY <1>3, <1>4, <1>16, <2>0, EndRunPlace
    <2>3. K \subseteq Made
      BY <1>3, <2>1
    <2>4. o \in Objects
      BY <1>0, <2>0, MadeGrows DEF IInv, Refer
    <2>5. UNCHANGED events \/ \E how \in Outcomes : Emit(how, o, TRUE)
      BY <1>16, <2>0 DEF EndRun
    <2>6. \A m \in 1 .. Len(events') : events'[m].of \notin P
      BY <1>5, <2>2, <2>4, <2>5, EmittedEvent
    <2> QED
      BY <1>8, <2>1, <2>2, <2>3, <2>6
  <1>17. CASE Handle
    <2>1. UNCHANGED <<queue, running, armed>>
      BY <1>17 DEF Handle
    <2>2. OnePlace(K)' /\ Idle(P)'
      BY <1>3, <1>4, <2>1, TimersLess
    <2>3. /\ 1 \in 1 .. Len(events) /\ Head(events) = events[1]
          /\ \A n \in 1 .. Len(events') : n + 1 \in 1 .. Len(events) /\ events'[n] = events[n + 1]
      BY <1>17, HandledEvent
    <2>4. \A n \in 1 .. Len(events') : events'[n].of \notin P
      BY <1>5, <2>3
    <2>5. K \subseteq Made
      <3>1. Made' = Made
        <4>1. CASE UNCHANGED job
          BY <4>1
        <4>2. ASSUME NEW p \in Found(Head(events).of), SetStatus(p, Head(events).status)
              PROVE  Made' = Made
          <5>1. job \in Seq(Job)
            BY DEF IInv, TypeOK, Job
          <5> QED
            BY <4>2, <5>1 DEF SetStatus
        <4> QED
          BY <1>17, <4>1, <4>2 DEF Handle
      <3> QED
        BY <1>3, <3>1
    <2>6. ASSUME NEW p \in WithId(i)
          PROVE  p \in memory'
      <3>1. p \in memory /\ p \in Made /\ p \in P /\ job[p].id = i /\ ~job[p].child
        BY <1>4 DEF WithId, IInv, TypeOK
      <3>2. p \notin Found(events[1].of)
        <4> SUFFICES ASSUME SameId(p, events[1].of)
                     PROVE  FALSE
          BY DEF Found
        <4>1. events[1].of \in Made /\ events[1].of \notin P
          BY <1>5, <2>3
        <4> QED
          BY <1>4, <3>1, <4>1 DEF SameId
      <3> QED
        BY <1>17, <2>3, <3>1, <3>2 DEF Handle, AfterEvent
    <2>7. K # {} => WithId(i)' # {}
      BY <1>0, <1>6, <2>5, <2>6, ParentStays
    <2> QED
      BY <2>2, <2>4, <2>7
  <1>18. ASSUME NEW o \in Objects, RemoveJob(o) \/ MoveTo(o)
         PROVE  /\ OnePlace(K)' /\ Idle(P)'
                /\ K # {} => WithId(i)' # {}
                /\ \A n \in 1 .. Len(events') : events'[n].of \notin P
    <2>1. UNCHANGED <<job, queue, running>> /\ Clear(o) /\ ~job[o].child /\ o \in Made
      BY <1>18 DEF RemoveJob, MoveTo, IInv, TypeOK
    <2>2. job[o].id # i
      BY <1>18 DEF RemoveJob, MoveTo
    <2>3. \A p \in Objects : armed'[p] \subseteq armed[p]
      BY <2>1, Cleared
    <2>4. OnePlace(K)' /\ Idle(P)'
      BY <1>3, <1>4, <2>1, <2>3, TimersLess
    <2>5. ASSUME NEW p \in WithId(i)
          PROVE  p \in memory'
      BY <1>18, <2>2 DEF WithId, RemoveJob, MoveTo, Found, SameId
    <2>6. K \subseteq Made
      BY <1>3, <2>1
    <2>7. K # {} => WithId(i)' # {}
      BY <1>0, <1>6, <2>5, <2>6, ParentStays
    <2>8. UNCHANGED events \/ \E how \in Outcomes : Emit(how, o, FALSE)
      BY <1>18 DEF RemoveJob, MoveTo
    <2>9. o \notin P
      BY <1>4, <2>1, <2>2
    <2>10. \A n \in 1 .. Len(events') : events'[n].of \notin P
      BY <1>5, <2>8, <2>9, EmittedEvent
    <2> QED
      BY <2>4, <2>7, <2>10
  <1>19. CASE Reset
    BY <1>19 DEF Reset
  <1>20. CASE UNCHANGED <<job, memory, queue, running, armed, events>>
    <2>1. K \subseteq Made
      BY <1>3, <1>20
    <2>2. OnePlace(K)' /\ Idle(P)'
      BY <1>3, <1>4, <1>20, TimersLess
    <2> QED
      BY <1>5, <1>8, <1>20, <2>1, <2>2
  <1> QED
    BY <1>5, <1>10, <1>11, <1>12, <1>13, <1>14, <1>15, <1>16, <1>17, <1>18, <1>19, <1>20
       DEF Next, Work, Request, Land, vars

-----------------------------------------------------------------------------
(* The row of a job that callers leave alone.                              *)

LeftAlone == Ids \ (Repeated \cup Unknown \cup readded \cup taken)

\* Of the updates sent for the row and the one it shows, the newest says how the
\* run has ended, unless the row shows an older update than one before it.
Pending(i) == updates[i] # <<>> /\ ~updates[i][Len(updates[i])].late
NewestIs(i) ==
    \/ row[i] = "none" /\ updates[i] = <<>>
    \/ Pending(i) /\ updates[i][Len(updates[i])].status = last[i]
    \/ ~Pending(i) /\ (i \in stale \/ row[i] = last[i])

LateOrder == \A i \in Ids : LateFirst(updates[i])

\* An id that is left alone has one job at a time and the job one run.  Only the
\* job in memory has timers, tasks, runs or events; the report of its run is its
\* last event and the run is over by then.
TellsRun(i) ==
    /\ OnePlace(Own(i))
    /\ Idle(Own(i) \ memory)
    /\ \A n \in 1 .. Len(events) :
           events[n].of \in Own(i) => events[n].of \in memory /\ events[n].tell
    /\ \A n \in 1 .. Len(events) :
           events[n].of \in Own(i) /\ events[n].status \in Outcomes =>
               /\ Idle(Own(i))
               /\ events[n].status = last[i]
               /\ \A m \in 1 .. Len(events) : events[m].of \in Own(i) => m <= n
    /\ i \in calling => WithId(i) = {}
    /\ WithId(i) = {} /\ i \notin calling => NewestIs(i)

RowKept(i) == NewestIs(i) => NewestIs(i)'

LEMMA SameRow ==
    ASSUME NEW i, row'[i] = row[i], updates'[i] = updates[i], i \in stale' <=> i \in stale,
           last'[i] = last[i]
    PROVE  RowKept(i)
  BY DEF RowKept, NewestIs, Pending

\* An update of another row, or none.
LEMMA OtherRow ==
    ASSUME IInv, NEW i \in Ids, NEW j, j # i, Land(j) \/ Request(j) \/ UNCHANGED rowVars
    PROVE  row'[i] = row[i] /\ updates'[i] = updates[i] /\ (i \in stale' <=> i \in stale)
  BY DEF Land, Request, RowWaits, rowVars, IInv, TypeOK

\* Whichever update of the row is carried out next, its newest stays the newest.
LEMMA LandKeepsRow ==
    ASSUME IInv, LateOrder, NEW i \in Ids, Land(i)
    PROVE  RowKept(i)
  <1>1. PICK n \in 1 .. Len(updates[i]) :
            /\ row' = [row EXCEPT ![i] = updates[i][n].status]
            /\ updates' = [updates EXCEPT ![i] = RemoveAt(Late(@, n), n)]
            /\ stale' = IF updates[i][n].late THEN stale \cup {i} ELSE stale \ {i}
    BY DEF Land
  <1>2. PICK s : s = updates[i]
    OBVIOUS
  <1>3. PICK t : t = updates'[i]
    OBVIOUS
  <1>4. s \in Seq(Update) /\ n \in 1 .. Len(s) /\ t = RemoveAt(Late(s, n), n) /\ LateFirst(s)
    BY <1>1, <1>2, <1>3 DEF IInv, TypeOK, LateOrder
  <1>5. row'[i] = s[n].status /\ last'[i] = last[i] /\ (i \in stale' <=> s[n].late)
    BY <1>1, <1>2 DEF IInv, TypeOK, Land
  <1>6. s # <<>> /\ LandedLast(s, n, t)
    <2>1. LandedLast(s, n, RemoveAt(Late(s, n), n))
      BY <1>4, LandedNewest
    <2> QED
      BY <1>4, <2>1
  <1>7. CASE n = Len(s)
    BY <1>2, <1>3, <1>5, <1>6, <1>7 DEF RowKept, NewestIs, Pending, LandedLast
  <1>8. CASE n # Len(s)
    BY <1>2, <1>3, <1>5, <1>6, <1>8 DEF RowKept, NewestIs, Pending, LandedLast
  <1> QED
    BY <1>7, <1>8

\* The update a listener has just sent is the newest.
LEMMA SentIsNewest ==
    ASSUME IInv, NEW i \in Ids, NEW status \in Statuses, SendUpdate(i, status),
           last'[i] = status
    PROVE  NewestIs(i)'
  <1> DEFINE u == [status |-> status, late |-> FALSE]
  <1>1. u \in Update /\ u.status = status /\ ~u.late
    BY DEF Update
  <1> HIDE DEF u
  <1>2. PICK s : s = updates[i]
    OBVIOUS
  <1>3. PICK t : t = updates'[i]
    OBVIOUS
  <1>4. s \in Seq(Update) /\ t = Append(s, u)
    BY <1>2, <1>3 DEF IInv, TypeOK, SendUpdate, u
  <1>5. t \in Seq(Update) /\ Len(t) = Len(s) + 1 /\ t[Len(s) + 1] = u /\ Len(s) \in Nat
    BY <1>1, <1>4, AppendSeq
  <1>6. t # <<>> /\ t[Len(t)] = u
    BY <1>5
  <1> QED
    BY <1>1, <1>3, <1>6 DEF NewestIs, Pending

LEMMA LateOrderKept ==
    ASSUME IInv, LateOrder, [Next]_vars
    PROVE  LateOrder'
  <1> SUFFICES ASSUME NEW i \in Ids
               PROVE  LateFirst(updates'[i])
    BY DEF LateOrder
  <1>1. updates[i] \in Seq(Update) /\ LateFirst(updates[i])
    BY DEF IInv, TypeOK, LateOrder
  <1>2. CASE updates'[i] = updates[i]
    BY <1>1, <1>2
  <1>3. ASSUME NEW j \in Ids, Land(j) \/ Request(j)
        PROVE  LateFirst(updates'[i])
    <2>1. CASE j # i
      BY <1>2, <1>3, <2>1, OtherRow
    <2>2. CASE j = i /\ Land(i)
      <3>1. PICK n \in 1 .. Len(updates[i]) :
                updates'[i] = RemoveAt(Late(updates[i], n), n)
        BY <2>2 DEF Land, IInv, TypeOK
      <3> QED
        BY <1>1, <3>1, LandedOrder
    <2>3. CASE j = i /\ Request(i)
      <3>1. \/ updates'[i] = updates[i]
            \/ updates'[i] = Late(updates[i], Len(updates[i]) + 1)
        BY <2>3 DEF Request, RowWaits, rowVars, IInv, TypeOK
      <3>2. LateFirst(Late(updates[i], Len(updates[i]) + 1))
        BY <1>1, SentOrder
      <3> QED
        BY <1>1, <3>1, <3>2
    <2> QED
      BY <1>3, <2>1, <2>2, <2>3
  <1>4. CASE Handle
    <2>1. PICK e : e = Head(events)
      OBVIOUS
    <2>2. e.status \in Statuses
      BY <1>4, <2>1, HandledEvent DEF Event
    <2>3. ASSUME NEW j, SendUpdate(j, e.status)
          PROVE  LateFirst(updates'[i])
      <3>1. \/ updates'[i] = updates[i]
            \/ updates'[i] = Append(updates[i], [status |-> e.status, late |-> FALSE])
        BY <2>3 DEF SendUpdate, IInv, TypeOK
      <3>2. LateFirst(Append(updates[i], [status |-> e.status, late |-> FALSE]))
        BY <1>1, <2>2, SentOrder
      <3> QED
        BY <1>1, <3>1, <3>2
    <2>4. UNCHANGED updates \/ \E j : SendUpdate(j, e.status)
      BY <1>4, <2>1 DEF Handle, Told
    <2> QED
      BY <1>2, <2>3, <2>4
  <1>5. CASE UNCHANGED rowVars
    BY <1>2, <1>5 DEF rowVars
  <1> QED
    BY <1>3, <1>4, <1>5
       DEF Next, Work, AddNow, AddDelayed, AddRepeated, Fire, StartRun, StartNext, EndRun,
           RemoveJob, MoveTo, Reset, vars

LEMMA IdleSubset ==
    ASSUME IInv, NEW K \in SUBSET Objects, NEW L \in SUBSET Objects,
           \A o \in Made : o \in L => o \in K, Idle(K)
    PROVE  Idle(L)
  <1>1. \A o \in Objects : armed[o] # {} => o \in Made
    BY DEF IInv, Refer
  <1>2. \A n \in 1 .. Len(queue) : queue[n].of \in Made
    BY DEF IInv, Refer
  <1>3. \A n \in 1 .. Len(running) : running[n] \in Made
    BY DEF IInv, Refer
  <1>4. ~Waits(L)
    BY <1>1 DEF Idle, Waits
  <1>5. ~Listed(L)
    BY <1>2 DEF Idle, Listed, Has, TasksOf
  <1>6. ~Runs(L)
    BY <1>3 DEF Idle, Runs, Has
  <1> QED
    BY <1>4, <1>5, <1>6 DEF Idle

\* A step that leaves the events, the row and the memory of the id alone, and adds
\* no place to an object of the id.
LEMMA TellsKept ==
    ASSUME IInv, IInv', Stable, NEW i, TellsRun(i), NEW L, L = Own(i)',
           \A o \in L : o \in memory' <=> o \in memory,
           OnePlace(L)', Idle(L) => Idle(L)', NEW Q, Q = (Own(i) \ memory)', Idle(Q)',
           RowKept(i), last'[i] = last[i], i \in calling' <=> i \in calling,
           \A n \in 1 .. Len(events') : events'[n].of \in L =>
               n \in 1 .. Len(events) /\ events'[n] = events[n]
    PROVE  TellsRun(i)'
  <1>1. memory \subseteq Made /\ memory' \subseteq Made' /\ Made \subseteq Made'
    BY MadeGrows DEF IInv, TypeOK
  <1>2. /\ L \subseteq Made'
        /\ \A o \in Made' : o \in L <=> job'[o].id = i /\ ~job'[o].child
        /\ \A o \in Made : o \in L <=> job[o].id = i /\ ~job[o].child
        /\ \A o \in Made : o \in L <=> o \in Own(i)
        /\ Idle(Own(i)) => Idle(L)
        /\ Idle(L)' => Idle(Own(i))'
        /\ OnePlace(L)' => OnePlace(Own(i))'
    BY OwnAfter
  <1>3. Idle(Own(i) \ memory)'
    BY DEF Idle, Waits, Listed, Runs, Has, TasksOf
  <1>4. WithId(i) = {} <=> WithId(i)' = {}
    <2>1. \A o : o \in WithId(i) <=> o \in memory /\ o \in L
      BY <1>1, <1>2 DEF WithId
    <2>2. \A o : o \in WithId(i)' <=> o \in memory' /\ o \in L
      BY <1>1, <1>2 DEF WithId
    <2> QED
      BY <2>1, <2>2
  <1>5. ASSUME NEW n \in 1 .. Len(events'), events'[n].of \in L
        PROVE  /\ n \in 1 .. Len(events) /\ events'[n] = events[n]
               /\ events[n].of \in Own(i)
    <2>1. n \in 1 .. Len(events) /\ events'[n] = events[n]
      BY <1>5
    <2>2. events[n].of \in Made
      BY <2>1 DEF IInv, Refer
    <2> QED
      BY <1>2, <1>5, <2>1, <2>2
  <1>6. \A n \in 1 .. Len(events') :
            events'[n].of \in L => events'[n].of \in memory' /\ events'[n].tell
    BY <1>5 DEF TellsRun
  <1>7. ASSUME NEW n \in 1 .. Len(events'), events'[n].of \in L, events'[n].status \in Outcomes
        PROVE  /\ Idle(L)'
               /\ events'[n].status = last'[i]
               /\ \A m \in 1 .. Len(events') : events'[m].of \in L => m <= n
    <2>1. n \in 1 .. Len(events) /\ events'[n] = events[n] /\ events[n].of \in Own(i)
      BY <1>5, <1>7
    <2>2. Idle(Own(i)) /\ events[n].status = last[i]
      BY <1>7, <2>1 DEF TellsRun
    <2>3. \A m \in 1 .. Len(events) : events[m].of \in Own(i) => m <= n
      BY <1>7, <2>1 DEF TellsRun
    <2>4. \A m \in 1 .. Len(events') : events'[m].of \in L => m <= n
      BY <1>5, <2>3
    <2> QED
      BY <1>2, <2>1, <2>2, <2>4
  <1> QED
    BY <1>2, <1>3, <1>4, <1>6, <1>7 DEF TellsRun, RowKept

LEMMA TellsStep ==
    ASSUME IInv, IInv', LateOrder, Kinds, [Next]_vars, NEW i \in LeftAlone, i \in LeftAlone',
           TellsRun(i)
    PROVE  TellsRun(i)'
  <1>0. Stable /\ i \in Ids /\ i \notin Repeated /\ i \notin Unknown /\ i \notin readded'
        /\ i \notin taken'
    BY StepStable DEF LeftAlone
  <1>1. PICK L : L = Own(i)'
    OBVIOUS
  <1>2. PICK Q : Q = (Own(i) \ memory)'
    OBVIOUS
  <1>3. /\ L \in SUBSET Objects /\ L \subseteq Made' /\ OnePlace(L)
        /\ \A o \in Made' : o \in L <=> job'[o].id = i /\ ~job'[o].child
        /\ \A o \in Made : o \in L <=> job[o].id = i /\ ~job[o].child
        /\ \A o \in Made : o \in L <=> o \in Own(i)
        /\ Idle(Own(i)) => Idle(L)
        /\ Idle(L)' => Idle(Own(i))'
        /\ OnePlace(L)' => OnePlace(Own(i))'
    BY <1>0, <1>1, OwnAfter DEF TellsRun
  <1>4. /\ Q \in SUBSET Objects
        /\ \A o : o \in Q <=> o \in L /\ o \notin memory'
        /\ Idle(Q)' => Idle(Own(i) \ memory)'
    <2>1. Idle(Q)' => Idle(Own(i) \ memory)'
      BY <1>2 DEF Idle, Waits, Listed, Runs, Has, TasksOf
    <2> QED
      BY <1>1, <1>2, <1>3, <2>1
  <1>5. memory \subseteq Made /\ memory' \subseteq Made' /\ Made \subseteq Made'
        /\ Made' \subseteq Objects
    BY <1>0, MadeGrows DEF IInv, TypeOK
  <1>6. /\ \A o : o \in WithId(i) <=> o \in memory /\ o \in L
        /\ \A o : o \in WithId(i)' <=> o \in memory' /\ o \in L
    BY <1>3, <1>5 DEF WithId
  <1>7. \A n \in 1 .. Len(events) :
            /\ events[n].of \in Made
            /\ events[n].of \in L <=> events[n].of \in Own(i)
    BY <1>3 DEF IInv, Refer
  <1>8. ASSUME \A o \in L : o \in memory => o \in memory'
        PROVE  Idle(Q)
    <2>1. PICK K : K = Own(i) \ memory
      OBVIOUS
    <2>2. K \in SUBSET Objects /\ Idle(K)
      BY <1>5, <2>1 DEF Own, TellsRun
    <2>3. \A o \in Made : o \in Q => o \in K
      BY <1>3, <1>4, <1>8, <2>1
    <2> QED
      BY <1>4, <2>2, <2>3, IdleSubset
  \* A step that adds no place and no event to the id.
  <1>9. ASSUME \A o \in L : o \in memory' <=> o \in memory,
               OnePlace(L) => OnePlace(L)', Idle(L) => Idle(L)', Idle(Q) => Idle(Q)',
               UNCHANGED rowVars \/ RowKept(i), last'[i] = last[i],
               i \in calling' <=> i \in calling,
               UNCHANGED events \/ \E o \in Objects \ L :
                   \E status \in {"active"} \cup Outcomes : \E tell \in BOOLEAN :
                       Emit(status, o, tell)
        PROVE  TellsRun(i)'
    <2>1. \A n \in 1 .. Len(events') : events'[n].of \in L =>
              n \in 1 .. Len(events) /\ events'[n] = events[n]
      <3>1. CASE UNCHANGED events
        BY <3>1
      <3>2. ASSUME NEW o \in Objects \ L, NEW status \in {"active"} \cup Outcomes,
                   NEW tell \in BOOLEAN, Emit(status, o, tell)
            PROVE  \A n \in 1 .. Len(events') : events'[n].of \in L =>
                       n \in 1 .. Len(events) /\ events'[n] = events[n]
        BY <3>2, EmittedEvent
      <3> QED
        BY <1>9, <3>1, <3>2
    <2>2. OnePlace(L)' /\ Idle(Q)'
      BY <1>3, <1>8, <1>9
    <2>3. RowKept(i)
      BY <1>9, SameRow DEF rowVars
    <2> QED
      BY <1>0, <1>1, <1>2, <1>9, <2>1, <2>2, <2>3, TellsKept
  \* An add of the id: until then nothing is under way for it.
  <1>10. ASSUME i \in calling, NEW o \in Objects, Take(i, o)
         PROVE  /\ Idle(L) /\ Idle(Q) /\ o \in L /\ o \notin Q /\ o \in memory'
                /\ \A n \in 1 .. Len(events) : events[n].of \notin L
    <2>1. WithId(i) = {}
      BY <1>10 DEF TellsRun
    <2>2. Own(i) \ memory = Own(i)
      BY <2>1 DEF WithId, Own
    <2>3. Idle(L) /\ Idle(Q)
      BY <1>3, <1>6, <1>8, <2>1, <2>2 DEF TellsRun
    <2>4. o \in L /\ o \in memory'
      BY <1>0, <1>3, <1>10, TakeOwn
    <2>5. \A n \in 1 .. Len(events) : events[n].of \notin L
      BY <1>6, <1>7, <2>1 DEF TellsRun
    <2> QED
      BY <1>4, <2>3, <2>4, <2>5
  <1>11. ASSUME i \in calling, i \notin calling', NEW o \in Objects, Take(i, o),
                OnePlace(L)', Idle(Q)', UNCHANGED events
         PROVE  TellsRun(i)'
    <2>1. o \in WithId(i)' /\ \A n \in 1 .. Len(events) : events[n].of \notin L
      BY <1>6, <1>10, <1>11
    <2> QED
      BY <1>1, <1>3, <1>4, <1>11, <2>1 DEF TellsRun
  <1>12. ASSUME NEW j \in Ids, j # i, NEW o \in Objects, Take(j, o)
         PROVE  o \notin L /\ o \notin Q /\ \A p \in L : p \in memory' <=> p \in memory
    BY <1>3, <1>4, <1>12, TakeOwn
  <1>13. ASSUME NEW j \in Ids, AddNow(j)
         PROVE  TellsRun(i)'
    <2>1. PICK o \in Objects : Take(j, o) /\ Enqueue("run", o)
      BY <1>13 DEF AddNow
    <2>2. UNCHANGED <<running, armed, events, rowVars, last>> /\ j \in calling
          /\ calling' = calling \ {j}
      BY <1>13 DEF AddNow, Called
    <2>3. CASE j = i
      <3>1. Idle(L) /\ Idle(Q) /\ o \in L /\ o \notin Q
        BY <1>10, <2>1, <2>2, <2>3
      <3>2. OnePlace(L)' /\ Idle(Q)'
        BY <1>3, <1>4, <2>1, <2>2, <3>1, TaskMore
      <3> QED
        BY <1>11, <2>1, <2>2, <2>3, <3>2
    <2>4. CASE j # i
      <3>1. o \notin L /\ o \notin Q /\ \A p \in L : p \in memory' <=> p \in memory
        BY <1>12, <2>1, <2>4
      <3>2. (OnePlace(L) => OnePlace(L)') /\ (Idle(L) => Idle(L)') /\ (Idle(Q) => Idle(Q)')
        BY <1>3, <1>4, <2>1, <2>2, <3>1, TaskMore
      <3> QED
        BY <1>9, <2>2, <2>4, <3>1, <3>2
    <2> QED
      BY <2>3, <2>4
  <1>14. ASSUME NEW j \in Ids, AddDelayed(j)
         PROVE  TellsRun(i)'
    <2>1. PICK o \in Objects : Take(j, o) /\ armed' = [armed EXCEPT ![o] = @ \cup {timers'}]
      BY <1>14 DEF AddDelayed
    <2>2. UNCHANGED <<queue, running, events, rowVars, last>> /\ j \in calling
          /\ calling' = calling \ {j}
      BY <1>14 DEF AddDelayed, Called
    <2>3. /\ armed'[o] = armed[o] \cup {timers'}
          /\ \A p \in Objects \ {o} : armed'[p] = armed[p]
      BY <2>1 DEF IInv, TypeOK
    <2>4. CASE j = i
      <3>1. Idle(L) /\ Idle(Q) /\ o \in L /\ o \notin Q
        BY <1>10, <2>1, <2>2, <2>4
      <3>2. armed'[o] = {timers'}
        BY <2>3, <3>1 DEF Idle, Waits
      <3>3. OnePlace(L)' /\ Idle(Q)'
        BY <1>3, <1>4, <2>2, <2>3, <3>1, <3>2, TimerMore
      <3> QED
        BY <1>11, <2>1, <2>2, <2>4, <3>3
    <2>5. CASE j # i
      <3>1. o \notin L /\ o \notin Q /\ \A p \in L : p \in memory' <=> p \in memory
        BY <1>12, <2>1, <2>5
      <3>2. (OnePlace(L) => OnePlace(L)') /\ (Idle(L) => Idle(L)') /\ (Idle(Q) => Idle(Q)')
        BY <1>3, <1>4, <2>2, <2>3, <3>1, TimerMore
      <3> QED
        BY <1>9, <2>2, <2>5, <3>1, <3>2
    <2> QED
      BY <2>4, <2>5
  <1>15. ASSUME NEW j \in Ids, AddRepeated(j)
         PROVE  TellsRun(i)'
    <2>1. /\ UNCHANGED <<queue, running, events, rowVars, last>>
          /\ j # i /\ calling' = calling \ {j}
      BY <1>0, <1>15 DEF AddRepeated, Called
    <2>2. CASE UNCHANGED <<job, memory, armed>>
      <3>1. (OnePlace(L) => OnePlace(L)') /\ (Idle(L) => Idle(L)') /\ (Idle(Q) => Idle(Q)')
        BY <1>3, <1>4, <2>1, <2>2, TimersLess
      <3> QED
        BY <1>9, <2>1, <2>2, <3>1
    <2>3. CASE /\ New + 1 \in Objects
               /\ job' = job \o <<NewJob(j, FALSE), NewJob(j, TRUE)>>
               /\ memory' = memory \cup {New} /\ Schedule(New + 1)
      <3>1. Len(job') = New + 1 /\ job'[New].id = j /\ job'[New + 1].id = j
        <4>1. TypeOK /\ New + 1 \in Objects /\ job' = job \o <<NewJob(j, FALSE), NewJob(j, TRUE)>>
          BY <2>3 DEF IInv
        <4> QED
          BY <4>1, RepeatedJobs
      <3>2. New \in Made' /\ New + 1 \in Made'
        <4>1. Len(job) \in Nat
          BY DEF IInv, TypeOK
        <4> QED
          BY <3>1, <4>1
      <3>3. New \notin L /\ New + 1 \notin L /\ New + 1 \notin Q
        BY <1>3, <1>4, <2>1, <3>1, <3>2
      <3>4. \A o \in Objects \ {New + 1} : armed'[o] = armed[o]
        BY <2>3 DEF Schedule, IInv, TypeOK
      <3>5. (OnePlace(L) => OnePlace(L)') /\ (Idle(L) => Idle(L)') /\ (Idle(Q) => Idle(Q)')
        BY <1>3, <1>4, <2>1, <2>3, <3>3, <3>4, TimerMore
      <3>6. \A p \in L : p \in memory' <=> p \in memory
        BY <2>3, <3>3
      <3> QED
        BY <1>9, <2>1, <3>5, <3>6
    <2> QED
      BY <1>15, <2>2, <2>3 DEF AddRepeated
  <1>16. ASSUME NEW o \in Objects, Fire(o)
         PROVE  TellsRun(i)'
    <2>1. UNCHANGED <<job, events, calling, rowVars, last>> /\ o \in Made
      BY <1>16 DEF Fire, IInv, Refer
    <2>2. \A p \in L : p \in memory' <=> p \in memory
      BY <1>3, <1>16, <2>1 DEF Fire
    <2>3. (OnePlace(L) => OnePlace(L)') /\ (Idle(L) => Idle(L)') /\ (Idle(Q) => Idle(Q)')
      BY <1>3, <1>4, <1>16, FirePlace
    <2> QED
      BY <1>9, <2>1, <2>2, <2>3
  <1>17. CASE StartRun
    <2>0. PICK o : o = Head(queue).of
      OBVIOUS
    <2>1. UNCHANGED <<job, memory, calling, rowVars, last>> /\ CanStart("run")
          /\ Emit("active", o, TRUE)
      BY <1>17, <2>0 DEF StartRun
    <2>2. /\ OnePlace(L) => OnePlace(L)'
          /\ Idle(L) => Idle(L)' /\ o \notin L
          /\ Idle(Q) => Idle(Q)' /\ o \notin Q
      BY <1>3, <1>4, <1>17, <2>0, StartRunPlace
    <2>3. o \in Made /\ o \in Objects
      BY <1>5, <2>0, <2>1, Dequeued
    <2>4. CASE o \notin L
      <3>1. \E p \in Objects \ L : \E status \in {"active"} \cup Outcomes :
                \E tell \in BOOLEAN : Emit(status, p, tell)
        BY <2>1, <2>3, <2>4
      <3> QED
        BY <1>9, <2>1, <2>2, <3>1
    <2>5. CASE o \in L
      <3>1. OnePlace(L)' /\ Idle(Q)' /\ o \in memory
        BY <1>3, <1>4, <1>8, <2>1, <2>2, <2>5
      <3>2. /\ Len(events) \in Nat /\ Len(events') = Len(events) + 1
            /\ \A n \in 1 .. Len(events) : events'[n] = events[n]
            /\ \A n \in 1 .. Len(events') : n \in 1 .. Len(events) \/ n = Len(events) + 1
            /\ events'[Len(events) + 1].of = o
            /\ events'[Len(events) + 1].status = "active"
            /\ events'[Len(events) + 1].tell
        BY <2>1, <2>3, EmittedEvent
      <3>3. \A n \in 1 .. Len(events) : events[n].of \in L => events[n].status \notin Outcomes
        BY <1>3, <1>7, <2>2, <2>5 DEF TellsRun
      <3>4. \A n \in 1 .. Len(events') : events'[n].of \in L => events'[n].status \notin Outcomes
        BY <3>2, <3>3
      <3>5. \A n \in 1 .. Len(events') :
                events'[n].of \in L => events'[n].of \in memory' /\ events'[n].tell
        BY <1>7, <2>1, <3>1, <3>2 DEF TellsRun
      <3>6. WithId(i)' = WithId(i) /\ o \in WithId(i)
        BY <1>6, <2>1, <2>5, <3>1
      <3> QED
        BY <1>1, <1>3, <1>4, <2>1, <3>1, <3>4, <3>5, <3>6 DEF TellsRun
    <2> QED
      BY <2>4, <2>5
  <1>18. CASE StartNext
    <2> DEFINE o == Head(queue).of
    <2>1. UNCHANGED <<memory, events, calling, rowVars, last>> /\ CanStart("next")
      BY <1>18 DEF StartNext
    <2>2. o \in Made
      BY <2>1, Dequeued
    <2>3. New \notin L
      <3>1. CASE UNCHANGED job
        <4>1. New \notin Made /\ Made' = Made
          <5>1. Len(job) \in Nat
            BY DEF IInv, TypeOK
          <5> QED
            BY <3>1, <5>1
        <4> QED
          BY <1>3, <4>1
      <3>2. CASE New \in Objects /\ job' = Append(job, NewJob(job[o].id, TRUE))
        <4>1. job[o].id \in Ids
          BY <2>1, <2>2, StartedTask DEF Kinds
        <4>2. Len(job') = New /\ job'[New] = NewJob(job[o].id, TRUE)
          BY <3>2, <4>1, AppendJob DEF IInv
        <4>3. New \in Made'
          <5>1. Len(job) \in Nat
            BY DEF IInv, TypeOK
          <5> QED
            BY <4>2, <5>1
        <4>4. job'[New].child
          BY <4>2 DEF NewJob
        <4> QED
          BY <1>3, <4>3, <4>4
      <3> QED
        BY <1>18, <3>1, <3>2 DEF StartNext, Spare
    <2>4. (OnePlace(L) => OnePlace(L)') /\ (Idle(L) => Idle(L)') /\ (Idle(Q) => Idle(Q)')
      BY <1>3, <1>4, <1>18, <2>3, StartNextPlace
    <2> QED
      BY <1>9, <2>1, <2>4
  <1>19. ASSUME NEW n \in 1 .. Len(running), EndRun(n)
         PROVE  TellsRun(i)'
    <2>0. PICK o : o = running[n]
      OBVIOUS
    <2>1. UNCHANGED <<job, memory, calling, rowVars>>
      BY <1>19 DEF EndRun
    <2>2. o \in Made /\ o \in Objects
      BY <1>5, <2>0 DEF IInv, Refer
    <2>3. /\ OnePlace(L) => OnePlace(L)'
          /\ Idle(L) => Idle(L)' /\ o \notin L
          /\ Idle(Q) => Idle(Q)' /\ o \notin Q
          /\ OnePlace(L) /\ o \in L /\ ~job[o].child => Idle(L)'
      BY <1>3, <1>4, <1>19, <2>0, EndRunPlace
    <2>4. \/ job[o].id \in Unknown /\ UNCHANGED <<events, last>>
          \/ \E how \in Outcomes :
                /\ Emit(how, o, TRUE) /\ last' = [last EXCEPT ![job[o].id] = how]
      BY <1>19, <2>0 DEF EndRun
    <2>5. CASE o \notin L
      <3>1. job[o].id # i \/ job[o].id \in Repeated
        BY <1>3, <2>2, <2>5 DEF Kinds
      <3>2. last'[i] = last[i]
        BY <1>0, <2>4, <3>1 DEF IInv, TypeOK
      <3>3. UNCHANGED events \/ \E p \in Objects \ L :
                \E status \in {"active"} \cup Outcomes : \E tell \in BOOLEAN :
                    Emit(status, p, tell)
        BY <2>2, <2>4, <2>5
      <3> QED
        BY <1>9, <2>1, <2>3, <3>2, <3>3
    <2>6. CASE o \in L
      <3>1. job[o].id = i /\ ~job[o].child
        BY <1>3, <2>2, <2>6
      <3>2. PICK how \in Outcomes :
                Emit(how, o, TRUE) /\ last' = [last EXCEPT ![i] = how]
        BY <1>0, <2>4, <3>1
      <3>3. last'[i] = how
        BY <1>0, <3>2 DEF IInv, TypeOK
      <3>4. OnePlace(L)' /\ Idle(Q)' /\ Idle(L)' /\ o \in memory
        BY <1>3, <1>4, <1>8, <2>1, <2>3, <2>6, <3>1
      <3>5. /\ Len(events) \in Nat /\ Len(events') = Len(events) + 1
            /\ \A m \in 1 .. Len(events) : events'[m] = events[m]
            /\ \A m \in 1 .. Len(events') : m \in 1 .. Len(events) \/ m = Len(events) + 1
            /\ events'[Len(events) + 1].of = o
            /\ events'[Len(events) + 1].status = how
            /\ events'[Len(events) + 1].tell
        BY <2>2, <3>2, EmittedEvent
      <3>6. \A m \in 1 .. Len(events) : events[m].of \in L => events[m].status \notin Outcomes
        BY <1>3, <1>7, <2>3, <2>6 DEF TellsRun
      <3>7. ASSUME NEW m \in 1 .. Len(events'), events'[m].of \in L, events'[m].status \in Outcomes
            PROVE  /\ events'[m].status = last'[i]
                   /\ \A k \in 1 .. Len(events') : k <= m
        <4>1. m = Len(events) + 1
          BY <3>5, <3>6, <3>7
        <4>2. \A k \in 1 .. Len(events') : k <= m
          BY <3>5, <4>1
        <4> QED
          BY <3>3, <3>5, <4>1, <4>2
      <3>8. \A m \in 1 .. Len(events') :
                events'[m].of \in L => events'[m].of \in memory' /\ events'[m].tell
        BY <1>7, <2>1, <3>4, <3>5 DEF TellsRun
      <3>9. WithId(i)' = WithId(i) /\ o \in WithId(i)
        BY <1>6, <2>1, <2>6, <3>4
      <3> QED
        BY <1>1, <1>3, <1>4, <2>1, <3>4, <3>7, <3>8, <3>9 DEF TellsRun
    <2> QED
      BY <2>5, <2>6
  <1>20. CASE Handle
    <2>0. PICK e : e = events[1]
      OBVIOUS
    <2>1. /\ 1 \in 1 .. Len(events) /\ Head(events) = e /\ e \in Event
          /\ \A n \in 1 .. Len(events') : n + 1 \in 1 .. Len(events) /\ events'[n] = events[n + 1]
      BY <1>20, <2>0, HandledEvent
    <2>2. UNCHANGED <<queue, running, armed, calling, last, row, stale>>
      BY <1>20 DEF Handle
    <2>3. /\ OnePlace(L)' /\ (Idle(L) => Idle(L)') /\ (Idle(Q) => Idle(Q)')
      BY <1>3, <1>4, <2>2, TimersLess
    <2>4. \/ Found(e.of) = {} /\ UNCHANGED <<memory, updates>>
          \/ \E p \in Found(e.of) : Told(e, p) /\ memory' = AfterEvent(e, p)
      BY <1>20, <2>1 DEF Handle
    <2>5. \A p \in Found(e.of) : p \in memory /\ SameId(p, e.of)
      BY DEF Found
    <2>6. e.of \in Made /\ (e.of \in L <=> e.of \in Own(i))
      BY <1>7, <2>0, <2>1
    \* The events that stay have kept their order.
    <2>7. \A n, m \in 1 .. Len(events') : m + 1 <= n + 1 => m <= n
      BY <2>1
    <2>8. ASSUME NEW n \in 1 .. Len(events'), events'[n].of \in L
          PROVE  /\ events[n + 1].of \in Own(i) /\ events'[n] = events[n + 1]
                 /\ n + 1 \in 1 .. Len(events) /\ n + 1 # 1 /\ ~(n + 1 <= 1)
      <3>1. n + 1 # 1 /\ ~(n + 1 <= 1)
        OBVIOUS
      <3> QED
        BY <1>7, <2>1, <2>8, <3>1
    <2>9. CASE e.of \in L
      <3>1. e.of \in memory /\ e.tell
        BY <2>0, <2>1, <2>6, <2>9 DEF TellsRun
      <3>2. job[e.of].id = i /\ ~job[e.of].child
        BY <1>3, <2>6, <2>9
      <3>3. /\ e.of \in Found(e.of)
            /\ \A p \in Found(e.of) : p = e.of
        BY <2>5, <3>1 DEF Found, SameId, IInv, UniqueIds
      <3>4. SendUpdate(i, e.status) /\ memory' = AfterEvent(e, e.of)
        BY <2>4, <3>1, <3>2, <3>3 DEF Told
      <3>5. e.status = last[i] => NewestIs(i)'
        <4>1. e.status \in Statuses
          BY <2>1 DEF Event
        <4> QED
          BY <1>0, <2>2, <3>4, <4>1, SentIsNewest
      <3>6. CASE e.status \in Outcomes
        <4>1. /\ Idle(L) /\ e.status = last[i]
              /\ \A m \in 1 .. Len(events) : events[m].of \in Own(i) => m <= 1
          BY <1>3, <2>0, <2>1, <2>6, <2>9, <3>6 DEF TellsRun
        <4>2. \A n \in 1 .. Len(events') : events'[n].of \notin L
          BY <2>8, <4>1
        <4>3. WithId(i)' = {}
          <5>1. ASSUME NEW q \in L, q \in memory
                PROVE  q = e.of
            <6>1. SameId(q, e.of)
              BY <1>3, <1>5, <3>2, <5>1 DEF SameId
            <6> QED
              BY <3>1, <5>1, <6>1 DEF IInv, UniqueIds
          <5>2. memory' = memory \ {e.of}
            BY <3>4, <3>6 DEF AfterEvent
          <5> QED
            BY <1>6, <5>1, <5>2
        <4>4. Idle(Q)'
          <5>1. \A o \in Made : o \in Q => o \in L
            BY <1>4
          <5> QED
            BY <1>3, <1>4, <2>3, <4>1, <5>1, IdleSubset
        <4> QED
          BY <1>1, <1>3, <1>4, <2>2, <2>3, <3>5, <4>1, <4>2, <4>3, <4>4 DEF TellsRun
      <3>7. CASE e.status \notin Outcomes
        <4>1. memory' = memory
          BY <3>4, <3>7 DEF AfterEvent
        <4>2. WithId(i)' = WithId(i) /\ e.of \in WithId(i)
          BY <1>6, <2>9, <3>1, <4>1
        <4>3. Idle(Q)'
          BY <1>8, <2>3, <4>1
        <4>4. \A n \in 1 .. Len(events') :
                  events'[n].of \in L => events'[n].of \in memory' /\ events'[n].tell
          BY <2>8, <4>1 DEF TellsRun
        <4>5. ASSUME NEW n \in 1 .. Len(events'), events'[n].of \in L,
                    events'[n].status \in Outcomes
              PROVE  /\ Idle(L)' /\ events'[n].status = last'[i]
                     /\ \A m \in 1 .. Len(events') : events'[m].of \in L => m <= n
          <5>1. /\ Idle(Own(i)) /\ events[n + 1].status = last[i]
                /\ \A m \in 1 .. Len(events) : events[m].of \in Own(i) => m <= n + 1
            BY <2>8, <4>5 DEF TellsRun
          <5>2. \A m \in 1 .. Len(events') : events'[m].of \in L => m <= n
            BY <2>7, <2>8, <5>1
          <5> QED
            BY <1>3, <2>2, <2>3, <2>8, <4>5, <5>1, <5>2
        <4> QED
          BY <1>1, <1>3, <1>4, <2>2, <2>3, <4>2, <4>3, <4>4, <4>5 DEF TellsRun
      <3> QED
        BY <3>6, <3>7
    <2>10. CASE e.of \notin L
      <3>1. ASSUME NEW p \in Found(e.of)
            PROVE  p \notin L
        <4> SUFFICES ASSUME p \in L
                     PROVE  FALSE
          OBVIOUS
        <4>1. job[p].id = i /\ ~job[p].child /\ SameId(p, e.of)
          BY <1>3, <1>5, <2>5
        <4>2. job[e.of].id = i /\ (job[e.of].child => p = e.of)
          BY <4>1 DEF SameId
        <4> QED
          BY <1>3, <2>6, <2>10, <4>1, <4>2
      <3>2. \A p \in L : p \in memory' <=> p \in memory
        BY <2>4, <3>1 DEF AfterEvent
      <3>3. RowKept(i)
        <4>1. CASE UNCHANGED updates
          BY <2>2, <4>1, SameRow
        <4>2. ASSUME NEW p \in Found(e.of), Told(e, p)
              PROVE  RowKept(i)
          <5>1. job[p].child \/ job[p].id # i
            BY <1>3, <1>5, <2>5, <3>1
          <5>2. updates'[i] = updates[i]
            BY <1>0, <4>2, <5>1 DEF Told, SendUpdate, IInv, TypeOK
          <5> QED
            BY <2>2, <5>2, SameRow
        <4> QED
          BY <2>4, <4>1, <4>2
      <3>4. WithId(i)' = WithId(i)
        BY <1>6, <3>2
      <3>5. Idle(Q)'
        BY <1>8, <2>3, <3>2
      <3>6. \A n \in 1 .. Len(events') :
                events'[n].of \in L => events'[n].of \in memory' /\ events'[n].tell
        BY <2>8, <3>2 DEF TellsRun
      <3>7. ASSUME NEW n \in 1 .. Len(events'), events'[n].of \in L, events'[n].status \in Outcomes
            PROVE  /\ Idle(L)' /\ events'[n].status = last'[i]
                   /\ \A m \in 1 .. Len(events') : events'[m].of \in L => m <= n
        <4>1. /\ Idle(Own(i)) /\ events[n + 1].status = last[i]
              /\ \A m \in 1 .. Len(events) : events[m].of \in Own(i) => m <= n + 1
          BY <2>8, <3>7 DEF TellsRun
        <4>2. \A m \in 1 .. Len(events') : events'[m].of \in L => m <= n
          BY <2>7, <2>8, <4>1
        <4> QED
          BY <1>3, <2>2, <2>3, <2>8, <3>7, <4>1, <4>2
      <3> QED
        BY <1>1, <1>3, <1>4, <2>2, <2>3, <3>3, <3>4, <3>5, <3>6, <3>7
           DEF TellsRun, RowKept
    <2> QED
      BY <2>9, <2>10
  <1>21. ASSUME NEW j \in Ids, Request(j)
         PROVE  TellsRun(i)'
    <2>1. /\ UNCHANGED <<job, memory, queue, running, armed, events, last>>
          /\ calling' = calling \cup {j}
      BY <1>21 DEF Request
    <2>2. (OnePlace(L) => OnePlace(L)') /\ (Idle(L) => Idle(L)') /\ (Idle(Q) => Idle(Q)')
      BY <1>3, <1>4, <2>1, TimersLess
    <2>3. CASE j # i
      <3>1. RowKept(i)
        <4>1. row'[i] = row[i] /\ updates'[i] = updates[i] /\ (i \in stale' <=> i \in stale)
          BY <1>0, <1>21, <2>3, OtherRow
        <4> QED
          BY <2>1, <4>1, SameRow
      <3> QED
        BY <1>9, <2>1, <2>2, <2>3, <3>1
    <2>4. CASE j = i
      <3>1. WithId(i) = {}
        BY <1>0, <1>21, <2>4 DEF Request
      <3>2. WithId(i)' = {} /\ i \in calling'
        BY <1>6, <2>1, <2>4, <3>1
      <3>3. OnePlace(L)' /\ Idle(Q)'
        BY <1>3, <1>8, <2>1, <2>2
      <3>4. \A n \in 1 .. Len(events) : events[n].of \notin L
        BY <1>6, <1>7, <3>1 DEF TellsRun
      <3> QED
        BY <1>1, <1>3, <1>4, <2>1, <3>2, <3>3, <3>4 DEF TellsRun
    <2> QED
      BY <2>3, <2>4
  <1>22. ASSUME NEW o \in Objects, RemoveJob(o) \/ MoveTo(o)
         PROVE  TellsRun(i)'
    <2>1. /\ UNCHANGED <<job, queue, running, calling, rowVars, last>>
          /\ Clear(o) /\ ~job[o].child /\ o \in Made
      BY <1>22 DEF RemoveJob, MoveTo, IInv, TypeOK
    <2>2. job[o].id # i
      BY <1>0, <1>22 DEF RemoveJob, MoveTo
    <2>3. \A p \in Objects : armed'[p] \subseteq armed[p]
      BY <2>1, Cleared
    <2>4. (OnePlace(L) => OnePlace(L)') /\ (Idle(L) => Idle(L)') /\ (Idle(Q) => Idle(Q)')
      BY <1>3, <1>4, <2>1, <2>3, TimersLess
    <2>5. o \notin L
      BY <1>3, <2>1, <2>2
    <2>6. \A p \in L : p \in memory' <=> p \in memory
      <3>1. \A p \in memory : p \in L => job[p].id = i
        BY <1>3, <1>5
      <3> QED
        BY <1>22, <2>2, <3>1 DEF RemoveJob, MoveTo, Found, SameId
    <2>7. UNCHANGED events \/ \E p \in Objects \ L :
              \E status \in {"active"} \cup Outcomes : \E tell \in BOOLEAN :
                  Emit(status, p, tell)
      BY <1>22, <2>5 DEF RemoveJob, MoveTo
    <2> QED
      BY <1>9, <2>1, <2>4, <2>6, <2>7
  <1>23. CASE Reset
    BY <1>0, <1>23 DEF Reset
  <1>24. CASE UNCHANGED vars
    <2>1. UNCHANGED <<job, memory, queue, running, armed, events, calling, rowVars, last>>
      BY <1>24 DEF vars
    <2>2. (OnePlace(L) => OnePlace(L)') /\ (Idle(L) => Idle(L)') /\ (Idle(Q) => Idle(Q)')
      BY <1>3, <1>4, <2>1, TimersLess
    <2> QED
      BY <1>9, <2>1, <2>2
  <1>25. ASSUME NEW j \in Ids, Land(j)
         PROVE  TellsRun(i)'
    <2>1. UNCHANGED <<job, memory, queue, running, armed, events, calling, last>>
      BY <1>25 DEF Land
    <2>2. (OnePlace(L) => OnePlace(L)') /\ (Idle(L) => Idle(L)') /\ (Idle(Q) => Idle(Q)')
      BY <1>3, <1>4, <2>1, TimersLess
    <2>3. RowKept(i)
      <3>1. CASE j = i
        BY <1>0, <1>25, <3>1, LandKeepsRow
      <3>2. CASE j # i
        <4>1. row'[i] = row[i] /\ updates'[i] = updates[i] /\ (i \in stale' <=> i \in stale)
          BY <1>0, <1>25, <3>2, OtherRow
        <4> QED
          BY <2>1, <4>1, SameRow
      <3> QED
        BY <3>1, <3>2
    <2> QED
      BY <1>9, <2>1, <2>2, <2>3
  <1> QED
    BY <1>13, <1>14, <1>15, <1>16, <1>17, <1>18, <1>19, <1>20, <1>21, <1>22, <1>23, <1>24, <1>25
       DEF Next, Work

-----------------------------------------------------------------------------
LEMMA InitIInv == Init => IInv
  <1> SUFFICES ASSUME Init
               PROVE  IInv
    OBVIOUS
  <1>1. TypeOK
    <2>1. 0 \in 0 .. MaxObjects /\ 0 \in 0 .. MaxTimers /\ 0 \in 0 .. MaxRequests
          /\ 0 <= Concurrency
      OBVIOUS
    <2>2. job = <<>> /\ Len(job) = 0 /\ running = <<>> /\ Len(running) = 0
      BY DEF Init
    <2> QED
      BY <2>1, <2>2 DEF Init, TypeOK
  <1>2. Refer /\ UniqueIds /\ NoZombie
    BY DEF Init, Refer, UniqueIds, NoZombie
  <1> QED
    BY <1>1, <1>2 DEF IInv

LEMMA StepIInv == IInv /\ [Next]_vars => IInv'
  <1> SUFFICES ASSUME IInv, [Next]_vars
               PROVE  IInv'
    OBVIOUS
  <1>1. ASSUME NEW i \in Ids, AddNow(i) \/ AddDelayed(i) \/ AddRepeated(i)
        PROVE  IInv'
    BY <1>1, AddNowStep, AddDelayedStep, AddRepeatedStep
  <1>2. ASSUME NEW o \in Objects, Fire(o)
        PROVE  IInv'
    BY <1>2, FireStep
  <1>3. CASE StartRun
    BY <1>3, StartRunStep
  <1>4. CASE StartNext
    BY <1>4, StartNextStep
  <1>5. CASE Handle
    BY <1>5, HandleStep
  <1>6. ASSUME NEW n \in 1 .. Len(running), EndRun(n)
        PROVE  IInv'
    BY <1>6, EndRunStep
  <1>7. ASSUME NEW i \in Ids, Request(i)
        PROVE  IInv'
    BY <1>7, RequestStep
  <1>8. ASSUME NEW o \in Objects, RemoveJob(o) \/ MoveTo(o)
        PROVE  IInv'
    BY <1>8, RemoveJobStep, MoveToStep
  <1>9. CASE Reset
    BY <1>9, ResetStep
  <1>10. CASE UNCHANGED vars
    <2>1. TypeOK'
      BY <1>10 DEF IInv, TypeOK, vars, rowVars, history
    <2>2. Refer' /\ UniqueIds' /\ NoZombie'
      BY <1>10 DEF IInv, Refer, UniqueIds, NoZombie, SameId, Queued, Running, Reporting,
                   vars, history
    <2> QED
      BY <2>1, <2>2 DEF IInv
  <1>11. ASSUME NEW i \in Ids, Land(i)
         PROVE  IInv'
    BY <1>11, LandStep
  <1> QED
    BY <1>1, <1>2, <1>3, <1>4, <1>5, <1>6, <1>7, <1>8, <1>9, <1>10, <1>11 DEF Next, Work

LEMMA Invariant == Spec => []IInv
  BY InitIInv, StepIInv, PTL DEF Spec

\* The state of the queue has its type: what it refers to exists, and at most
\* Concurrency jobs run at a time.
THEOREM TypeCorrect == Spec => []TypeOK
  <1>1. IInv => TypeOK
    BY DEF IInv
  <1> QED
    BY <1>1, Invariant, PTL

\* Two jobs in queueMemory never have the same id, whatever is added, fires,
\* ends, is removed or is reset in between.
THEOREM IdsUnique == Spec => []UniqueIds
  <1>1. IInv => UniqueIds
    BY DEF IInv
  <1> QED
    BY <1>1, Invariant, PTL

\* No job is stuck in queueMemory: each has a timer, a task, a run or a report of
\* a run, or is the parent of a schedule or of a kind that nobody runs.
THEOREM NoZombies == Spec => []NoZombie
  <1>1. IInv => NoZombie
    BY DEF IInv
  <1> QED
    BY <1>1, Invariant, PTL

LEMMA InitSchedules == Init => Kinds /\ Schedules
  <1> SUFFICES ASSUME Init
               PROVE  Kinds /\ Schedules
    OBVIOUS
  <1>1. Made = {} /\ queue = <<>> /\ running = <<>> /\ events = <<>>
    BY DEF Init
  <1>2. Kinds
    BY <1>1 DEF Kinds
  <1>3. ASSUME NEW i
        PROVE  OneSchedule(i)
    <2>1. Kids(i) = {} /\ Own(i) = {}
      BY <1>1 DEF Kids, Own
    <2>2. Idle({})
      BY DEF Idle, Waits, Listed, Runs, Has, TasksOf
    <2> QED
      BY <1>1, <2>1, <2>2, IdleOne DEF OneSchedule
  <1> QED
    BY <1>2, <1>3 DEF Schedules

LEMMA StepSchedules == IInv /\ Kinds /\ Schedules /\ [Next]_vars => Schedules'
  <1> SUFFICES ASSUME IInv, Kinds, Schedules, [Next]_vars, NEW i \in Repeated, i \notin taken'
               PROVE  OneSchedule(i)'
    BY DEF Schedules
  <1>1. i \notin taken
    <2>1. taken \subseteq taken'
      BY DEF Next, Work, AddNow, AddDelayed, AddRepeated, Fire, StartRun, StartNext, EndRun,
             Handle, Request, Land, RemoveJob, MoveTo, Reset, vars, history, IInv, TypeOK
    <2> QED
      BY <2>1
  <1> QED
    BY <1>1, ScheduleStep DEF Schedules

LEMMA AtMostOne ==
    ASSUME NEW S, \A x, y \in S : x = y
    PROVE  (S = {} /\ Cardinality(S) = 0) \/ (S # {} /\ Cardinality(S) = 1)
  <1>1. CASE S = {}
    <2>1. Cardinality({}) = 0
      BY FS_EmptySet
    <2> QED
      BY <1>1, <2>1
  <1>2. ASSUME NEW x \in S
        PROVE  Cardinality(S) = 1
    <2>1. S = {x}
      OBVIOUS
    <2> QED
      BY <2>1, FS_Singleton
  <1> QED
    BY <1>1, <1>2

LEMMA OneScheduleCounted ==
    ASSUME IInv, NEW i \in Repeated, OneSchedule(i)
    PROVE  Cardinality({o \in Objects : ChildOf(o, i) /\ armed[o] # {}})
           + Cardinality({n \in 1 .. Len(queue) : ChildOf(queue[n].of, i)})
           + Cardinality({n \in 1 .. Len(running) : ChildOf(running[n], i)}) <= 1
  <1> DEFINE A == {o \in Objects : ChildOf(o, i) /\ armed[o] # {}}
             B == {n \in 1 .. Len(queue) : ChildOf(queue[n].of, i)}
             C == {n \in 1 .. Len(running) : ChildOf(running[n], i)}
  <1>1. \A o : ChildOf(o, i) <=> o \in Kids(i)
    BY DEF ChildOf, Kids
  <1>2. \A n \in 1 .. Len(queue) : ChildOf(queue[n].of, i) <=> queue[n] \in TasksOf(Kids(i))
    <2>1. queue \in Seq(Task)
      BY DEF IInv, TypeOK
    <2>2. \A n \in 1 .. Len(queue) : queue[n] \in Task
      BY <2>1, ElementOfSeq
    <2> QED
      BY <1>1, <2>2 DEF TasksOf
  <1>3. \A o, p \in A : o = p
    BY <1>1 DEF OneSchedule, OnePlace
  <1>4. \A n, m \in B : n = m
    BY <1>2 DEF OneSchedule, OnePlace, Once
  <1>5. \A n, m \in C : n = m
    BY <1>1 DEF OneSchedule, OnePlace, Once
  <1>6. A # {} => Waits(Kids(i))
    BY <1>1 DEF Waits
  <1>7. B # {} => Listed(Kids(i))
    BY <1>2 DEF Listed, Has
  <1>8. C # {} => Runs(Kids(i))
    BY <1>1 DEF Runs, Has
  <1> HIDE DEF A, B, C
  <1>9. /\ (A = {} /\ Cardinality(A) = 0) \/ (A # {} /\ Cardinality(A) = 1)
        /\ (B = {} /\ Cardinality(B) = 0) \/ (B # {} /\ Cardinality(B) = 1)
        /\ (C = {} /\ Cardinality(C) = 0) \/ (C # {} /\ Cardinality(C) = 1)
    BY <1>3, <1>4, <1>5, AtMostOne
  <1>10. ~(A # {} /\ B # {}) /\ ~(A # {} /\ C # {}) /\ ~(B # {} /\ C # {})
    BY <1>6, <1>7, <1>8 DEF OneSchedule, OnePlace
  <1>11. Cardinality(A) + Cardinality(B) + Cardinality(C) <= 1
    BY <1>9, <1>10
  <1> QED
    BY <1>11 DEF A, B, C

\* However often a repeated job is added, whatever else is added, fires, runs or is
\* removed: as long as nobody takes its parent away there is one schedule of it.
THEOREM ScheduledOnce == Spec => []SingleSchedule
  <1>1. IInv /\ Schedules => SingleSchedule
    BY OneScheduleCounted DEF Schedules, SingleSchedule
  <1>2. IInv /\ Kinds /\ Schedules /\ [Next]_vars => (Kinds /\ Schedules)'
    BY StepKinds, StepSchedules
  <1>3. Spec => [](IInv /\ Kinds /\ Schedules)
    BY InitIInv, StepIInv, InitSchedules, <1>2, PTL DEF Spec
  <1> QED
    BY <1>1, <1>3, PTL

LEMMA StepTells ==
    ASSUME IInv, IInv', LateOrder, Kinds, [Next]_vars, \A i \in LeftAlone : TellsRun(i)
    PROVE  (\A i \in LeftAlone : TellsRun(i))'
  <1>1. readded \subseteq readded' /\ taken \subseteq taken'
    BY DEF Next, Work, AddNow, AddDelayed, AddRepeated, Fire, StartRun, StartNext, EndRun,
           Handle, Request, Land, RemoveJob, MoveTo, Reset, vars, history, IInv, TypeOK
  <1>2. \A i \in LeftAlone' : i \in LeftAlone
    BY <1>1 DEF LeftAlone
  <1> QED
    BY <1>2, TellsStep

LEMMA InitTells ==
    ASSUME Init
    PROVE  \A i \in LeftAlone : TellsRun(i)
  <1>1. queue = <<>> /\ running = <<>> /\ events = <<>> /\ memory = {} /\ calling = {}
        /\ \A i \in Ids : row[i] = "none" /\ updates[i] = <<>>
    BY DEF Init
  <1>2. ASSUME NEW i
        PROVE  Own(i) = {} /\ WithId(i) = {}
    BY DEF Own, WithId, Init
  <1>3. Idle({})
    BY DEF Idle, Waits, Listed, Runs, Has, TasksOf
  <1>4. ASSUME NEW i \in LeftAlone
        PROVE  TellsRun(i)
    <2>1. Idle(Own(i) \ memory) /\ OnePlace(Own(i))
      BY <1>1, <1>2, <1>3, IdleOne
    <2> QED
      BY <1>1, <1>2, <2>1 DEF TellsRun, LeftAlone, NewestIs
  <1> QED
    BY <1>4

\* When callers leave an id alone until its job has gone and the updates of its
\* row have been carried out, in whatever order, the row tells how the run has
\* ended or shows an older update than one that had been carried out; whatever
\* happens to other ids in the meantime.
THEOREM RowsTellRuns == Spec => []RowTellsRun
  <1> DEFINE TInv == \A i \in LeftAlone : TellsRun(i)
  <1>1. TInv => RowTellsRun
    BY DEF LeftAlone, TellsRun, NewestIs, Pending, RowTellsRun
  <1>2. Init => IInv /\ Kinds /\ LateOrder /\ TInv
    <2>1. Init => LateOrder
      BY DEF Init, LateOrder, LateFirst
    <2> QED
      BY <2>1, InitIInv, InitSchedules, InitTells
  <1>3. IInv /\ Kinds /\ LateOrder /\ TInv /\ [Next]_vars => (IInv /\ Kinds /\ LateOrder /\ TInv)'
    BY StepIInv, StepKinds, LateOrderKept, StepTells
  <1> HIDE DEF TInv
  <1>4. Spec => [](IInv /\ Kinds /\ LateOrder /\ TInv)
    BY <1>2, <1>3, PTL DEF Spec
  <1> QED
    BY <1>1, <1>4, PTL
=============================================================================
