-------------------------- MODULE JobRequeue_proofs --------------------------
(***************************************************************************)
(* The types, the limits and the rows of the Redis worker for any number   *)
(* of jobs and workers, any limits and any number of crashes.              *)
(*                                                                         *)
(* FullBudget is not inductive: a job is dropped because of its number of  *)
(* attempts, so the invariant has to tie attempts to requeues in every     *)
(* phase, between the announcement and the add() too.  LocalLimitKept      *)
(* needs to know that a job that is being worked on has a worker.          *)
(*                                                                         *)
(* RowTellsEnd is about jobs whose updates are carried out.  The invariant *)
(* says where the end of a job is meanwhile: last among the updates that   *)
(* are pending, in the row, or overtaken.                                  *)
(***************************************************************************)
EXTENDS JobRequeue, FiniteSetTheorems, SequenceTheorems, TLAPS

\* The part of TypeOK the invariant needs.  Updates, rows and replies do not
\* decide where a job goes.
Types ==
    /\ phase \in [Jobs -> Phases]
    /\ at \in [Jobs -> Workers \cup {Nobody}]
    /\ attempt \in [Jobs -> 1 .. Limit + 1]
    /\ requeues \in [Jobs -> 0 .. Limit]
    /\ count \in [Workers -> Nat]

\* A job that a worker has in its hands has a worker.
Placed ==
    \A j \in Jobs : phase[j] \in {"running", "requeue", "removed", "readd"} => at[j] \in Workers

\* The attempt is the number of requeues and one; it is raised before the job is
\* put back, and a crash may come in between.
Budget ==
    \A j \in Jobs :
        /\ phase[j] = "readd" => attempt[j] = requeues[j] + 2
        /\ phase[j] \notin {"readd", "lost"} => attempt[j] = requeues[j] + 1
        /\ phase[j] = "dropped" => attempt[j] > Limit

\* The count of a worker is the number of its runs.
Counted ==
    \A w \in Workers :
        /\ IsFiniteSet(RunningAt(w))
        /\ count[w] = Cardinality(RunningAt(w))
        /\ count[w] <= LocalLimit

IInv == Types /\ Placed /\ Budget /\ Counted

USE ConstantsAssumption DEF Goto, rowVars

\* A step that leaves the running jobs and the counts alone keeps Counted.
LEMMA SameRuns ==
    ASSUME Counted, UNCHANGED count,
           \A j \in Jobs : phase'[j] = "running" <=> phase[j] = "running",
           \A j \in Jobs : phase[j] = "running" => at'[j] = at[j]
    PROVE  Counted'
  <1>1. \A w \in Workers : RunningAt(w)' = RunningAt(w)
    BY DEF RunningAt
  <1> QED
    BY <1>1 DEF Counted

LEMMA InitIInv == Init => IInv
  <1> SUFFICES ASSUME Init
               PROVE  IInv
    OBVIOUS
  <1>1. Types /\ Placed /\ Budget
    BY DEF Init, Types, Placed, Budget, Phases
  <1>2. \A w \in Workers : RunningAt(w) = {}
    BY DEF Init, RunningAt
  <1>3. Counted
    <2>1. IsFiniteSet({}) /\ Cardinality({}) = 0
      BY FS_EmptySet
    <2>2. \A w \in Workers : count[w] = 0
      BY DEF Init
    <2> QED
      BY <1>2, <2>1, <2>2 DEF Counted
  <1> QED
    BY <1>1, <1>3 DEF IInv

\* process(): a job that the worker turns away.
LEMMA TurnAwayStep ==
    ASSUME IInv, NEW w \in Workers, NEW j \in Jobs, TurnAway(w, j)
    PROVE  IInv'
  <1>1. Types' /\ Placed' /\ Budget'
    BY DEF IInv, Types, Placed, Budget, Phases, TurnAway
  <1>2. Counted'
    <2>1. \A i \in Jobs : phase'[i] = "running" <=> phase[i] = "running"
      BY DEF IInv, Types, TurnAway
    <2>2. \A i \in Jobs : phase[i] = "running" => at'[i] = at[i]
      BY DEF IInv, Types, TurnAway
    <2> QED
      BY <2>1, <2>2, SameRuns DEF IInv, TurnAway
  <1> QED
    BY <1>1, <1>2 DEF IInv

\* process(): a job that the worker runs.  The worker is not full.
LEMMA RunStep ==
    ASSUME IInv, NEW w \in Workers, NEW j \in Jobs, Run(w, j)
    PROVE  IInv'
  <1>1. Types' /\ Placed' /\ Budget'
    BY DEF IInv, Types, Placed, Budget, Phases, Run
  <1>2. ASSUME NEW v \in Workers
        PROVE  /\ IsFiniteSet(RunningAt(v)')
               /\ count'[v] = Cardinality(RunningAt(v)')
               /\ count'[v] <= LocalLimit
    <2>1. CASE v = w
      <3>1. RunningAt(v)' = RunningAt(v) \cup {j} /\ j \notin RunningAt(v)
        BY <2>1 DEF IInv, Types, Run, RunningAt
      <3>2. IsFiniteSet(RunningAt(v)') /\ Cardinality(RunningAt(v)') = Cardinality(RunningAt(v)) + 1
        BY <3>1, FS_AddElement DEF IInv, Counted
      <3>3. count[v] < LocalLimit /\ count'[v] = count[v] + 1
        BY <2>1 DEF IInv, Types, Run, Turned, Full
      <3> QED
        BY <3>2, <3>3 DEF IInv, Types, Counted
    <2>2. CASE v # w
      <3>1. RunningAt(v)' = RunningAt(v)
        BY <2>2 DEF IInv, Types, Run, RunningAt
      <3>2. count'[v] = count[v]
        BY <2>2 DEF IInv, Types, Run
      <3> QED
        BY <3>1, <3>2 DEF IInv, Counted
    <2> QED
      BY <2>1, <2>2
  <1> QED
    BY <1>1, <1>2 DEF IInv, Counted

\* process(): the run ends, one way or the other.
LEMMA EndRunStep ==
    ASSUME IInv, NEW j \in Jobs, NEW place \in {"completed", "failed"}, EndRun(j, place)
    PROVE  IInv'
  <1>1. at[j] \in Workers /\ j \in RunningAt(at[j])
    BY DEF IInv, Placed, EndRun, RunningAt
  <1>2. \A w \in Workers : count'[w] = IF w = at[j] THEN (IF count[w] > 0 THEN count[w] - 1 ELSE 0)
                                                    ELSE count[w]
    BY <1>1 DEF IInv, Types, EndRun, Release
  <1>3. Types' /\ Placed' /\ Budget'
    BY <1>1 DEF IInv, Types, Placed, Budget, Phases, EndRun, Release
  <1>4. ASSUME NEW w \in Workers
        PROVE  /\ IsFiniteSet(RunningAt(w)')
               /\ count'[w] = Cardinality(RunningAt(w)')
               /\ count'[w] <= LocalLimit
    <2>1. CASE w = at[j]
      <3>1. RunningAt(w)' = RunningAt(w) \ {j}
        BY <2>1 DEF IInv, Types, EndRun, RunningAt
      <3>2. IsFiniteSet(RunningAt(w)') /\ Cardinality(RunningAt(w)') = Cardinality(RunningAt(w)) - 1
        BY <1>1, <2>1, <3>1, FS_RemoveElement DEF IInv, Counted
      <3>3. IsFiniteSet(RunningAt(w)') => Cardinality(RunningAt(w)') \in Nat
        BY FS_CardinalityType
      <3>4. count[w] = Cardinality(RunningAt(w)) /\ count[w] <= LocalLimit /\ count[w] \in Nat
        BY DEF IInv, Types, Counted
      <3> QED
        BY <1>2, <2>1, <3>2, <3>3, <3>4
    <2>2. CASE w # at[j]
      <3>1. RunningAt(w)' = RunningAt(w)
        BY <2>2 DEF IInv, Types, EndRun, RunningAt
      <3> QED
        BY <1>2, <2>2, <3>1 DEF IInv, Counted
    <2> QED
      BY <2>1, <2>2
  <1> QED
    BY <1>3, <1>4 DEF IInv, Counted

\* requeue(): the job is taken out, dropped, announced and put back.
LEMMA RequeueStep ==
    ASSUME IInv, NEW j \in Jobs, TakeOut(j) \/ Drop(j) \/ Announce(j) \/ Readd(j)
    PROVE  IInv'
  <1>1. Types' /\ Placed' /\ Budget'
    <2>1. CASE TakeOut(j)
      BY <2>1 DEF IInv, Types, Placed, Budget, Phases, TakeOut
    <2>2. CASE Drop(j)
      BY <2>2 DEF IInv, Types, Placed, Budget, Phases, Drop, Spent
    <2>3. CASE Announce(j)
      BY <2>3 DEF IInv, Types, Placed, Budget, Phases, Announce, Spent, NextAttempt
    <2>4. CASE Readd(j)
      BY <2>4 DEF IInv, Types, Placed, Budget, Phases, Readd
    <2> QED
      BY <2>1, <2>2, <2>3, <2>4
  <1>2. \A i \in Jobs : phase'[i] = "running" <=> phase[i] = "running"
    BY DEF IInv, Types, TakeOut, Drop, Announce, Readd
  <1>3. \A i \in Jobs : phase[i] = "running" => at'[i] = at[i]
    BY DEF IInv, Types, TakeOut, Drop, Announce, Readd
  <1>4. UNCHANGED count
    BY DEF TakeOut, Drop, Announce, Readd
  <1>5. Counted'
    BY <1>2, <1>3, <1>4, SameRuns DEF IInv
  <1> QED
    BY <1>1, <1>5 DEF IInv

\* A worker dies: its runs are over and its count starts again.
LEMMA CrashStep ==
    ASSUME IInv, NEW w \in Workers, Crash(w)
    PROVE  IInv'
  <1>1. \A j \in Jobs : at[j] = w =>
            /\ at'[j] = Nobody
            /\ phase'[j] = CASE phase[j] \in {"running", "requeue"} -> "queued"
                             [] phase[j] \in {"removed", "readd"} -> "lost"
                             [] OTHER -> phase[j]
    BY DEF Crash
  <1>2. \A j \in Jobs : at[j] # w => at'[j] = at[j] /\ phase'[j] = phase[j]
    BY DEF Crash
  <1>3. UNCHANGED <<attempt, requeues>> /\ count' = [count EXCEPT ![w] = 0]
    BY DEF Crash
  <1>4. phase' \in [Jobs -> Phases]
    BY DEF IInv, Types, Phases, Crash
  <1>5. at' \in [Jobs -> Workers \cup {Nobody}]
    BY DEF IInv, Types, Crash
  <1>6. Types'
    BY <1>3, <1>4, <1>5 DEF IInv, Types
  <1>7. Placed' /\ Budget'
    BY <1>1, <1>2, <1>3 DEF IInv, Types, Phases, Placed, Budget
  <1>8. ASSUME NEW v \in Workers
        PROVE  /\ IsFiniteSet(RunningAt(v)')
               /\ count'[v] = Cardinality(RunningAt(v)')
               /\ count'[v] <= LocalLimit
    <2>1. CASE v = w
      <3>1. RunningAt(v)' = {}
        BY <1>1, <1>2, <2>1 DEF RunningAt
      <3> QED
        BY <1>3, <2>1, <3>1, FS_EmptySet DEF IInv, Types
    <2>2. CASE v # w
      <3>1. RunningAt(v)' = RunningAt(v)
        BY <1>1, <1>2, <2>2 DEF RunningAt
      <3>2. count'[v] = count[v]
        BY <1>3, <2>2 DEF IInv, Types
      <3> QED
        BY <3>1, <3>2 DEF IInv, Counted
    <2> QED
      BY <2>1, <2>2
  <1> QED
    BY <1>6, <1>7, <1>8 DEF IInv, Counted

\* Updates that are carried out, deployments and stuttering move no job.
LEMMA IdleStep ==
    ASSUME IInv, UNCHANGED <<phase, at, attempt, requeues, count>>
    PROVE  IInv'
  BY DEF IInv, Types, Placed, Budget, Counted, RunningAt

LEMMA StepIInv == IInv /\ [Next]_vars => IInv'
  <1> SUFFICES ASSUME IInv, [Next]_vars
               PROVE  IInv'
    OBVIOUS
  <1>1. ASSUME NEW w \in Workers, NEW j \in Jobs, TurnAway(w, j)
        PROVE  IInv'
    BY <1>1, TurnAwayStep
  <1>2. ASSUME NEW w \in Workers, NEW j \in Jobs, Run(w, j)
        PROVE  IInv'
    BY <1>2, RunStep
  <1>3. ASSUME NEW j \in Jobs, Complete(j) \/ Fail(j)
        PROVE  IInv'
    BY <1>3, EndRunStep DEF Complete, Fail
  <1>4. ASSUME NEW j \in Jobs, TakeOut(j) \/ Drop(j) \/ Announce(j) \/ Readd(j)
        PROVE  IInv'
    BY <1>4, RequeueStep
  <1>5. ASSUME NEW j \in Jobs, Land(j)
        PROVE  IInv'
    <2>1. UNCHANGED <<phase, at, attempt, requeues, count>>
      BY <1>5 DEF Land
    <2> QED
      BY <2>1, IdleStep
  <1>6. ASSUME NEW w \in Workers, Crash(w)
        PROVE  IInv'
    BY <1>6, CrashStep
  <1>7. ASSUME NEW w \in Workers, Deploy(w)
        PROVE  IInv'
    BY <1>7, IdleStep DEF Deploy
  <1>8. CASE UNCHANGED vars
    BY <1>8, IdleStep DEF vars
  <1> QED
    BY <1>1, <1>2, <1>3, <1>4, <1>5, <1>6, <1>7, <1>8 DEF Next, Work

LEMMA Invariant == Spec => []IInv
  BY InitIInv, StepIInv, PTL DEF Spec

\* However jobs are turned away, put back, deployed or crashed, one that is given
\* up has been put back JOB_REQUEUE_LIMIT times.
THEOREM BudgetSpent == Spec => []FullBudget
  <1>1. IInv => FullBudget
    BY DEF IInv, Types, Budget, FullBudget
  <1> QED
    BY <1>1, Invariant, PTL

\* LOCAL_JOB_COUNT_MAP is the number of runs and stays within the limit.
THEOREM LimitKept == Spec => []LocalLimitKept
  <1>1. IInv => LocalLimitKept
    BY DEF IInv, Counted, LocalLimitKept
  <1> QED
    BY <1>1, Invariant, PTL

-----------------------------------------------------------------------------
(* The rows.  Until a job ends it sends updates to active only; its end is *)
(* the last update it sends.                                               *)

End(j) == IF phase[j] = "completed" THEN "completed" ELSE "failed"

AllActive(list) == \A n \in 1 .. Len(list) : list[n].status = "active"
EndsWith(list, status) ==
    /\ list # <<>> /\ list[Len(list)].status = status
    /\ \A n \in 1 .. Len(list) - 1 : list[n].status = "active"

\* The end has been carried out.
Landed(j) ==
    IF j \in overtaken THEN updates[j] # <<>> \/ row[j] = "active"
                       ELSE updates[j] = <<>> /\ row[j] = End(j)

RowFine(j) ==
    /\ ~Ended(j) => j \notin overtaken /\ AllActive(updates[j])
    /\ Ended(j) => \/ j \notin overtaken /\ EndsWith(updates[j], End(j))
                   \/ AllActive(updates[j]) /\ Landed(j)

RowTypes ==
    /\ crashes \in 0 .. MaxCrashes
    /\ updates \in [Jobs -> Seq(Update)] /\ row \in [Jobs -> Statuses]
    /\ overtaken \subseteq Jobs
RInv == RowTypes /\ (crashes = 0 => \A j \in Jobs : RowFine(j))

\* A list with one more update.
LEMMA WithOneMore ==
    ASSUME NEW list \in Seq(Update), NEW update \in Update, AllActive(list)
    PROVE  /\ Append(list, update) \in Seq(Update)
           /\ EndsWith(Append(list, update), update.status)
           /\ update.status = "active" => AllActive(Append(list, update))
  <1> DEFINE longer == Append(list, update)
  <1>1. /\ longer \in Seq(Update) /\ longer # <<>>
        /\ Len(longer) = Len(list) + 1 /\ Len(list) \in Nat
        /\ \A n \in 1 .. Len(list) : longer[n] = list[n]
        /\ longer[Len(list) + 1] = update
    BY AppendProperties
  <1> HIDE DEF longer
  <1>2. \A n \in 1 .. Len(list) : longer[n].status = "active"
    BY <1>1 DEF AllActive
  <1>3. EndsWith(longer, update.status)
    BY <1>1, <1>2 DEF EndsWith
  <1>4. update.status = "active" => AllActive(longer)
    BY <1>1, <1>2 DEF AllActive
  <1> QED
    BY <1>1, <1>3, <1>4 DEF longer

\* A list without one of its updates: those before it and those after it.
LEMMA WithoutOne ==
    ASSUME NEW list \in Seq(Update), NEW n \in 1 .. Len(list)
    PROVE  /\ RemoveAt(list, n) \in Seq(Update)
           /\ Len(RemoveAt(list, n)) = Len(list) - 1
           /\ \A m \in 1 .. Len(list) - 1 :
                 RemoveAt(list, n)[m] = IF m < n THEN list[m] ELSE list[m + 1]
  <1> DEFINE before == SubSeq(list, 1, n - 1)
             after == SubSeq(list, n + 1, Len(list))
  <1>1. Len(list) \in Nat /\ \A m \in 1 .. Len(list) : list[m] \in Update
    BY ElementOfSeq
  <1>2. /\ before \in Seq(Update) /\ Len(before) = n - 1
        /\ \A m \in 1 .. n - 1 : before[m] = list[m]
    <2>1. \A m \in 1 .. n - 1 : list[m] \in Update
      BY <1>1
    <2>2. /\ before \in Seq(Update)
          /\ Len(before) = IF 1 <= n - 1 THEN n - 1 - 1 + 1 ELSE 0
          /\ \A m \in 1 .. n - 1 - 1 + 1 : before[m] = list[1 + m - 1]
      BY <2>1, SubSeqProperties
    <2> HIDE DEF before
    <2>3. n - 1 - 1 + 1 = n - 1 /\ \A m \in 1 .. n - 1 : 1 + m - 1 = m
      OBVIOUS
    <2> QED
      BY <2>2, <2>3
  <1>3. /\ after \in Seq(Update) /\ Len(after) = Len(list) - n
        /\ \A m \in 1 .. Len(list) - n : after[m] = list[n + m]
    <2>1. \A m \in n + 1 .. Len(list) : list[m] \in Update
      BY <1>1
    <2>2. /\ after \in Seq(Update)
          /\ Len(after) = IF n + 1 <= Len(list) THEN Len(list) - (n + 1) + 1 ELSE 0
          /\ \A m \in 1 .. Len(list) - (n + 1) + 1 : after[m] = list[(n + 1) + m - 1]
      BY <1>1, <2>1, SubSeqProperties
    <2> HIDE DEF after
    <2>3. /\ Len(list) - (n + 1) + 1 = Len(list) - n
          /\ \A m \in 1 .. Len(list) - n : (n + 1) + m - 1 = n + m
      BY <1>1
    <2>4. Len(after) = Len(list) - n
      <3>1. CASE n + 1 <= Len(list)
        BY <1>1, <2>2, <3>1
      <3>2. CASE ~(n + 1 <= Len(list))
        <4>1. Len(list) - n = 0
          BY <1>1, <3>2
        <4> QED
          BY <2>2, <3>2, <4>1
      <3> QED
        BY <3>1, <3>2
    <2>5. \A m \in 1 .. Len(list) - n : after[m] = list[n + m]
      BY <2>2, <2>3
    <2> QED
      BY <2>2, <2>4, <2>5
  <1>4. RemoveAt(list, n) = before \o after
    BY DEF RemoveAt
  <1> HIDE DEF before, after
  <1>5. /\ before \o after \in Seq(Update)
        /\ Len(before \o after) = Len(before) + Len(after)
        /\ \A m \in 1 .. Len(before) + Len(after) :
              (before \o after)[m] = IF m <= Len(before) THEN before[m]
                                                         ELSE after[m - Len(before)]
    BY <1>2, <1>3, ConcatProperties
  <1>6. ASSUME NEW m \in 1 .. Len(list) - 1
        PROVE  (before \o after)[m] = IF m < n THEN list[m] ELSE list[m + 1]
    <2>1. CASE m < n
      BY <1>1, <1>2, <1>3, <1>5, <2>1
    <2>2. CASE ~(m < n)
      <3>1. /\ m \in 1 .. Len(before) + Len(after) /\ ~(m <= Len(before))
            /\ m - Len(before) \in 1 .. Len(list) - n
            /\ n + (m - Len(before)) = m + 1
        BY <1>1, <1>2, <1>3, <2>2
      <3> QED
        BY <1>3, <1>5, <2>2, <3>1
    <2> QED
      BY <2>1, <2>2
  <1> QED
    BY <1>1, <1>2, <1>3, <1>4, <1>5, <1>6

\* What remains when one of them is carried out.
LEMMA WithoutActive ==
    ASSUME NEW list \in Seq(Update), NEW n \in 1 .. Len(list), AllActive(list)
    PROVE  AllActive(RemoveAt(list, n))
  <1>1. /\ Len(list) \in Nat /\ Len(RemoveAt(list, n)) = Len(list) - 1
        /\ \A m \in 1 .. Len(list) - 1 :
              RemoveAt(list, n)[m] = IF m < n THEN list[m] ELSE list[m + 1]
    BY WithoutOne
  <1> QED
    BY <1>1 DEF AllActive

LEMMA WithoutEnd ==
    ASSUME NEW list \in Seq(Update), NEW status, EndsWith(list, status)
    PROVE  /\ Len(list) \in 1 .. Len(list) /\ AllActive(RemoveAt(list, Len(list)))
           /\ RemoveAt(list, Len(list)) = <<>> <=> ~(Len(list) > 1)
  <1>1. Len(list) \in Nat /\ Len(list) # 0
    BY EmptySeq DEF EndsWith
  <1>2. Len(list) \in 1 .. Len(list)
    BY <1>1
  <1>3. /\ RemoveAt(list, Len(list)) \in Seq(Update)
        /\ Len(RemoveAt(list, Len(list))) = Len(list) - 1
        /\ \A m \in 1 .. Len(list) - 1 :
              RemoveAt(list, Len(list))[m]
                  = IF m < Len(list) THEN list[m] ELSE list[m + 1]
    BY <1>2, WithoutOne
  <1>4. AllActive(RemoveAt(list, Len(list)))
    BY <1>1, <1>3 DEF AllActive, EndsWith
  <1>5. RemoveAt(list, Len(list)) = <<>> <=> Len(RemoveAt(list, Len(list))) = 0
    BY <1>3, EmptySeq
  <1> QED
    BY <1>1, <1>2, <1>3, <1>4, <1>5

LEMMA WithoutOlder ==
    ASSUME NEW list \in Seq(Update), NEW status, EndsWith(list, status),
           NEW n \in 1 .. Len(list), n # Len(list)
    PROVE  EndsWith(RemoveAt(list, n), status) /\ list[n].status = "active"
  <1>1. /\ Len(list) \in Nat /\ RemoveAt(list, n) \in Seq(Update)
        /\ Len(RemoveAt(list, n)) = Len(list) - 1
        /\ \A m \in 1 .. Len(list) - 1 :
              RemoveAt(list, n)[m] = IF m < n THEN list[m] ELSE list[m + 1]
    BY WithoutOne
  <1>2. n < Len(list)
    BY <1>1
  <1>3. RemoveAt(list, n)[Len(list) - 1] = list[Len(list)]
    <2>1. Len(list) - 1 \in 1 .. Len(list) - 1 /\ ~(Len(list) - 1 < n)
          /\ (Len(list) - 1) + 1 = Len(list)
      BY <1>1, <1>2
    <2> QED
      BY <1>1, <2>1
  <1>4. RemoveAt(list, n) # <<>>
    BY <1>1, <1>2, EmptySeq
  <1>5. \A m \in 1 .. Len(list) - 1 - 1 : RemoveAt(list, n)[m].status = "active"
    BY <1>1, <1>2 DEF EndsWith
  <1> QED
    BY <1>1, <1>2, <1>3, <1>4, <1>5 DEF EndsWith

\* Updates that are left when a worker dies.
LEMMA OthersAreUpdates ==
    ASSUME NEW list \in Seq(Update), NEW w, NEW left \in Others(list, w)
    PROVE  left \in Seq(Update)
  <1> DEFINE kept == {i \in 1 .. Len(list) : list[i].by # w}
             places == 1 .. Cardinality(kept)
  <1>1. Len(list) \in Nat /\ \A i \in 1 .. Len(list) : list[i] \in Update
    BY ElementOfSeq
  <1>2. Cardinality(kept) \in Nat
    <2>1. IsFiniteSet(1 .. Len(list))
      BY <1>1, FS_Interval
    <2> QED
      BY <2>1, FS_Subset, FS_CardinalityType
  <1>3. PICK f \in [places -> kept] : left = [n \in places |-> list[f[n]]]
    BY DEF Others
  <1>4. \A n \in places : list[f[n]] \in Update
    BY <1>1, <1>3
  <1> HIDE DEF kept
  <1>5. left \in [1 .. Cardinality(kept) -> Update]
    BY <1>3, <1>4
  <1> QED
    BY <1>2, <1>5

LEMMA LandedTypes ==
    ASSUME RowTypes, NEW j \in Jobs, Land(j)
    PROVE  RowTypes'
  <1>1. PICK n \in 1 .. Len(updates[j]) :
            /\ row' = [row EXCEPT ![j] = updates[j][n].status]
            /\ updates' = [updates EXCEPT ![j] = RemoveAt(@, n)]
            /\ overtaken' = IF Overtakes(j, n) THEN overtaken \cup {j} ELSE overtaken
    BY DEF Land
  <1>2. updates[j] \in Seq(Update) /\ updates[j][n] \in Update
    BY ElementOfSeq DEF RowTypes
  <1>3. RemoveAt(updates[j], n) \in Seq(Update) /\ updates[j][n].status \in Statuses
    BY <1>2, WithoutOne DEF Update
  <1>4. crashes' = crashes
    BY DEF Land
  <1> QED
    BY <1>1, <1>3, <1>4 DEF RowTypes

LEMMA CrashedTypes ==
    ASSUME RowTypes, NEW w \in Workers, Crash(w)
    PROVE  RowTypes'
  <1>1. PICK left \in [Jobs -> UNION {Others(updates[j], w) : j \in Jobs}] :
            /\ \A j \in Jobs : left[j] \in Others(updates[j], w)
            /\ updates' = left
    BY DEF Crash, Survive
  <1>2. \A j \in Jobs : left[j] \in Seq(Update)
    BY <1>1, OthersAreUpdates DEF RowTypes
  <1>3. row' = row /\ overtaken' = overtaken /\ crashes' \in 0 .. MaxCrashes
    BY DEF Crash, RowTypes
  <1> QED
    BY <1>1, <1>2, <1>3 DEF RowTypes

\* A job whose row, updates and phase a step leaves alone.
LEMMA SameRow ==
    ASSUME NEW j \in Jobs, RowFine(j), row'[j] = row[j], updates'[j] = updates[j],
           j \in overtaken' <=> j \in overtaken, Ended(j)' <=> Ended(j), End(j)' = End(j)
    PROVE  RowFine(j)'
  BY DEF RowFine, Landed, AllActive, EndsWith

\* An update is carried out, whichever it is.
LEMMA LandedFine ==
    ASSUME RowTypes, NEW j \in Jobs, RowFine(j), Land(j)
    PROVE  RowFine(j)'
  <1>1. PICK n \in 1 .. Len(updates[j]) :
            /\ row' = [row EXCEPT ![j] = updates[j][n].status]
            /\ updates' = [updates EXCEPT ![j] = RemoveAt(@, n)]
            /\ overtaken' = IF Overtakes(j, n) THEN overtaken \cup {j} ELSE overtaken
    BY DEF Land
  <1>2. (Ended(j)' <=> Ended(j)) /\ End(j)' = End(j)
    BY DEF Land, Ended, End
  <1> DEFINE list == updates[j]
  <1>3. list \in Seq(Update) /\ n \in 1 .. Len(list)
    BY DEF RowTypes
  <1>4. row'[j] = list[n].status /\ updates'[j] = RemoveAt(list, n)
    BY <1>1 DEF RowTypes
  <1>5. j \in overtaken' <=> j \in overtaken \/ (list[n].status \in Terminal /\ Len(list) > 1)
    BY <1>1 DEF Overtakes
  <1>6. CASE AllActive(list)
    <2>1. AllActive(RemoveAt(list, n))
      BY <1>3, <1>6, WithoutActive
    <2>2. row'[j] = "active" /\ (j \in overtaken' <=> j \in overtaken)
      BY <1>4, <1>5, <1>6 DEF AllActive, Terminal
    <2>3. Ended(j) => j \in overtaken
      <3>1. ~EndsWith(list, End(j))
        BY <1>3, <1>6 DEF EndsWith, AllActive, End
      <3>2. list # <<>>
        BY <1>3
      <3> QED
        BY <3>1, <3>2 DEF RowFine, Landed
    <2> QED
      BY <1>2, <1>4, <2>1, <2>2, <2>3 DEF RowFine, Landed, AllActive
  <1>7. CASE ~AllActive(list)
    <2>1. Ended(j) /\ j \notin overtaken /\ EndsWith(list, End(j))
      BY <1>7 DEF RowFine
    <2>2. CASE n = Len(list)
      <3>1. AllActive(RemoveAt(list, n)) /\ (RemoveAt(list, n) = <<>> <=> ~(Len(list) > 1))
        BY <1>3, <2>1, <2>2, WithoutEnd
      <3>2. row'[j] = End(j) /\ (j \in overtaken' <=> Len(list) > 1)
        BY <1>4, <1>5, <2>1, <2>2 DEF EndsWith, End, Terminal
      <3> QED
        BY <1>2, <1>4, <2>1, <3>1, <3>2 DEF RowFine, Landed, AllActive
    <2>3. CASE n # Len(list)
      <3>1. EndsWith(RemoveAt(list, n), End(j)) /\ list[n].status = "active"
        BY <1>3, <2>1, <2>3, WithoutOlder
      <3>2. j \notin overtaken'
        BY <1>5, <2>1, <3>1 DEF Terminal
      <3> QED
        BY <1>2, <1>4, <2>1, <3>1, <3>2 DEF RowFine, EndsWith
    <2> QED
      BY <2>2, <2>3
  <1> QED
    BY <1>6, <1>7

\* A step that keeps what is sent, and after which no more jobs have ended.
LEMMA KeptRows ==
    ASSUME RInv, UNCHANGED <<rowVars, crashes>>,
           \A j \in Jobs : (Ended(j)' <=> Ended(j)) /\ (Ended(j) => End(j)' = End(j))
    PROVE  RInv'
  <1>1. RowTypes'
    BY DEF RInv, RowTypes, rowVars
  <1>2. ASSUME crashes' = 0, NEW j \in Jobs
        PROVE  RowFine(j)'
    <2>1. RowFine(j)
      BY <1>2 DEF RInv
    <2>2. /\ (Ended(j)' <=> Ended(j)) /\ (Ended(j) => End(j)' = End(j))
          /\ UNCHANGED <<row, updates, overtaken>>
      BY DEF rowVars
    <2> QED
      BY <2>1, <2>2 DEF RowFine, Landed, AllActive, EndsWith
  <1> QED
    BY <1>1, <1>2 DEF RInv

\* A step that sends an update of a job that has not ended, and nothing else of the
\* row.
LEMMA SendingStep ==
    ASSUME RInv, UNCHANGED <<row, overtaken, crashes>>,
           NEW j \in Jobs, NEW status \in Statuses, SendUpdate(j, status),
           at'[j] \in Workers, ~Ended(j),
           IF Ended(j)' THEN End(j)' = status ELSE status = "active",
           \A i \in Jobs \ {j} : phase'[i] = phase[i]
    PROVE  RInv'
  <1> DEFINE update == [status |-> status, by |-> at'[j]]
  <1>1. update \in Update /\ updates \in [Jobs -> Seq(Update)]
    BY DEF Update, RInv, RowTypes
  <1>2. updates' = [updates EXCEPT ![j] = Append(updates[j], update)]
    BY DEF SendUpdate
  <1>3. Append(updates[j], update) \in Seq(Update)
    BY <1>1, AppendProperties
  <1>4. update.status = status
    OBVIOUS
  <1> HIDE DEF update
  <1>5. RowTypes'
    BY <1>1, <1>2, <1>3 DEF RInv, RowTypes
  <1>6. ASSUME crashes' = 0
        PROVE  RowFine(j)'
    <2>1. j \notin overtaken /\ AllActive(updates[j])
      BY <1>6 DEF RInv, RowFine
    <2>2. /\ EndsWith(Append(updates[j], update), status)
          /\ status = "active" => AllActive(Append(updates[j], update))
      BY <1>1, <1>4, <2>1, WithOneMore
    <2>3. updates'[j] = Append(updates[j], update) /\ j \notin overtaken'
      BY <1>1, <1>2, <2>1
    <2> QED
      BY <2>2, <2>3 DEF RowFine, EndsWith, AllActive
  <1>7. ASSUME crashes' = 0, NEW i \in Jobs \ {j}
        PROVE  RowFine(i)'
    <2>1. RowFine(i)
      BY <1>7 DEF RInv
    <2>2. updates'[i] = updates[i] /\ row'[i] = row[i] /\ overtaken' = overtaken
      BY <1>1, <1>2
    <2>3. (Ended(i)' <=> Ended(i)) /\ End(i)' = End(i)
      BY DEF Ended, End
    <2> QED
      BY <2>1, <2>2, <2>3, SameRow
  <1> QED
    BY <1>5, <1>6, <1>7 DEF RInv

LEMMA InitRInv == Init => RInv
  <1> SUFFICES ASSUME Init
               PROVE  RInv
    OBVIOUS
  <1>1. <<>> \in Seq(Update) /\ Len(<<>>) = 0
    BY EmptySeq
  <1>2. RowTypes
    BY <1>1 DEF Init, RowTypes, Statuses
  <1>3. \A j \in Jobs : ~Ended(j) /\ updates[j] = <<>> /\ j \notin overtaken
    BY DEF Init, Ended
  <1> QED
    BY <1>1, <1>2, <1>3 DEF RInv, RowFine, AllActive

LEMMA StepRInv == IInv /\ RInv /\ [Next]_vars => RInv'
  <1> SUFFICES ASSUME IInv, RInv, [Next]_vars
               PROVE  RInv'
    OBVIOUS
  <1>0. phase \in [Jobs -> Phases] /\ at \in [Jobs -> Workers \cup {Nobody}]
    BY DEF IInv, Types
  <1>1. ASSUME NEW w \in Workers, NEW j \in Jobs, TurnAway(w, j) \/ Run(w, j)
        PROVE  RInv'
    <2>1. SendUpdate(j, "active") /\ "active" \in Statuses
      BY <1>1 DEF TurnAway, Run, Statuses
    <2>2. UNCHANGED <<row, overtaken, crashes>>
      BY <1>1 DEF TurnAway, Run
    <2>3. /\ at'[j] \in Workers /\ ~Ended(j) /\ ~Ended(j)'
          /\ \A i \in Jobs \ {j} : phase'[i] = phase[i]
      BY <1>0, <1>1 DEF TurnAway, Run, Ended
    <2> QED
      BY <2>1, <2>2, <2>3, SendingStep
  <1>2. ASSUME NEW j \in Jobs, Complete(j)
        PROVE  RInv'
    <2>1. SendUpdate(j, "completed") /\ "completed" \in Statuses
      BY <1>2 DEF Complete, OnCompleted, Statuses, Terminal
    <2>2. UNCHANGED <<row, overtaken, crashes>>
      BY <1>2 DEF Complete, EndRun
    <2>3. /\ at'[j] \in Workers /\ ~Ended(j)
          /\ Ended(j)' /\ End(j)' = "completed"
          /\ \A i \in Jobs \ {j} : phase'[i] = phase[i]
      BY <1>0, <1>2 DEF IInv, Placed, Complete, EndRun, Ended, End
    <2> QED
      BY <2>1, <2>2, <2>3, SendingStep
  <1>3. ASSUME NEW j \in Jobs, Fail(j) \/ Drop(j)
        PROVE  RInv'
    <2>1. SendUpdate(j, "failed") /\ "failed" \in Statuses
      BY <1>3 DEF Fail, Drop, OnFailed, Statuses, Terminal
    <2>2. UNCHANGED <<row, overtaken, crashes>>
      BY <1>3 DEF Fail, EndRun, Drop
    <2>3. /\ at'[j] \in Workers /\ ~Ended(j)
          /\ Ended(j)' /\ End(j)' = "failed"
          /\ \A i \in Jobs \ {j} : phase'[i] = phase[i]
      BY <1>0, <1>3 DEF IInv, Placed, Fail, Drop, EndRun, Ended, End
    <2> QED
      BY <2>1, <2>2, <2>3, SendingStep
  <1>4. ASSUME NEW j \in Jobs, TakeOut(j) \/ Announce(j)
        PROVE  RInv'
    <2>1. UNCHANGED <<rowVars, crashes>>
      BY <1>4 DEF TakeOut, Announce
    <2>2. \A i \in Jobs : (Ended(i)' <=> Ended(i)) /\ (Ended(i) => End(i)' = End(i))
      BY <1>0, <1>4 DEF TakeOut, Announce, Ended, End
    <2> QED
      BY <2>1, <2>2, KeptRows
  <1>5. ASSUME NEW j \in Jobs, Readd(j)
        PROVE  RInv'
    <2>1. /\ row' = [row EXCEPT ![j] = "waiting"] /\ UNCHANGED <<updates, overtaken, crashes>>
          /\ phase[j] = "readd" /\ phase' = [phase EXCEPT ![j] = "queued"]
      BY <1>5 DEF Readd
    <2>2. RowTypes'
      BY <2>1 DEF RInv, RowTypes, Statuses
    <2>3. ASSUME crashes' = 0, NEW i \in Jobs
          PROVE  RowFine(i)'
      <3>1. RowFine(i)
        BY <2>1, <2>3 DEF RInv
      <3>2. CASE i = j
        <4>1. ~Ended(j) /\ ~Ended(j)'
          BY <1>0, <2>1 DEF Ended
        <4> QED
          BY <2>1, <3>1, <3>2, <4>1 DEF RowFine, AllActive
      <3>3. CASE i # j
        <4>1. row'[i] = row[i] /\ phase'[i] = phase[i]
          BY <1>0, <2>1, <3>3 DEF RInv, RowTypes
        <4>2. (Ended(i)' <=> Ended(i)) /\ End(i)' = End(i)
          BY <4>1 DEF Ended, End
        <4> QED
          BY <2>1, <3>1, <4>1, <4>2, SameRow
      <3> QED
        BY <3>2, <3>3
    <2> QED
      BY <2>2, <2>3 DEF RInv
  <1>6. ASSUME NEW j \in Jobs, Land(j)
        PROVE  RInv'
    <2>1. RowTypes'
      BY <1>6, LandedTypes DEF RInv
    <2>2. ASSUME crashes' = 0, NEW i \in Jobs
          PROVE  RowFine(i)'
      <3>1. RowFine(i)
        BY <1>6, <2>2 DEF RInv, Land
      <3>2. CASE i = j
        BY <1>6, <3>1, <3>2, LandedFine DEF RInv
      <3>3. CASE i # j
        <4>1. row'[i] = row[i] /\ updates'[i] = updates[i] /\ (i \in overtaken' <=> i \in overtaken)
          BY <1>6, <3>3 DEF Land, RInv, RowTypes
        <4>2. (Ended(i)' <=> Ended(i)) /\ End(i)' = End(i)
          BY <1>6 DEF Land, Ended, End
        <4> QED
          BY <3>1, <4>1, <4>2, SameRow
      <3> QED
        BY <3>2, <3>3
    <2> QED
      BY <2>1, <2>2 DEF RInv
  <1>7. ASSUME NEW w \in Workers, Crash(w)
        PROVE  RInv'
    <2>1. crashes \in Nat /\ crashes' = crashes + 1
      BY <1>7 DEF Crash, RInv, RowTypes
    <2>2. crashes' # 0
      BY <2>1
    <2>3. RowTypes'
      BY <1>7, CrashedTypes DEF RInv
    <2> QED
      BY <2>2, <2>3 DEF RInv
  <1>8. ASSUME NEW w \in Workers, Deploy(w)
        PROVE  RInv'
    <2>1. UNCHANGED <<phase, rowVars, crashes>>
      BY <1>8 DEF Deploy
    <2> QED
      BY <2>1, KeptRows DEF Ended, End
  <1>9. CASE UNCHANGED vars
    <2>1. UNCHANGED <<phase, rowVars, crashes>>
      BY <1>9 DEF vars
    <2> QED
      BY <2>1, KeptRows DEF Ended, End
  <1> QED
    BY <1>1, <1>2, <1>3, <1>4, <1>5, <1>6, <1>7, <1>8, <1>9 DEF Next, Work

LEMMA RowInvariant == Spec => [](IInv /\ RInv)
  <1>1. IInv /\ RInv /\ [Next]_vars => (IInv /\ RInv)'
    BY StepIInv, StepRInv
  <1> QED
    BY InitIInv, InitRInv, <1>1, PTL DEF Spec

\* However jobs are turned away, put back and run, and in whichever order their updates
\* are carried out: as long as no worker has died, the row of a job that has ended tells
\* how, unless an older update has overtaken its end, and then the row says active.
THEOREM RowsTellEnd == Spec => []RowTellsEnd
  <1>1. ASSUME RInv, crashes = 0, NEW j \in Jobs, Ended(j), updates[j] = <<>>
        PROVE  row[j] = IF j \in overtaken THEN "active"
                        ELSE IF phase[j] = "completed" THEN "completed" ELSE "failed"
    BY <1>1 DEF RInv, RowFine, Landed, EndsWith, End
  <1>2. RInv => RowTellsEnd
    BY <1>1 DEF RowTellsEnd
  <1> QED
    BY <1>2, RowInvariant, PTL

\* The replies to callers, and who is skewed.
Rest == skewed \subseteq Workers /\ reply \in [Jobs -> Replies]

LEMMA StepRest == Rest /\ [Next]_vars => Rest'
  <1> SUFFICES ASSUME Rest, [Next]_vars
               PROVE  Rest'
    OBVIOUS
  <1>1. skewed' \subseteq skewed
    BY DEF Next, Work, TurnAway, Run, Complete, Fail, EndRun, TakeOut, Drop, Announce,
           Readd, Land, Crash, Deploy, vars
  <1>2. \/ reply' = reply
        \/ \E j \in Jobs, message \in Replies : Publish(j, message)
    BY DEF Next, Work, TurnAway, Run, Complete, Fail, EndRun, TakeOut, Drop, Announce,
           Readd, Land, Crash, Deploy, vars, OnCompleted, OnFailed, Replies
  <1>3. reply' \in [Jobs -> Replies]
    BY <1>2 DEF Rest, Publish
  <1> QED
    BY <1>1, <1>3 DEF Rest

\* The state of JobRequeue always has its type, the attempts and requeues of a
\* job stay within JOB_REQUEUE_LIMIT and what is sent and lost are updates.
THEOREM TypeCorrect == Spec => []TypeOK
  <1>1. IInv /\ RInv /\ Rest => TypeOK
    BY DEF IInv, Types, RInv, RowTypes, Rest, TypeOK
  <1>2. Init => Rest
    BY DEF Init, Rest, Replies
  <1>3. Spec => []Rest
    BY <1>2, StepRest, PTL DEF Spec
  <1> QED
    BY <1>1, <1>3, RowInvariant, PTL
=============================================================================
