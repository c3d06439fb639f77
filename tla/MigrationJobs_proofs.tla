------------------------ MODULE MigrationJobs_proofs ------------------------
(***************************************************************************)
(* Type correctness of MigrationJobs; InOrder: for any number of           *)
(* instances, any timing and any crashes, a migration runs only after its  *)
(* predecessors; and Exclusive, when database calls take no time: one      *)
(* instance migrates at a time, and the runs that migrate implement        *)
(* SerialMigrations; and if besides no heartbeat starts and nobody dies,   *)
(* AppliedOnce.                                                            *)
(*                                                                         *)
(* InOrder: every copy of the row, wherever it is (in the table, in the    *)
(* memory of a run, in a heartbeat that is in flight), names a version up  *)
(* to which everything has been applied.  Copies are overwritten by older  *)
(* copies, but no copy is ever ahead of what has been applied.             *)
(*                                                                         *)
(* Exclusive: whoever may overwrite a lock has written before the first    *)
(* tick after it was taken, so a run that still finds its id is alone; and *)
(* the heartbeat keeps its row from growing older than the stall limit.    *)
(***************************************************************************)
EXTENDS MigrationJobs, TLAPS

UpTo(row) == \A v \in 1 .. row.version : v \in applied

Copies ==
    /\ UpTo(store)
    /\ \A c \in Chains : UpTo(snap[c])
    /\ \A c \in Chains : \A read \in inFlight[c] : UpTo(read)

\* A run that has taken or is taking the lock still has something to apply.
HasTarget ==
    \A c \in Chains : pc[c] \in {"lock", "confirm", "migrate"} => snap[c].version < Last

IInv == TypeOK /\ Copies /\ HasTarget

USE DEF Goto, Migrating, Writing, Pending

LEMMA AgeFacts == 0 \in Ages /\ \A age \in Ages : Older(age) \in Ages
  BY ConstantsAssumption DEF Ages, Older

\* Nothing that is done to a copy of the row, other than recording a success,
\* changes its version.
LEMMA RowFacts ==
    ASSUME NEW row \in Rows, NEW c \in Chains
    PROVE  /\ Forget(c, row) \in Rows /\ Forget(c, row).version = row.version
           /\ Unlocked(row) \in Rows /\ Unlocked(row).version = row.version
           /\ LockedBy(c, row) \in Rows /\ LockedBy(c, row).version = row.version
           /\ [row EXCEPT !.age = 0] \in Rows
  <1>1. Forget(c, row) \in Rows /\ Forget(c, row).version = row.version
    BY DEF Rows, Forget
  <1>2. Unlocked(row) \in Rows /\ Unlocked(row).version = row.version
    BY AgeFacts DEF Rows, Unlocked
  <1>3. LockedBy(c, row) \in Rows /\ LockedBy(c, row).version = row.version
    BY AgeFacts DEF Rows, LockedBy
  <1>4. [row EXCEPT !.age = 0] \in Rows
    BY AgeFacts DEF Rows
  <1> QED
    BY <1>1, <1>2, <1>3, <1>4

LEMMA OlderFacts ==
    ASSUME NEW row \in Rows
    PROVE  OlderRow(row) \in Rows /\ OlderRow(row).version = row.version
  BY AgeFacts DEF Rows, OlderRow

LEMMA ForgetAll ==
    ASSUME NEW reads \in SUBSET Rows, NEW c \in Chains
    PROVE  {Forget(c, read) : read \in reads} \in SUBSET Rows
  BY RowFacts

LEMMA NoRowFacts == NoRow \in Rows /\ NoRow.version = 0
  BY AgeFacts DEF NoRow, Rows

\* Init establishes the invariant.
LEMMA InitIInv == Init => IInv
  BY ConstantsAssumption
     DEF Init, IInv, TypeOK, Copies, HasTarget, UpTo, NoRow, Rows, Ages, Versions, Places

\* Ending a run keeps every copy of the row what it was, up to the dead id.
LEMMA EndRunKeeps ==
    ASSUME IInv, NEW c \in Chains, NEW row \in Rows, UpTo(row), EndRun(c, row),
           applied' = applied
    PROVE  /\ store' \in Rows /\ snap' \in [Chains -> Rows]
           /\ inFlight' \in [Chains -> SUBSET Rows]
           /\ Copies'
           /\ \A d \in Chains : d # c => snap'[d].version = snap[d].version
  <1>1. store' \in Rows /\ UpTo(store)'
    BY RowFacts DEF EndRun, UpTo
  <1>2. snap' \in [Chains -> Rows]
    BY RowFacts, NoRowFacts DEF EndRun, IInv, TypeOK
  <1>3. \A d \in Chains : d # c => snap'[d].version = snap[d].version
    BY RowFacts DEF EndRun, IInv, TypeOK
  <1>4. \A d \in Chains : UpTo(snap[d])'
    <2> SUFFICES ASSUME NEW d \in Chains
                 PROVE  UpTo(snap[d])'
      OBVIOUS
    <2>1. CASE d = c
      <3>1. snap'[d].version = 0
        BY <2>1, NoRowFacts DEF EndRun
      <3> QED
        BY <3>1 DEF UpTo
    <2>2. CASE d # c
      BY <2>2, <1>3 DEF IInv, Copies, UpTo
    <2> QED
      BY <2>1, <2>2
  <1>5. inFlight' \in [Chains -> SUBSET Rows]
    BY ForgetAll DEF EndRun, IInv, TypeOK
  <1>6. \A d \in Chains : \A read \in inFlight'[d] : UpTo(read)'
    <2> SUFFICES ASSUME NEW d \in Chains, NEW read \in inFlight[d]
                 PROVE  UpTo(Forget(c, read))'
      BY DEF EndRun
    <2>1. read \in Rows /\ UpTo(read)
      BY DEF IInv, TypeOK, Copies
    <2>2. Forget(c, read).version = read.version
      BY RowFacts, <2>1
    <2> QED
      BY <2>1, <2>2 DEF UpTo
  <1> QED
    BY <1>1, <1>2, <1>3, <1>4, <1>5, <1>6 DEF Copies

-----------------------------------------------------------------------------
(* Every step preserves the invariant.  The lemmas below take the actions  *)
(* in the order of the module.                                             *)

\* The steps that leave every copy of the row alone.
LEMMA QuietSteps ==
    ASSUME IInv, NEW c \in Chains,
           \/ FindLocked(c) \/ Retry(c) \/ FindNothing(c) \/ Confirm(c) \/ Boot(c)
    PROVE  IInv'
  <1> USE AgeFacts DEF IInv, TypeOK, Places, Copies, HasTarget, UpTo
  <1>1. CASE FindLocked(c) BY <1>1 DEF FindLocked
  <1>2. CASE Retry(c) BY <1>2 DEF Retry
  <1>3. CASE FindNothing(c) BY <1>3 DEF FindNothing
  <1>4. CASE Confirm(c) BY <1>4 DEF Confirm
  <1>5. CASE Boot(c) BY <1>5 DEF Boot
  <1> QED BY <1>1, <1>2, <1>3, <1>4, <1>5

\* The steps that copy the row to memory.
LEMMA ReadSteps ==
    ASSUME IInv, NEW c \in Chains, FindStalled(c) \/ FindPending(c) \/ BeatRead(c)
    PROVE  IInv'
  <1> USE AgeFacts DEF IInv, TypeOK, Places
  <1>0. store \in Rows
    OBVIOUS
  <1>1. CASE FindStalled(c)
    BY <1>0, <1>1, RowFacts DEF FindStalled, Copies, HasTarget, UpTo
  <1>2. CASE FindPending(c)
    BY <1>0, <1>2, RowFacts DEF FindPending, Copies, HasTarget, UpTo
  <1>3. CASE BeatRead(c)
    <2>1. TypeOK'
      BY <1>0, <1>3, RowFacts DEF BeatRead
    <2>2. Copies'
      BY <1>0, <1>3 DEF BeatRead, Copies, UpTo, Rows
    <2>3. HasTarget'
      BY <1>3 DEF BeatRead, HasTarget
    <2> QED
      BY <2>1, <2>2, <2>3
  <1> QED
    BY <1>1, <1>2, <1>3

\* The steps that write a copy to the table.
LEMMA WriteSteps ==
    ASSUME IInv, NEW c \in Chains, Release(c) \/ Lock(c) \/ BeatWrite(c)
    PROVE  IInv'
  <1> USE AgeFacts, NoRowFacts DEF IInv, TypeOK, Places, Copies, HasTarget, UpTo
  <1>1. CASE Release(c) BY <1>1 DEF Release
  <1>2. CASE Lock(c) BY <1>2 DEF Lock
  <1>3. CASE BeatWrite(c) BY <1>3 DEF BeatWrite
  <1> QED BY <1>1, <1>2, <1>3

\* The steps that end a run.
LEMMA EndSteps ==
    ASSUME IInv, NEW c \in Chains, LoseLock(c) \/ Finish(c)
    PROVE  IInv'
  <1>1. CASE LoseLock(c)
    <2>1. store \in Rows /\ UpTo(store) /\ EndRun(c, store) /\ applied' = applied
      BY <1>1 DEF LoseLock, IInv, TypeOK, Copies
    <2>2. pc' \in [Chains -> Places] /\ wait' = wait /\ beat' = beat /\ crashes' = crashes
      BY <1>1 DEF LoseLock, IInv, TypeOK, Places
    <2>3. HasTarget'
      BY <1>1, <2>1, EndRunKeeps DEF LoseLock, IInv, TypeOK, HasTarget
    <2> QED
      BY <2>1, <2>2, <2>3, EndRunKeeps DEF IInv, TypeOK
  <1>2. CASE Finish(c)
    <2>1. snap[c] \in Rows /\ UpTo(snap[c]) /\ EndRun(c, snap[c]) /\ applied' = applied
      BY <1>2 DEF Finish, IInv, TypeOK, Copies
    <2>2. pc' \in [Chains -> Places] /\ wait' = wait /\ beat' = beat /\ crashes' = crashes
      BY <1>2 DEF Finish, IInv, TypeOK, Places
    <2>3. HasTarget'
      BY <1>2, <2>1, EndRunKeeps DEF Finish, IInv, TypeOK, HasTarget
    <2> QED
      BY <2>1, <2>2, <2>3, EndRunKeeps DEF IInv, TypeOK
  <1> QED
    BY <1>1, <1>2

\* The only step that raises a version, and the only one that adds to applied.
LEMMA MigrateStep ==
    ASSUME IInv, NEW c \in Chains, Migrate(c)
    PROVE  IInv'
  <1>1. /\ snap[c] \in Rows /\ snap[c].version \in 0 .. Last - 1
        /\ Target(c) \in Versions /\ Target(c) = snap[c].version + 1
    BY ConstantsAssumption DEF Migrate, IInv, TypeOK, HasTarget, Rows, Versions, Target
  <1>2. /\ snap'[c] \in Rows /\ snap'[c].version = Target(c)
        /\ \A d \in Chains : d # c => snap'[d] = snap[d]
        /\ snap' \in [Chains -> Rows]
    BY <1>1, AgeFacts DEF Migrate, IInv, TypeOK, Rows, Unlocked
  <1>3. TypeOK'
    BY <1>1, <1>2 DEF Migrate, IInv, TypeOK, Places
  <1>4. \A v \in 1 .. Target(c) : v \in applied'
    BY <1>1 DEF Migrate, IInv, Copies, UpTo
  <1>5. applied \subseteq applied' /\ store' = store /\ inFlight' = inFlight
    BY DEF Migrate
  <1>6. Copies'
    BY <1>2, <1>4, <1>5 DEF IInv, Copies, UpTo
  <1>7. HasTarget'
    BY <1>2 DEF Migrate, IInv, TypeOK, HasTarget
  <1> QED
    BY <1>3, <1>6, <1>7 DEF IInv

LEMMA MigrateFailsStep ==
    ASSUME IInv, NEW c \in Chains, MigrateFails(c)
    PROVE  IInv'
  <1>1. snap[c] \in Rows
    BY DEF IInv, TypeOK
  <1>2. TypeOK'
    BY <1>1, RowFacts DEF MigrateFails, IInv, TypeOK, Places
  <1>3. Copies' /\ HasTarget'
    BY <1>1, RowFacts DEF MigrateFails, IInv, TypeOK, Copies, HasTarget, UpTo
  <1> QED
    BY <1>2, <1>3 DEF IInv

LEMMA CrashStep ==
    ASSUME IInv, NEW c \in Chains, Crash(c)
    PROVE  IInv'
  <1>1. store' \in Rows /\ store'.version = store.version
    BY RowFacts DEF Crash, IInv, TypeOK
  <1>2. /\ snap' \in [Chains -> Rows] /\ snap'[c].version = 0
        /\ \A d \in Chains : d # c => snap'[d].version = snap[d].version
    BY RowFacts, NoRowFacts DEF Crash, IInv, TypeOK
  <1>3. inFlight' \in [Chains -> SUBSET Rows]
    <2>1. \A d \in Chains : {Forget(c, read) : read \in inFlight[d]} \in SUBSET Rows
      BY ForgetAll DEF IInv, TypeOK
    <2> QED
      BY <2>1 DEF Crash
  <1>4. TypeOK'
    BY <1>1, <1>2, <1>3, ConstantsAssumption DEF Crash, IInv, TypeOK, Places
  <1>5. \A d \in Chains : UpTo(snap[d])'
    <2> SUFFICES ASSUME NEW d \in Chains
                 PROVE  UpTo(snap[d])'
      OBVIOUS
    <2>1. CASE d = c
      BY <2>1, <1>2 DEF UpTo
    <2>2. CASE d # c
      BY <2>2, <1>2 DEF Crash, IInv, Copies, UpTo
    <2> QED
      BY <2>1, <2>2
  <1>6. \A d \in Chains : \A read \in inFlight'[d] : UpTo(read)'
    <2> SUFFICES ASSUME NEW d \in Chains, d # c, NEW read \in inFlight[d]
                 PROVE  UpTo(Forget(c, read))'
      BY DEF Crash
    <2>1. read \in Rows /\ UpTo(read) /\ applied' = applied
      BY DEF Crash, IInv, TypeOK, Copies
    <2>2. Forget(c, read).version = read.version
      BY RowFacts, <2>1
    <2> QED
      BY <2>1, <2>2 DEF UpTo
  <1>7. Copies'
    BY <1>1, <1>5, <1>6 DEF Crash, IInv, Copies, UpTo
  <1>8. HasTarget'
    BY <1>2 DEF Crash, IInv, TypeOK, HasTarget
  <1> QED
    BY <1>4, <1>7, <1>8 DEF IInv

\* Time changes ages only.
LEMMA TickStep ==
    ASSUME IInv, Tick
    PROVE  IInv'
  <1> USE AgeFacts
  <1>1. \A row \in Rows : OlderRow(row) \in Rows /\ OlderRow(row).version = row.version
    BY OlderFacts
  <1>2. store' \in Rows /\ store'.version = store.version
    BY <1>1 DEF Tick, IInv, TypeOK
  <1>3. /\ snap' \in [Chains -> Rows]
        /\ \A c \in Chains : snap'[c].version = snap[c].version
    BY <1>1 DEF Tick, IInv, TypeOK
  <1>4. inFlight' \in [Chains -> SUBSET Rows]
    BY <1>1 DEF Tick, IInv, TypeOK
  <1>5. wait' \in [Chains -> Ages] /\ beat' \in [Chains -> Ages]
    BY DEF Tick, IInv, TypeOK
  <1>6. TypeOK'
    BY <1>2, <1>3, <1>4, <1>5 DEF Tick, IInv, TypeOK
  <1>7. \A c \in Chains : \A read \in inFlight'[c] : UpTo(read)'
    <2> SUFFICES ASSUME NEW c \in Chains, NEW read \in inFlight[c]
                 PROVE  UpTo(OlderRow(read))'
      BY DEF Tick
    <2>1. read \in Rows /\ UpTo(read) /\ applied' = applied
      BY DEF Tick, IInv, TypeOK, Copies
    <2> QED
      BY <1>1, <2>1 DEF UpTo
  <1>8. Copies'
    BY <1>2, <1>3, <1>7 DEF Tick, IInv, Copies, UpTo
  <1>9. HasTarget'
    BY <1>3 DEF Tick, IInv, HasTarget
  <1> QED
    BY <1>6, <1>8, <1>9 DEF IInv

LEMMA StepIInv == IInv /\ [Next]_vars => IInv'
  <1> SUFFICES ASSUME IInv, [Next]_vars
               PROVE  IInv'
    OBVIOUS
  <1>1. ASSUME NEW c \in Chains, Job(c)
        PROVE  IInv'
    BY <1>1, QuietSteps, ReadSteps, WriteSteps, EndSteps, MigrateStep, MigrateFailsStep
       DEF Job, Find
  <1>2. ASSUME NEW c \in Chains, BeatRead(c) \/ BeatWrite(c) \/ Crash(c) \/ Boot(c)
        PROVE  IInv'
    BY <1>2, ReadSteps, WriteSteps, CrashStep, QuietSteps
  <1>3. CASE Tick
    BY <1>3, TickStep
  <1>4. CASE UNCHANGED vars
    BY <1>4 DEF vars, IInv, TypeOK, Copies, HasTarget, UpTo
  <1> QED
    BY <1>1, <1>2, <1>3, <1>4 DEF Next

LEMMA SpecIInv == Spec => []IInv
  BY InitIInv, StepIInv, PTL DEF Spec

\* The state of MigrationJobs always has its type, for all values of the constants.
THEOREM TypeCorrect == Spec => []TypeOK
  <1>1. IInv => TypeOK
    BY DEF IInv
  <1> QED
    BY SpecIInv, <1>1, PTL

\* For any number of instances, any timing of their database calls and any
\* crashes, job() runs a migration only when all the earlier ones are applied.
THEOREM MigrationsInOrder == Spec => []InOrder
  <1>1. IInv => InOrder
    <2> SUFFICES ASSUME IInv, NEW c \in Chains, Migrating(c), NEW v \in 1 .. Target(c) - 1
                 PROVE  v \in applied
      BY DEF InOrder
    <2>1. snap[c].version \in Nat /\ UpTo(snap[c])
      BY ConstantsAssumption DEF IInv, TypeOK, Copies, Rows, Versions
    <2> QED
      BY <2>1 DEF Target, UpTo
  <1> QED
    BY SpecIInv, <1>1, PTL

-----------------------------------------------------------------------------
(* Mutual exclusion, when database calls and due timers take no time.      *)

Running(c) == pc[c] \in {"migrate", "finishOk", "finishFailed"}
Sleeping(c) == pc[c] = "confirm" /\ wait[c] > 0
LockOf(c) == store.locked /\ store.instance = c

\* The lock of c is safe: it runs, or it waits and nobody can overwrite its id.
Secure(c) == Running(c) \/ (Sleeping(c) /\ LockOf(c))
Active(c) == pc[c] \in {"release", "lock"} \/ Running(c)

\* A run holds the lock until it gives it back.
Held == \A c \in Chains : Running(c) => LockOf(c)

\* While the lock of one chain is safe, the others do nothing that writes the row.
Alone == \A c, d \in Chains : Secure(c) /\ c # d => ~Active(d) /\ inFlight[d] = {}

\* A chain that sleeps has no heartbeat left from an earlier run.
Calm == \A c \in Chains : Sleeping(c) => inFlight[c] = {}

Clocks == \A c \in Chains :
    /\ pc[c] = "confirm" => wait[c] <= ConfirmWait
    /\ Migrating(c) => beat[c] <= Heartbeat

\* How long the row of a lock may have gone without an update.
Fresh == \A c \in Chains :
    /\ pc[c] = "confirm" /\ LockOf(c) => store.age <= wait[c]
    /\ Running(c) => store.age <= ConfirmWait + Heartbeat
    /\ Migrating(c) /\ inFlight[c] = {} => store.age <= ConfirmWait + beat[c]

\* What a chain is about to write.
Writes == \A c \in Chains :
    /\ pc[c] = "lock" => snap[c].locked /\ snap[c].instance = c /\ snap[c].age = 0
    /\ pc[c] \in {"release", "finishOk", "finishFailed"} => ~snap[c].locked
    /\ \A read \in inFlight[c] :
          read.locked /\ read.age = 0 /\ read.instance = IF Running(c) THEN c ELSE Gone

LInv == Held /\ Alone /\ Calm /\ Clocks /\ Fresh /\ Writes

USE DEF Running, Sleeping, LockOf, Secure, Active

\* The copies of the row that a step computes.
LEMMA Marks ==
    ASSUME NEW row \in Rows, NEW c \in Chains
    PROVE  /\ Forget(c, row).locked = row.locked /\ Forget(c, row).age = row.age
           /\ Forget(c, row).instance = IF row.instance = c THEN Gone ELSE row.instance
           /\ ~Unlocked(row).locked
           /\ LockedBy(c, row).locked /\ LockedBy(c, row).age = 0
           /\ LockedBy(c, row).instance = c
           /\ [row EXCEPT !.age = 0].locked = row.locked
           /\ [row EXCEPT !.age = 0].age = 0
           /\ [row EXCEPT !.age = 0].instance = row.instance
  BY DEF Rows, Forget, Unlocked, LockedBy

LEMMA OlderMarks ==
    ASSUME NEW row \in Rows
    PROVE  /\ OlderRow(row).locked = row.locked /\ OlderRow(row).instance = row.instance
           /\ row.locked => OlderRow(row).age = Older(row.age)
  BY DEF Rows, OlderRow

\* Numbers that stand for times.
LEMMA Times ==
    /\ ConfirmWait \in Nat /\ ConfirmWait >= 1
    /\ Heartbeat \in Nat /\ Heartbeat >= 1
    /\ StallAfter \in Nat
    /\ ConfirmWait + Heartbeat <= StallAfter
  BY ConstantsAssumption

LEMMA Aging ==
    ASSUME NEW age \in Ages
    PROVE  /\ Older(age) \in Nat /\ Older(age) <= age + 1
           /\ age <= StallAfter => Older(age) = age + 1
  BY ConstantsAssumption DEF Ages, Older

LEMMA TypeFacts ==
    ASSUME IInv
    PROVE  /\ store \in Rows /\ store.age \in Ages /\ store.locked \in BOOLEAN
           /\ pc \in [Chains -> Places] /\ snap \in [Chains -> Rows]
           /\ wait \in [Chains -> Ages] /\ beat \in [Chains -> Ages]
           /\ inFlight \in [Chains -> SUBSET Rows]
           /\ \A c \in Chains : /\ snap[c] \in Rows /\ inFlight[c] \in SUBSET Rows
                               /\ wait[c] \in Nat /\ beat[c] \in Nat
           /\ store.age \in Nat
  BY ConstantsAssumption DEF IInv, TypeOK, Rows, Ages

LEMMA InitLInv == Init => LInv
  <1> SUFFICES ASSUME Init
               PROVE  LInv
    OBVIOUS
  <1>1. \A c \in Chains : pc[c] = "queued" /\ inFlight[c] = {}
    BY DEF Init
  <1> QED
    BY <1>1 DEF LInv, Held, Alone, Calm, Clocks, Fresh, Writes

\* A lock that is safe is never taken for stalled.
LEMMA SecureLocks ==
    ASSUME IInv, LInv, NEW c \in Chains, Secure(c)
    PROVE  LockOf(c) /\ ~Stalled(store)
  <1>1. LockOf(c)
    BY DEF LInv, Held
  <1>2. store.age <= ConfirmWait + Heartbeat
    BY <1>1, TypeFacts, Times DEF LInv, Fresh, Clocks
  <1> QED
    BY <1>1, <1>2, TypeFacts, Times DEF Stalled

\* The steps that look at the row and write nothing.
LEMMA LookSteps ==
    ASSUME IInv, LInv, NEW c \in Chains,
           \/ FindStalled(c) \/ FindLocked(c) \/ FindNothing(c) \/ FindPending(c)
           \/ Retry(c) \/ Boot(c)
    PROVE  LInv'
  <1> USE TypeFacts
  <1>1. CASE FindLocked(c) \/ FindNothing(c) \/ Retry(c) \/ Boot(c)
    <2>1. /\ pc[c] \in {"queued", "retry", "down"}
          /\ pc'[c] \in {"queued", "retry", "done"}
          /\ \A d \in Chains : d # c => pc'[d] = pc[d] /\ wait'[d] = wait[d]
          /\ UNCHANGED <<store, snap, beat, inFlight>>
      BY <1>1 DEF FindLocked, FindNothing, Retry, Boot
    <2> QED
      BY <2>1 DEF LInv, Held, Alone, Calm, Clocks, Fresh, Writes
  <1>2. CASE FindStalled(c) \/ FindPending(c)
    <2>1. /\ pc[c] = "queued" /\ pc'[c] \in {"release", "lock"}
          /\ \A d \in Chains : d # c => pc'[d] = pc[d] /\ snap'[d] = snap[d]
          /\ UNCHANGED <<store, wait, beat, inFlight>>
      BY <1>2 DEF FindStalled, FindPending
    <2>2. \A d \in Chains : ~Secure(d)
      BY <1>2, SecureLocks DEF FindStalled, FindPending
    <2>3. /\ pc'[c] = "release" => ~snap'[c].locked
          /\ pc'[c] = "lock" => /\ snap'[c].locked /\ snap'[c].instance = c
                                /\ snap'[c].age = 0
      BY <1>2, Marks DEF FindStalled, FindPending
    <2>4. \A d \in Chains : ~Secure(d)'
      BY <2>1, <2>2
    <2>5. Writes'
      BY <2>1, <2>3 DEF LInv, Writes
    <2> QED
      BY <2>1, <2>4, <2>5 DEF LInv, Held, Alone, Calm, Clocks, Fresh
  <1> QED
    BY <1>1, <1>2

\* The steps that write the row without holding the lock: nobody's is safe.
LEMMA OverwriteSteps ==
    ASSUME IInv, LInv, NEW c \in Chains, Release(c) \/ Lock(c)
    PROVE  LInv'
  <1> USE TypeFacts
  <1>1. /\ pc[c] \in {"release", "lock"} /\ pc'[c] \in {"queued", "confirm"}
        /\ \A d \in Chains : d # c => /\ pc'[d] = pc[d] /\ snap'[d] = snap[d]
                                      /\ wait'[d] = wait[d]
        /\ store' = snap[c]
        /\ UNCHANGED <<beat, inFlight>>
    BY DEF Release, Lock
  <1>2. \A d \in Chains : ~Secure(d)
    BY <1>1 DEF LInv, Alone
  <1>3. IF pc'[c] = "confirm" THEN LockOf(c)' /\ store'.age = 0 /\ wait'[c] = 0
                              ELSE ~store'.locked
    BY DEF Release, Lock, LInv, Writes
  <1>4. \A d \in Chains : ~Secure(d)'
    BY <1>1, <1>2, <1>3
  <1>5. Fresh'
    BY <1>1, <1>3, <1>4 DEF Fresh
  <1>6. Clocks'
    BY <1>1, <1>3, Times DEF LInv, Clocks
  <1>7. Calm'
    BY <1>1, <1>3 DEF LInv, Calm
  <1>8. Writes'
    BY <1>1 DEF LInv, Writes
  <1> QED
    BY <1>4, <1>5, <1>6, <1>7, <1>8 DEF LInv, Held, Alone

LEMMA ConfirmSteps ==
    ASSUME IInv, LInv, NEW c \in Chains, Confirm(c)
    PROVE  LInv'
  <1> USE TypeFacts
  <1>1. /\ pc[c] = "confirm" /\ pc'[c] = "migrate" /\ beat'[c] = 0
        /\ \A d \in Chains : d # c => pc'[d] = pc[d] /\ beat'[d] = beat[d]
        /\ UNCHANGED <<store, snap, wait, inFlight>>
    BY DEF Confirm
  <1>2. LockOf(c) /\ Secure(c)
    BY Times DEF Confirm, Confirmed
  <1>3. inFlight[c] = {} /\ store.age <= ConfirmWait
    BY <1>1, <1>2, Times DEF LInv, Calm, Clocks, Fresh
  <1>4. \A d \in Chains : Secure(d)' => Secure(d)
    BY <1>1, <1>2
  <1>5. \A d \in Chains : d # c => ~Secure(d)
    BY <1>2 DEF LInv, Alone
  <1>6. Alone'
    BY <1>1, <1>2, <1>4, <1>5 DEF LInv, Alone
  <1>7. Fresh' /\ Clocks'
    BY <1>1, <1>3, Times DEF LInv, Fresh, Clocks
  <1>8. Held' /\ Calm' /\ Writes'
    BY <1>1, <1>2, <1>3 DEF LInv, Held, Calm, Writes
  <1> QED
    BY <1>6, <1>7, <1>8 DEF LInv

\* The migration is over; the row has not been written yet.
LEMMA OutcomeSteps ==
    ASSUME IInv, LInv, NEW c \in Chains, Migrate(c) \/ MigrateFails(c)
    PROVE  LInv'
  <1> USE TypeFacts
  <1>1. /\ pc[c] = "migrate" /\ pc'[c] \in {"finishOk", "finishFailed"}
        /\ \A d \in Chains : d # c => pc'[d] = pc[d] /\ snap'[d] = snap[d]
        /\ UNCHANGED <<store, wait, beat, inFlight>>
    BY DEF Migrate, MigrateFails
  <1>2. ~snap'[c].locked
    <2>1. snap[c] \in Rows /\ ~Unlocked(snap[c]).locked /\ Unlocked(snap[c]) \in Rows
      BY Marks, RowFacts
    <2>2. CASE Migrate(c)
      BY <2>1, <2>2 DEF Migrate, Rows
    <2>3. CASE MigrateFails(c)
      BY <2>1, <2>3 DEF MigrateFails
    <2> QED
      BY <2>2, <2>3
  <1> QED
    BY <1>1, <1>2 DEF LInv, Held, Alone, Calm, Clocks, Fresh, Writes

\* Forgetting the id of c leaves the lock and the plans of the others alone.
LEMMA ForgetOther ==
    ASSUME NEW row \in Rows, NEW c \in Chains, row.instance # c
    PROVE  Forget(c, row) = row
  BY DEF Forget

\* The steps after which chain c takes no part: a lock that is lost or given
\* back, and a crash.
LEMMA LeaveSteps ==
    ASSUME IInv, LInv, NEW c \in Chains, LoseLock(c) \/ Finish(c) \/ Crash(c)
    PROVE  LInv'
  <1> USE TypeFacts
  <1>1. /\ pc'[c] \in {"queued", "done", "down"}
        /\ \A d \in Chains : d # c => pc'[d] = pc[d] /\ snap'[d] = Forget(c, snap[d])
        /\ UNCHANGED <<wait, beat>>
    BY DEF LoseLock, Finish, Crash, EndRun
  <1>2. \A d \in Chains : \A read \in inFlight'[d] :
            \E old \in inFlight[d] : read = Forget(c, old)
    BY DEF LoseLock, Finish, Crash, EndRun
  <1>3. \A d \in Chains : inFlight[d] = {} => inFlight'[d] = {}
    BY <1>2
  <1>4. \A d \in Chains : d # c /\ inFlight'[d] = {} => inFlight[d] = {}
    <2> SUFFICES ASSUME NEW d \in Chains, d # c, NEW old \in inFlight[d]
                 PROVE  inFlight'[d] # {}
      OBVIOUS
    <2>1. Forget(c, old) \in inFlight'[d]
      BY DEF LoseLock, Finish, Crash, EndRun
    <2> QED
      BY <2>1
  <1>5. \/ store' = Forget(c, store)
        \/ Running(c) /\ ~store'.locked
    <2>1. CASE Finish(c)
      <3>1. Running(c) /\ ~snap[c].locked /\ store' = Forget(c, snap[c])
        BY <2>1 DEF Finish, EndRun, LInv, Writes
      <3> QED
        BY <3>1, Marks
    <2>2. CASE LoseLock(c) \/ Crash(c)
      BY <2>2 DEF LoseLock, Crash, EndRun
    <2> QED
      BY <2>1, <2>2
  <1>6. \A d \in Chains : LockOf(d)' => LockOf(d) /\ d # c /\ store' = store
    <2> SUFFICES ASSUME NEW d \in Chains, LockOf(d)'
                 PROVE  LockOf(d) /\ d # c /\ store' = store
      OBVIOUS
    <2>1. store' = Forget(c, store) /\ d # Gone
      BY <1>5, ConstantsAssumption
    <2>2. store.instance # c
      BY <2>1, Marks, ConstantsAssumption
    <2> QED
      BY <2>1, <2>2, ForgetOther
  <1>7. \A d \in Chains : d # c /\ Running(d) => LockOf(d)'
    <2> SUFFICES ASSUME NEW d \in Chains, d # c, Running(d)
                 PROVE  LockOf(d)'
      OBVIOUS
    <2>1. LockOf(d) /\ ~Running(c)
      BY DEF LInv, Held
    <2>2. store' = store
      BY <2>1, <1>5, ForgetOther
    <2> QED
      BY <2>1, <2>2
  <1>8. \A d \in Chains : Secure(d)' => Secure(d) /\ d # c
    BY <1>1, <1>6
  <1>9. Held' /\ Calm' /\ Clocks'
    BY <1>1, <1>3, <1>7 DEF LInv, Held, Calm, Clocks
  <1>10. Alone'
    BY <1>1, <1>3, <1>8 DEF LInv, Alone
  <1>11. Fresh'
    BY <1>1, <1>4, <1>6, <1>7 DEF LInv, Fresh
  <1>12. Writes'
    <2> SUFFICES ASSUME NEW d \in Chains
                 PROVE  /\ pc'[d] = "lock" => /\ snap'[d].locked /\ snap'[d].instance = d
                                              /\ snap'[d].age = 0
                        /\ pc'[d] \in {"release", "finishOk", "finishFailed"} =>
                              ~snap'[d].locked
                        /\ \A read \in inFlight'[d] :
                              /\ read.locked /\ read.age = 0
                              /\ read.instance = IF Running(d)' THEN d ELSE Gone
      BY DEF Writes
    <2>1. d # c /\ pc[d] = "lock" => snap'[d] = snap[d]
      BY <1>1, ForgetOther DEF LInv, Writes
    <2>2. d # c => snap'[d].locked = snap[d].locked
      BY <1>1, Marks
    <2>3. ASSUME NEW read \in inFlight'[d]
          PROVE  /\ read.locked /\ read.age = 0
                 /\ read.instance = IF Running(d)' THEN d ELSE Gone
      <3>1. PICK old \in inFlight[d] : read = Forget(c, old)
        BY <1>2
      <3>2. old.locked /\ old.age = 0 /\ old.instance = IF Running(d) THEN d ELSE Gone
        BY DEF LInv, Writes
      <3>3. old \in Rows /\ Gone # c
        BY ConstantsAssumption
      <3>4. read.locked /\ read.age = 0
        BY <3>1, <3>2, <3>3, Marks
      <3>5. CASE d = c
        BY <3>1, <3>2, <3>3, <3>4, <3>5, <1>1, Marks
      <3>6. CASE d # c
        BY <3>1, <3>2, <3>3, <3>4, <3>6, <1>1, Marks
      <3> QED
        BY <3>5, <3>6
    <2> QED
      BY <2>1, <2>2, <2>3, <1>1 DEF LInv, Writes
  <1> QED
    BY <1>9, <1>10, <1>11, <1>12 DEF LInv

LEMMA BeatReadStep ==
    ASSUME IInv, LInv, NEW c \in Chains, BeatRead(c)
    PROVE  LInv'
  <1> USE TypeFacts
  <1>1. /\ pc[c] = "migrate" /\ beat'[c] = 0
        /\ inFlight'[c] = {[store EXCEPT !.age = 0]}
        /\ \A d \in Chains : d # c => inFlight'[d] = inFlight[d] /\ beat'[d] = beat[d]
        /\ UNCHANGED <<store, pc, snap, wait>>
    BY DEF BeatRead, BeatDue
  <1>2. LockOf(c) /\ \A d \in Chains : Secure(d) => d = c
    BY <1>1 DEF LInv, Held, Alone
  <1>3. Writes'
    <2>1. /\ [store EXCEPT !.age = 0].locked /\ [store EXCEPT !.age = 0].age = 0
          /\ [store EXCEPT !.age = 0].instance = c
      BY <1>2, Marks
    <2>2. ASSUME NEW read \in inFlight'[c]
          PROVE  read.locked /\ read.age = 0 /\ read.instance = c
      <3>1. read = [store EXCEPT !.age = 0]
        BY <1>1
      <3> QED
        BY <2>1, <3>1
    <2>3. \A d \in Chains : Running(d)' = Running(d)
      BY <1>1
    <2>4. \A d \in Chains : d # c => inFlight'[d] = inFlight[d]
      BY <1>1
    <2>5. snap' = snap /\ pc' = pc /\ Running(c)
      BY <1>1
    <2> QED
      BY <2>2, <2>3, <2>4, <2>5 DEF LInv, Writes
  <1>4. Fresh' /\ Clocks'
    <2>1. inFlight'[c] # {} /\ pc[c] = "migrate" /\ beat'[c] = 0
      BY <1>1
    <2>2. \A d \in Chains : d # c => inFlight'[d] = inFlight[d] /\ beat'[d] = beat[d]
      BY <1>1
    <2>3. UNCHANGED <<store, pc, wait>>
      BY <1>1
    <2>4. Fresh'
      BY <2>1, <2>2, <2>3 DEF LInv, Fresh
    <2>5. Clocks'
      BY <2>1, <2>2, <2>3, Times DEF LInv, Clocks
    <2> QED
      BY <2>4, <2>5
  <1>5. Held' /\ Alone' /\ Calm'
    BY <1>1, <1>2 DEF LInv, Held, Alone, Calm
  <1> QED
    BY <1>3, <1>4, <1>5 DEF LInv

\* The heartbeat of a run that is over leaves a lock of nobody.
LEMMA BeatWriteStep ==
    ASSUME IInv, LInv, NEW c \in Chains, BeatWrite(c)
    PROVE  LInv'
  <1> USE TypeFacts
  <1>1. /\ store' \in inFlight[c] /\ inFlight'[c] = {}
        /\ \A d \in Chains : d # c => inFlight'[d] = inFlight[d]
        /\ UNCHANGED <<pc, snap, wait, beat>>
    BY DEF BeatWrite
  <1>2. /\ store'.locked /\ store'.age = 0
        /\ store'.instance = IF Running(c) THEN c ELSE Gone
    BY <1>1 DEF LInv, Writes
  <1>3. \A d \in Chains : Secure(d) => d = c /\ Running(c)
    BY <1>1 DEF LInv, Alone, Calm
  <1>4. \A d \in Chains : LockOf(d)' => d = c /\ Running(c)
    BY <1>2, ConstantsAssumption
  <1>5. Held'
    BY <1>1, <1>2, <1>3 DEF Held
  <1>6. Alone'
    BY <1>1, <1>3, <1>4 DEF LInv, Alone
  <1>7. Fresh'
    BY <1>1, <1>2, <1>4, <1>3, Times DEF Fresh
  <1>8. Calm' /\ Clocks' /\ Writes'
    BY <1>1 DEF LInv, Calm, Clocks, Writes
  <1> QED
    BY <1>5, <1>6, <1>7, <1>8 DEF LInv

\* Time passes only when nothing is due: every write of the instant is over.
LEMMA TickKeepsLocks ==
    ASSUME Timely, IInv, LInv, Tick
    PROVE  LInv'
  <1> USE TypeFacts
  <1>1. \A c \in Chains :
            /\ pc[c] \notin {"release", "lock", "finishOk", "finishFailed"}
            /\ pc[c] = "confirm" => wait[c] < ConfirmWait
            /\ Migrating(c) => beat[c] < Heartbeat
            /\ inFlight[c] = {}
    BY Times DEF Tick, Due, BeatDue
  <1>2. /\ store'.locked = store.locked /\ store'.instance = store.instance
        /\ store.locked => store'.age = Older(store.age)
        /\ pc' = pc
        /\ \A c \in Chains : inFlight'[c] = {}
    <2>1. store' = OlderRow(store) /\ pc' = pc
      BY DEF Tick
    <2>2. \A c \in Chains : inFlight'[c] = {}
      BY <1>1 DEF Tick
    <2> QED
      BY <2>1, <2>2, OlderMarks
  <1>3. \A c \in Chains : /\ pc[c] = "confirm" => wait'[c] = wait[c] + 1
                          /\ Migrating(c) => beat'[c] = beat[c] + 1
    <2> SUFFICES ASSUME NEW c \in Chains
                 PROVE  /\ pc[c] = "confirm" => wait'[c] = wait[c] + 1
                        /\ Migrating(c) => beat'[c] = beat[c] + 1
      OBVIOUS
    <2>1. /\ pc[c] = "confirm" => wait'[c] = Older(wait[c])
          /\ Migrating(c) => beat'[c] = Older(beat[c])
      BY DEF Tick, Asleep
    <2>2. /\ pc[c] = "confirm" => wait[c] <= StallAfter
          /\ Migrating(c) => beat[c] <= StallAfter
      BY <1>1, Times
    <2>3. wait[c] \in Ages /\ beat[c] \in Ages
      OBVIOUS
    <2> QED
      BY <2>1, <2>2, <2>3, Aging
  <1>4. store.locked => store'.age \in Nat /\ store'.age <= store.age + 1
    BY <1>2, Aging
  <1>5. Held'
    BY <1>2 DEF LInv, Held
  <1>6. \A c, d \in Chains : Secure(c)' /\ c # d => ~Active(d)'
    BY <1>1, <1>2 DEF LInv, Held
  <1>7. Clocks'
    BY <1>1, <1>2, <1>3, Times DEF Clocks
  <1>8. Fresh'
    <2> SUFFICES ASSUME NEW c \in Chains, (pc[c] = "confirm" /\ LockOf(c)) \/ Migrating(c)
                 PROVE  /\ pc[c] = "confirm" => store'.age <= wait'[c]
                        /\ Migrating(c) => store'.age <= ConfirmWait + beat'[c]
                        /\ Migrating(c) => store'.age <= ConfirmWait + Heartbeat
      BY <1>1, <1>2 DEF Fresh
    <2>1. store.locked /\ store'.age <= store.age + 1 /\ store'.age \in Nat
      BY <1>4 DEF LInv, Held
    <2>2. wait[c] \in Nat /\ beat[c] \in Nat /\ store.age \in Nat
      BY Times
    <2>3. CASE pc[c] = "confirm"
      BY <2>1, <2>2, <2>3, <1>3 DEF LInv, Fresh
    <2>4. CASE Migrating(c)
      <3>1. store.age <= ConfirmWait + beat[c] /\ beat[c] + 1 <= Heartbeat
        BY <2>2, <2>4, <1>1, Times DEF LInv, Fresh
      <3> QED
        BY <2>1, <2>2, <2>4, <3>1, <1>3, Times
    <2> QED
      BY <2>3, <2>4
  <1>9. Alone' /\ Calm' /\ Writes'
    BY <1>1, <1>2, <1>6 DEF Alone, Calm, Writes
  <1> QED
    BY <1>5, <1>7, <1>8, <1>9 DEF LInv

LEMMA StepLInv == Timely /\ IInv /\ LInv /\ [Next]_vars => LInv'
  <1> SUFFICES ASSUME Timely, IInv, LInv, [Next]_vars
               PROVE  LInv'
    OBVIOUS
  <1>1. ASSUME NEW c \in Chains, Job(c)
        PROVE  LInv'
    BY <1>1, LookSteps, OverwriteSteps, ConfirmSteps, OutcomeSteps, LeaveSteps
       DEF Job, Find
  <1>2. ASSUME NEW c \in Chains, BeatRead(c) \/ BeatWrite(c) \/ Crash(c) \/ Boot(c)
        PROVE  LInv'
    BY <1>2, BeatReadStep, BeatWriteStep, LeaveSteps, LookSteps
  <1>3. CASE Tick
    BY <1>3, TickKeepsLocks
  <1>4. CASE UNCHANGED vars
    BY <1>4 DEF vars, LInv, Held, Alone, Calm, Clocks, Fresh, Writes
  <1> QED
    BY <1>1, <1>2, <1>3, <1>4 DEF Next

\* If database calls and due timers take no time worth measuring, the lock, its
\* confirmation after five seconds and the heartbeat keep two runs from migrating
\* at the same time, whatever the number of instances and crashes, and with any
\* waits that leave a heartbeat and a confirmation within the stall limit.
THEOREM OneAtATime == Timely /\ Spec => []Exclusive
  <1>1. LInv => Exclusive
    BY DEF LInv, Alone, Exclusive
  <1>2. CASE Timely
    <2>1. IInv /\ LInv /\ [Next]_vars => LInv'
      BY <1>2, StepLInv
    <2> QED
      BY <1>1, <2>1, InitLInv, SpecIInv, PTL DEF Spec
  <1>3. CASE ~Timely
    BY <1>3
  <1> QED
    BY <1>2, <1>3

-----------------------------------------------------------------------------
(* Under the same condition the runs that migrate are those of             *)
(* SerialMigrations: a run that confirms its lock begins, one that         *)
(* succeeds, fails or dies ends, and nothing else is seen there.           *)

Turns == {<<c, Target(c)>> : c \in {d \in Chains : Migrating(d)}}

LEMMA VersionFacts ==
    ASSUME IInv
    PROVE  /\ store.version \in Nat /\ \A c \in Chains : snap[c].version \in Nat
           /\ applied \subseteq Nat
  BY ConstantsAssumption DEF IInv, TypeOK, Rows, Versions

LEMMA TheTurn ==
    ASSUME Exclusive, NEW c \in Chains, Migrating(c)
    PROVE  Turns = {<<c, Target(c)>>}
  <1>1. {d \in Chains : Migrating(d)} = {c}
    BY DEF Exclusive
  <1> QED
    BY <1>1 DEF Turns

LEMMA ConfirmBegins ==
    ASSUME IInv, LInv, LInv', NEW c \in Chains, Confirm(c)
    PROVE  Serial!Next
  <1>1. /\ pc[c] = "confirm" /\ pc' = [pc EXCEPT ![c] = "migrate"]
        /\ UNCHANGED <<snap, applied>>
    BY DEF Confirm
  <1>2. Migrating(c)' /\ \A d \in Chains : Migrating(d) => Migrating(d)'
    BY <1>1 DEF IInv, TypeOK
  <1>3. Exclusive'
    BY DEF LInv, Alone, Secure, Active, Running, Exclusive
  <1>4. \A d \in Chains : ~Migrating(d)
    BY <1>1, <1>2, <1>3 DEF Exclusive
  <1>5. Turns = {}
    BY <1>4 DEF Turns
  <1>6. Target(c)' = Target(c)
    BY <1>1 DEF Target
  <1>7. Turns' = {<<c, Target(c)>>}
    <2>1. {d \in Chains : Migrating(d)'} = {c}
      BY <1>2, <1>3 DEF Exclusive
    <2> QED
      BY <2>1, <1>6 DEF Turns
  <1>8. snap[c].version \in Nat /\ snap[c].version < Last /\ UpTo(snap[c])
    BY <1>1, VersionFacts DEF IInv, Copies, HasTarget
  <1>9. Target(c) \in Versions
    BY <1>8, ConstantsAssumption DEF Target, Versions
  <1>10. \A u \in 1 .. Target(c) - 1 : u \in applied
    BY <1>8 DEF Target, UpTo
  <1>11. \E v \in Versions : Serial!Begin(c, v)
    <2>1. PICK v : v = Target(c)
      OBVIOUS
    <2>2. v \in Versions /\ Serial!Begin(c, v)
      BY <2>1, <1>1, <1>5, <1>7, <1>9, <1>10 DEF Serial!Begin, Turns
    <2> QED
      BY <2>2
  <1> QED
    BY <1>11 DEF Serial!Next

\* The three ways to end: a success, a failure and the death of the instance.
LEMMA EndOfTurn ==
    ASSUME IInv, LInv, NEW c \in Chains, Migrating(c),
           Migrate(c) \/ MigrateFails(c) \/ Crash(c)
    PROVE  Serial!Next
  <1>1. Exclusive
    BY DEF LInv, Alone, Secure, Active, Running, Exclusive
  <1>2. Turns = {<<c, Target(c)>>}
    BY <1>1, TheTurn
  <1>3. pc'[c] # "migrate" /\ \A d \in Chains : d # c => pc'[d] = pc[d]
    BY DEF Migrate, MigrateFails, Crash, IInv, TypeOK
  <1>4. Turns' = {}
    <2>1. \A d \in Chains : ~Migrating(d)'
      BY <1>1, <1>3 DEF Exclusive
    <2> QED
      BY <2>1 DEF Turns
  <1>5. Serial!End(c, Target(c))
    BY <1>2, <1>4 DEF Serial!End, Turns
  <1>6. Target(c) \in Versions
    BY VersionFacts, ConstantsAssumption DEF IInv, HasTarget, Target, Versions
  <1>7. applied' = applied \cup {Target(c)} \/ applied' = applied
    BY DEF Migrate, MigrateFails, Crash
  <1>8. Serial!Succeed(c, Target(c)) \/ Serial!GiveUp(c, Target(c))
    BY <1>5, <1>7 DEF Serial!Succeed, Serial!GiveUp
  <1> QED
    BY <1>6, <1>8 DEF Serial!Next

LEMMA SameTurns ==
    ASSUME applied' = applied,
           \A d \in Chains : Migrating(d)' <=> Migrating(d),
           \A d \in Chains : Migrating(d) => snap'[d].version = snap[d].version
    PROVE  UNCHANGED Serial!serialVars
  <1>1. \A d \in Chains : Migrating(d) => Target(d)' = Target(d)
    BY DEF Target
  <1>2. {d \in Chains : Migrating(d)'} = {d \in Chains : Migrating(d)}
    OBVIOUS
  <1>3. Turns' = Turns
    BY <1>1, <1>2 DEF Turns
  <1> QED
    BY <1>3 DEF Serial!serialVars, Turns

\* Every other step of a run, of a heartbeat and of the clock.
LEMMA HiddenSteps ==
    ASSUME IInv, NEW c \in Chains,
           \/ Find(c) \/ Release(c) \/ Retry(c) \/ Lock(c) \/ LoseLock(c) \/ Finish(c)
           \/ BeatRead(c) \/ BeatWrite(c) \/ Boot(c) \/ (Crash(c) /\ ~Migrating(c))
    PROVE  UNCHANGED Serial!serialVars
  <1>1. applied' = applied
    BY DEF Find, FindStalled, FindLocked, FindNothing, FindPending, Release, Retry, Lock,
           LoseLock, Finish, BeatRead, BeatWrite, Boot, Crash
  <1>2. \A d \in Chains : d # c => pc'[d] = pc[d]
    BY DEF Find, FindStalled, FindLocked, FindNothing, FindPending, Release, Retry, Lock,
           LoseLock, Finish, BeatRead, BeatWrite, Boot, Crash, IInv, TypeOK
  <1>3. Migrating(c)' <=> Migrating(c)
    BY DEF Find, FindStalled, FindLocked, FindNothing, FindPending, Release, Retry, Lock,
           LoseLock, Finish, BeatRead, BeatWrite, Boot, Crash, IInv, TypeOK
  <1>4. \A d \in Chains : Migrating(d) => snap'[d].version = snap[d].version
    <2> SUFFICES ASSUME NEW d \in Chains, Migrating(d)
                 PROVE  snap'[d].version = snap[d].version
      OBVIOUS
    <2>1. CASE LoseLock(c) \/ Finish(c) \/ (Crash(c) /\ ~Migrating(c))
      <3>1. d # c /\ snap'[d] = Forget(c, snap[d])
        BY <2>1 DEF LoseLock, Finish, Crash, EndRun
      <3> QED
        BY <3>1, RowFacts DEF IInv, TypeOK
    <2>2. CASE Find(c) \/ Release(c)
      BY <2>2 DEF Find, FindStalled, FindLocked, FindNothing, FindPending, Release,
                  IInv, TypeOK
    <2>3. CASE Retry(c) \/ Lock(c) \/ BeatRead(c) \/ BeatWrite(c) \/ Boot(c)
      BY <2>3 DEF Retry, Lock, BeatRead, BeatWrite, Boot
    <2> QED
      BY <2>1, <2>2, <2>3
  <1> QED
    BY <1>1, <1>2, <1>3, <1>4, SameTurns

LEMMA SerialStep ==
    ASSUME IInv, LInv, LInv', [Next]_vars
    PROVE  [Serial!Next]_Serial!serialVars
  <1>1. ASSUME NEW c \in Chains,
               Job(c) \/ BeatRead(c) \/ BeatWrite(c) \/ Crash(c) \/ Boot(c)
        PROVE  [Serial!Next]_Serial!serialVars
    <2>1. CASE Confirm(c)
      BY <2>1, ConfirmBegins
    <2>2. CASE Migrate(c) \/ MigrateFails(c) \/ (Crash(c) /\ Migrating(c))
      <3>1. Migrating(c)
        BY <2>2 DEF Migrate, MigrateFails
      <3> QED
        BY <2>2, <3>1, EndOfTurn
    <2>3. CASE /\ ~Confirm(c) /\ ~Migrate(c) /\ ~MigrateFails(c)
               /\ ~(Crash(c) /\ Migrating(c))
      BY <1>1, <2>3, HiddenSteps DEF Job
    <2> QED
      BY <2>1, <2>2, <2>3
  <1>2. CASE Tick
    <2>1. /\ applied' = applied /\ pc' = pc
          /\ \A d \in Chains : Migrating(d) => snap'[d] = snap[d]
      BY <1>2 DEF Tick
    <2> QED
      BY <2>1, SameTurns
  <1>3. CASE UNCHANGED vars
    <2>1. applied' = applied /\ pc' = pc /\ snap' = snap
      BY <1>3 DEF vars
    <2> QED
      BY <2>1, SameTurns
  <1> QED
    BY <1>1, <1>2, <1>3 DEF Next

\* Under the condition of OneAtATime, what job() does with the migrations is what
\* SerialMigrations allows: whatever is overwritten, broken as stalled or lost in a crash,
\* a migration begins when no other runs and its predecessors are applied, stays the only
\* one until it succeeds, fails or dies, and only a success is recorded.
THEOREM MigrationsAreSerial == Timely /\ Spec => ImplementsSerial
  <1>1. Init => Serial!Init
    BY DEF Init, Serial!Init
  <1>2. CASE Timely
    <2>1. IInv /\ LInv /\ [Next]_vars => LInv'
      BY <1>2, StepLInv
    <2>2. IInv /\ LInv /\ LInv' /\ [Next]_vars => [Serial!Next]_Serial!serialVars
      BY SerialStep
    <2> QED
      BY <1>1, <2>1, <2>2, InitLInv, SpecIInv, PTL DEF Spec, ImplementsSerial, Serial!Spec
  <1>3. CASE ~Timely
    BY <1>3
  <1> QED
    BY <1>2, <1>3

-----------------------------------------------------------------------------
(* When a migration may run twice.  While runs exclude each other, two     *)
(* things can put an old version back into the row or keep a new one out   *)
(* of it: a heartbeat that is in flight when a migration ends, and a       *)
(* crash.  Without them none runs twice.                                   *)

Undisturbed == Timely /\ ShortRuns /\ MaxCrashes = 0

NoBeats == \A c \in Chains : inFlight[c] = {} /\ (Migrating(c) => beat[c] < Heartbeat)

\* Whoever may write the row or migrate has the version that is in the row.
Current == \A c \in Chains :
    /\ pc[c] \in {"release", "lock", "migrate", "finishFailed"} =>
          snap[c].version = store.version
    /\ pc[c] = "confirm" /\ LockOf(c) => snap[c].version = store.version
    /\ pc[c] = "finishOk" => snap[c].version = store.version + 1

\* What has been applied is in the row, or about to be written there.
Recorded ==
    \A v \in applied :
        v <= store.version \/ \E c \in Chains : pc[c] = "finishOk" /\ snap[c].version = v

VInv == NoBeats /\ Current /\ Recorded

LEMMA InitVInv == Init => VInv
  BY Times DEF Init, VInv, NoBeats, Current, Recorded

\* The steps that end a run, before which nobody else had the lock.
LEMMA FinishKeepsVersions ==
    ASSUME IInv, LInv, VInv, NEW c \in Chains, Finish(c)
    PROVE  VInv'
  <1> USE TypeFacts, VersionFacts
  <1>1. /\ Running(c) /\ pc'[c] \in {"queued", "done"}
        /\ \A d \in Chains : d # c => pc'[d] = pc[d]
        /\ EndRun(c, snap[c])
        /\ UNCHANGED <<wait, beat, applied, crashes>>
    BY DEF Finish
  <1>2. store'.version = snap[c].version /\ ~store'.locked
    <2>1. store' = Forget(c, snap[c]) /\ snap[c] \in Rows /\ ~snap[c].locked
      BY <1>1 DEF Finish, EndRun, LInv, Writes
    <2>2. Forget(c, snap[c]).version = snap[c].version
      BY <2>1, RowFacts
    <2>3. Forget(c, snap[c]).locked = snap[c].locked
      BY <2>1, Marks
    <2> QED
      BY <2>1, <2>2, <2>3
  <1>3. \A d \in Chains : d # c => ~Active(d)
    BY <1>1 DEF LInv, Alone
  <1>4. NoBeats'
    BY <1>1 DEF EndRun, VInv, NoBeats
  <1>5. Current'
    BY <1>1, <1>2, <1>3 DEF Current
  <1>6. Recorded'
    <2> SUFFICES ASSUME NEW v \in applied
                 PROVE  v <= store'.version
      BY <1>1 DEF Recorded
    <2>1. \/ v <= store.version
          \/ pc[c] = "finishOk" /\ snap[c].version = v
      BY <1>3 DEF VInv, Recorded
    <2>2. store.version <= store'.version /\ store'.version \in Nat /\ v \in Nat
      BY <1>1, <1>2 DEF Finish, VInv, Current
    <2> QED
      BY <1>2, <2>1, <2>2
  <1> QED
    BY <1>4, <1>5, <1>6 DEF VInv

LEMMA LoseKeepsVersions ==
    ASSUME IInv, LInv, VInv, NEW c \in Chains, LoseLock(c)
    PROVE  VInv'
  <1> USE TypeFacts, VersionFacts
  <1>1. /\ pc[c] = "confirm" /\ pc'[c] = "done"
        /\ \A d \in Chains : d # c => pc'[d] = pc[d]
        /\ EndRun(c, store)
        /\ UNCHANGED <<wait, beat, applied, crashes>>
    BY DEF LoseLock
  <1>2. store'.version = store.version /\ store'.locked = store.locked
    <2>1. store' = Forget(c, store)
      BY <1>1 DEF EndRun
    <2>2. Forget(c, store).version = store.version
      BY RowFacts
    <2>3. Forget(c, store).locked = store.locked
      BY Marks
    <2> QED
      BY <2>1, <2>2, <2>3
  <1>3. \A d \in Chains : d # c => snap'[d].version = snap[d].version
    BY <1>1, EndRunKeeps DEF IInv, Copies
  <1>4. \A d \in Chains : LockOf(d)' => LockOf(d)
    BY <1>1, Marks, ConstantsAssumption DEF EndRun
  <1>5. NoBeats'
    BY <1>1 DEF EndRun, VInv, NoBeats
  <1>6. Current' /\ Recorded'
    BY <1>1, <1>2, <1>3, <1>4 DEF VInv, Current, Recorded
  <1> QED
    BY <1>5, <1>6 DEF VInv

LEMMA JobKeepsVersions ==
    ASSUME IInv, LInv, VInv, NEW c \in Chains, Job(c) \/ Boot(c)
    PROVE  VInv'
  <1> USE TypeFacts, VersionFacts
  <1>1. CASE FindLocked(c) \/ FindNothing(c) \/ Retry(c) \/ Boot(c)
    BY <1>1 DEF FindLocked, FindNothing, Retry, Boot, VInv, NoBeats, Current, Recorded
  <1>2. CASE FindStalled(c) \/ FindPending(c)
    <2>1. /\ pc[c] = "queued" /\ pc'[c] \in {"release", "lock"}
          /\ \A d \in Chains : d # c => pc'[d] = pc[d] /\ snap'[d] = snap[d]
          /\ UNCHANGED <<store, beat, inFlight, applied>>
      BY <1>2 DEF FindStalled, FindPending
    <2>2. snap'[c].version = store.version
      <3>1. snap'[c] \in {Unlocked(store), LockedBy(c, store)}
        BY <1>2 DEF FindStalled, FindPending
      <3> QED
        BY <3>1, RowFacts
    <2> QED
      BY <2>1, <2>2 DEF VInv, NoBeats, Current, Recorded
  <1>3. CASE Release(c) \/ Lock(c)
    <2>1. /\ pc[c] \in {"release", "lock"} /\ pc'[c] \in {"queued", "confirm"}
          /\ \A d \in Chains : d # c => pc'[d] = pc[d] /\ snap'[d] = snap[d]
          /\ store' = snap[c] /\ store'.version = store.version
          /\ UNCHANGED <<beat, inFlight, applied>>
      BY <1>3 DEF Release, Lock, VInv, Current
    <2>2. pc'[c] = "confirm" => store'.instance = c /\ snap'[c] = snap[c]
      BY <1>3 DEF Release, Lock, LInv, Writes
    <2>3. pc'[c] # "confirm" => ~store'.locked
      BY <1>3 DEF Release, Lock, LInv, Writes
    <2>4. NoBeats'
      BY <2>1 DEF VInv, NoBeats
    <2>5. Current'
      BY <2>1, <2>2, <2>3 DEF VInv, Current
    <2>6. Recorded'
      BY <2>1 DEF VInv, Recorded
    <2> QED
      BY <2>4, <2>5, <2>6 DEF VInv
  <1>4. CASE Confirm(c)
    BY <1>4, Times DEF Confirm, Confirmed, VInv, NoBeats, Current, Recorded
  <1>5. CASE Migrate(c)
    <2>1. /\ pc[c] = "migrate" /\ pc'[c] = "finishOk"
          /\ \A d \in Chains : d # c => pc'[d] = pc[d] /\ snap'[d] = snap[d]
          /\ applied' = applied \cup {Target(c)}
          /\ UNCHANGED <<store, beat, inFlight>>
      BY <1>5 DEF Migrate
    <2>2. Target(c) = store.version + 1
      BY <2>1 DEF Target, VInv, Current
    <2>3. snap'[c].version = Target(c)
      <3>1. snap'[c] = [Unlocked(snap[c]) EXCEPT !.version = Target(c)]
        BY <1>5 DEF Migrate
      <3>2. Unlocked(snap[c]) \in Rows
        BY RowFacts
      <3> QED
        BY <3>1, <3>2 DEF Rows
    <2> QED
      BY <2>1, <2>2, <2>3 DEF VInv, NoBeats, Current, Recorded
  <1>6. CASE MigrateFails(c)
    <2>1. /\ pc[c] = "migrate" /\ pc'[c] = "finishFailed"
          /\ \A d \in Chains : d # c => pc'[d] = pc[d] /\ snap'[d] = snap[d]
          /\ UNCHANGED <<store, beat, inFlight, applied>>
      BY <1>6 DEF MigrateFails
    <2>2. snap'[c].version = snap[c].version
      BY <1>6, RowFacts DEF MigrateFails
    <2> QED
      BY <2>1, <2>2 DEF VInv, NoBeats, Current, Recorded
  <1> QED
    BY <1>1, <1>2, <1>3, <1>4, <1>5, <1>6, FinishKeepsVersions, LoseKeepsVersions
       DEF Job, Find

LEMMA TickKeepsVersions ==
    ASSUME ShortRuns, IInv, VInv, Tick
    PROVE  VInv'
  <1> USE TypeFacts, VersionFacts
  <1>1. /\ store'.version = store.version
        /\ store'.locked = store.locked /\ store'.instance = store.instance
        /\ pc' = pc /\ applied' = applied
    BY OlderFacts, OlderMarks DEF Tick
  <1>2. \A c \in Chains : snap'[c].version = snap[c].version
    BY OlderFacts DEF Tick
  <1>3. NoBeats'
    <2> SUFFICES ASSUME NEW c \in Chains
                 PROVE  inFlight'[c] = {} /\ (Migrating(c) => beat'[c] < Heartbeat)
      BY <1>1 DEF NoBeats
    <2>1. inFlight'[c] = {}
      BY DEF Tick, VInv, NoBeats
    <2>2. ASSUME Migrating(c)
          PROVE  beat'[c] < Heartbeat
      <3>1. beat[c] \in Ages /\ beat'[c] = Older(beat[c]) /\ ~(beat[c] + 1 >= Heartbeat)
        BY <2>2 DEF Tick, LongRun
      <3> QED
        BY <3>1, Aging, Times
    <2> QED
      BY <2>1, <2>2
  <1>4. Current' /\ Recorded'
    BY <1>1, <1>2 DEF VInv, Current, Recorded
  <1> QED
    BY <1>3, <1>4 DEF VInv

LEMMA StepVInv == Undisturbed /\ IInv /\ LInv /\ VInv /\ [Next]_vars => VInv'
  <1> SUFFICES ASSUME Undisturbed, IInv, LInv, VInv, [Next]_vars
               PROVE  VInv'
    OBVIOUS
  <1>1. ASSUME NEW c \in Chains, BeatRead(c) \/ BeatWrite(c) \/ Crash(c)
        PROVE  FALSE
    <2>1. ~BeatRead(c)
      BY TypeFacts, Times DEF BeatRead, BeatDue, VInv, NoBeats
    <2>2. ~BeatWrite(c)
      BY DEF BeatWrite, VInv, NoBeats
    <2>3. ~Crash(c)
      BY DEF Crash, Undisturbed, IInv, TypeOK
    <2> QED
      BY <1>1, <2>1, <2>2, <2>3
  <1>2. CASE UNCHANGED vars
    BY <1>2 DEF vars, VInv, NoBeats, Current, Recorded
  <1> QED
    BY <1>1, <1>2, JobKeepsVersions, TickKeepsVersions DEF Next, Undisturbed

\* AppliedOnce: the migrations that job() finds in the list "need to be applied", if
\* database calls take no time, no migration lasts until its first heartbeat and no
\* instance dies: nothing but an overwritten lock, a heartbeat that is in flight and
\* a crash between a migration and the write of its version makes one run twice.
THEOREM OnceUndisturbed == Undisturbed /\ Spec => []AppliedOnce
  <1>1. IInv /\ LInv /\ VInv => AppliedOnce
    <2> SUFFICES ASSUME IInv, LInv, VInv, NEW c \in Chains, Migrating(c), Target(c) \in applied
                 PROVE  FALSE
      BY DEF AppliedOnce
    <2>1. Target(c) = store.version + 1 /\ store.version \in Nat
      BY VersionFacts DEF Target, VInv, Current
    <2>2. \A d \in Chains : pc[d] # "finishOk"
      BY DEF LInv, Alone
    <2> QED
      BY <2>1, <2>2 DEF VInv, Recorded
  <1>2. CASE Undisturbed
    <2>1. IInv /\ LInv /\ [Next]_vars => LInv'
      BY <1>2, StepLInv DEF Undisturbed
    <2>2. IInv /\ LInv /\ VInv /\ [Next]_vars => VInv'
      BY <1>2, StepVInv
    <2> QED
      BY <1>1, <2>1, <2>2, InitLInv, InitVInv, SpecIInv, PTL DEF Spec
  <1>3. CASE ~Undisturbed
    BY <1>3
  <1> QED
    BY <1>2, <1>3
=============================================================================
