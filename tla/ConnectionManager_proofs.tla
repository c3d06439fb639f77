----------------------- MODULE ConnectionManager_proofs -----------------------
(***************************************************************************)
(* StaleIsNoticed and FreshUnlessBlind for any number of servers and       *)
(* calls.                                                                  *)
(*                                                                         *)
(* A get() makes the version it has read the local one after its server    *)
(* has deleted the connection: meanwhile others store connections and make *)
(* versions.  The invariant says of every version in flight what it may be *)
(* compared with.                                                          *)
(***************************************************************************)
EXTENDS ConnectionManager, TLAPS

\* No server and no call has a version that has not been made.
Versions ==
    /\ version <= clock
    /\ \A s \in Servers : local[s] <= clock
    /\ \A c \in Calls : read[c] <= clock
    /\ \A c \in Calls : copy[c] <= clock
    /\ \A c \in Calls : pc[c] = "writeback" => copy[c] # 0

\* A call runs on a server, and what it was announced does not go back.
Places ==
    /\ \A g \in Gets : pc[g] # "idle" => at[g] \in Servers
    /\ \A e \in Edits : pc[e] \notin {"idle", "done"} => at[e] \in Servers
    /\ \A g \in Gets : floor[g] <= covered

\* The connection in the map of a server is older than what had been announced when
\* the get() read the version.
OldFor(g) == ref[at[g]] # None /\ ref[at[g]] < floor[g]

\* A get() that is about to make the version it has read the local one does not
\* hide a stale connection by it.
AdoptsOther ==
    \A g \in Gets : pc[g] = "destroying" /\ StaleAt(at[g])
        => at[g] \in blind \/ version # read[g]

\* A get() has read the version and has not compared it yet.
Comparing(g) == pc[g] \in {"reread", "writeback", "compare"}

\* An old connection is found by the comparison ...
ComparesUnequal ==
    \A g \in Gets : Comparing(g) /\ OldFor(g)
        => at[g] \in blind \/ (read[g] # 0 /\ read[g] # local[at[g]])

\* ... also when another get() of the same server adopts its version before that.
ComparesOther ==
    \A g, h \in Gets :
        /\ Comparing(g) /\ OldFor(g)
        /\ pc[h] = "destroying" /\ at[h] = at[g]
        => at[g] \in blind \/ read[g] # read[h]

\* After the comparison there is none, unless the server is blind.
ComparedFresh ==
    \A g \in Gets : pc[g] \in {"destroying", "lookup"} /\ OldFor(g) => at[g] \in blind

Facts == TypeOK /\ Versions /\ Places
IInv == /\ Facts /\ StaleIsNoticed /\ AdoptsOther /\ ComparesUnequal
        /\ ComparesOther /\ ComparedFresh

USE BoundsAssumption DEF Configs, Calls, Goto, MayStart, redisVars, Comparing, AfterRefresh

LEMMA InitIInv == Init => IInv
  <1>1. Init => aged \in BOOLEAN
    BY DEF Init
  <1> QED
    BY <1>1 DEF Init, IInv, Facts, TypeOK, Versions, Places, StaleIsNoticed, StaleAt,
           AdoptsOther, ComparesUnequal, ComparesOther, ComparedFresh, OldFor

-----------------------------------------------------------------------------
(* Types, versions and places.                                             *)

LEMMA RefreshFacts ==
    ASSUME Facts, NEW c \in Calls, Reread(c) \/ WriteBack(c)
    PROVE  Facts'
  <1> USE DEF Facts, TypeOK, Versions, Places
  <1>1. CASE Reread(c)
    BY <1>1 DEF Reread
  <1>2. CASE WriteBack(c)
    <2>1. aged' \in BOOLEAN
      BY <1>2 DEF WriteBack
    <2> QED
      BY <1>2, <2>1 DEF WriteBack
  <1> QED
    BY <1>1, <1>2

LEMMA GetFacts ==
    ASSUME Facts, NEW g \in Gets, Get(g)
    PROVE  Facts'
  <1> USE DEF Facts, TypeOK, Versions, Places
  <1>1. CASE Call(g)
    BY <1>1 DEF Call
  <1>2. CASE ReadVersion(g)
    BY <1>2 DEF ReadVersion
  <1>3. CASE Compare(g)
    BY <1>3 DEF Compare, Delete
  <1>4. CASE Destroyed(g)
    BY <1>4 DEF Destroyed, Adopt
  <1>5. CASE Lookup(g)
    BY <1>5 DEF Lookup, Return
  <1>6. CASE Build(g)
    BY <1>6 DEF Build, BuiltFrom, Return
  <1>7. CASE Reread(g) \/ WriteBack(g)
    BY <1>7, RefreshFacts
  <1> QED
    BY <1>1, <1>2, <1>3, <1>4, <1>5, <1>6, <1>7 DEF Get

LEMMA EditFacts ==
    ASSUME Facts, NEW e \in Edits, EditCall(e)
    PROVE  Facts'
  <1> USE DEF Facts, TypeOK, Versions, Places, Edit, Start
  <1>1. CASE EditIntegration(e)
    BY <1>1 DEF EditIntegration
  <1>2. CASE Reset(e)
    BY <1>2 DEF Reset, Delete
  <1>3. CASE EditSource(e)
    BY <1>3 DEF EditSource
  <1>4. CASE EditMetadata(e) \/ Cleanup(e)
    BY <1>4 DEF EditMetadata, Cleanup
  <1>5. CASE Bump(e)
    <2>1. aged' \in BOOLEAN
      BY <1>5 DEF Bump
    <2> QED
      BY <1>5, <2>1 DEF Bump, SetVersion
  <1>6. CASE Sync(e)
    BY <1>6 DEF Sync
  <1>7. CASE Prepare(e)
    BY <1>7 DEF Prepare
  <1>8. CASE Reread(e) \/ WriteBack(e)
    BY <1>8, RefreshFacts
  <1> QED
    BY <1>1, <1>2, <1>3, <1>4, <1>5, <1>6, <1>7, <1>8 DEF EditCall

LEMMA NextFacts == Facts /\ [Next]_vars => Facts'
  <1> SUFFICES ASSUME Facts, [Next]_vars
               PROVE  Facts'
    OBVIOUS
  <1> USE DEF Facts, TypeOK, Versions, Places, callVars
  <1>1. ASSUME NEW s \in Servers, Evict(s) \/ ForgetVersion(s)
        PROVE  Facts'
    BY <1>1 DEF Evict, ForgetVersion, Lose, Delete
  <1>2. CASE ExpireVersion
    <2>1. aged' \in BOOLEAN
      BY <1>2 DEF ExpireVersion
    <2> QED
      BY <1>2, <2>1 DEF ExpireVersion, Lose
  <1>3. CASE Age
    BY <1>3 DEF Age, Lose
  <1>4. CASE UNCHANGED vars
    BY <1>4 DEF vars
  <1> QED
    BY <1>1, <1>2, <1>3, <1>4, GetFacts, EditFacts DEF Next

\* TypeOK: every variable of the servers stays in its range.
THEOREM TypeCorrect == Spec => []TypeOK
  <1>1. Init => Facts
    BY InitIInv DEF IInv
  <1>2. Facts => TypeOK
    BY DEF Facts
  <1> QED
    BY <1>1, <1>2, NextFacts, PTL DEF Spec

-----------------------------------------------------------------------------
(* What is said of stale connections.                                      *)

Stale == /\ StaleIsNoticed /\ AdoptsOther /\ ComparesUnequal
         /\ ComparesOther /\ ComparedFresh

\* A connection that is deleted is neither stale nor old for anybody.
LEMMA DeleteSteps ==
    ASSUME IInv, NEW s \in Servers, Delete(s), UNCHANGED <<version, covered, local>>,
           NEW c \in Calls, NEW place, pc' = [pc EXCEPT ![c] = place],
           pc[c] # "idle", c \in Edits \/ (place = "destroying" /\ at[c] = s),
           place # "compare", UNCHANGED <<at, read, floor>>
    PROVE  Stale'
  <1> USE DEF IInv, Facts, TypeOK, Delete, StaleAt, OldFor
  <1>1. \A t \in Servers : StaleAt(t)' => t # s /\ StaleAt(t) /\ (t \in blind' <=> t \in blind)
    OBVIOUS
  <1>2. \A g \in Gets : OldFor(g)' => at[g] # s /\ OldFor(g)
        /\ (at[g] \in blind => at[g] \in blind')
    OBVIOUS
  <1>3. \A g \in Gets : pc'[g] = pc[g] \/ (pc'[g] = "destroying" /\ at[g] = s)
    OBVIOUS
  <1>4. StaleIsNoticed'
    BY <1>1 DEF StaleIsNoticed
  <1>5. AdoptsOther'
    BY <1>1, <1>3 DEF AdoptsOther, Places
  <1>6. ComparesUnequal' /\ ComparesOther' /\ ComparedFresh'
    BY <1>2, <1>3 DEF ComparesUnequal, ComparesOther, ComparedFresh
  <1> QED
    BY <1>4, <1>5, <1>6 DEF Stale

\* A refresh: what it writes back is old only for servers that go blind.
LEMMA RefreshStale ==
    ASSUME IInv, NEW c \in Calls, Reread(c) \/ WriteBack(c)
    PROVE  Stale'
  <1> USE DEF IInv, Facts, TypeOK, Places, StaleAt, OldFor
  <1>1. \A g \in Gets : /\ Comparing(g)' => Comparing(g)
                        /\ pc'[g] \in {"destroying", "lookup"} => pc'[g] = pc[g]
    BY DEF Reread, WriteBack
  <1>2. CASE Reread(c)
    BY <1>1, <1>2 DEF Reread, Stale, StaleIsNoticed, AdoptsOther, ComparesUnequal,
                      ComparesOther, ComparedFresh
  <1>3. CASE WriteBack(c)
    <2>1. copy[c] # 0 /\ version' = copy[c] /\ blind \subseteq blind'
      BY <1>3 DEF WriteBack, Versions
    <2>2. \A s \in Servers : StaleAt(s) /\ Holds(s, copy[c]) => s \in blind'
      BY <1>3 DEF WriteBack
    <2>3. UNCHANGED <<ref, local, at, read, floor, covered>>
      BY <1>3 DEF WriteBack
    <2>4. StaleIsNoticed'
      BY <2>1, <2>2, <2>3 DEF StaleIsNoticed, Holds
    <2>5. AdoptsOther'
      BY <1>1, <2>1, <2>2, <2>3 DEF AdoptsOther, Holds
    <2>6. ComparesUnequal' /\ ComparesOther' /\ ComparedFresh'
      BY <1>1, <2>1, <2>3 DEF ComparesUnequal, ComparesOther, ComparedFresh
    <2> QED
      BY <2>4, <2>5, <2>6 DEF Stale
  <1> QED
    BY <1>2, <1>3

LEMMA GetStale ==
    ASSUME IInv, NEW g \in Gets, Get(g)
    PROVE  Stale'
  <1> USE DEF IInv, Facts, TypeOK, Places, StaleAt, OldFor
  <1>1. CASE Call(g)
    BY <1>1 DEF Call, Stale, StaleIsNoticed, AdoptsOther, ComparesUnequal, ComparesOther,
                ComparedFresh
  <1>2. CASE ReadVersion(g)
    <2>1. OldFor(g)' => StaleAt(at[g])
      BY <1>2 DEF ReadVersion
    <2>2. ComparesUnequal'
      BY <1>2, <2>1 DEF ReadVersion, ComparesUnequal, StaleIsNoticed
    <2>3. ComparesOther'
      BY <1>2, <2>1 DEF ReadVersion, ComparesOther, AdoptsOther
    <2>4. StaleIsNoticed' /\ AdoptsOther' /\ ComparedFresh'
      BY <1>2 DEF ReadVersion, StaleIsNoticed, AdoptsOther, ComparedFresh
    <2> QED
      BY <2>2, <2>3, <2>4 DEF Stale
  <1>3. CASE Compare(g) /\ Differs(g)
    <2>1. /\ Delete(at[g]) /\ Goto(g, "destroying")
          /\ UNCHANGED <<version, covered, local, at, read, floor>>
      BY <1>3 DEF Compare
    <2>2. at[g] \in Servers /\ pc[g] # "idle" /\ g \in Calls
      BY <1>3 DEF Compare
    <2> QED
      BY <2>1, <2>2, DeleteSteps
  <1>4. CASE Compare(g) /\ ~Differs(g)
    <2>1. OldFor(g)' => at[g] \in blind
      BY <1>4 DEF Compare, Differs, ComparesUnequal
    <2>2. ComparedFresh'
      BY <1>4, <2>1 DEF Compare, ComparedFresh
    <2> QED
      BY <1>4, <2>2 DEF Compare, Stale, StaleIsNoticed, AdoptsOther, ComparesUnequal,
                        ComparesOther
  <1>5. CASE Destroyed(g)
    <2>1. StaleIsNoticed'
      BY <1>5 DEF Destroyed, Adopt, StaleIsNoticed, AdoptsOther
    <2>2. ComparesUnequal'
      BY <1>5 DEF Destroyed, Adopt, ComparesUnequal, ComparesOther
    <2> QED
      BY <1>5, <2>1, <2>2 DEF Destroyed, Stale, AdoptsOther, ComparesOther, ComparedFresh
  <1>6. CASE Lookup(g)
    BY <1>6 DEF Lookup, Return, Stale, StaleIsNoticed, AdoptsOther, ComparesUnequal,
                ComparesOther, ComparedFresh
  <1>7. CASE Build(g)
    <2>1. \A s \in Servers : StaleAt(s)' => s \in blind' \/ (s # at[g] /\ StaleAt(s))
      BY <1>7 DEF Build, BuiltFrom
    <2>2. \A h \in Gets \ {g} : OldFor(h)' => at[h] \in blind' \/ (at[h] # at[g] /\ OldFor(h))
      BY <1>7 DEF Build, BuiltFrom, Return
    <2>3. \A s \in Servers \ {at[g]} : s \in blind' <=> s \in blind
      BY <1>7 DEF Build
    <2> QED
      BY <1>7, <2>1, <2>2, <2>3
      DEF Build, Return, Stale, StaleIsNoticed, AdoptsOther, ComparesUnequal, ComparesOther,
          ComparedFresh
  <1>8. CASE Reread(g) \/ WriteBack(g)
    BY <1>8, RefreshStale
  <1> QED
    BY <1>1, <1>2, <1>3, <1>4, <1>5, <1>6, <1>7, <1>8 DEF Get

LEMMA EditStale ==
    ASSUME IInv, NEW e \in Edits, EditCall(e)
    PROVE  Stale'
  <1> USE DEF IInv, Facts, TypeOK, Places, StaleAt, OldFor
  <1>1. CASE Reset(e)
    <2>1. /\ Delete(at[e]) /\ pc' = [pc EXCEPT ![e] = "bump"]
          /\ UNCHANGED <<version, covered, local, at, read, floor>>
      BY <1>1 DEF Reset, Goto
    <2>2. at[e] \in Servers /\ pc[e] # "idle" /\ e \in Calls
      BY <1>1 DEF Reset, Calls
    <2> QED
      BY <2>1, <2>2, DeleteSteps
  <1>2. CASE Bump(e)
    <2>1. version' = clock + 1 /\ clock \in Nat
      BY <1>2 DEF Bump, SetVersion
    <2>2. StaleIsNoticed' /\ AdoptsOther'
      BY <1>2, <2>1 DEF Bump, Versions, StaleIsNoticed, AdoptsOther
    <2> QED
      BY <1>2, <2>2 DEF Bump, Stale, ComparesUnequal, ComparesOther, ComparedFresh
  <1>3. CASE Sync(e)
    <2>1. \A s \in Servers : local'[s] = local[s] \/ (StaleAt(s) => s \in blind')
      BY <1>3 DEF Sync
    <2>2. \A g \in Gets : OldFor(g) => StaleAt(at[g]) \/ pc[g] = "idle"
      OBVIOUS
    <2>3. ComparesUnequal'
      BY <1>3, <2>1, <2>2 DEF Sync, ComparesUnequal
    <2> QED
      BY <1>3, <2>1, <2>3 DEF Sync, Stale, StaleIsNoticed, AdoptsOther, ComparesOther,
                              ComparedFresh
  <1>4. CASE EditIntegration(e) \/ EditSource(e) \/ EditMetadata(e) \/ Cleanup(e)
    BY <1>4 DEF EditIntegration, EditSource, EditMetadata, Cleanup, Edit, Start, Stale,
                StaleIsNoticed, AdoptsOther, ComparesUnequal, ComparesOther, ComparedFresh
  <1>5. CASE Prepare(e)
    BY <1>5 DEF Prepare, Stale, StaleIsNoticed, AdoptsOther, ComparesUnequal, ComparesOther,
                ComparedFresh
  <1>6. CASE Reread(e) \/ WriteBack(e)
    BY <1>6, RefreshStale
  <1> QED
    BY <1>1, <1>2, <1>3, <1>4, <1>5, <1>6 DEF EditCall

LEMMA LossStale ==
    ASSUME IInv,
           (\E s \in Servers : Evict(s) \/ ForgetVersion(s)) \/ ExpireVersion \/ Age
    PROVE  Stale'
  <1> USE DEF IInv, Facts, TypeOK, Places, StaleAt, OldFor, callVars, Stale
  <1>1. ASSUME NEW s \in Servers, Evict(s)
        PROVE  Stale'
    <2>1. \A t \in Servers : StaleAt(t)' => StaleAt(t) /\ (t \in blind => t \in blind')
      BY <1>1 DEF Evict, Delete
    <2>2. \A g \in Gets : OldFor(g)' => OldFor(g) /\ (at[g] \in blind => at[g] \in blind')
      BY <1>1 DEF Evict, Delete
    <2> QED
      BY <1>1, <2>1, <2>2 DEF Evict, StaleIsNoticed, AdoptsOther, ComparesUnequal,
                              ComparesOther, ComparedFresh
  <1>2. ASSUME NEW s \in Servers, ForgetVersion(s)
        PROVE  Stale'
    BY <1>2 DEF ForgetVersion, StaleIsNoticed, AdoptsOther, ComparesUnequal, ComparesOther,
                ComparedFresh
  <1>3. CASE ExpireVersion
    BY <1>3 DEF ExpireVersion, StaleIsNoticed, AdoptsOther, ComparesUnequal, ComparesOther,
                ComparedFresh
  <1>4. CASE Age
    BY <1>4 DEF Age, StaleIsNoticed, AdoptsOther, ComparesUnequal, ComparesOther, ComparedFresh
  <1> QED
    BY <1>1, <1>2, <1>3, <1>4

LEMMA NextIInv == IInv /\ [Next]_vars => IInv'
  <1> SUFFICES ASSUME IInv, [Next]_vars
               PROVE  IInv'
    OBVIOUS
  <1>1. Facts'
    BY NextFacts DEF IInv
  <1>2. CASE UNCHANGED vars
    BY <1>2 DEF vars, callVars, IInv, Facts, Stale, TypeOK, Versions, Places, StaleIsNoticed,
                StaleAt, AdoptsOther, ComparesUnequal, ComparesOther, ComparedFresh, OldFor
  <1>3. CASE Next
    <2>1. Stale'
      BY <1>3, GetStale, EditStale, LossStale DEF Next
    <2> QED
      BY <1>1, <2>1 DEF IInv, Stale
  <1> QED
    BY <1>2, <1>3

LEMMA Inductive == Spec => []IInv
  <1> QED
    BY InitIInv, NextIInv, PTL DEF Spec

\* StaleIsNoticed: the next get() of a server that has not gone blind finds its stale
\* connection by the version.
THEOREM StaleNoticed == Spec => []StaleIsNoticed
  <1>1. IInv => StaleIsNoticed
    BY DEF IInv
  <1> QED
    BY <1>1, Inductive, PTL

\* What a get() leaves in the map when it returns.
LEMMA ReturnStep ==
    ASSUME IInv, [Next]_vars, NEW g \in Gets, Returns(g), source[g] >= floor[g]
    PROVE  ReturnsFresh(g) \/ at[g] \in blind
  <1> USE DEF IInv, Facts, TypeOK, Places, Returns, ReturnsFresh
  <1>1. CASE Lookup(g)
    <2>1. ref[at[g]] # None /\ ref' = ref /\ pc[g] = "lookup"
      BY <1>1 DEF Lookup
    <2> QED
      BY <2>1 DEF ComparedFresh, OldFor
  <1>2. CASE Build(g)
    BY <1>2 DEF Build, BuiltFrom
  <1>3. Lookup(g) \/ Build(g)
    <2>1. ASSUME NEW h \in Gets, Get(h)
          PROVE  Lookup(g) \/ Build(g)
      BY <2>1 DEF Get, Call, ReadVersion, Reread, WriteBack, Compare, Destroyed, Lookup, Build,
                  Return
    <2>2. ASSUME NEW e \in Edits, EditCall(e)
          PROVE  FALSE
      BY <2>2 DEF EditCall, EditIntegration, Reset, EditSource, EditMetadata, Cleanup, Prepare,
                  Reread, WriteBack, Bump, Sync
    <2>3. pc' # pc
      OBVIOUS
    <2> QED
      BY <2>1, <2>2, <2>3 DEF Next, Evict, ForgetVersion, ExpireVersion, Age, vars, callVars
  <1> QED
    BY <1>1, <1>2, <1>3

\* FreshUnlessBlind: a get() whose source was read after the announced edit returns a
\* connection of that edit or a later one, on every server that has not gone blind.
THEOREM FreshConnections == Spec => FreshUnlessBlind
  <1>1. IInv /\ [Next]_vars =>
            [\A g \in Gets :
                Returns(g) /\ source[g] >= floor[g] => ReturnsFresh(g) \/ at[g] \in blind]_vars
    BY ReturnStep
  <1> QED
    BY <1>1, Inductive, PTL DEF Spec, FreshUnlessBlind
=============================================================================
