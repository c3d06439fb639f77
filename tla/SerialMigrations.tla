-------------------------- MODULE SerialMigrations --------------------------
(***************************************************************************)
(* What the lock around the background migrations promises: the migrations *)
(* are run one at a time, each only when all the earlier ones have been    *)
(* applied, and only the one that runs is ever recorded as applied.  A     *)
(* run may end without success.                                            *)
(***************************************************************************)
EXTENDS Naturals

CONSTANTS
    Runners,        \* whoever may run migrations
    Versions        \* the migrations, by number

VARIABLES
    turns,          \* the runner at work and its migration: at most one pair
    applied         \* the migrations that have succeeded

serialVars == <<turns, applied>>

Init == turns = {} /\ applied = {}

Begin(r, v) ==
    /\ turns = {}
    /\ \A u \in 1 .. v - 1 : u \in applied
    /\ turns' = {<<r, v>>}
    /\ UNCHANGED applied

End(r, v) == turns = {<<r, v>>} /\ turns' = {}
Succeed(r, v) == End(r, v) /\ applied' = applied \cup {v}
GiveUp(r, v) == End(r, v) /\ UNCHANGED applied

Next ==
    \E r \in Runners, v \in Versions : Begin(r, v) \/ Succeed(r, v) \/ GiveUp(r, v)

Spec == Init /\ [][Next]_serialVars
=============================================================================
