-------------------------- MODULE CredentialChain --------------------------
(***************************************************************************)
(* What the OAuth server promises of one grant: the authorization code and *)
(* the tokens that follow from it form a chain.  At most one credential of *)
(* the chain is live.  It is spent by revoking it or by using it, and only *)
(* the use of a credential makes room for one successor.                   *)
(***************************************************************************)
CONSTANTS
    Credentials,    \* everything that can be presented
    Code            \* the authorization code, first of the chain

VARIABLES
    live,           \* credentials that can be used
    spent,          \* credentials that have been used, revoked or deleted
    minting         \* a credential has been used and its successor is due

chainVars == <<live, spent, minting>>

Init ==
    /\ live = {Code}
    /\ spent = {}
    /\ minting = FALSE

Spend(c) ==
    /\ c \in live
    /\ live' = live \ {c}
    /\ spent' = spent \cup {c}

Use(c) == Spend(c) /\ minting' = TRUE
Revoke(c) == Spend(c) /\ UNCHANGED minting

Mint(t) ==
    /\ minting
    /\ live = {}
    /\ t \notin spent
    /\ live' = {t}
    /\ minting' = FALSE
    /\ UNCHANGED spent

\* The use ends without a successor.
GiveUp ==
    /\ minting
    /\ minting' = FALSE
    /\ UNCHANGED <<live, spent>>

Next == GiveUp \/ \E c \in Credentials : Use(c) \/ Revoke(c) \/ Mint(c)

Spec == Init /\ [][Next]_chainVars
=============================================================================
