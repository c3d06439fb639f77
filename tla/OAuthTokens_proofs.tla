-------------------------- MODULE OAuthTokens_proofs --------------------------
(***************************************************************************)
(* The safety properties of OAuthTokens, and that it implements            *)
(* CredentialChain, for any number of requests.                            *)
(*                                                                         *)
(* SingleSuccessor is not inductive: it needs to know that what has bought *)
(* a token is spent for good, which in turn needs to know what every       *)
(* request presents at each place and that a token has no row before its   *)
(* request inserts one.  That at most one credential is live rests on the  *)
(* same facts, CacheFollowsRow on what the reads in flight hold.           *)
(***************************************************************************)
EXTENDS OAuthTokens, TLAPS

\* What a request presents, by its place.
Presents ==
    \A q \in Requests :
        /\ pc[q] = "idle" => uses[q] = Nobody
        /\ pc[q] \in {"fillCode", "claim", "dropCode", "markRead", "markWrite"} => uses[q] = Code
        /\ pc[q] \in {"revoke", "cacheRead", "cacheWrite"} => uses[q] \in Requests
        /\ pc[q] \in {"authenticate", "insert", "readBack", "fillToken"} => uses[q] # Nobody

\* What a request that is about to cache something has read.
HasRead ==
    \A q \in Requests :
        /\ pc[q] = "fillCode" => seen[q] \in {"unused", "used"}
        /\ pc[q] = "fillToken" => seen[q] \in {"active", "revoked"}

\* The places of a request before it inserts its row.
BeforeRow == {"idle", "fillCode", "authenticate", "claim", "dropCode", "revoke",
              "cacheRead", "cacheWrite", "insert"}
NoRowYet == \A q \in Requests : pc[q] \in BeforeRow => row[q] = "none"

\* What is presented or listed has a row.
HaveRows ==
    /\ \A q \in Requests : uses[q] \in Requests => row[uses[q]] # "none"
    /\ \A t \in listed : row[t] # "none"

\* What has bought a token, or is about to, is spent.
Bought(q) == HasMinted(q) \/ Minting(q)
BuyersSpent == \A q \in Requests : Bought(q) => uses[q] \in Spent

\* At most one credential is live, and none while one is due.
OneLive ==
    /\ \A c, d \in Live : c = d
    /\ \A q \in Requests : Minting(q) => Live = {}
    /\ \A p, q \in Requests : Minting(p) /\ Minting(q) => p = q

\* A read that is still to be cached is of an active row, or the row was changed
\* under it.
HeldOrMissed == \A t \in Requests : Held(t) => row[t] = "active" \/ t \in missed

Facts == TypeOK /\ Presents /\ HasRead /\ NoRowYet /\ HaveRows
IInv == Facts /\ BuyersSpent /\ SingleSuccessor /\ OneLive /\ HeldOrMissed /\ CacheFollowsRow

LEMMA InitIInv == Init => IInv
  <1> SUFFICES ASSUME Init
               PROVE  IInv
    OBVIOUS
  <1>1. Facts
    BY RequestsAssumption
    DEF Init, Facts, TypeOK, Presents, HasRead, NoRowYet, HaveRows
  <1>2. Live = {Code} /\ \A q \in Requests : ~Minting(q) /\ ~HasMinted(q) /\ ~Held(q)
    BY DEF Init, Live, Minting, HasMinted, Held
  <1>3. BuyersSpent /\ SingleSuccessor /\ OneLive /\ HeldOrMissed
    BY <1>2 DEF BuyersSpent, Bought, SingleSuccessor, OneLive, HeldOrMissed
  <1>4. CacheFollowsRow
    BY DEF Init, CacheFollowsRow
  <1> QED
    BY <1>1, <1>3, <1>4 DEF IInv

-----------------------------------------------------------------------------
(* What is presented, read and listed.                                     *)

LEMMA RequestFacts ==
    ASSUME Facts, NEW q \in Requests, Request(q)
    PROVE  Facts'
  <1> USE RequestsAssumption DEF Facts, TypeOK, Presents, HasRead, NoRowYet, HaveRows,
                                BeforeRow, Goto, Exists, requestVars, deleterVars
  <1>1. CASE ReadCode(q)
    BY <1>1 DEF ReadCode
  <1>2. CASE FillCode(q)
    BY <1>2 DEF FillCode
  <1>3. CASE Authenticate(q)
    BY <1>3 DEF Authenticate
  <1>4. CASE Claim(q)
    BY <1>4 DEF Claim, CodeUnused
  <1>5. CASE DropCode(q)
    BY <1>5 DEF DropCode
  <1>6. CASE RevokeIfActive(q)
    BY <1>6 DEF RevokeIfActive, TokenActive, UpdateCache, Overtake, Held
  <1>7. CASE CacheRead(q)
    BY <1>7 DEF CacheRead
  <1>8. CASE CacheWrite(q)
    BY <1>8 DEF CacheWrite
  <1>9. CASE Insert(q)
    BY <1>9 DEF Insert
  <1>10. CASE ReadBack(q)
    BY <1>10 DEF ReadBack, Found, Minted
  <1>11. CASE FillToken(q)
    BY <1>11 DEF FillToken, Minted
  <1>12. CASE MarkRead(q)
    BY <1>12 DEF MarkRead
  <1>13. CASE MarkWrite(q)
    BY <1>13 DEF MarkWrite
  <1>14. CASE Fail(q)
    BY <1>14 DEF Fail, Event
  <1>15. ASSUME NEW t \in Requests, ReadToken(q, t)
        PROVE  Facts'
    BY <1>15 DEF ReadToken
  <1> QED
    BY <1>1, <1>2, <1>3, <1>4, <1>5, <1>6, <1>7, <1>8, <1>9, <1>10, <1>11, <1>12, <1>13, <1>14,
       <1>15 DEF Request, Exchange, Refresh

LEMMA TokenFacts ==
    ASSUME Facts, NEW t \in Requests, Revocation(t) \/ Bearer(t)
    PROVE  Facts'
  <1> USE RequestsAssumption DEF Facts, TypeOK, Presents, HasRead, NoRowYet, HaveRows,
                                BeforeRow, Exists, Event, requestVars, deleterVars
  <1>1. CASE RevokeToken(t)
    BY <1>1 DEF RevokeToken, StartRevocation
  <1>2. CASE RevokeRow(t)
    BY <1>2 DEF RevokeRow, Overtake, Held
  <1>3. CASE RevokeCacheRead(t)
    BY <1>3 DEF RevokeCacheRead
  <1>4. CASE RevokeCacheWrite(t)
    BY <1>4 DEF RevokeCacheWrite
  <1>5. CASE RevokeFail(t)
    BY <1>5 DEF RevokeFail
  <1>6. CASE Bearer(t)
    BY <1>6 DEF Bearer, BearerRead, BearerFill
  <1> QED
    BY <1>1, <1>2, <1>3, <1>4, <1>5, <1>6 DEF Revocation

LEMMA GrantFacts ==
    ASSUME Facts, RevokeAllByUser \/ Expire \/ DeleteClient
    PROVE  Facts'
  <1> USE RequestsAssumption DEF Facts, TypeOK, Presents, HasRead, NoRowYet, HaveRows,
                                BeforeRow, Exists, Event, requestVars, deleterVars
  <1>1. CASE RevokeAllByUser
    BY <1>1 DEF RevokeAllByUser, StartRevocation
  <1>2. CASE Expire
    BY <1>2 DEF Expire
  <1>3. CASE ListTokens
    BY <1>3 DEF ListTokens
  <1>4. CASE DeleteTokens
    BY <1>4 DEF DeleteTokens, Overtake, Held
  <1>5. CASE ClearCode \/ DeleteCode
    BY <1>5 DEF ClearCode, DeleteCode
  <1>6. ASSUME NEW t \in Requests, ClearToken(t)
        PROVE  Facts'
    BY <1>6 DEF ClearToken
  <1> QED
    BY <1>1, <1>2, <1>3, <1>4, <1>5, <1>6 DEF DeleteClient

LEMMA NextFacts == Facts /\ [Next]_vars => Facts'
  <1> SUFFICES ASSUME Facts, [Next]_vars
               PROVE  Facts'
    OBVIOUS
  <1>1. CASE UNCHANGED vars
    BY <1>1 DEF vars, requestVars, deleterVars, Facts, TypeOK, Presents, HasRead,
                NoRowYet, HaveRows
  <1> QED
    BY <1>1, RequestFacts, TokenFacts, GrantFacts DEF Next

\* TypeOK: every variable of the grant stays in its range.
THEOREM TypeCorrect == Spec => []TypeOK
  <1>1. Init => Facts
    BY InitIInv DEF IInv
  <1>2. Facts => TypeOK
    BY DEF Facts
  <1> QED
    BY <1>1, <1>2, NextFacts, PTL DEF Spec

-----------------------------------------------------------------------------
(* What a step does to the chain.  Every step has one of five effects, and *)
(* the properties of the chain are proved from the effects.                *)

SameBuyer(p) ==
    /\ Minting(p)' <=> Minting(p)
    /\ HasMinted(p)' <=> HasMinted(p)
    /\ uses'[p] = uses[p]
OthersSame(q) == \A p \in Requests \ {q} : SameBuyer(p)

\* The credential that q presents is used.
IsUsed(q) ==
    /\ ~Bought(q) /\ Minting(q)'
    /\ ~HasMinted(q)' /\ uses'[q] = uses[q] /\ OthersSame(q)
    /\ uses[q] \in Live
    /\ Live' = Live \ {uses[q]}
    /\ Spent' = Spent \cup {uses[q]}

\* A credential is revoked or deleted.
IsRevoked(c) ==
    /\ \A p \in Requests : SameBuyer(p)
    /\ c \in Live
    /\ Live' = Live \ {c}
    /\ Spent' = Spent \cup {c}

\* The token of q gets its row.
IsMinted(q) ==
    /\ Minting(q) /\ ~Minting(q)' /\ HasMinted(q)'
    /\ uses'[q] = uses[q] /\ OthersSame(q)
    /\ q \notin Spent
    /\ Live' = Live \cup {q}
    /\ Spent' = Spent

\* q ends before its token gets a row.
IsGivenUp(q) ==
    /\ Minting(q) /\ ~Minting(q)'
    /\ HasMinted(q)' <=> HasMinted(q)
    /\ uses'[q] = uses[q] /\ OthersSame(q)
    /\ UNCHANGED <<Live, Spent>>

\* Nothing, except that a request that has bought nothing presents a credential.
IsQuiet ==
    /\ \A p \in Requests : SameBuyer(p) \/ (~Bought(p) /\ ~Bought(p)')
    /\ UNCHANGED <<Live, Spent>>

Effect ==
    \/ IsQuiet
    \/ \E q \in Requests : IsUsed(q) \/ IsMinted(q) \/ IsGivenUp(q)
    \/ \E c \in Requests \cup {Code} : IsRevoked(c)

\* A step that leaves the rows alone and starts or ends no minting is quiet.
LEMMA QuietRequest ==
    ASSUME Facts, Facts', NEW q \in Requests, UNCHANGED <<codeRow, row>>,
           \A p \in Requests \ {q} : pc'[p] = pc[p] /\ uses'[p] = uses[p],
           Minting(q)' <=> Minting(q),
           uses'[q] = uses[q] \/ (~Minting(q) /\ ~HasMinted(q))
    PROVE  IsQuiet
  <1>1. UNCHANGED <<Live, Spent>>
    BY DEF Live, Spent
  <1>2. \A p \in Requests \ {q} : SameBuyer(p)
    BY DEF SameBuyer, Minting, HasMinted
  <1>3. SameBuyer(q) \/ (~Bought(q) /\ ~Bought(q)')
    BY DEF SameBuyer, Bought, HasMinted
  <1> QED
    BY <1>1, <1>2, <1>3 DEF IsQuiet

\* So is a step that leaves the rows and the requests alone.
LEMMA QuietOther ==
    ASSUME UNCHANGED <<codeRow, row, pc, uses>>
    PROVE  Effect
  <1> QED
    BY DEF Effect, IsQuiet, SameBuyer, Minting, HasMinted, Live, Spent

LEMMA RequestEffect ==
    ASSUME IInv, Facts', NEW q \in Requests, Request(q)
    PROVE  Effect
  <1> USE RequestsAssumption DEF IInv, Facts, TypeOK
  <1>1. CASE ReadCode(q) \/ FillCode(q) \/ Authenticate(q) \/ (Claim(q) /\ ~CodeUnused)
    <2>1. ~Minting(q) /\ ~Minting(q)'
      BY <1>1 DEF ReadCode, FillCode, Authenticate, Claim, Goto, Minting
    <2>2. uses'[q] = uses[q] \/ ~HasMinted(q)
      BY <1>1 DEF ReadCode, FillCode, Authenticate, Claim, NoRowYet, BeforeRow, HasMinted
    <2> QED
      BY <1>1, <2>1, <2>2, QuietRequest
      DEF ReadCode, FillCode, Authenticate, Claim, Goto, Effect
  <1>2. CASE Claim(q) /\ CodeUnused
    <2>1. uses[q] = Code /\ Code \in Live /\ ~Bought(q) /\ Minting(q)' /\ ~HasMinted(q)'
      BY <1>2 DEF Claim, CodeUnused, Goto, Presents, NoRowYet, BeforeRow, Live, Bought, Minting,
         HasMinted
    <2>2. Live' = Live \ {Code} /\ Spent' = Spent \cup {Code}
      BY <1>2 DEF Claim, CodeUnused, Live, Spent
    <2>3. uses' = uses /\ OthersSame(q)
      BY <1>2 DEF Claim, CodeUnused, Goto, OthersSame, SameBuyer, Minting, HasMinted
    <2> QED
      BY <2>1, <2>2, <2>3 DEF Effect, IsUsed
  <1>3. CASE RevokeIfActive(q) /\ ~TokenActive(uses[q])
    BY <1>3, QuietRequest DEF RevokeIfActive, Goto, Minting, Effect
  <1>4. CASE RevokeIfActive(q) /\ TokenActive(uses[q])
    <2>1. /\ uses[q] \in Live \cap Requests /\ uses[q] # q
          /\ ~Bought(q) /\ Minting(q)' /\ ~HasMinted(q)'
      BY <1>4 DEF RevokeIfActive, TokenActive, UpdateCache, Goto, Presents, NoRowYet, BeforeRow,
         Live, Bought, Minting, HasMinted
    <2>2. row' = [row EXCEPT ![uses[q]] = "revoked"] /\ row[uses[q]] = "active"
          /\ codeRow' = codeRow
      BY <1>4 DEF RevokeIfActive, TokenActive
    <2>3. Live' = Live \ {uses[q]} /\ Spent' = Spent \cup {uses[q]}
      BY <2>1, <2>2 DEF Live, Spent
    <2>4. uses' = uses /\ OthersSame(q)
      BY <1>4, <2>1, <2>2 DEF RevokeIfActive, UpdateCache, Goto, OthersSame, SameBuyer, Minting,
         HasMinted
    <2> QED
      BY <2>1, <2>3, <2>4 DEF Effect, IsUsed
  <1>5. CASE DropCode(q) \/ CacheRead(q) \/ CacheWrite(q)
    BY <1>5, QuietRequest DEF DropCode, CacheRead, CacheWrite, Goto, Minting, Effect
  <1>6. CASE Insert(q)
    <2>1. row[q] = "none" /\ row' = [row EXCEPT ![q] = "active"] /\ codeRow' = codeRow
      BY <1>6 DEF Insert, NoRowYet, BeforeRow
    <2>2. Live' = Live \cup {q} /\ Spent' = Spent /\ q \notin Spent /\ HasMinted(q)'
      BY <2>1 DEF Live, Spent, HasMinted
    <2>3. Minting(q) /\ ~Minting(q)' /\ uses' = uses /\ OthersSame(q)
      BY <1>6 DEF Insert, Goto, OthersSame, SameBuyer, Minting, HasMinted
    <2> QED
      BY <2>2, <2>3 DEF Effect, IsMinted
  <1>7. CASE ReadBack(q) \/ FillToken(q) \/ MarkRead(q) \/ MarkWrite(q)
    BY <1>7, QuietRequest
    DEF ReadBack, FillToken, Minted, MarkRead, MarkWrite, Goto, Minting, Effect
  <1>8. CASE Fail(q) /\ ~Minting(q)
    BY <1>8, QuietRequest DEF Fail, Goto, Minting, Effect
  <1>9. CASE Fail(q) /\ Minting(q)
    <2>1. ~Minting(q)' /\ HasMinted(q)' = HasMinted(q) /\ uses' = uses /\ OthersSame(q)
      BY <1>9 DEF Fail, Goto, OthersSame, SameBuyer, Minting, HasMinted
    <2>2. UNCHANGED <<Live, Spent>>
      BY <1>9 DEF Fail, Live, Spent
    <2> QED
      BY <1>9, <2>1, <2>2 DEF Effect, IsGivenUp
  <1>10. ASSUME NEW t \in Requests, ReadToken(q, t)
         PROVE  Effect
    <2>1. ~Minting(q) /\ ~Minting(q)' /\ ~HasMinted(q)
      BY <1>10 DEF ReadToken, Goto, Minting, NoRowYet, BeforeRow, HasMinted
    <2> QED
      BY <1>10, <2>1, QuietRequest DEF ReadToken, Goto, Effect
  <1> QED
    BY <1>1, <1>2, <1>3, <1>4, <1>5, <1>6, <1>7, <1>8, <1>9, <1>10
    DEF Request, Exchange, Refresh

LEMMA TokenEffect ==
    ASSUME IInv, NEW t \in Requests, Revocation(t) \/ Bearer(t)
    PROVE  Effect
  <1>1. CASE RevokeRow(t) /\ row[t] = "active"
    <2>1. row' = [row EXCEPT ![t] = "revoked"] /\ UNCHANGED <<codeRow, pc, uses>>
      BY <1>1 DEF RevokeRow, requestVars
    <2>2. t \in Live /\ Live' = Live \ {t} /\ Spent' = Spent \cup {t}
      BY <1>1, <2>1, RequestsAssumption DEF IInv, Facts, TypeOK, Live, Spent
    <2>3. \A p \in Requests : SameBuyer(p)
      BY <1>1, <2>1 DEF IInv, Facts, TypeOK, SameBuyer, Minting, HasMinted
    <2> QED
      BY <2>2, <2>3 DEF Effect, IsRevoked
  <1>2. CASE RevokeRow(t) /\ row[t] # "active"
    BY <1>2, QuietOther DEF RevokeRow, requestVars
  <1>3. CASE RevokeToken(t) \/ RevokeCacheRead(t) \/ RevokeCacheWrite(t) \/ RevokeFail(t)
    BY <1>3, QuietOther
    DEF RevokeToken, StartRevocation, RevokeCacheRead, RevokeCacheWrite, RevokeFail, requestVars
  <1>4. CASE Bearer(t)
    BY <1>4, QuietOther DEF Bearer, BearerRead, BearerFill, requestVars
  <1> QED
    BY <1>1, <1>2, <1>3, <1>4 DEF Revocation

LEMMA GrantEffect ==
    ASSUME IInv, RevokeAllByUser \/ Expire \/ DeleteClient
    PROVE  Effect
  <1> USE RequestsAssumption DEF IInv, Facts, TypeOK
  <1>1. CASE DeleteTokens
    <2>1. /\ row' = [t \in Requests |-> IF t \in listed THEN "deleted" ELSE row[t]]
          /\ UNCHANGED <<codeRow, pc, uses>>
      BY <1>1 DEF DeleteTokens, requestVars
    <2>2. \A p \in Requests : SameBuyer(p)
      BY <2>1 DEF SameBuyer, Minting, HasMinted, HaveRows
    <2>3. CASE \A t \in listed : row[t] # "active"
      <3>1. Live' = Live /\ Spent' = Spent
        BY <2>1, <2>3 DEF Live, Spent, HaveRows
      <3> QED
        BY <2>2, <3>1 DEF Effect, IsQuiet
    <2>4. ASSUME NEW t \in listed, row[t] = "active"
          PROVE  Effect
      <3>1. t \in Requests /\ t \in Live
        BY <2>4 DEF Live
      <3>2. \A u \in Live : u = t
        BY <3>1 DEF OneLive
      <3>3. Live' = Live \ {t}
        BY <2>1, <2>4, <3>1, <3>2 DEF Live
      <3>4. \A u \in listed : row[u] \in {"revoked", "deleted"} \/ u = t
        BY <3>2 DEF HaveRows, Live
      <3>5. Spent' = Spent \cup {t}
        BY <2>1, <2>4, <3>4 DEF Spent
      <3> QED
        BY <2>2, <3>1, <3>3, <3>5 DEF Effect, IsRevoked
    <2> QED
      BY <2>3, <2>4
  <1>2. CASE DeleteCode
    <2>1. codeRow' = "deleted" /\ UNCHANGED <<row, pc, uses>>
      BY <1>2 DEF DeleteCode, requestVars
    <2>2. \A p \in Requests : SameBuyer(p)
      BY <2>1 DEF SameBuyer, Minting, HasMinted
    <2>3. CASE codeRow = "unused"
      <3>1. Code \in Live /\ Live' = Live \ {Code} /\ Spent' = Spent \cup {Code}
        BY <2>1, <2>3 DEF Live, Spent
      <3> QED
        BY <2>2, <3>1 DEF Effect, IsRevoked
    <2>4. CASE codeRow # "unused"
      <3>1. Live' = Live /\ Spent' = Spent
        BY <2>1, <2>4 DEF Live, Spent
      <3> QED
        BY <2>2, <3>1 DEF Effect, IsQuiet
    <2> QED
      BY <2>3, <2>4
  <1>3. CASE RevokeAllByUser \/ Expire \/ ListTokens \/ ClearCode
    BY <1>3, QuietOther
    DEF RevokeAllByUser, StartRevocation, Expire, ListTokens, ClearCode, requestVars
  <1>4. ASSUME NEW t \in Requests, ClearToken(t)
        PROVE  Effect
    BY <1>4, QuietOther DEF ClearToken, requestVars
  <1> QED
    BY <1>1, <1>2, <1>3, <1>4 DEF DeleteClient

LEMMA NextEffect ==
    ASSUME IInv, [Next]_vars
    PROVE  Effect
  <1>1. Facts'
    BY NextFacts DEF IInv
  <1>2. CASE UNCHANGED vars
    BY <1>2, QuietOther DEF vars, requestVars
  <1> QED
    BY <1>1, <1>2, RequestEffect, TokenEffect, GrantEffect DEF Next

\* What the effects preserve.
LEMMA ChainKept ==
    ASSUME IInv, Facts', Effect
    PROVE  BuyersSpent' /\ SingleSuccessor' /\ OneLive'
  <1> USE RequestsAssumption
      DEF IInv, BuyersSpent, SingleSuccessor, OneLive, OthersSame, SameBuyer, Bought
  <1>1. Live \cap Spent = {}
    BY DEF Live, Spent
  <1>2. CASE IsQuiet
    BY <1>2 DEF IsQuiet
  <1>3. ASSUME NEW q \in Requests, IsUsed(q)
        PROVE  BuyersSpent' /\ SingleSuccessor' /\ OneLive'
    <2>1. \A p \in Requests : Bought(p) => uses[p] # uses[q]
      BY <1>1, <1>3 DEF IsUsed
    <2>2. Live' = {} /\ \A p \in Requests : ~Minting(p)
      BY <1>3 DEF IsUsed
    <2> QED
      BY <1>3, <2>1, <2>2 DEF IsUsed
  <1>4. ASSUME NEW q \in Requests, IsMinted(q)
        PROVE  BuyersSpent' /\ SingleSuccessor' /\ OneLive'
    <2>1. Live' = {q} /\ \A p \in Requests : ~Minting(p)'
      BY <1>4 DEF IsMinted
    <2> QED
      BY <1>4, <2>1 DEF IsMinted
  <1>5. ASSUME NEW q \in Requests, IsGivenUp(q)
        PROVE  BuyersSpent' /\ SingleSuccessor' /\ OneLive'
    BY <1>5 DEF IsGivenUp
  <1>6. ASSUME NEW c \in Requests \cup {Code}, IsRevoked(c)
        PROVE  BuyersSpent' /\ SingleSuccessor' /\ OneLive'
    BY <1>6 DEF IsRevoked
  <1> QED
    BY <1>2, <1>3, <1>4, <1>5, <1>6 DEF Effect

-----------------------------------------------------------------------------
(* The cached copies of the tokens.                                        *)

\* A row changes only if it is active, after those who hold it are noted, or when
\* it is inserted; whoever takes to holding it does so from an active row.
LEMMA HeldStep ==
    ASSUME IInv, Facts', [Next]_vars
    PROVE  HeldOrMissed'
  <1> SUFFICES ASSUME NEW t \in Requests, Held(t)'
               PROVE  row'[t] = "active" \/ t \in missed'
    BY DEF HeldOrMissed
  <1> USE RequestsAssumption
      DEF IInv, Facts, TypeOK, HeldOrMissed, Held, Overtake, Goto, requestVars, deleterVars
  <1>1. CASE UNCHANGED vars
    BY <1>1 DEF vars
  <1>2. ASSUME NEW q \in Requests, Request(q)
        PROVE  row'[t] = "active" \/ t \in missed'
    <2>1. CASE RevokeIfActive(q)
      BY <2>1 DEF RevokeIfActive, UpdateCache, Presents
    <2>2. CASE Insert(q)
      BY <2>2 DEF Insert
    <2>3. CASE ReadBack(q)
      BY <2>3 DEF ReadBack, Minted
    <2>4. CASE ReadCode(q) \/ FillCode(q) \/ Authenticate(q) \/ Claim(q) \/ DropCode(q)
      BY <2>4 DEF ReadCode, FillCode, Authenticate, Claim, DropCode
    <2>5. CASE CacheRead(q) \/ CacheWrite(q) \/ FillToken(q) \/ MarkRead(q) \/ MarkWrite(q)
      BY <2>5 DEF CacheRead, CacheWrite, FillToken, Minted, MarkRead, MarkWrite
    <2>6. CASE Fail(q)
      BY <2>6 DEF Fail
    <2>7. CASE \E u \in Requests : ReadToken(q, u)
      BY <2>7 DEF ReadToken
    <2> QED
      BY <1>2, <2>1, <2>2, <2>3, <2>4, <2>5, <2>6, <2>7 DEF Request, Exchange, Refresh
  <1>3. ASSUME NEW u \in Requests, Revocation(u) \/ Bearer(u)
        PROVE  row'[t] = "active" \/ t \in missed'
    BY <1>3 DEF Revocation, RevokeToken, StartRevocation, RevokeRow, RevokeCacheRead,
                RevokeCacheWrite, RevokeFail, Bearer, BearerRead, BearerFill
  <1>4. CASE RevokeAllByUser \/ Expire
    BY <1>4 DEF RevokeAllByUser, StartRevocation, Expire
  <1>5. CASE DeleteClient
    BY <1>5 DEF DeleteClient, ListTokens, ClearToken, DeleteTokens, ClearCode, DeleteCode
  <1> QED
    BY <1>1, <1>2, <1>3, <1>4, <1>5 DEF Next

\* An active copy of a revoked token comes from a read whose row changed under it,
\* or is there while whoever revoked the row has still to look at it.
LEMMA CacheStep ==
    ASSUME IInv, Facts', HeldOrMissed', [Next]_vars
    PROVE  CacheFollowsRow'
  <1> SUFFICES ASSUME NEW t \in Requests, cache'[t] = "active", row'[t] = "revoked"
               PROVE  Updating(t)' \/ t \in missed'
    BY DEF CacheFollowsRow
  <1> USE RequestsAssumption
      DEF IInv, Facts, TypeOK, HeldOrMissed, Held, Overtake, Updating, CacheFollowsRow,
          Goto, Event, requestVars, deleterVars
  <1>1. CASE UNCHANGED vars
    BY <1>1 DEF vars
  <1>2. ASSUME NEW q \in Requests, Request(q)
        PROVE  Updating(t)' \/ t \in missed'
    <2>1. CASE RevokeIfActive(q)
      BY <1>2, <2>1 DEF RevokeIfActive, UpdateCache, Presents
    <2>2. CASE CacheRead(q) \/ CacheWrite(q)
      BY <2>2 DEF CacheRead, CacheWrite, Presents
    <2>3. CASE Insert(q) \/ ReadBack(q) \/ FillToken(q)
      BY <2>3 DEF Insert, ReadBack, FillToken, Minted
    <2>4. CASE ReadCode(q) \/ FillCode(q) \/ Authenticate(q) \/ Claim(q) \/ DropCode(q)
      BY <2>4 DEF ReadCode, FillCode, Authenticate, Claim, DropCode
    <2>5. CASE MarkRead(q) \/ MarkWrite(q)
      BY <2>5 DEF MarkRead, MarkWrite
    <2>6. CASE Fail(q)
      BY <2>6 DEF Fail, Presents
    <2>7. CASE \E u \in Requests : ReadToken(q, u)
      BY <2>7 DEF ReadToken
    <2> QED
      BY <1>2, <2>1, <2>2, <2>3, <2>4, <2>5, <2>6, <2>7 DEF Request, Exchange, Refresh
  <1>3. ASSUME NEW u \in Requests, Revocation(u)
        PROVE  Updating(t)' \/ t \in missed'
    BY <1>3 DEF Revocation, RevokeToken, StartRevocation, RevokeRow, RevokeCacheRead,
                RevokeCacheWrite, RevokeFail
  <1>4. ASSUME NEW u \in Requests, Bearer(u)
        PROVE  Updating(t)' \/ t \in missed'
    BY <1>4 DEF Bearer, BearerRead, BearerFill
  <1>5. CASE RevokeAllByUser \/ Expire
    BY <1>5 DEF RevokeAllByUser, StartRevocation, Expire
  <1>6. CASE DeleteClient
    BY <1>6 DEF DeleteClient, ListTokens, ClearToken, DeleteTokens, ClearCode, DeleteCode
  <1> QED
    BY <1>1, <1>2, <1>3, <1>4, <1>5, <1>6 DEF Next

LEMMA NextIInv == IInv /\ [Next]_vars => IInv'
  <1> SUFFICES ASSUME IInv, [Next]_vars
               PROVE  IInv'
    OBVIOUS
  <1>1. Facts'
    BY NextFacts DEF IInv
  <1>2. BuyersSpent' /\ SingleSuccessor' /\ OneLive'
    BY <1>1, NextEffect, ChainKept
  <1>3. HeldOrMissed'
    BY <1>1, HeldStep
  <1>4. CacheFollowsRow'
    BY <1>1, <1>3, CacheStep
  <1> QED
    BY <1>1, <1>2, <1>3, <1>4 DEF IInv

LEMMA Inductive == Spec => []IInv
  <1> QED
    BY InitIInv, NextIInv, PTL DEF Spec

\* SingleSuccessor: no two requests get a token from the same code or refresh
\* token, whatever the order of their steps, the caches and the failures.
THEOREM OneSuccessor == Spec => []SingleSuccessor
  <1>1. IInv => SingleSuccessor
    BY DEF IInv
  <1> QED
    BY <1>1, Inductive, PTL

\* CacheFollowsRow: the cached copy of a revoked token is active only while it is
\* about to be changed or when the row changed under a read.
THEOREM CopiesFollowRows == Spec => []CacheFollowsRow
  <1>1. IInv => CacheFollowsRow
    BY DEF IInv
  <1> QED
    BY <1>1, Inductive, PTL

-----------------------------------------------------------------------------
(* The refinement.                                                         *)

LEMMA InitChain == Init => Chain!Init
  <1> QED
    BY RequestsAssumption DEF Init, Chain!Init, Live, Spent, Minting

LEMMA NextChain == IInv /\ IInv' /\ [Next]_vars => [Chain!Next]_Chain!chainVars
  <1> SUFFICES ASSUME IInv, IInv', [Next]_vars
               PROVE  [Chain!Next]_Chain!chainVars
    OBVIOUS
  <1> DEFINE minting == \E q \in Requests : Minting(q)
  <1>1. CASE IsQuiet
    <2>1. minting' <=> minting
      BY <1>1 DEF IsQuiet, SameBuyer, Bought
    <2> QED
      BY <1>1, <2>1 DEF IsQuiet, Chain!chainVars
  <1>2. ASSUME NEW q \in Requests, IsUsed(q)
        PROVE  Chain!Next
    <2>1. minting' /\ uses[q] \in Requests \cup {Code}
      BY <1>2 DEF IsUsed, Live
    <2>2. Chain!Use(uses[q])
      BY <1>2, <2>1 DEF IsUsed, Chain!Use, Chain!Spend
    <2> QED
      BY <2>1, <2>2 DEF Chain!Next
  <1>3. ASSUME NEW q \in Requests, IsMinted(q)
        PROVE  Chain!Next
    <2>1. Live = {} /\ minting /\ ~minting'
      BY <1>3 DEF IsMinted, IInv, OneLive, OthersSame, SameBuyer
    <2>2. Chain!Mint(q)
      BY <1>3, <2>1 DEF IsMinted, Chain!Mint
    <2> QED
      BY <2>2 DEF Chain!Next
  <1>4. ASSUME NEW q \in Requests, IsGivenUp(q)
        PROVE  Chain!Next
    <2>1. minting /\ ~minting'
      BY <1>4 DEF IsGivenUp, IInv, OneLive, OthersSame, SameBuyer
    <2> QED
      BY <1>4, <2>1 DEF IsGivenUp, Chain!GiveUp, Chain!Next
  <1>5. ASSUME NEW c \in Requests \cup {Code}, IsRevoked(c)
        PROVE  Chain!Next
    <2>1. minting' <=> minting
      BY <1>5 DEF IsRevoked, SameBuyer
    <2>2. Chain!Revoke(c)
      BY <1>5, <2>1 DEF IsRevoked, Chain!Revoke, Chain!Spend
    <2> QED
      BY <2>2 DEF Chain!Next
  <1> QED
    BY <1>1, <1>2, <1>3, <1>4, <1>5, NextEffect DEF Effect

\* ImplementsChain: every behaviour of the OAuth server is one of CredentialChain.
THEOREM ChainImplemented == Spec => ImplementsChain
  <1> QED
    BY InitChain, NextChain, Inductive, PTL DEF Spec, ImplementsChain, Chain!Spec
=============================================================================
