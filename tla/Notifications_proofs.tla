------------------------- MODULE Notifications_proofs -------------------------
(***************************************************************************)
(* The safety properties of PubSubRedis for any number of subscribers, and *)
(* those of Notifications for any number of polls.                         *)
(*                                                                         *)
(* NoStrayHandler needs to know who is waiting: an answer may only move a  *)
(* caller that has sent the command and has no handler in the Set in use.  *)
(* The other properties of PubSubRedis are inductive once that is known.   *)
(*                                                                         *)
(* Every step of the polls is a step of PubSubRedis or leaves its          *)
(* variables alone, so that what is proved of PubSubRedis holds of them.   *)
(* The rest of their invariant relates the list of the user, the place of  *)
(* every poll and the place of its handler.                                *)
(***************************************************************************)
EXTENDS Notifications, SequenceTheorems, TLAPS

-----------------------------------------------------------------------------
(* Publish and subscribe.                                                  *)

Waits(kind) == IF kind = "subscribe" THEN "asking" ELSE "leaving"

\* Every command in flight was sent by a caller that is waiting for it, and no
\* caller waits for two.
Senders ==
    /\ \A i \in 1 .. Len(commands) : pc[commands[i].by] = Waits(commands[i].kind)
    /\ \A i, j \in 1 .. Len(commands) : commands[i].by = commands[j].by => i = j

PubSubInv == PubSubTypeOK /\ Senders /\ NoStrayHandler /\ OrphansAreCreators /\ NoLeak /\ Heard

USE DEF history, Goto, Left, IsLast, NoEntry, ChannelAfter

\* What is in the queue.
LEMMA InQueue ==
    ASSUME PubSubTypeOK, NEW i \in 1 .. Len(commands)
    PROVE  /\ commands[i] \in Command
           /\ commands[i].by \in Subs
           /\ commands[i].kind \in {"subscribe", "unsubscribe"}
  <1>1. commands[i] \in Command
    BY ElementOfSeq DEF PubSubTypeOK
  <1> QED
    BY <1>1 DEF Command

\* What an answer leaves in the queue.
LEMMA AfterHead ==
    ASSUME PubSubTypeOK, commands # <<>>
    PROVE  /\ Len(commands) \in Nat \ {0}
           /\ Head(commands) = commands[1] /\ commands[1] \in Command
           /\ Tail(commands) \in Seq(Command)
           /\ Len(Tail(commands)) = Len(commands) - 1
           /\ \A i \in 1 .. Len(commands) - 1 : Tail(commands)[i] = commands[i + 1]
           /\ Tail(commands) = <<>> <=> Len(commands) = 1
  <1>1. commands \in Seq(Command)
    BY DEF PubSubTypeOK
  <1>2. Len(commands) \in Nat \ {0}
    BY <1>1, EmptySeq
  <1>3. Tail(commands) \in Seq(Command) /\ Len(Tail(commands)) = Len(commands) - 1
    BY <1>1, <1>2
  <1>4. Tail(commands) = <<>> <=> Len(commands) = 1
    <2>1. Tail(commands) = <<>> <=> Len(Tail(commands)) = 0
      BY <1>3, EmptySeq
    <2> QED
      BY <1>2, <1>3, <2>1
  <1>5. Head(commands) = commands[1]
    BY <1>1, HeadTailProperties
  <1>6. commands[1] \in Command
    BY <1>1, <1>2, ElementOfSeq
  <1>7. \A i \in 1 .. Len(commands) - 1 : Tail(commands)[i] = commands[i + 1]
    BY <1>1, <1>2
  <1> QED
    BY <1>2, <1>3, <1>4, <1>5, <1>6, <1>7

\* What a new command leaves in the queue.
LEMMA AfterSend ==
    ASSUME PubSubTypeOK, NEW s \in Subs, NEW kind \in {"subscribe", "unsubscribe"}, Send(kind, s)
    PROVE  /\ commands' \in Seq(Command)
           /\ commands' # <<>>
           /\ Len(commands') = Len(commands) + 1
           /\ commands'[Len(commands')].kind = kind
           /\ commands'[Len(commands')].by = s
           /\ \A i \in 1 .. Len(commands) : commands'[i] = commands[i]
  <1>1. commands \in Seq(Command) /\ [kind |-> kind, by |-> s] \in Command
    BY DEF PubSubTypeOK, Command
  <1> QED
    BY <1>1, EmptySeq DEF Send

LEMMA PubSubInitInv == PubSubInit => PubSubInv
  <1> SUFFICES ASSUME PubSubInit
               PROVE  PubSubInv
    OBVIOUS
  <1>1. PubSubTypeOK
    <2>1. <<>> \in Seq(Command)
      OBVIOUS
    <2> QED
      BY <2>1 DEF PubSubInit, PubSubTypeOK
  <1>2. Len(commands) = 0
    BY DEF PubSubInit
  <1>3. Senders
    BY <1>2 DEF Senders
  <1> QED
    BY <1>1, <1>3
       DEF PubSubInit, PubSubInv, NoStrayHandler, OrphansAreCreators, NoLeak, Heard, Outcome

-----------------------------------------------------------------------------
(* The steps of a caller.                                                  *)

\* A caller that sends nothing leaves the queue and the waiting callers alone.
LEMMA SilentSenders ==
    ASSUME PubSubInv, NEW s \in Subs, NEW place, pc[s] \notin {"asking", "leaving"},
           pc' = [pc EXCEPT ![s] = place], UNCHANGED commands
    PROVE  Senders'
  <1>1. commands \in Seq(Command)
    BY DEF PubSubInv, PubSubTypeOK
  <1>2. \A i \in 1 .. Len(commands) : commands[i].by \in Subs /\ commands[i].by # s
    BY InQueue DEF PubSubInv, Senders, Waits
  <1> QED
    BY <1>2 DEF PubSubInv, PubSubTypeOK, Senders

\* A caller that was not waiting and sends a command waits for that one.
LEMMA SendingSenders ==
    ASSUME PubSubInv, NEW s \in Subs, NEW kind \in {"subscribe", "unsubscribe"},
           pc[s] \notin {"asking", "leaving"}, pc' = [pc EXCEPT ![s] = Waits(kind)],
           Send(kind, s)
    PROVE  Senders'
  <1>1. commands \in Seq(Command) /\ Len(commands) \in Nat
    BY DEF PubSubInv, PubSubTypeOK
  <1>2. \A i \in 1 .. Len(commands) : commands[i].by \in Subs /\ commands[i].by # s
    BY InQueue DEF PubSubInv, Senders, Waits
  <1>3. /\ Len(commands') = Len(commands) + 1
        /\ commands'[Len(commands')].kind = kind
        /\ commands'[Len(commands')].by = s
        /\ \A i \in 1 .. Len(commands) : commands'[i] = commands[i]
    BY AfterSend DEF PubSubInv
  <1>4. \A i \in 1 .. Len(commands') : i \in 1 .. Len(commands) \/ i = Len(commands')
    BY <1>1, <1>3
  <1>5. \A i \in 1 .. Len(commands') : pc'[commands'[i].by] = Waits(commands'[i].kind)
    BY <1>2, <1>3, <1>4 DEF PubSubInv, PubSubTypeOK, Senders
  <1>6. \A i, j \in 1 .. Len(commands') : commands'[i].by = commands'[j].by => i = j
    BY <1>2, <1>3, <1>4 DEF PubSubInv, Senders
  <1> QED
    BY <1>5, <1>6 DEF Senders

LEMMA SubscribeSteps ==
    ASSUME PubSubInv, NEW s \in Subs, Subscribe(s)
    PROVE  PubSubInv'
  <1> USE DEF PubSubInv, PubSubTypeOK
  <1>1. CASE Join(s)
    <2>1. Senders'
      BY <1>1, SilentSenders DEF Join
    <2>2. PubSubTypeOK' /\ NoStrayHandler' /\ OrphansAreCreators' /\ NoLeak' /\ Heard'
      BY <1>1 DEF Join, NoStrayHandler, OrphansAreCreators, Registered, NoLeak, Heard, Outcome
    <2> QED
      BY <2>1, <2>2
  <1>2. CASE Create(s)
    <2>1. Senders'
      BY <1>2, SendingSenders DEF Create, Waits
    <2>2. commands' \in Seq(Command) /\ Outcome'
      BY <1>2, AfterSend DEF Create, Outcome
    <2>3. handlers' = s /\ members'[s] = {} /\ s # NoSet
      BY <1>2, ConstantsAssumption DEF Create
    <2>4. PubSubTypeOK'
      BY <1>2, <2>2 DEF Create
    <2>5. NoStrayHandler' /\ NoLeak' /\ Heard'
      BY <2>2, <2>3 DEF NoStrayHandler, NoLeak, Heard
    <2>6. OrphansAreCreators'
      BY <1>2 DEF Create, OrphansAreCreators, Registered
    <2> QED
      BY <2>1, <2>4, <2>5, <2>6
  <1>3. CASE Resume(s)
    <2>1. Senders'
      BY <1>3, SilentSenders DEF Resume
    <2>2. PubSubTypeOK' /\ NoStrayHandler' /\ OrphansAreCreators' /\ NoLeak' /\ Heard'
      BY <1>3 DEF Resume, NoStrayHandler, OrphansAreCreators, Registered, NoLeak, Heard, Outcome
    <2> QED
      BY <2>1, <2>2
  <1> QED
    BY <1>1, <1>2, <1>3 DEF Subscribe

LEMMA LeaveSteps ==
    ASSUME PubSubInv, NEW s \in Subs, LeaveNothing(s) \/ LeaveOthers(s)
    PROVE  PubSubInv'
  <1> USE DEF PubSubInv, PubSubTypeOK
  <1>1. Senders'
    BY SilentSenders DEF LeaveNothing, LeaveOthers
  <1>2. CASE LeaveNothing(s)
    BY <1>1, <1>2 DEF LeaveNothing, NoStrayHandler, OrphansAreCreators, Registered,
                      NoLeak, Heard, Outcome
  <1>3. CASE LeaveOthers(s)
    BY <1>1, <1>3 DEF LeaveOthers, NoStrayHandler, OrphansAreCreators, Registered,
                      NoLeak, Heard, Outcome
  <1> QED
    BY <1>2, <1>3

LEMMA LeaveLastStep ==
    ASSUME PubSubInv, NEW s \in Subs, NEW keep \in BOOLEAN, LeaveLast(s, keep)
    PROVE  PubSubInv'
  <1> USE DEF PubSubInv, PubSubTypeOK
  <1>1. Senders' /\ commands' \in Seq(Command)
    <2>1. CASE keep
      BY <2>1, SilentSenders DEF LeaveLast, Tell
    <2>2. CASE ~keep
      BY <2>2, SendingSenders, AfterSend DEF LeaveLast, Tell, Waits
    <2> QED
      BY <2>1, <2>2
  <1>2. PubSubTypeOK'
    BY <1>1 DEF LeaveLast, Tell
  <1>3. handlers' = NoSet
    BY DEF LeaveLast
  <1>4. OrphansAreCreators'
    BY <1>2 DEF LeaveLast, Tell, OrphansAreCreators, Registered
  <1>5. NoLeak'
    <2> SUFFICES ASSUME ~kept'
                 PROVE  ~Outcome'
      BY DEF NoLeak
    <2>1. Send("unsubscribe", s)
      BY DEF LeaveLast, Tell
    <2> QED
      BY <2>1, AfterSend DEF Outcome
  <1> QED
    BY <1>1, <1>2, <1>3, <1>4, <1>5 DEF NoStrayHandler, Heard

-----------------------------------------------------------------------------
(* The steps of Redis.                                                     *)

\* The head of the queue was sent by a caller that is waiting, and the others
\* keep waiting.
LEMMA HeadSenders ==
    ASSUME PubSubInv, commands # <<>>, NEW place,
           commands' = Tail(commands), pc' = [pc EXCEPT ![Head(commands).by] = place]
    PROVE  /\ Head(commands) \in Command
           /\ pc[Head(commands).by] = Waits(Head(commands).kind)
           /\ Senders'
  <1>1. Head(commands) \in Command /\ Head(commands) = commands[1]
    BY AfterHead DEF PubSubInv
  <1>2. Len(commands) \in Nat \ {0} /\ Len(commands') = Len(commands) - 1
    BY AfterHead DEF PubSubInv
  <1>3. \A i \in 1 .. Len(commands') : /\ commands'[i] = commands[i + 1]
                                      /\ i + 1 \in 1 .. Len(commands)
                                      /\ i + 1 # 1
    BY <1>2, AfterHead DEF PubSubInv
  <1>4. pc[commands[1].by] = Waits(commands[1].kind)
    BY <1>2 DEF PubSubInv, Senders
  <1>5. \A i \in 1 .. Len(commands') : commands[i + 1].by # commands[1].by
    BY <1>2, <1>3 DEF PubSubInv, Senders
  <1>6. \A i \in 1 .. Len(commands') : pc'[commands'[i].by] = Waits(commands'[i].kind)
    <2> SUFFICES ASSUME NEW i \in 1 .. Len(commands')
                 PROVE  pc'[commands'[i].by] = Waits(commands'[i].kind)
      OBVIOUS
    <2>1. commands[i + 1].by \in Subs
      BY <1>3, InQueue DEF PubSubInv
    <2>2. pc'[commands[i + 1].by] = pc[commands[i + 1].by]
      BY <2>1, <1>1, <1>5 DEF PubSubInv, PubSubTypeOK
    <2> QED
      BY <2>2, <1>3 DEF PubSubInv, Senders
  <1>7. \A i, j \in 1 .. Len(commands') : commands'[i].by = commands'[j].by => i = j
    <2> SUFFICES ASSUME NEW i \in 1 .. Len(commands'), NEW j \in 1 .. Len(commands'),
                        commands'[i].by = commands'[j].by
                 PROVE  i = j
      OBVIOUS
    <2>1. i + 1 = j + 1
      BY <1>3 DEF PubSubInv, Senders
    <2> QED
      BY <2>1, <1>2
  <1> QED
    BY <1>1, <1>4, <1>6, <1>7 DEF Senders

\* An answer does not change what the connection ends up with.
LEMMA AnswerOutcome == ASSUME PubSubInv, Answer PROVE Outcome' = Outcome
  <1>1. commands # <<>> /\ commands' = Tail(commands)
    BY DEF Answer
  <1>2. CASE Len(commands) = 1
    BY <1>1, <1>2, AfterHead DEF Answer, Outcome, PubSubInv
  <1>3. CASE Len(commands) # 1
    <2>1. /\ commands' # <<>> /\ Len(commands) - 1 \in 1 .. Len(commands) - 1
          /\ Len(commands') = Len(commands) - 1
      BY <1>1, <1>3, AfterHead DEF PubSubInv
    <2>2. commands'[Len(commands')] = commands[Len(commands)]
      BY <1>1, <2>1, AfterHead DEF PubSubInv
    <2> QED
      BY <1>1, <2>1, <2>2 DEF Outcome
  <1> QED
    BY <1>2, <1>3

LEMMA AnswerStep == ASSUME PubSubInv, Answer PROVE PubSubInv'
  <1> DEFINE head == Head(commands)
             next == IF head.kind = "subscribe" THEN "answered" ELSE "out"
  <1>1. commands # <<>> /\ commands' = Tail(commands) /\ pc' = [pc EXCEPT ![head.by] = next]
    BY DEF Answer
  <1>2. head \in Command /\ pc[head.by] = Waits(head.kind) /\ Senders'
    BY <1>1, HeadSenders
  <1>3. pc[head.by] # "in" /\ head.by \in Subs
    BY <1>2 DEF Waits, Command
  <1>4. PubSubTypeOK'
    BY <1>1, <1>2, <1>3, AfterHead DEF Answer, PubSubInv, PubSubTypeOK
  <1>5. NoStrayHandler' /\ OrphansAreCreators'
    BY <1>1, <1>3
       DEF Answer, PubSubInv, PubSubTypeOK, NoStrayHandler, OrphansAreCreators, Registered
  <1>6. NoLeak' /\ Heard'
    BY AnswerOutcome DEF Answer, PubSubInv, NoLeak, Heard
  <1> QED
    BY <1>2, <1>4, <1>5, <1>6 DEF PubSubInv

LEMMA RejectStep == ASSUME PubSubInv, Reject PROVE PubSubInv'
  <1> DEFINE head == Head(commands)
  <1>1. /\ commands # <<>> /\ commands' = Tail(commands) /\ pc' = [pc EXCEPT ![head.by] = "out"]
        /\ rejected' /\ head.kind = "subscribe"
    BY DEF Reject
  <1>2. head \in Command /\ pc[head.by] = Waits(head.kind) /\ Senders'
    BY <1>1, HeadSenders
  <1>3. pc[head.by] # "in" /\ head.by \in Subs
    BY <1>2 DEF Waits, Command
  <1>4. PubSubTypeOK'
    BY <1>1, <1>2, <1>3, AfterHead DEF Reject, PubSubInv, PubSubTypeOK
  <1>5. NoStrayHandler' /\ OrphansAreCreators'
    BY <1>1, <1>3
       DEF Reject, PubSubInv, PubSubTypeOK, NoStrayHandler, OrphansAreCreators, Registered
  <1>6. NoLeak'
    <2> SUFFICES ASSUME ~kept, handlers = NoSet
                 PROVE  ~Outcome'
      BY DEF Reject, NoLeak
    <2>1. ~Outcome
      BY DEF PubSubInv, NoLeak
    <2>2. Len(commands) # 1
      BY <2>1, <1>1, AfterHead DEF Outcome, PubSubInv
    <2>3. /\ commands' # <<>> /\ Len(commands) - 1 \in 1 .. Len(commands) - 1
          /\ Len(commands') = Len(commands) - 1
      BY <2>2, <1>1, AfterHead DEF PubSubInv
    <2>4. commands'[Len(commands')] = commands[Len(commands)]
      BY <2>3, <1>1, AfterHead DEF PubSubInv
    <2> QED
      BY <1>1, <2>1, <2>3, <2>4 DEF Outcome
  <1> QED
    BY <1>1, <1>2, <1>4, <1>5, <1>6 DEF PubSubInv, Heard

LEMMA PubSubStepInv == PubSubInv /\ [PubSubNext]_pubsub => PubSubInv'
  <1> SUFFICES ASSUME PubSubInv, [PubSubNext]_pubsub
               PROVE  PubSubInv'
    OBVIOUS
  <1>1. ASSUME NEW s \in Subs, Subscribe(s)
        PROVE  PubSubInv'
    BY <1>1, SubscribeSteps
  <1>2. ASSUME NEW s \in Subs, Unsubscribe(s)
        PROVE  PubSubInv'
    BY <1>2, LeaveSteps, LeaveLastStep DEF Unsubscribe, Leave
  <1>3. CASE UNCHANGED pubsub
    BY <1>3
       DEF pubsub, PubSubInv, PubSubTypeOK, Senders, NoStrayHandler, OrphansAreCreators,
           NoLeak, Heard, Outcome, Registered
  <1> QED
    BY <1>1, <1>2, <1>3, AnswerStep, RejectStep DEF PubSubNext

LEMMA PubSubInductive == PubSubSpec => []PubSubInv
  BY PubSubInitInv, PubSubStepInv, PTL DEF PubSubSpec

\* The state of PubSubRedis always has its type.
THEOREM PubSubTypeCorrect == PubSubSpec => []PubSubTypeOK
  <1>1. PubSubInv => PubSubTypeOK
    BY DEF PubSubInv
  <1> QED
    BY PubSubInductive, <1>1, PTL

\* No handler is in the Set in use before subscribe() has returned or after
\* unsubscribe() has been called, however many callers overlap.
THEOREM NoStrayHandlers == PubSubSpec => []NoStrayHandler
  <1>1. PubSubInv => NoStrayHandler
    BY DEF PubSubInv
  <1> QED
    BY PubSubInductive, <1>1, PTL

\* Only the creator of a Set can be left out of the Set in use.
THEOREM OnlyCreatorsOrphaned == PubSubSpec => []OrphansAreCreators
  <1>1. PubSubInv => OrphansAreCreators
    BY DEF PubSubInv
  <1> QED
    BY PubSubInductive, <1>1, PTL

\* The commands in flight leave Redis in agreement with the map: subscribed when
\* there is a Set, not subscribed when there is none.
THEOREM RedisFollowsMap == PubSubSpec => [](NoLeak /\ Heard)
  <1>1. PubSubInv => NoLeak /\ Heard
    BY DEF PubSubInv
  <1> QED
    BY PubSubInductive, <1>1, PTL

HIDE DEF history, Goto, Left, IsLast, NoEntry, ChannelAfter

-----------------------------------------------------------------------------
(* The polls.                                                              *)

\* A response is in the list once.
Once(list) == \A i, j \in 1 .. Len(list) : list[i] = list[j] => i = j
ListedOnce == Once(connections)

\* Where the handler of a poll is, by the place of the poll.
Places ==
    \A r \in Subs :
        /\ poll[r] = "new" => pc[r] = "out" /\ ~Listed(r) /\ ~closed[r]
        /\ poll[r] = "subscribing" <=> pc[r] \in {"asking", "answered"}
        /\ poll[r] = "ready" /\ ~closed[r] /\ available => pc[r] = "in"
        /\ poll[r] = "failed" => Answered(r)
        /\ ~available => pc[r] = "out"
NoRedis == ~available => commands = <<>>

\* A close before the listener is registered is missed.
MissedEarly == \A r \in Subs : closed[r] /\ poll[r] # "ready" => missed[r]

\* A poll leaves the list with a notification, unless it is closed.
LeavesWithSuccess ==
    \A r \in Subs :
        poll[r] # "new" /\ ~closed[r] => Listed(r) \/ sent[r] = "success"

\* Redis keeps the channel for a waiting response from the moment it asks for it.
WaitingKept ==
    \A r \in Subs :
        Waiting(r) /\ pc[r] \in {"asking", "answered", "in"} /\ ~rejected => Outcome

Facts == TypeOK /\ ListedOnce /\ Places /\ NoRedis
Rest == /\ MissedEarly /\ LeavesWithSuccess /\ WaitingKept
        /\ OnlyMissedStay /\ HandlersReleased
IInv == PubSubInv /\ Facts /\ Rest

-----------------------------------------------------------------------------
(* The list of the user.                                                   *)

LEMMA Appended ==
    ASSUME NEW list \in Seq(Subs), NEW r \in Subs, r \notin ToSet(list), Once(list)
    PROVE  /\ Append(list, r) \in Seq(Subs)
           /\ Once(Append(list, r))
           /\ ToSet(Append(list, r)) = ToSet(list) \cup {r}
  <1> DEFINE new == Append(list, r)
  <1>1. /\ new \in Seq(Subs) /\ Len(list) \in Nat
        /\ Len(new) = Len(list) + 1 /\ new[Len(new)] = r
        /\ \A i \in 1 .. Len(list) : new[i] = list[i]
        /\ DOMAIN new = 1 .. Len(new) /\ DOMAIN list = 1 .. Len(list)
    OBVIOUS
  <1>2. \A i \in 1 .. Len(list) : list[i] # r
    BY <1>1 DEF ToSet
  <1>3. \A i \in 1 .. Len(new) : i \in 1 .. Len(list) \/ i = Len(new)
    BY <1>1
  <1> HIDE DEF new
  <1>4. Once(new)
    BY <1>1, <1>2, <1>3 DEF Once
  <1>5. ToSet(new) = ToSet(list) \cup {r}
    BY <1>1, <1>3 DEF ToSet
  <1> QED
    BY <1>1, <1>4, <1>5 DEF new

\* RemoveFirst() takes out the response and nothing else.
LEMMA Removed ==
    ASSUME NEW list \in Seq(Subs), NEW r \in Subs, Once(list)
    PROVE  /\ RemoveFirst(list, r) \in Seq(Subs)
           /\ Once(RemoveFirst(list, r))
           /\ ToSet(RemoveFirst(list, r)) = ToSet(list) \ {r}
  <1> DEFINE new == RemoveFirst(list, r)
             I == {i \in 1 .. Len(list) : list[i] = r}
  <1>0. Len(list) \in Nat /\ DOMAIN list = 1 .. Len(list)
    OBVIOUS
  <1>1. CASE I = {}
    <2>1. new = list
      BY <1>1 DEF RemoveFirst
    <2> QED
      BY <1>0, <1>1, <2>1 DEF ToSet
  <1>2. ASSUME NEW k \in 1 .. Len(list), list[k] = r
        PROVE  new \in Seq(Subs) /\ Once(new) /\ ToSet(new) = ToSet(list) \ {r}
    <2>1. I = {k}
      BY <1>2 DEF Once
    <2>2. Min(I) = k
      BY <2>1 DEF Min
    <2>3. SelectInSeq(list, LAMBDA v : v = r) = k
      BY <2>1, <2>2 DEF SelectInSeq
    <2>4. new = RemoveAt(list, k)
      BY <1>2, <2>3 DEF RemoveFirst
    <2> DEFINE front == SubSeq(list, 1, k - 1)
               back == SubSeq(list, k + 1, Len(list))
    <2>5. new = front \o back
      BY <2>4 DEF RemoveAt
    <2>6. /\ front \in Seq(Subs) /\ Len(front) = k - 1
          /\ \A i \in 1 .. k - 1 : front[i] = list[i]
      BY <1>0
    <2>7. /\ back \in Seq(Subs) /\ Len(back) = Len(list) - k
          /\ \A i \in 1 .. Len(list) - k : back[i] = list[i + k]
      <3>0. k + 1 \in Int /\ Len(list) \in Int
            /\ \A i \in k + 1 .. Len(list) : list[i] \in Subs
        BY <1>0
      <3>1. /\ back \in Seq(Subs)
            /\ Len(back) = IF k + 1 <= Len(list) THEN Len(list) - (k + 1) + 1 ELSE 0
            /\ \A i \in 1 .. Len(list) - (k + 1) + 1 : back[i] = list[(k + 1) + i - 1]
        BY <3>0, SubSeqProperties
      <3>2. \A i \in 1 .. Len(list) - k :
                i \in 1 .. Len(list) - (k + 1) + 1 /\ (k + 1) + i - 1 = i + k
        BY <1>0
      <3>3. \A i \in 1 .. Len(list) - k : back[i] = list[i + k]
        BY <3>1, <3>2
      <3>4. Len(back) = Len(list) - k
        <4>1. CASE k + 1 <= Len(list)
          BY <1>0, <3>1, <4>1
        <4>2. CASE k = Len(list)
          BY <1>0, <3>1, <4>2
        <4>3. k + 1 <= Len(list) \/ k = Len(list)
          <5>1. k \in Int /\ k <= Len(list) /\ Len(list) \in Int
            BY <1>0
          <5> HIDE DEF front, back
          <5> QED
            BY <5>1
        <4> QED
          BY <4>1, <4>2, <4>3
      <3> QED
        BY <3>1, <3>3, <3>4
    <2> HIDE DEF front, back, new
    <2>8. /\ new \in Seq(Subs) /\ Len(new) = Len(list) - 1
          /\ \A i \in 1 .. k - 1 : new[i] = list[i]
          /\ \A i \in k .. Len(new) : new[i] = list[i + 1]
      <3>1. new \in Seq(Subs) /\ Len(new) = Len(list) - 1
        <4>1. new \in Seq(Subs) /\ Len(new) = Len(front) + Len(back)
          BY <2>5, <2>6, <2>7, ConcatProperties
        <4> QED
          BY <1>0, <2>6, <2>7, <4>1
      <3>2. \A i \in 1 .. k - 1 : new[i] = list[i]
        BY <1>0, <2>5, <2>6, <2>7
      <3>3. ASSUME NEW i \in k .. Len(new)
            PROVE  new[i] = list[i + 1]
        <4>1. new[i] = back[i - (k - 1)]
          BY <1>0, <2>5, <2>6, <2>7, <3>1
        <4>2. i - (k - 1) \in 1 .. Len(list) - k /\ i - (k - 1) + k = i + 1
          BY <1>0, <3>1
        <4> QED
          BY <2>7, <4>1, <4>2
      <3> QED
        BY <3>1, <3>2, <3>3
    <2>9. DOMAIN new = 1 .. Len(new)
      BY <2>8
    <2>10. \A i \in 1 .. Len(new) : i \in 1 .. k - 1 \/ i \in k .. Len(new)
      BY <1>0, <2>8
    <2>11. Once(new)
      BY <1>0, <1>2, <2>8, <2>10 DEF Once
    <2>12. ToSet(new) \subseteq ToSet(list) \ {r}
      BY <1>0, <1>2, <2>8, <2>9, <2>10 DEF ToSet, Once
    <2>13. ToSet(list) \ {r} \subseteq ToSet(new)
      <3> SUFFICES ASSUME NEW i \in 1 .. Len(list), i # k
                   PROVE  list[i] \in ToSet(new)
        BY <1>0, <1>2 DEF ToSet
      <3>1. CASE i < k
        <4>1. i \in 1 .. k - 1 /\ i \in DOMAIN new
          BY <1>0, <2>8, <2>9, <3>1
        <4> QED
          BY <2>8, <4>1 DEF ToSet
      <3>2. CASE i > k
        <4>1. i - 1 \in k .. Len(new) /\ i - 1 \in DOMAIN new /\ (i - 1) + 1 = i
          BY <1>0, <2>8, <2>9, <3>2
        <4> QED
          BY <2>8, <4>1 DEF ToSet
      <3> QED
        BY <1>0, <3>1, <3>2
    <2> QED
      BY <2>8, <2>11, <2>12, <2>13
  <1> QED
    BY <1>1, <1>2

-----------------------------------------------------------------------------
(* The polls and the publish/subscribe.                                    *)

\* Every step of the polls is one of PubSubRedis or none.
LEMMA PubSubStep ==
    ASSUME [Next]_vars
    PROVE  [PubSubNext]_pubsub
  <1> USE DEF PubSubNext, Subscribe, Unsubscribe
  <1>2. ASSUME NEW r \in Subs, NotificationPoll(r)
        PROVE  [PubSubNext]_pubsub
    BY <1>2 DEF NotificationPoll
  <1>3. ASSUME NEW r \in Subs, Handle(r)
        PROVE  [PubSubNext]_pubsub
    BY <1>3 DEF Handle, Subscribed
  <1>4. ASSUME NEW r \in Subs, Close(r)
        PROVE  [PubSubNext]_pubsub
    <2>1. UNCHANGED pubsub \/ Leave(r, Keep(Without(r)))
      BY <1>4 DEF Close, RemoveConnection
    <2>2. Keep(Without(r)) \in BOOLEAN
      BY DEF Keep
    <2> QED
      BY <2>1, <2>2 DEF Unsubscribe
  <1>5. CASE Redis
    BY <1>5 DEF Redis, RedisAnswers, SubscribeFails
  <1>6. ASSUME Message \/ InsertNotification \/ ModuleDestroy
               \/ (\E r \in Subs : Timeout(r)) \/ UNCHANGED vars
        PROVE  UNCHANGED pubsub
    BY <1>6 DEF Message, InsertNotification, ModuleDestroy, Timeout, vars, pubsub
  <1> QED
    BY <1>2, <1>3, <1>4, <1>5, <1>6 DEF Next

\* The polls of a user use the channel as PubSubRedis allows: what is proved of the
\* one holds of the other.
THEOREM PollsUsePubSub == Spec => PubSubSpec
  <1>1. Init => PubSubInit
    BY DEF Init
  <1>2. [Next]_vars => [PubSubNext]_pubsub
    BY PubSubStep
  <1> QED
    BY <1>1, <1>2, PTL DEF Spec, PubSubSpec

LEMMA InitPubSub == Init => PubSubInv
  <1> QED
    BY PubSubInitInv DEF Init

LEMMA NextPubSub == PubSubInv /\ [Next]_vars => PubSubInv'
  <1> QED
    BY PubSubStep, PubSubStepInv

\* The places of the handlers.
LEMMA HandlerPlaces ==
    ASSUME PubSubInv
    PROVE  pc \in [Subs -> {"out", "asking", "answered", "in", "leaving"}]
  <1> QED
    BY DEF PubSubInv, PubSubTypeOK

\* Who is answered.
LEMMA Asked ==
    ASSUME PubSubInv, commands # <<>>
    PROVE  /\ Head(commands).by \in Subs
           /\ pc[Head(commands).by] =
                IF Head(commands).kind = "subscribe" THEN "asking" ELSE "leaving"
  <1>1. commands[1] \in Command /\ Head(commands) = commands[1] /\ 1 \in 1 .. Len(commands)
    BY AfterHead DEF PubSubInv
  <1> QED
    BY <1>1 DEF PubSubInv, Senders, Waits, Command

\* What becomes of the subscription in Redis.
LEMMA OutcomeSent ==
    ASSUME PubSubInv, NEW r \in Subs, NEW kind \in {"subscribe", "unsubscribe"},
           Send(kind, r)
    PROVE  Outcome' <=> kind = "subscribe"
  <1> QED
    BY AfterSend DEF PubSubInv, Outcome

LEMMA OutcomeKept ==
    ASSUME UNCHANGED <<channel, commands>>
    PROVE  Outcome' = Outcome
  <1> QED
    BY DEF Outcome

-----------------------------------------------------------------------------
(* The steps.                                                              *)

LEMMA PollStep ==
    ASSUME IInv, NEW r \in Subs, NotificationPoll(r)
    PROVE  Facts' /\ Rest'
  <1> USE DEF IInv, Facts, TypeOK, ListedOnce
  <1>1. poll[r] = "new" /\ pc[r] = "out" /\ ~Listed(r) /\ ~closed[r]
    BY DEF NotificationPoll, Places
  <1>2. /\ connections' \in Seq(Subs)
        /\ Once(connections')
        /\ \A s \in Subs : Listed(s)' <=> Listed(s) \/ s = r
    BY <1>1, Appended DEF NotificationPoll, AddConnection, Listed
  <1>3. pc \in [Subs -> {"out", "asking", "answered", "in", "leaving"}]
    BY HandlerPlaces
  <1>4. UNCHANGED <<available, sent, closed, missed, up>>
    BY DEF NotificationPoll
  <1>5. LeavesWithSuccess' /\ OnlyMissedStay'
    BY <1>1, <1>2, <1>4 DEF NotificationPoll, Reach, Rest, LeavesWithSuccess, OnlyMissedStay
  <1>6. CASE ~available /\ Reach(r, "ready") /\ UNCHANGED pubsub
    <2> QED
      BY <1>1, <1>2, <1>4, <1>5, <1>6, OutcomeKept
      DEF Reach, pubsub, Places, NoRedis, Rest, MissedEarly, WaitingKept, HandlersReleased,
          Waiting, Answered
  <1>7. CASE available /\ Join(r) /\ Reach(r, "ready")
    <2>1. pc' = [pc EXCEPT ![r] = "in"] /\ handlers # NoSet
          /\ UNCHANGED <<channel, commands, rejected>>
      BY <1>7 DEF Join, Goto, history
    <2>2. ~rejected => Outcome
      BY <2>1 DEF PubSubInv, Heard, Outcome
    <2> QED
      BY <1>1, <1>2, <1>3, <1>4, <1>5, <1>7, <2>1, <2>2, OutcomeKept
      DEF Reach, Places, NoRedis, Rest, MissedEarly, WaitingKept, HandlersReleased, Waiting,
          Answered
  <1>8. CASE available /\ Create(r) /\ Reach(r, "subscribing")
    <2>1. pc' = [pc EXCEPT ![r] = "asking"] /\ Send("subscribe", r)
      BY <1>8 DEF Create, Goto
    <2>2. Outcome'
      BY <2>1, OutcomeSent
    <2> QED
      BY <1>1, <1>2, <1>3, <1>4, <1>5, <1>8, <2>1, <2>2
      DEF Reach, Places, NoRedis, Rest, MissedEarly, WaitingKept, HandlersReleased, Waiting,
          Answered
  <1> QED
    BY <1>6, <1>7, <1>8 DEF NotificationPoll

LEMMA HandleStep ==
    ASSUME IInv, NEW r \in Subs, Handle(r)
    PROVE  Facts' /\ Rest'
  <1> USE DEF IInv, Facts, TypeOK, ListedOnce
  <1>1. /\ pc[r] = "answered" /\ pc' = [pc EXCEPT ![r] = "in"]
        /\ poll' = [poll EXCEPT ![r] = "ready"]
        /\ UNCHANGED <<available, connections, sent, closed, missed, up, channel, commands,
            rejected>>
    BY DEF Handle, Subscribed, Reach, Resume, Goto, history
  <1>2. pc \in [Subs -> {"out", "asking", "answered", "in", "leaving"}]
    BY HandlerPlaces
  <1>3. poll[r] = "subscribing"
    BY <1>1 DEF Places
  <1>4. Facts'
    BY <1>1, <1>2, <1>3 DEF Places, NoRedis, Listed, Answered
  <1>5. MissedEarly' /\ LeavesWithSuccess' /\ OnlyMissedStay'
    BY <1>1, <1>3 DEF Rest, MissedEarly, LeavesWithSuccess, OnlyMissedStay, Listed
  <1>6. HandlersReleased'
    BY <1>1, <1>2, <1>3 DEF Rest, MissedEarly, HandlersReleased
  <1>7. WaitingKept'
    BY <1>1, <1>2, <1>3, OutcomeKept DEF Rest, WaitingKept, Waiting, Answered
  <1> QED
    BY <1>4, <1>5, <1>6, <1>7 DEF Rest

LEMMA RedisStep ==
    ASSUME IInv, Redis
    PROVE  Facts' /\ Rest'
  <1> USE DEF IInv, Facts, TypeOK, ListedOnce
  <1> DEFINE head == Head(commands)
  <1>1. commands # <<>>
    BY DEF Redis, RedisAnswers, SubscribeFails, Answer, Reject
  <1>2. /\ head.by \in Subs
        /\ pc[head.by] = IF head.kind = "subscribe" THEN "asking" ELSE "leaving"
    BY <1>1, Asked
  <1>3. pc \in [Subs -> {"out", "asking", "answered", "in", "leaving"}] /\ available
    BY <1>1, HandlerPlaces DEF NoRedis
  <1>4. CASE RedisAnswers
    <2>1. /\ pc' = [pc EXCEPT ![head.by] = IF head.kind = "subscribe" THEN "answered" ELSE "out"]
          /\ UNCHANGED <<available, connections, poll, sent, closed, missed, up, rejected>>
      BY <1>4 DEF RedisAnswers, Answer, Goto, history
    <2>2. Outcome' = Outcome
      BY <1>4, AnswerOutcome DEF RedisAnswers
    <2>3. Facts'
      BY <1>2, <1>3, <2>1 DEF Places, NoRedis, Listed, Answered
    <2>4. MissedEarly' /\ LeavesWithSuccess' /\ OnlyMissedStay'
      BY <2>1 DEF Rest, MissedEarly, LeavesWithSuccess, OnlyMissedStay, Listed
    <2>5. HandlersReleased' /\ WaitingKept'
      BY <1>2, <1>3, <2>1, <2>2 DEF Rest, HandlersReleased, WaitingKept, Waiting, Answered
    <2> QED
      BY <2>3, <2>4, <2>5 DEF Rest
  <1>5. CASE SubscribeFails
    <2>1. /\ pc' = [pc EXCEPT ![head.by] = "out"] /\ head.kind = "subscribe"
          /\ poll' = [poll EXCEPT ![head.by] = "failed"]
          /\ sent' = [sent EXCEPT ![head.by] = IF @ = "nothing" THEN "error" ELSE @]
          /\ rejected' = TRUE
          /\ UNCHANGED <<available, connections, closed, missed, up>>
      BY <1>5 DEF SubscribeFails, Reject, Goto, Reach
    <2>2. poll[head.by] = "subscribing"
      BY <1>2, <2>1 DEF Places
    <2>3. Facts'
      BY <1>2, <1>3, <2>1, <2>2 DEF Places, NoRedis, Listed, Answered
    <2>4. MissedEarly' /\ LeavesWithSuccess' /\ OnlyMissedStay'
      BY <1>2, <2>1, <2>2 DEF Rest, MissedEarly, LeavesWithSuccess, OnlyMissedStay, Listed
    <2>5. HandlersReleased' /\ WaitingKept'
      BY <1>2, <1>3, <2>1 DEF Rest, HandlersReleased, WaitingKept
    <2> QED
      BY <2>3, <2>4, <2>5 DEF Rest
  <1> QED
    BY <1>4, <1>5 DEF Redis

\* What unsubscribe() does for the others.
LEMMA UnsubscribeEffect ==
    ASSUME IInv, NEW r \in Subs, NEW keep \in BOOLEAN, Leave(r, keep)
    PROVE  /\ \E place \in {"out", "leaving"} : pc' = [pc EXCEPT ![r] = place]
           /\ keep => Outcome' = Outcome
           /\ UNCHANGED rejected
           /\ pc[r] = "in"
  <1>1. CASE LeaveNothing(r) \/ LeaveOthers(r)
    BY <1>1, OutcomeKept DEF LeaveNothing, LeaveOthers, Goto, history
  <1>2. CASE LeaveLast(r, keep)
    BY <1>2, OutcomeKept DEF LeaveLast, Tell, Goto
  <1> QED
    BY <1>1, <1>2 DEF Leave

LEMMA CloseStep ==
    ASSUME IInv, NEW r \in Subs, Close(r)
    PROVE  Facts' /\ Rest'
  <1> USE DEF IInv, Facts, TypeOK, ListedOnce
  <1>1. /\ poll[r] # "new" /\ ~closed[r] /\ closed' = [closed EXCEPT ![r] = TRUE]
        /\ UNCHANGED <<available, poll, sent, up>>
    BY DEF Close
  <1>2. pc \in [Subs -> {"out", "asking", "answered", "in", "leaving"}]
    BY HandlerPlaces
  <1>3. CASE poll[r] # "ready"
    <2>1. missed' = [missed EXCEPT ![r] = TRUE] /\ UNCHANGED <<connections, pubsub>>
      BY <1>3 DEF Close
    <2>2. Facts'
      BY <1>1, <2>1 DEF pubsub, Places, NoRedis, Listed, Answered
    <2>3. MissedEarly' /\ LeavesWithSuccess' /\ OnlyMissedStay' /\ HandlersReleased'
      BY <1>1, <2>1
      DEF pubsub, Rest, MissedEarly, LeavesWithSuccess, OnlyMissedStay, HandlersReleased, Listed
    <2>4. WaitingKept'
      BY <1>1, <2>1, OutcomeKept DEF pubsub, Rest, WaitingKept, Waiting, Answered
    <2> QED
      BY <2>2, <2>3, <2>4 DEF Rest
  <1>4. CASE poll[r] = "ready" /\ connections = <<>>
    <2>1. UNCHANGED <<missed, connections, pubsub>>
      BY <1>4 DEF Close, RemoveConnection
    <2>2. ~Listed(r)
      BY <1>4 DEF Listed, ToSet
    <2>3. sent[r] = "success"
      BY <1>1, <2>2 DEF Rest, LeavesWithSuccess
    <2>4. Facts'
      BY <1>1, <2>1 DEF pubsub, Places, NoRedis, Listed, Answered
    <2>5. MissedEarly' /\ LeavesWithSuccess' /\ OnlyMissedStay' /\ HandlersReleased'
      BY <1>1, <1>4, <2>1, <2>2, <2>3
      DEF pubsub, Rest, MissedEarly, LeavesWithSuccess, OnlyMissedStay, HandlersReleased, Listed
    <2>6. WaitingKept'
      BY <1>1, <2>1, OutcomeKept DEF pubsub, Rest, WaitingKept, Waiting, Answered
    <2> QED
      BY <2>4, <2>5, <2>6 DEF Rest
  <1>5. CASE poll[r] = "ready" /\ connections # <<>>
    <2>1. /\ connections' = Without(r) /\ UNCHANGED missed
          /\ IF available THEN Leave(r, Keep(Without(r))) ELSE UNCHANGED pubsub
      BY <1>5 DEF Close, RemoveConnection
    <2>2. /\ connections' \in Seq(Subs) /\ Once(connections')
          /\ \A s \in Subs : Listed(s)' <=> Listed(s) /\ s # r
      BY <2>1, Removed DEF Without, Listed
    <2>3. MissedEarly' /\ LeavesWithSuccess' /\ OnlyMissedStay'
      BY <1>1, <1>5, <2>1, <2>2 DEF Rest, MissedEarly, LeavesWithSuccess, OnlyMissedStay
    <2>4. CASE ~available
      <3>1. UNCHANGED pubsub /\ \A s \in Subs : pc[s] = "out"
        BY <2>1, <2>4 DEF Places
      <3>2. Facts'
        BY <1>1, <2>1, <2>2, <2>4, <3>1 DEF pubsub, Places, NoRedis, Answered
      <3>3. HandlersReleased' /\ WaitingKept'
        BY <3>1 DEF pubsub, HandlersReleased, WaitingKept
      <3> QED
        BY <2>3, <3>2, <3>3 DEF Rest
    <2>5. CASE available
      <3>1. Leave(r, Keep(connections')) /\ Keep(connections') \in BOOLEAN
        BY <2>1, <2>5 DEF Keep
      <3>2. PICK place \in {"out", "leaving"} : pc' = [pc EXCEPT ![r] = place]
        BY <3>1, UnsubscribeEffect
      <3>3. Facts'
        BY <1>1, <1>2, <1>5, <2>1, <2>2, <2>5, <3>2 DEF Places, NoRedis, Answered
      <3>4. HandlersReleased'
        BY <1>1, <1>2, <2>1, <3>2 DEF Rest, HandlersReleased
      <3>5. ASSUME NEW s \in Subs, Waiting(s)'
            PROVE  Keep(connections')
        <4>1. Listed(s)'
          BY <1>1, <2>3, <3>5 DEF LeavesWithSuccess, Waiting, Answered
        <4> QED
          BY <4>1 DEF Listed, ToSet, Keep
      <3>6. WaitingKept'
        <4> SUFFICES ASSUME NEW s \in Subs, Waiting(s)',
                            pc'[s] \in {"asking", "answered", "in"}, ~rejected'
                     PROVE  Outcome'
          BY DEF WaitingKept
        <4>1. Outcome' = Outcome /\ rejected' = rejected
          BY <3>1, <3>5, UnsubscribeEffect
        <4>2. s # r /\ Waiting(s) /\ pc[s] = pc'[s]
          BY <1>1, <1>2, <3>2 DEF Waiting, Answered
        <4> QED
          BY <4>1, <4>2 DEF Rest, WaitingKept
      <3> QED
        BY <2>3, <3>3, <3>4, <3>6 DEF Rest
    <2> QED
      BY <2>4, <2>5
  <1> QED
    BY <1>3, <1>4, <1>5

\* A step that answers some responses and leaves the list alone.
OnlyAnswers ==
    /\ UNCHANGED <<available, connections, poll, closed, missed, pubsub>>
    /\ up' \in BOOLEAN /\ (up' => up)
    /\ sent' \in [Subs -> {"nothing", "success", "refresh", "error"}]
    /\ \A r \in Subs : \/ sent'[r] = sent[r]
                       \/ sent'[r] = "success"
                       \/ sent[r] = "nothing" /\ sent'[r] # "nothing"

LEMMA AnswersStep ==
    ASSUME IInv, OnlyAnswers
    PROVE  Facts' /\ Rest'
  <1> USE DEF IInv, Facts, TypeOK, ListedOnce, pubsub, OnlyAnswers
  <1>1. \A r \in Subs : Answered(r) => Answered(r)'
    BY DEF Answered
  <1>2. \A r \in Subs : Waiting(r)' => Waiting(r)
    BY <1>1 DEF Waiting
  <1>3. Facts'
    BY <1>1 DEF Places, NoRedis, Listed
  <1>4. MissedEarly' /\ LeavesWithSuccess' /\ OnlyMissedStay' /\ HandlersReleased'
    BY DEF Rest, MissedEarly, LeavesWithSuccess, OnlyMissedStay, HandlersReleased, Listed
  <1>5. WaitingKept'
    BY <1>2, OutcomeKept DEF Rest, WaitingKept
  <1> QED
    BY <1>3, <1>4, <1>5 DEF Rest

\* sendToConnections(): when it throws the list stays, and when it does not every
\* response of the list has been sent the notification.
LEMMA SendStep ==
    ASSUME IInv, SendToConnections, UNCHANGED <<available, poll, closed, missed, pubsub>>,
           up' \in BOOLEAN, up' => up
    PROVE  Facts' /\ Rest'
  <1> USE DEF IInv, Facts, TypeOK, ListedOnce
  <1>1. sent' = [r \in Subs |-> IF Reached(r) THEN "success" ELSE sent[r]]
    BY DEF SendToConnections
  <1>2. CASE Throws
    <2>1. connections' = connections
      BY <1>2 DEF SendToConnections
    <2>2. OnlyAnswers
      BY <1>1, <2>1 DEF OnlyAnswers
    <2> QED
      BY <2>2, AnswersStep
  <1>3. CASE ~Throws
    <2>1. connections' = <<>>
      BY <1>3 DEF SendToConnections
    <2>2. \A r \in Subs : ~Listed(r)'
      BY <2>1 DEF Listed, ToSet
    <2>3. \A i \in 1 .. Len(connections) : ~Answered(connections[i])
      BY <1>3 DEF Throws, ToSet
    <2>4. \A r \in Subs : Listed(r) => sent'[r] = "success"
      BY <1>1, <2>3 DEF Reached, Listed, ToSet
    <2>5. \A r \in Subs : sent'[r] = sent[r] \/ sent'[r] = "success"
      BY <1>1
    <2>6. Facts'
      BY <1>1, <2>1, <2>2, <2>5 DEF pubsub, Places, NoRedis, Answered, Once
    <2>7. MissedEarly' /\ LeavesWithSuccess' /\ OnlyMissedStay' /\ HandlersReleased'
      BY <2>2, <2>4, <2>5
      DEF pubsub, Rest, MissedEarly, LeavesWithSuccess, OnlyMissedStay, HandlersReleased
    <2>8. WaitingKept'
      BY <2>5, OutcomeKept DEF pubsub, Rest, WaitingKept, Waiting, Answered
    <2> QED
      BY <2>6, <2>7, <2>8 DEF Rest
  <1> QED
    BY <1>2, <1>3

LEMMA InitIInv == Init => IInv
  <1> SUFFICES ASSUME Init
               PROVE  Facts /\ Rest
    BY InitPubSub DEF IInv
  <1>1. \A r \in Subs : ~Listed(r)
    BY DEF Init, Listed, ToSet
  <1> QED
    BY <1>1
    DEF Init, PubSubInit, Facts, TypeOK, ListedOnce, Once, Places, NoRedis, Rest, MissedEarly,
        LeavesWithSuccess, WaitingKept, OnlyMissedStay, HandlersReleased, Waiting

LEMMA NextIInv == IInv /\ [Next]_vars => IInv'
  <1> SUFFICES ASSUME IInv, [Next]_vars
               PROVE  Facts' /\ Rest'
    BY NextPubSub DEF IInv
  <1>1. TypeOK
    BY DEF IInv, Facts
  <1>2. ASSUME ModuleDestroy \/ (\E r \in Subs : Timeout(r)) \/ UNCHANGED vars
        PROVE  OnlyAnswers
    BY <1>1, <1>2 DEF ModuleDestroy, Timeout, vars, Answered, TypeOK, OnlyAnswers
  <1>3. ASSUME Message \/ InsertNotification
        PROVE  Facts' /\ Rest'
    <2>1. /\ SendToConnections /\ UNCHANGED <<available, poll, closed, missed, pubsub>>
          /\ up' \in BOOLEAN /\ (up' => up)
      BY <1>1, <1>3 DEF Message, InsertNotification, TypeOK
    <2> QED
      BY <2>1, SendStep
  <1> QED
    BY <1>2, <1>3, AnswersStep, PollStep, HandleStep, RedisStep, CloseStep DEF Next

LEMMA Inductive == Spec => []IInv
  <1> QED
    BY InitIInv, NextIInv, PTL DEF Spec

-----------------------------------------------------------------------------
\* TypeOK: every variable of the polls stays in its range.
THEOREM TypeCorrect == Spec => []TypeOK
  <1>1. IInv => TypeOK
    BY DEF IInv, Facts
  <1> QED
    BY <1>1, Inductive, PTL

\* WaitingListed: the next send finds every response that waits.
THEOREM WaitingAreListed == Spec => []WaitingListed
  <1>1. IInv => WaitingListed
    BY DEF IInv, Rest, LeavesWithSuccess, WaitingListed, Waiting, Answered
  <1> QED
    BY <1>1, Inductive, PTL

\* WaitingHeard: Redis keeps the channel for a response that has subscribed and waits,
\* whoever leaves the Set or drops it.
THEOREM WaitingAreHeard == Spec => []WaitingHeard
  <1>1. IInv => WaitingHeard
    BY DEF IInv, Rest, WaitingKept, WaitingHeard
  <1> QED
    BY <1>1, Inductive, PTL

\* OnlyMissedStay: a closed response stays in the list only when its close was missed.
THEOREM OnlyMissedOnesStay == Spec => []OnlyMissedStay
  <1>1. IInv => OnlyMissedStay
    BY DEF IInv, Rest
  <1> QED
    BY <1>1, Inductive, PTL

\* HandlersReleased: a handler outlives its response only after a notification or a
\* missed close.
THEOREM HandlersAreReleased == Spec => []HandlersReleased
  <1>1. IInv => HandlersReleased
    BY DEF IInv, Rest
  <1> QED
    BY <1>1, Inductive, PTL
=============================================================================
