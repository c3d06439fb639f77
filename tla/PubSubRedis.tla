----------------------------- MODULE PubSubRedis -----------------------------
(***************************************************************************)
(* PubSubRedis.subscribe() and the unsubscribe() it returns, for one       *)
(* channel of one process (redis/pubsub-redis.ts).                         *)
(*                                                                         *)
(* The process keeps one Set of handlers per channel and subscribes in     *)
(* Redis when it creates the Set and unsubscribes when it drops it.  The   *)
(* map is changed at once, the command to Redis is awaited.  A Set is      *)
(* named after the subscriber that created it: only its creator can still  *)
(* hold a Set that is no longer in the map, and a creator waits for one    *)
(* subscription at a time.                                                 *)
(*                                                                         *)
(* Commands of the subscriber connection are answered in order.            *)
(***************************************************************************)
EXTENDS Naturals, Sequences, FiniteSets

CONSTANTS
    Subs,       \* callers of subscribe(), each with one subscription at a time
    NoSet       \* the channel has no entry in the map

ASSUME ConstantsAssumption ==
    NoSet \notin Subs

VARIABLES
    handlers,   \* the channel's entry in the map: the Set in use
    members,    \* the handlers in each Set
    pc,         \* where each caller is
    channel,    \* is the connection subscribed to the channel, in Redis
    commands,   \* commands sent and not yet answered
    kept,       \* history: the channel has been left with keepRedisChannel
    rejected    \* history: Redis has failed to carry out a subscribe

history == <<kept, rejected>>
pubsub == <<handlers, members, pc, channel, commands, kept, rejected>>

Command == [kind: {"subscribe", "unsubscribe"}, by: Subs]

PubSubTypeOK ==
    /\ handlers \in Subs \cup {NoSet}
    /\ members \in [Subs -> SUBSET Subs]
    /\ pc \in [Subs -> {"out", "asking", "answered", "in", "leaving"}]
    /\ channel \in BOOLEAN
    /\ commands \in Seq(Command)
    /\ kept \in BOOLEAN /\ rejected \in BOOLEAN

PubSubInit ==
    /\ handlers = NoSet
    /\ members = [s \in Subs |-> {}]
    /\ pc = [s \in Subs |-> "out"]
    /\ channel = FALSE
    /\ commands = <<>>
    /\ kept = FALSE /\ rejected = FALSE

Goto(s, place) == pc' = [pc EXCEPT ![s] = place]
Send(kind, s) == commands' = Append(commands, [kind |-> kind, by |-> s])

-----------------------------------------------------------------------------
\* The channel has a Set: the handler is added and subscribe() returns.  A Set of
\* an earlier subscription of s is garbage.
Join(s) ==
    /\ pc[s] = "out"
    /\ handlers # NoSet
    /\ members' = [t \in Subs |-> IF t = handlers THEN members[t] \cup {s}
                                                ELSE members[t] \ {s}]
    /\ Goto(s, "in")
    /\ UNCHANGED <<handlers, channel, commands, history>>

\* No Set: an empty one is put in the map before Redis is asked.
Create(s) ==
    /\ pc[s] = "out"
    /\ handlers = NoSet
    /\ handlers' = s
    /\ members' = [members EXCEPT ![s] = {}]
    /\ Send("subscribe", s)
    /\ Goto(s, "asking")
    /\ UNCHANGED <<channel, history>>

\* The await is over: the handler goes to the Set that was created, whether it
\* is still in the map or not.
Resume(s) ==
    /\ pc[s] = "answered"
    /\ members' = [members EXCEPT ![s] = @ \cup {s}]
    /\ Goto(s, "in")
    /\ UNCHANGED <<handlers, channel, commands, history>>

\* unsubscribe() works on the Set that is in the map now; its size decides.
LeftUndeleted(s) == members[handlers]                \* planted bug for Left
Left(s) == members[handlers] \ {s}
LastOffByOne(s) == Cardinality(Left(s)) <= 1         \* planted bug for IsLast
IsLast(s) == Left(s) = {}
NoEntry == NoSet

LeaveNothing(s) ==
    /\ pc[s] = "in"
    /\ handlers = NoSet
    /\ Goto(s, "out")
    /\ UNCHANGED <<handlers, members, channel, commands, history>>

LeaveOthers(s) ==
    /\ pc[s] = "in"
    /\ handlers # NoSet
    /\ ~IsLast(s)
    /\ members' = [members EXCEPT ![handlers] = Left(s)]
    /\ Goto(s, "out")
    /\ UNCHANGED <<handlers, channel, commands, history>>

\* Redis is told unless the caller wants to keep the channel.
TellNever(s, keep) == Goto(s, "out") /\ UNCHANGED commands  \* planted bug for Tell
Tell(s, keep) ==
    \/ keep /\ Goto(s, "out") /\ UNCHANGED commands
    \/ ~keep /\ Goto(s, "leaving") /\ Send("unsubscribe", s)

LeaveLast(s, keep) ==
    /\ pc[s] = "in"
    /\ handlers # NoSet
    /\ IsLast(s)
    /\ members' = [members EXCEPT ![handlers] = Left(s)]
    /\ handlers' = NoEntry
    /\ Tell(s, keep)
    /\ kept' = (kept \/ keep)
    /\ UNCHANGED <<channel, rejected>>

-----------------------------------------------------------------------------
ChannelAfter(command) == command.kind = "subscribe"

\* Redis carries out the oldest command and the answer arrives.
Answer ==
    /\ commands # <<>>
    /\ commands' = Tail(commands)
    /\ channel' = ChannelAfter(Head(commands))
    /\ Goto(Head(commands).by,
            IF Head(commands).kind = "subscribe" THEN "answered" ELSE "out")
    /\ UNCHANGED <<handlers, members, history>>

\* The command is rejected: subscribe() throws and leaves the map as it is.
Reject ==
    /\ commands # <<>>
    /\ Head(commands).kind = "subscribe"
    /\ commands' = Tail(commands)
    /\ Goto(Head(commands).by, "out")
    /\ rejected' = TRUE
    /\ UNCHANGED <<handlers, members, channel, kept>>

Subscribe(s) == Join(s) \/ Create(s) \/ Resume(s)
Leave(s, keep) == LeaveNothing(s) \/ LeaveOthers(s) \/ LeaveLast(s, keep)
Unsubscribe(s) == \E keep \in BOOLEAN : Leave(s, keep)

PubSubNext == (\E s \in Subs : Subscribe(s) \/ Unsubscribe(s)) \/ Answer \/ Reject

PubSubSpec == PubSubInit /\ [][PubSubNext]_pubsub

-----------------------------------------------------------------------------
Registered(s) == handlers # NoSet /\ s \in members[handlers]

\* What the connection will be subscribed to once every command is answered.
Outcome == IF commands = <<>> THEN channel
                              ELSE commands[Len(commands)].kind = "subscribe"

\* When nothing is in flight and there is no Set, Redis has been told: a channel
\* is not left subscribed by the order in which creators and leavers overlap.
\* (As long as nobody has passed keepRedisChannel.)
NoLeak == ~kept /\ handlers = NoSet => ~Outcome

\* When there is a Set in the map, the channel is or is about to be subscribed:
\* an unsubscribe sent before never overtakes the subscribe of the new Set.
\* (As long as Redis has rejected no command.)
Heard == ~rejected /\ handlers # NoSet => Outcome

\* A subscriber that has joined the Set of another stays in the Set in use until
\* it leaves: only the creator of a Set can be found outside the map.
OrphansAreCreators ==
    \A s \in Subs : pc[s] = "in" => Registered(s) \/ s \in members[s]

\* A handler is called only between the return of subscribe() and the call of
\* unsubscribe().
NoStrayHandler ==
    handlers # NoSet => \A s \in members[handlers] : pc[s] = "in"
=============================================================================
