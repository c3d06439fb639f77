---------------------------- MODULE Notifications ----------------------------
(***************************************************************************)
(* Long polling for the notifications of one user in one process           *)
(* (controllers/notifications.controller.ts and                            *)
(* services/notifications/notifications.service.ts), composed with the     *)
(* publish/subscribe of the channel `notification:<user>`.                 *)
(* The subscribers (Subs) are the polls, each with one response.           *)
(*                                                                         *)
(* A poll puts its response in the list of the user, subscribes, and only  *)
(* then registers its close listener and its timer.  A notification is     *)
(* sent to all responses of the list, which is then dropped.  res.send()   *)
(* throws when the response has been sent before: thrown out of the        *)
(* handler of a message it is an unhandled rejection and the process ends, *)
(* thrown out of a local insertion it is logged.                           *)
(***************************************************************************)
EXTENDS PubSubRedis, SequencesExt

VARIABLES
    available,      \* is Redis configured
    connections,    \* the responses of the user, in order; <<>> is no entry
    poll,           \* how far notificationPoll() has come
    sent,           \* what has been sent to each response
    closed,         \* has the response emitted `close`
    missed,         \* history: it did so before there was a listener
    up              \* the process is running

vars == <<available, connections, poll, sent, closed, missed, up, pubsub>>

TypeOK ==
    /\ available \in BOOLEAN
    /\ connections \in Seq(Subs)
    /\ poll \in [Subs -> {"new", "subscribing", "ready", "failed"}]
    /\ sent \in [Subs -> {"nothing", "success", "refresh", "error"}]
    /\ closed \in [Subs -> BOOLEAN]
    /\ missed \in [Subs -> BOOLEAN]
    /\ up \in BOOLEAN

Init ==
    /\ available \in BOOLEAN
    /\ connections = <<>>
    /\ poll = [r \in Subs |-> "new"]
    /\ sent = [r \in Subs |-> "nothing"]
    /\ closed = [r \in Subs |-> FALSE]
    /\ missed = [r \in Subs |-> FALSE]
    /\ up = TRUE
    /\ PubSubInit

Listed(r) == r \in ToSet(connections)
Reach(r, stage) == poll' = [poll EXCEPT ![r] = stage]

-----------------------------------------------------------------------------
\* addConnection(), then subscribe() as far as its first wait.  When the channel
\* has a Set of handlers there is no wait and the listener follows at once.
AddAsList(r) == connections' = Append(connections, <<r>>)    \* planted bug
AddConnection(r) == connections' = Append(connections, r)

NotificationPoll(r) ==
    /\ poll[r] = "new"
    /\ AddConnection(r)
    /\ \/ ~available /\ Reach(r, "ready") /\ UNCHANGED pubsub
       \/ available /\ Join(r) /\ Reach(r, "ready")
       \/ available /\ Create(r) /\ Reach(r, "subscribing")
    /\ UNCHANGED <<available, sent, closed, missed, up>>

\* The wait is over: the handler, the close listener and the timer are registered.
SubscribedNoTimer(r) ==                           \* planted bug for Subscribed
    /\ Resume(r)
    /\ UNCHANGED <<available, connections, poll, sent, closed, missed, up>>
Subscribed(r) ==
    /\ Resume(r)
    /\ Reach(r, "ready")
    /\ UNCHANGED <<available, connections, sent, closed, missed, up>>

RedisAnswers ==
    /\ Answer
    /\ UNCHANGED <<available, connections, poll, sent, closed, missed, up>>

\* subscribe() throws: the poll is answered with an error and stays in the list.
SubscribeFails ==
    /\ Reject
    /\ LET r == Head(commands).by IN
        /\ Reach(r, "failed")
        /\ sent' = [sent EXCEPT ![r] = IF @ = "nothing" THEN "error" ELSE @]
    /\ UNCHANGED <<available, connections, closed, missed, up>>

-----------------------------------------------------------------------------
\* removeConnection(): without an entry of the user nothing is done, not even the
\* unsubscription; the channel is kept for the connections that are left.
Without(r) == RemoveFirst(connections, r)
KeepNever(rest) == FALSE                          \* planted bug for Keep
Keep(rest) == rest # <<>>

RemoveListOnly(r) ==                              \* planted bug for RemoveConnection
    /\ connections' = Without(r)
    /\ UNCHANGED pubsub
RemoveIfHeard(r) ==                               \* planted bug for RemoveConnection
    IF handlers = NoSet THEN UNCHANGED <<connections, pubsub>>
    ELSE connections' = Without(r)
         /\ IF available THEN Leave(r, Keep(Without(r))) ELSE UNCHANGED pubsub
RemoveConnection(r) ==
    IF connections = <<>> THEN UNCHANGED <<connections, pubsub>>
    ELSE connections' = Without(r)
         /\ IF available THEN Leave(r, Keep(Without(r))) ELSE UNCHANGED pubsub

\* The client leaves, or the response has been sent.
Close(r) ==
    /\ up
    /\ poll[r] # "new"
    /\ ~closed[r]
    /\ closed' = [closed EXCEPT ![r] = TRUE]
    /\ IF poll[r] = "ready"
       THEN RemoveConnection(r) /\ UNCHANGED missed
       ELSE missed' = [missed EXCEPT ![r] = TRUE] /\ UNCHANGED <<connections, pubsub>>
    /\ UNCHANGED <<available, poll, sent, up>>

\* The timer of 30 seconds.
Timeout(r) ==
    /\ up
    /\ poll[r] = "ready"
    /\ sent[r] = "nothing"
    /\ sent' = [sent EXCEPT ![r] = "refresh"]
    /\ UNCHANGED <<available, connections, poll, closed, missed, up, pubsub>>

-----------------------------------------------------------------------------
Answered(r) == sent[r] # "nothing"
Throws == \E r \in ToSet(connections) : Answered(r)
Reached(r) ==
    \E i \in DOMAIN connections :
        connections[i] = r /\ \A j \in 1..i : ~Answered(connections[j])

SendAndForget ==                                  \* planted bug for SendToConnections
    /\ connections' = <<>>
    /\ sent' = IF Throws THEN sent
               ELSE [r \in Subs |-> IF Listed(r) THEN "success" ELSE sent[r]]
SendToConnections ==
    /\ sent' = [r \in Subs |-> IF Reached(r) THEN "success" ELSE sent[r]]
    /\ connections' = IF Throws THEN connections ELSE <<>>

\* A message of the channel arrives and every handler of the Set is called: the
\* first call does the work, the others find no list or throw as the first one.
Message ==
    /\ up
    /\ channel
    /\ handlers # NoSet
    /\ members[handlers] # {}
    /\ SendToConnections
    /\ up' = ~Throws
    /\ UNCHANGED <<available, poll, closed, missed, pubsub>>

\* insertNotification() in this process, after the row and the message.
InsertNotification ==
    /\ up
    /\ SendToConnections
    /\ UNCHANGED <<available, poll, closed, missed, up, pubsub>>

\* onModuleDestroy() answers every listed response that has no answer.
ModuleDestroy ==
    /\ up
    /\ sent' = [r \in Subs |-> IF Listed(r) /\ ~Answered(r) THEN "refresh" ELSE sent[r]]
    /\ UNCHANGED <<available, connections, poll, closed, missed, up, pubsub>>

Redis == up /\ (RedisAnswers \/ SubscribeFails)
Handle(r) == up /\ Subscribed(r)

Next ==
    \/ \E r \in Subs : (up /\ NotificationPoll(r)) \/ Handle(r) \/ Close(r) \/ Timeout(r)
    \/ Redis \/ Message \/ InsertNotification \/ ModuleDestroy

Spec == Init /\ [][Next]_vars

\* Redis answers every command or the client gives it up, the event loop resumes
\* what has been answered and runs the timers, and a response that has been sent
\* is closed.
Fairness ==
    /\ WF_vars(Redis)
    /\ \A r \in Subs : /\ WF_vars(Handle(r))
                       /\ WF_vars(Timeout(r))
                       /\ WF_vars(Close(r) /\ Answered(r))

FairSpec == Spec /\ Fairness

-----------------------------------------------------------------------------
\* The client of r is still there and has no answer yet.
Waiting(r) == up /\ poll[r] # "new" /\ ~closed[r] /\ ~Answered(r)

\* A waiting response is never dropped from the list: whatever the other polls of
\* the user do, and also when a send stops half way, the next send finds it.
WaitingListed == \A r \in Subs : Waiting(r) => Listed(r)

\* Redis keeps sending the channel to this process as long as a response that has
\* subscribed waits: the last handler to leave does not end it for the others, even
\* when the Set of handlers has been dropped meanwhile.
WaitingHeard ==
    \A r \in Subs :
        Waiting(r) /\ pc[r] = "in" /\ ~rejected => Outcome

\* A closed response stays in the list only if it closed before its listener was
\* registered: nothing else leaves a response on which the next send would throw.
OnlyMissedStay == \A r \in Subs : Listed(r) /\ closed[r] => missed[r]

\* A handler outlives its response only after a notification has dropped the list
\* of the user, or when the close was missed.
HandlersReleased ==
    \A r \in Subs :
        closed[r] /\ pc[r] = "in" => missed[r] \/ sent[r] = "success"

\* Every poll ends: with a notification, with "refresh" after its time, with an
\* error, or because the client leaves.
EveryPollEnds == \A r \in Subs : Waiting(r) ~> ~Waiting(r)
=============================================================================
