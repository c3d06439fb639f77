------------------------------ MODULE JobPolling ------------------------------
(***************************************************************************)
(* How a client follows one job by long polling, in a deployment with      *)
(* Redis: the JobsController of a worker relays the events of the job, the *)
(* JobsController of the primary answers the polls                         *)
(* (modules/jobs/jobs.controller.ts), and the poller of the GUI            *)
(* (nc-gui/plugins/poller.ts) asks again until it knows the end.           *)
(*                                                                         *)
(* The messages of the job are in the cache under one key, which both      *)
(* sides use.  The commands of a worker to Redis are carried out in order, *)
(* and so are those of the primary.                                        *)
(***************************************************************************)
EXTENDS Naturals, Sequences

CONSTANTS
    Workers,
    Clients,
    Cap,          \* messages kept per job
    Prompt,       \* TRUE: a second is enough for a poll to be answered once the cache
                  \* is read, POLLING_INTERVAL * 2 is enough for a client to ask again
                  \* and for the update of a row
    MaxEvents     \* bound on the requeues of the job and its log messages together

ASSUME ConstantsAssumption ==
    /\ Workers \cap {"queued", "ended", "no", "done"} = {}
    /\ Cap \in Nat \ {0} /\ Prompt \in BOOLEAN
    /\ MaxEvents \in Nat

VARIABLES
    job,       \* "queued", "ended", or the worker that has it
    requeues, logs,
    late,      \* of each worker: updates of the row to active that are not done
    ending,    \* the last update of the row: "no", the worker doing it, "done"
    overtaken, \* history: the last update was done before one to active of its worker
    local,     \* localJobs of each worker: [mid, messages]
    writes,    \* cache commands of each worker on their way
    relays,    \* messages of each worker to be published after their cache write
    cache,     \* the messages in the cache
    sent,      \* history: messages of the job so far
    restarted, \* history: one of them was given the number 1 again
    expiring,  \* the worker's timer that frees the job, POLLING_INTERVAL * 2
    room,      \* jobRooms of the primary: does the job have a room
    listeners, \* its clients
    sub,       \* its subscription: "none", "pending", "on", "leaving"
    inbox,     \* messages of the channel on their way to the primary
    closing,   \* timers of closedJobs: "none", "second", "window"
    closed,    \* is the job in closedJobs of the primary
    stage,     \* of the poll of each client
    mid,       \* _mid of each client
    snap,      \* the messages read for it
    knows,     \* what it has learnt: "no", "end", "close"
    got,       \* history: the numbers of the messages it has been given
    fresh      \* history: clients whose poll was read after the end was stored

worker == <<job, requeues, logs, late, ending, overtaken>>
numbers == <<sent, restarted>>
relay == <<local, writes, relays, cache, numbers, expiring>>
primary == <<room, listeners, sub, inbox, closing, closed>>
client == <<stage, mid, snap, knows, got, fresh>>
vars == <<worker, relay, primary, client>>

Kinds == {"active", "log", "end"}
Message == [mid : Nat, kind : Kinds]
Stages == {"idle", "asked", "read", "waiting", "answered", "refreshed", "closed", "done"}
NoJob == [mid |-> 0, messages |-> <<>>]

TypeOK ==
    /\ job \in Workers \cup {"queued", "ended"}
    /\ requeues \in Nat /\ logs \in Nat /\ requeues + logs <= MaxEvents
    /\ late \in [Workers -> Nat]
    /\ ending \in Workers \cup {"no", "done"} /\ overtaken \in BOOLEAN
    /\ local \in [Workers -> [mid : Nat, messages : Seq(Message)]]
    /\ \A w \in Workers : Len(local[w].messages) <= Cap
    /\ writes \in [Workers -> Seq(Seq(Message) \X (Kinds \cup {"del"}))]
    /\ relays \in [Workers -> Seq(Kinds)]
    /\ cache \in Seq(Message)
    /\ sent \in Nat /\ restarted \in BOOLEAN
    /\ expiring \in SUBSET Workers
    /\ room \in BOOLEAN
    /\ listeners \subseteq Clients
    /\ sub \in {"none", "pending", "on", "leaving"}
    /\ inbox \in Seq(Kinds)
    /\ closing \in {"none", "second", "window"}
    /\ closed \in BOOLEAN
    /\ stage \in [Clients -> Stages]
    /\ mid \in [Clients -> Nat]
    /\ snap \in [Clients -> Seq(Message)]
    /\ knows \in [Clients -> {"no", "end", "close"}]
    /\ got \in [Clients -> SUBSET Nat]
    /\ fresh \subseteq Clients

Init ==
    /\ job = "queued" /\ requeues = 0 /\ logs = 0 /\ ending = "no" /\ overtaken = FALSE
    /\ late = [w \in Workers |-> 0]
    /\ local = [w \in Workers |-> NoJob]
    /\ writes = [w \in Workers |-> <<>>]
    /\ relays = [w \in Workers |-> <<>>]
    /\ cache = <<>> /\ expiring = {}
    /\ sent = 0 /\ restarted = FALSE
    /\ room = FALSE /\ listeners = {} /\ sub = "none" /\ inbox = <<>>
    /\ closing = "none" /\ closed = FALSE
    /\ stage = [c \in Clients |-> "idle"]
    /\ mid = [c \in Clients |-> 0]
    /\ snap = [c \in Clients |-> <<>>]
    /\ knows = [c \in Clients |-> "no"]
    /\ got = [c \in Clients |-> {}]
    /\ fresh = {}

-----------------------------------------------------------------------------
(* A worker: sendJobStatus() and sendJobLog() up to their first await.     *)

ShiftedNever(s) == s                                 \* planted bug for Shifted
Shifted(s) == IF Len(s) > Cap THEN Tail(s) ELSE s

NextMidKept(n) == n                                  \* planted bug for NextMid
NextMid(n) == n + 1

\* The next message of the job, or the first.
Pushed(l, kind) ==
    LET n == NextMid(l.mid) IN
    [mid |-> n, messages |-> Shifted(Append(l.messages, [mid |-> n, kind |-> kind]))]

Send(w, messages, kind) == writes' = [writes EXCEPT ![w] = Append(@, <<messages, kind>>)]

Emit(w, kind) ==
    /\ local' = [local EXCEPT ![w] = Pushed(@, kind)]
    /\ Send(w, local'[w].messages, kind)
    /\ sent' = sent + 1
    /\ restarted' = (restarted \/ (local[w].mid = 0 /\ sent > 0))
    /\ UNCHANGED <<relays, cache, expiring, primary, client>>

Free(w) ==
    /\ local' = [local EXCEPT ![w] = NoJob]
    /\ Send(w, <<>>, "del")

\* onActive(): the status is emitted when the update of the row is done.
Take(w) ==
    /\ job = "queued"
    /\ job' = w
    /\ late' = [late EXCEPT ![w] = @ + 1]
    /\ UNCHANGED <<requeues, logs, ending, overtaken, relay, primary, client>>

ActiveLands(w) ==
    /\ late[w] > 0
    /\ late' = [late EXCEPT ![w] = @ - 1]
    /\ Emit(w, "active")
    /\ UNCHANGED <<job, requeues, logs, ending, overtaken>>

\* The status REQUEUED is emitted at once, for no update is made.
Requeue(w) ==
    /\ job = w
    /\ requeues + logs < MaxEvents
    /\ job' = "queued"
    /\ requeues' = requeues + 1
    /\ Free(w)
    /\ UNCHANGED <<logs, late, ending, overtaken, relays, cache, numbers, expiring>>
    /\ UNCHANGED <<primary, client>>

Log(w) ==
    /\ job = w
    /\ requeues + logs < MaxEvents
    /\ logs' = logs + 1
    /\ Emit(w, "log")
    /\ UNCHANGED <<job, requeues, late, ending, overtaken>>

\* onCompleted() or onFailed().
Finish(w) ==
    /\ job = w
    /\ job' = "ended"
    /\ ending' = w
    /\ UNCHANGED <<requeues, logs, late, overtaken, relay, primary, client>>

EndLands(w) ==
    /\ ending = w
    /\ ending' = "done"
    /\ overtaken' = (late[w] > 0)
    /\ Emit(w, "end")
    /\ UNCHANGED <<job, requeues, logs, late>>

-----------------------------------------------------------------------------
(* A worker: the rest of the handlers and their timer.                     *)

\* NocoCache.set() or del(); then the event is published.
Write(w) ==
    /\ writes[w] # <<>>
    /\ writes' = [writes EXCEPT ![w] = Tail(@)]
    /\ LET messages == Head(writes[w])[1]
           kind == Head(writes[w])[2] IN
       /\ cache' = messages
       /\ relays' = IF kind = "del" THEN relays ELSE [relays EXCEPT ![w] = Append(@, kind)]
    /\ UNCHANGED <<worker, local, numbers, expiring, primary, client>>

TimersNever(w, kind) == expiring                     \* planted bug for Timers
Timers(w, kind) == IF kind = "end" THEN expiring \cup {w} ELSE expiring

\* The primary gets what is published while it is subscribed.
Publish(w) ==
    /\ relays[w] # <<>>
    /\ relays' = [relays EXCEPT ![w] = Tail(@)]
    /\ inbox' = IF sub = "on" THEN Append(inbox, Head(relays[w])) ELSE inbox
    /\ expiring' = Timers(w, Head(relays[w]))
    /\ UNCHANGED <<worker, local, writes, cache, numbers>>
    /\ UNCHANGED <<room, listeners, sub, closing, closed, client>>

\* POLLING_INTERVAL * 2 is enough for every client to ask once more.
WindowEnds == Prompt => \A c \in Clients : knows[c] # "no" \/ c \in fresh

Expire(w) ==
    /\ w \in expiring
    /\ WindowEnds /\ (Prompt => late[w] = 0)
    /\ expiring' = expiring \ {w}
    /\ Free(w)
    /\ UNCHANGED <<worker, relays, cache, numbers, primary, client>>

-----------------------------------------------------------------------------
(* The primary: listen() and the subscriber callback.                      *)

Goto(c, place) == stage' = [stage EXCEPT ![c] = place]

EndStored == ending = "done" /\ \A w \in Workers : writes[w] = <<>>

\* NocoCache.get(); the answer is decided when it returns.
Read(c) ==
    /\ stage[c] = "asked"
    /\ snap' = [snap EXCEPT ![c] = cache]
    /\ Goto(c, "read")
    /\ fresh' = IF EndStored THEN fresh \cup {c} ELSE fresh
    /\ UNCHANGED <<worker, relay, primary, mid, knows, got>>

\* Where the messages are that the client has not got yet.
NewLater(c) ==                                       \* planted bug for New
    {i \in 1 .. Len(snap[c]) : snap[c][i].mid > mid[c] + 1}
New(c) == {i \in 1 .. Len(snap[c]) : snap[c][i].mid > mid[c]}

Answer(c) ==
    /\ stage[c] = "read"
    /\ \/ New(c) # {} /\ Goto(c, "answered")
       \/ New(c) = {} /\ closed /\ Goto(c, "closed")
    /\ UNCHANGED <<worker, relay, primary, mid, snap, knows, got, fresh>>

\* The client joins the room, or opens it and the primary subscribes.
Wait(c) ==
    /\ stage[c] = "read"
    /\ New(c) = {} /\ ~closed
    /\ Goto(c, "waiting")
    /\ room' = TRUE
    /\ listeners' = listeners \cup {c}
    /\ sub' = IF room THEN sub ELSE "pending"
    /\ UNCHANGED <<worker, relay, inbox, closing, closed, mid, snap, knows, got, fresh>>

Subscribed ==
    /\ sub = "pending"
    /\ sub' = "on"
    /\ UNCHANGED <<worker, relay, room, listeners, inbox, closing, closed, client>>

\* Every client in the room is to ask again; a status that ends the job closes it.
Receive ==
    /\ inbox # <<>>
    /\ inbox' = Tail(inbox)
    /\ IF sub # "on" THEN UNCHANGED <<sub, listeners, stage>>
       ELSE /\ stage' = [c \in Clients |-> IF c \in listeners THEN "refreshed" ELSE stage[c]]
            /\ listeners' = {}
            /\ sub' = IF Head(inbox) = "end" THEN "leaving" ELSE "on"
    /\ UNCHANGED <<worker, relay, room, closing, closed, mid, snap, knows, got, fresh>>

\* After the await of unsubscribeCallback().
CloseRoom ==
    /\ sub = "leaving"
    /\ sub' = "none"
    /\ room' = FALSE
    /\ listeners' = {}
    /\ closing' = "second"
    /\ UNCHANGED <<worker, relay, inbox, closed, client>>

SecondEnds == Prompt => \A c \in Clients : stage[c] = "read" => c \in fresh

Close ==
    /\ closing = "second"
    /\ SecondEnds
    /\ closing' = "window"
    /\ closed' = TRUE
    /\ UNCHANGED <<worker, relay, room, listeners, sub, inbox, client>>

Forget ==
    /\ closing = "window"
    /\ WindowEnds
    /\ closing' = "none"
    /\ closed' = FALSE
    /\ UNCHANGED <<worker, relay, room, listeners, sub, inbox, client>>

\* After POLLING_INTERVAL; the response is sent, so the client leaves the room.
Timeout(c) ==
    /\ stage[c] = "waiting"
    /\ sub # "pending"
    /\ Goto(c, "refreshed")
    /\ listeners' = listeners \ {c}
    /\ UNCHANGED <<worker, relay, room, sub, inbox, closing, closed, mid, snap, knows, got, fresh>>

-----------------------------------------------------------------------------
(* The poller of the GUI.                                                  *)

Ask(c) ==
    /\ stage[c] = "idle"
    /\ Goto(c, "asked")
    /\ UNCHANGED <<worker, relay, primary, mid, snap, knows, got, fresh>>

TellsEnd(c) == \E i \in New(c) : snap[c][i].kind = "end"
LastOf(c, i) == \A j \in New(c) : j <= i

Learn(c) ==
    /\ stage[c] = "answered"
    /\ \E i \in New(c) : LastOf(c, i) /\ mid' = [mid EXCEPT ![c] = snap[c][i].mid]
    /\ got' = [got EXCEPT ![c] = @ \cup {snap[c][i].mid : i \in New(c)}]
    /\ IF TellsEnd(c)
         THEN Goto(c, "done") /\ knows' = [knows EXCEPT ![c] = "end"]
         ELSE Goto(c, "idle") /\ UNCHANGED knows
    /\ snap' = [snap EXCEPT ![c] = <<>>]
    /\ UNCHANGED <<worker, relay, primary, fresh>>

Refresh(c) ==
    /\ stage[c] = "refreshed"
    /\ Goto(c, "idle")
    /\ UNCHANGED <<worker, relay, primary, mid, snap, knows, got, fresh>>

GiveUp(c) ==
    /\ stage[c] = "closed"
    /\ Goto(c, "done")
    /\ knows' = [knows EXCEPT ![c] = "close"]
    /\ UNCHANGED <<worker, relay, primary, mid, snap, got, fresh>>

-----------------------------------------------------------------------------
Process(w) == Take(w) \/ Requeue(w) \/ Log(w) \/ Finish(w)
Relay(w) == ActiveLands(w) \/ EndLands(w) \/ Write(w) \/ Publish(w) \/ Expire(w)
Primary == Subscribed \/ Receive \/ CloseRoom \/ Close \/ Forget
Client(c) ==
    \/ Read(c) \/ Answer(c) \/ Wait(c) \/ Timeout(c)
    \/ Ask(c) \/ Learn(c) \/ Refresh(c) \/ GiveUp(c)

Next ==
    \/ \E w \in Workers : Process(w) \/ Relay(w)
    \/ Primary
    \/ \E c \in Clients : Client(c)

Spec == Init /\ [][Next]_vars

\* Workers take and finish jobs, the database and Redis answer, timers fire,
\* clients go on polling.
FairSpec ==
    /\ Spec
    /\ WF_vars(\E w \in Workers : Process(w)) /\ WF_vars(Primary)
    /\ \A w \in Workers : WF_vars(Relay(w))
    /\ \A c \in Clients : WF_vars(Client(c))

-----------------------------------------------------------------------------
\* The messages in the cache are numbered without a gap.  The terminal status is the
\* last of them, except that the status ACTIVE of the same worker may come after it if
\* the last update of the row has overtaken the one to active.
Ordinal ==
    \A t \in {cache} \cup {snap[c] : c \in Clients} : \A i \in 1 .. Len(t) :
        /\ i < Len(t) => t[i + 1].mid = t[i].mid + 1
        /\ t[i].kind = "end" =>
              \A j \in i + 1 .. Len(t) : overtaken /\ t[j].kind = "active"

\* Until the numbers begin again, every message up to the last one a client has got was
\* given to it or had been cut off, with Cap newer ones in the list.
NoneSkipped ==
    ~restarted => \A c \in Clients : \A n \in 1 .. mid[c] : n \in got[c] \/ n + Cap <= sent


\* The messages of a job that was not put back do not stay in the memory of a
\* worker or in the cache: entries "must never" be "resident forever".
MessagesFreed ==
    [](requeues = 0) => <>[](cache = <<>> /\ \A w \in Workers : local[w] = NoJob)
=============================================================================
