--------------------------- MODULE JobPolling_proofs ---------------------------
(***************************************************************************)
(* The types, the numbers of the messages and what a client has been       *)
(* given, for any number of workers, clients, messages kept, log messages  *)
(* and requeues.                                                           *)
(*                                                                         *)
(* Ordinal and NoneSkipped speak of the cache and of what the clients have *)
(* read.  Both come from the list of a worker, by way of its cache         *)
(* commands, so that the invariant follows a list from localJobs to the    *)
(* clients.  A list stays in order when a message is added because its     *)
(* last number is _mid of the job.  After the end a worker can only be     *)
(* late with an update to active, which the end has overtaken then.  A     *)
(* list that does not begin with the message 1 is full.                    *)
(***************************************************************************)
EXTENDS JobPolling, SequenceTheorems, TLAPS

\* A list is numbered upwards from its first message; only the status ACTIVE comes
\* after the end, and only if o; if it does not begin with 1 it is full, and its numbers
\* are those of the first s messages.
Numbered(t) == \A i \in 1 .. Len(t) : t[i].mid = t[1].mid + i - 1
EndsLast(t, o) ==
    \A i \in 1 .. Len(t) : t[i].kind = "end" =>
        \A j \in i + 1 .. Len(t) : o /\ t[j].kind = "active"
CutOff(t, s) ==
    t # <<>> => /\ t[1].mid = 1 \/ (t[1].mid >= 1 /\ Len(t) = Cap)
                /\ t[Len(t)].mid <= s
HasEnd(t) == \E i \in 1 .. Len(t) : t[i].kind = "end"
InOrder(t, o, s) == Numbered(t) /\ EndsLast(t, o) /\ CutOff(t, s)

\* Where lists are.
LocalInOrder == \A w \in Workers : InOrder(local[w].messages, overtaken, sent)
WritesInOrder ==
    \A w \in Workers : \A i \in 1 .. Len(writes[w]) : InOrder(writes[w][i][1], overtaken, sent)
CacheInOrder == InOrder(cache, overtaken, sent)
SnapsInOrder == \A c \in Clients : InOrder(snap[c], overtaken, sent)
Lists == LocalInOrder /\ WritesInOrder /\ CacheInOrder /\ SnapsInOrder

\* _mid of a job is the number of its last message.
LastHasMid(l) ==
    IF l.messages = <<>> THEN l.mid = 0 ELSE l.messages[Len(l.messages)].mid = l.mid
LastMid == \A w \in Workers : LastHasMid(local[w])

\* A worker that has announced the end can only be late with an update to active.
EndingEnded == (ending # "no" => job = "ended") /\ (overtaken => ending = "done")
EndIsLast ==
    \A w \in Workers :
        HasEnd(local[w].messages) => ending = "done" /\ (late[w] = 0 \/ overtaken)

\* A poll is answered with messages only if there are new ones.
AnsweredNew == \A c \in Clients : stage[c] = "answered" => New(c) # {}

\* What a client has not been given was cut off.
Given(c) == \A n \in 1 .. mid[c] : n \in got[c] \/ n + Cap <= sent
AllGiven == \A c \in Clients : Given(c)

IInv ==
    /\ TypeOK /\ Lists /\ LastMid /\ EndingEnded /\ EndIsLast
    /\ AnsweredNew /\ AllGiven

USE ConstantsAssumption

-----------------------------------------------------------------------------
(* Lists.                                                                  *)

Entry == [mid : Nat, messages : Seq(Message)]

LEMMA EmptyInOrder == \A o, n : InOrder(<<>>, o, n) /\ ~HasEnd(<<>>)
  <1> QED
    BY DEF InOrder, Numbered, EndsLast, CutOff, HasEnd

LEMMA MidIsNat ==
    ASSUME NEW t \in Seq(Message), NEW i \in 1 .. Len(t)
    PROVE  t[i].mid \in Nat
  <1>1. t[i] \in Message
    OBVIOUS
  <1> QED
    BY <1>1 DEF Message

\* A list stays in order when messages are sent or the end is overtaken.
LEMMA StaysInOrder ==
    ASSUME NEW t \in Seq(Message), NEW o, NEW p, NEW n \in Nat, NEW m \in Nat,
           InOrder(t, o, n), o => p, n <= m
    PROVE  InOrder(t, p, m)
  <1>1. EndsLast(t, p)
    BY DEF InOrder, EndsLast
  <1>2. CutOff(t, m)
    <2> SUFFICES ASSUME t # <<>> PROVE t[Len(t)].mid <= m
      BY DEF InOrder, CutOff
    <2>1. Len(t) \in 1 .. Len(t)
      OBVIOUS
    <2>2. t[Len(t)].mid \in Nat
      BY <2>1, MidIsNat
    <2> QED
      BY <2>2 DEF InOrder, CutOff
  <1> QED
    BY <1>1, <1>2 DEF InOrder

\* A message with the next number keeps a list in order; only the status ACTIVE may
\* follow the end.  CutOff needs room for it.
LEMMA AppendInOrder ==
    ASSUME NEW t \in Seq(Message), NEW m \in Message, NEW o,
           Numbered(t), EndsLast(t, o),
           t # <<>> => t[Len(t)].mid + 1 = m.mid,
           HasEnd(t) => o /\ m.kind = "active"
    PROVE  /\ Numbered(Append(t, m)) /\ EndsLast(Append(t, m), o)
           /\ HasEnd(Append(t, m)) => HasEnd(t) \/ m.kind = "end"
           /\ t # <<>> => Append(t, m)[1] = t[1]
  <1> DEFINE a == Append(t, m)
  <1>1. /\ a \in Seq(Message) /\ Len(t) \in Nat /\ Len(a) = Len(t) + 1 /\ a[Len(a)] = m
        /\ \A i \in 1 .. Len(t) : a[i] = t[i]
    OBVIOUS
  <1>2. \A i \in 1 .. Len(a) : i \in 1 .. Len(t) \/ i = Len(a)
    BY <1>1
  <1>3. \A i \in 1 .. Len(t) : t[i].mid \in Nat
    BY MidIsNat
  <1>4. t # <<>> => Len(t) >= 1 /\ a[1] = t[1] /\ t[1].mid \in Nat
    BY <1>3
  <1>5. t = <<>> => Len(t) = 0
    OBVIOUS
  <1>6. m.mid \in Nat
    BY DEF Message
  <1> HIDE DEF a
  <1>7. Numbered(a)
    <2> SUFFICES ASSUME NEW i \in 1 .. Len(a) PROVE a[i].mid = a[1].mid + i - 1
      BY DEF Numbered
    <2>1. CASE t = <<>>
      BY <1>1, <1>5, <1>6, <2>1
    <2>2. CASE t # <<>> /\ i \in 1 .. Len(t)
      BY <1>1, <1>4, <2>2 DEF Numbered
    <2>3. CASE t # <<>> /\ i = Len(a)
      <3>1. t[Len(t)].mid = t[1].mid + Len(t) - 1
        BY <1>1, <1>4, <2>3 DEF Numbered
      <3> QED
        BY <1>1, <1>4, <2>3, <3>1
    <2> QED
      BY <1>2, <2>1, <2>2, <2>3
  <1>8. EndsLast(a, o)
    <2> SUFFICES ASSUME NEW i \in 1 .. Len(a), a[i].kind = "end",
                        NEW j \in i + 1 .. Len(a)
                 PROVE  o /\ a[j].kind = "active"
      BY DEF EndsLast
    <2>1. i \in 1 .. Len(t)
      BY <1>1
    <2>2. HasEnd(t) /\ t[i].kind = "end"
      BY <1>1, <2>1 DEF HasEnd
    <2>3. CASE j \in 1 .. Len(t)
      <3>1. j \in i + 1 .. Len(t)
        BY <1>1, <2>1, <2>3
      <3> QED
        BY <1>1, <2>1, <2>2, <2>3, <3>1 DEF EndsLast
    <2>4. CASE j = Len(a)
      BY <1>1, <2>2, <2>4
    <2>5. j \in 1 .. Len(a)
      BY <1>1
    <2> QED
      BY <1>2, <2>3, <2>4, <2>5
  <1>9. HasEnd(a) => HasEnd(t) \/ m.kind = "end"
    BY <1>1, <1>2 DEF HasEnd
  <1> QED
    BY <1>4, <1>7, <1>8, <1>9 DEF a

\* So does losing the first.
LEMMA TailInOrder ==
    ASSUME NEW t \in Seq(Message), t # <<>>, NEW o, Numbered(t), EndsLast(t, o)
    PROVE  /\ Tail(t) \in Seq(Message) /\ Len(Tail(t)) = Len(t) - 1
           /\ Numbered(Tail(t)) /\ EndsLast(Tail(t), o)
           /\ HasEnd(Tail(t)) => HasEnd(t)
           /\ Tail(t) # <<>> => /\ Tail(t)[Len(Tail(t))] = t[Len(t)]
                                /\ Tail(t)[1].mid >= 1
  <1> DEFINE a == Tail(t)
  <1>1. /\ a \in Seq(Message) /\ Len(t) \in Nat /\ Len(t) >= 1 /\ Len(a) = Len(t) - 1
        /\ \A i \in 1 .. Len(a) : a[i] = t[i + 1]
    OBVIOUS
  <1>2. \A i \in 1 .. Len(t) : t[i].mid \in Nat
    BY MidIsNat
  <1>3. \A i \in 1 .. Len(a) : i + 1 \in 1 .. Len(t)
    BY <1>1
  <1>4. a # <<>> => Len(a) >= 1
    BY <1>1
  <1> HIDE DEF a
  <1>5. \A i \in 1 .. Len(a) : a[1].mid = t[1].mid + 1 /\ a[i].mid = t[1].mid + i
    <2> SUFFICES ASSUME NEW i \in 1 .. Len(a)
                 PROVE  a[1].mid = t[1].mid + 1 /\ a[i].mid = t[1].mid + i
      OBVIOUS
    <2>1. 1 \in 1 .. Len(a) /\ 1 \in 1 .. Len(t) /\ 2 \in 1 .. Len(t)
      BY <1>1
    <2>2. a[1] = t[2] /\ a[i] = t[i + 1]
      BY <1>1, <2>1
    <2>3. t[2].mid = t[1].mid + 1 /\ t[i + 1].mid = t[1].mid + i /\ t[1].mid \in Nat
      BY <1>2, <1>3, <2>1 DEF Numbered
    <2> QED
      BY <2>2, <2>3
  <1>6. 1 \in 1 .. Len(t) /\ t[1].mid \in Nat
    BY <1>1, <1>2
  <1>7. Numbered(a)
    <2> SUFFICES ASSUME NEW i \in 1 .. Len(a) PROVE a[i].mid = a[1].mid + i - 1
      BY DEF Numbered
    <2>1. a[1].mid = t[1].mid + 1 /\ a[i].mid = t[1].mid + i
      BY <1>5
    <2> QED
      BY <1>1, <1>6, <2>1
  <1>8. EndsLast(a, o)
    <2> SUFFICES ASSUME NEW i \in 1 .. Len(a), a[i].kind = "end",
                        NEW j \in i + 1 .. Len(a)
                 PROVE  o /\ a[j].kind = "active"
      BY DEF EndsLast
    <2>1. /\ i + 1 \in 1 .. Len(t) /\ j + 1 \in (i + 1) + 1 .. Len(t)
          /\ a[i] = t[i + 1] /\ a[j] = t[j + 1]
      BY <1>1
    <2> QED
      BY <2>1 DEF EndsLast
  <1>9. HasEnd(a) => HasEnd(t)
    BY <1>1, <1>3 DEF HasEnd
  <1>10. a # <<>> => a[Len(a)] = t[Len(t)]
    BY <1>1, <1>4
  <1>11. a # <<>> => a[1].mid >= 1
    <2> SUFFICES ASSUME a # <<>> PROVE a[1].mid >= 1
      OBVIOUS
    <2>1. 1 \in 1 .. Len(a)
      BY <1>1, <1>4
    <2> QED
      BY <1>5, <1>6, <2>1
  <1> QED
    BY <1>1, <1>7, <1>8, <1>9, <1>10, <1>11 DEF a

\* What sendJobStatus() and sendJobLog() do to the entry of a job.
LEMMA PushedInOrder ==
    ASSUME NEW l \in Entry, NEW kind \in Kinds, NEW o, NEW n \in Nat,
           Len(l.messages) <= Cap, InOrder(l.messages, o, n), LastHasMid(l),
           HasEnd(l.messages) => o /\ kind = "active"
    PROVE  /\ Pushed(l, kind) \in Entry
           /\ Len(Pushed(l, kind).messages) <= Cap
           /\ InOrder(Pushed(l, kind).messages, o, n + 1)
           /\ LastHasMid(Pushed(l, kind))
           /\ HasEnd(Pushed(l, kind).messages) => HasEnd(l.messages) \/ kind = "end"
  <1> DEFINE t == l.messages
             m == [mid |-> l.mid + 1, kind |-> kind]
             a == Append(t, m)
             p == Pushed(l, kind)
  <1>1. t \in Seq(Message) /\ l.mid \in Nat
    BY DEF Entry
  <1>2. m \in Message /\ m.kind = kind /\ m.mid = l.mid + 1
    BY <1>1 DEF Message
  <1>3. a \in Seq(Message) /\ Len(a) = Len(t) + 1 /\ a # <<>> /\ a[Len(a)] = m /\ Len(t) \in Nat
    BY <1>1, <1>2
  <1>4. /\ Numbered(a) /\ EndsLast(a, o) /\ (HasEnd(a) => HasEnd(t) \/ kind = "end")
        /\ t # <<>> => a[1] = t[1]
    <2>1. t # <<>> => t[Len(t)].mid + 1 = m.mid
      BY <1>2 DEF LastHasMid
    <2> HIDE DEF m
    <2> QED
      BY <1>1, <1>2, <2>1, AppendInOrder DEF InOrder
  <1>5. p = [mid |-> l.mid + 1, messages |-> Shifted(a)]
    BY DEF Pushed, NextMid
  <1>6. Cap \in Nat /\ Cap >= 1
    OBVIOUS
  <1>7. m.mid \in Nat /\ m.mid >= 1 /\ m.mid <= n + 1
    <2>1. CASE t = <<>>
      BY <1>1, <1>2, <2>1 DEF LastHasMid
    <2>2. CASE t # <<>>
      BY <1>1, <1>2, <2>2 DEF LastHasMid, InOrder, CutOff
    <2> QED
      BY <2>1, <2>2
  <1>8. CASE Len(a) > Cap
    <2>1. Shifted(a) = Tail(a)
      BY <1>8 DEF Shifted
    <2>2. /\ Tail(a) \in Seq(Message) /\ Len(Tail(a)) = Len(a) - 1
          /\ Numbered(Tail(a)) /\ EndsLast(Tail(a), o)
          /\ HasEnd(Tail(a)) => HasEnd(a)
          /\ Tail(a) # <<>> => Tail(a)[Len(Tail(a))] = m /\ Tail(a)[1].mid >= 1
      BY <1>3, <1>4, TailInOrder
    <2>3. p.messages = Tail(a) /\ p.mid = l.mid + 1 /\ p \in Entry
      <3>1. p = [mid |-> l.mid + 1, messages |-> Tail(a)]
        BY <1>5, <2>1
      <3>2. Tail(a) \in Seq(Message) /\ l.mid + 1 \in Nat
        BY <1>1, <2>2
      <3> HIDE DEF a, p
      <3> QED
        BY <3>1, <3>2 DEF Entry
    <2> HIDE DEF a, m, p, t
    <2>4. Len(Tail(a)) = Cap /\ Tail(a) # <<>>
      <3>1. Len(Tail(a)) = Cap
        BY <1>3, <1>6, <1>8, <2>2 DEF t
      <3> QED
        BY <1>6, <3>1
    <2>5. LastHasMid(p)
      BY <1>2, <2>2, <2>3, <2>4 DEF LastHasMid
    <2>6. CutOff(p.messages, n + 1)
      BY <1>7, <2>2, <2>3, <2>4 DEF CutOff
    <2>7. InOrder(p.messages, o, n + 1)
      BY <2>2, <2>3, <2>6 DEF InOrder
    <2> QED
      BY <1>4, <1>6, <2>2, <2>3, <2>4, <2>5, <2>7 DEF t, p
  <1>9. CASE ~(Len(a) > Cap)
    <2>1. p.messages = a /\ p.mid = l.mid + 1 /\ p \in Entry
      BY <1>1, <1>3, <1>5, <1>9 DEF Entry, Shifted
    <2>2. t = <<>> => a[1] = m
      BY <1>1, <1>2
    <2>3. CutOff(a, n + 1)
      <3>1. CASE t = <<>>
        <4>1. a[1].mid = 1
          BY <1>2, <2>2, <3>1 DEF LastHasMid
        <4> HIDE DEF a, m, t
        <4> QED
          BY <1>3, <1>7, <4>1 DEF CutOff
      <3>2. CASE t # <<>>
        <4>1. Len(t) # Cap
          BY <1>3, <1>6, <1>9
        <4>2. t[1].mid = 1
          BY <3>2, <4>1 DEF InOrder, CutOff
        <4> HIDE DEF a, m, t
        <4> QED
          BY <1>3, <1>4, <1>7, <3>2, <4>2 DEF CutOff
      <3> QED
        BY <3>1, <3>2
    <2> HIDE DEF a, m, p, t
    <2>4. Len(a) <= Cap
      BY <1>3, <1>6, <1>9
    <2>5. LastHasMid(p)
      BY <1>2, <1>3, <2>1 DEF LastHasMid
    <2>6. InOrder(p.messages, o, n + 1)
      BY <1>4, <2>1, <2>3 DEF InOrder
    <2> QED
      BY <1>4, <2>1, <2>4, <2>5, <2>6 DEF t, p
  <1> QED
    BY <1>8, <1>9

-----------------------------------------------------------------------------
(* What a worker sends to the cache.                                       *)

Command == Seq(Message) \X (Kinds \cup {"del"})
LocalTypes ==
    /\ local \in [Workers -> Entry]
    /\ \A w \in Workers : Len(local[w].messages) <= Cap
WritesTypes == writes \in [Workers -> Seq(Command)]

\* Every list a worker keeps or sends is in order for the history of the next state.
NextInOrder ==
    /\ \A v \in Workers : InOrder(local[v].messages, overtaken', sent')
    /\ \A v \in Workers : \A i \in 1 .. Len(writes[v]) :
           InOrder(writes[v][i][1], overtaken', sent')

LEMMA SendInOrder ==
    ASSUME NEW w \in Workers, NEW t \in Seq(Message), NEW kind \in Kinds \cup {"del"},
           WritesTypes, NextInOrder, InOrder(t, overtaken', sent'), Send(w, t, kind)
    PROVE  WritesTypes' /\ WritesInOrder'
  <1> DEFINE command == <<t, kind>>
  <1>1. command \in Command /\ command[1] = t
    BY DEF Command
  <1>2. writes' = [writes EXCEPT ![w] = Append(writes[w], command)]
    BY DEF Send
  <1>3. writes[w] \in Seq(Command)
    BY DEF WritesTypes
  <1> HIDE DEF command
  <1>4. /\ Append(writes[w], command) \in Seq(Command) /\ Len(writes[w]) \in Nat
        /\ Len(Append(writes[w], command)) = Len(writes[w]) + 1
        /\ Append(writes[w], command)[Len(writes[w]) + 1] = command
        /\ \A i \in 1 .. Len(writes[w]) : Append(writes[w], command)[i] = writes[w][i]
    BY <1>1, <1>3
  <1>5. WritesTypes'
    BY <1>2, <1>4 DEF WritesTypes
  <1>6. ASSUME NEW v \in Workers, NEW i \in 1 .. Len(writes'[v])
        PROVE  InOrder(writes'[v][i][1], overtaken', sent')
    <2>1. CASE v # w
      <3>1. writes'[v] = writes[v]
        BY <1>2, <2>1 DEF WritesTypes
      <3> QED
        BY <1>6, <3>1 DEF NextInOrder
    <2>2. CASE v = w
      <3>1. writes'[v] = Append(writes[w], command)
        BY <1>2, <2>2 DEF WritesTypes
      <3>2. i \in 1 .. Len(writes[w]) \/ i = Len(writes[w]) + 1
        BY <1>4, <1>6, <3>1
      <3>3. CASE i \in 1 .. Len(writes[w])
        <4>1. writes'[v][i] = writes[w][i]
          BY <1>4, <3>1, <3>3
        <4> QED
          BY <3>3, <4>1 DEF NextInOrder
      <3>4. CASE i = Len(writes[w]) + 1
        <4>1. writes'[v][i] = command
          BY <1>4, <3>1, <3>4
        <4> QED
          BY <1>1, <4>1
      <3> QED
        BY <3>2, <3>3, <3>4
    <2> QED
      BY <2>1, <2>2
  <1> QED
    BY <1>5, <1>6 DEF WritesInOrder

\* An entry is replaced by one that is in order, and its messages are written.
LEMMA ReplaceEntry ==
    ASSUME LocalTypes, WritesTypes, NextInOrder, LastMid,
           NEW w \in Workers, NEW l \in Entry, NEW kind \in Kinds \cup {"del"},
           Len(l.messages) <= Cap, InOrder(l.messages, overtaken', sent'), LastHasMid(l),
           local' = [local EXCEPT ![w] = l], Send(w, l.messages, kind)
    PROVE  /\ LocalTypes' /\ WritesTypes' /\ LocalInOrder' /\ WritesInOrder' /\ LastMid'
           /\ local'[w] = l
           /\ \A v \in Workers : v # w => local'[v] = local[v]
  <1>1. local'[w] = l /\ \A v \in Workers : v # w => local'[v] = local[v]
    BY DEF LocalTypes
  <1>2. LocalTypes'
    BY <1>1 DEF LocalTypes
  <1>3. LocalInOrder' /\ LastMid'
    BY <1>1 DEF LocalInOrder, NextInOrder, LastMid
  <1>4. l.messages \in Seq(Message)
    BY DEF Entry
  <1>5. WritesTypes' /\ WritesInOrder'
    BY <1>4, SendInOrder
  <1> QED
    BY <1>1, <1>2, <1>3, <1>5

Entries == LocalTypes /\ WritesTypes /\ LocalInOrder /\ WritesInOrder /\ LastMid

LEMMA IInvEntries == IInv => Entries
  <1> QED
    BY DEF IInv, TypeOK, Lists, Entries, LocalTypes, WritesTypes, Entry, Command

LEMMA NextEntries ==
    ASSUME Entries, overtaken => overtaken', sent \in Nat, sent' \in Nat, sent <= sent'
    PROVE  NextInOrder
  <1>1. ASSUME NEW v \in Workers PROVE InOrder(local[v].messages, overtaken', sent')
    <2>1. local[v].messages \in Seq(Message)
      BY DEF Entries, LocalTypes, Entry
    <2>2. InOrder(local[v].messages, overtaken, sent)
      BY DEF Entries, LocalInOrder
    <2> QED
      BY <2>1, <2>2, StaysInOrder
  <1>2. ASSUME NEW v \in Workers, NEW i \in 1 .. Len(writes[v])
        PROVE  InOrder(writes[v][i][1], overtaken', sent')
    <2>1. writes[v] \in Seq(Command)
      BY DEF Entries, WritesTypes
    <2>2. writes[v][i] \in Command
      BY <2>1
    <2>3. writes[v][i][1] \in Seq(Message)
      BY <2>2 DEF Command
    <2>4. InOrder(writes[v][i][1], overtaken, sent)
      BY DEF Entries, WritesInOrder
    <2> QED
      BY <2>3, <2>4, StaysInOrder
  <1> QED
    BY <1>1, <1>2 DEF NextInOrder

LEMMA EmitEntries ==
    ASSUME Entries, NEW w \in Workers, NEW kind \in Kinds, Emit(w, kind),
           sent \in Nat, overtaken => overtaken',
           HasEnd(local[w].messages) => overtaken' /\ kind = "active"
    PROVE  /\ Entries'
           /\ \A v \in Workers : HasEnd(local'[v].messages) =>
                  HasEnd(local[v].messages) \/ (v = w /\ kind = "end")
  <1> DEFINE l == Pushed(local[w], kind)
  <1>1. local[w] \in Entry /\ Len(local[w].messages) <= Cap /\ LastHasMid(local[w])
    BY DEF Entries, LocalTypes, LastMid
  <1>2. sent' = sent + 1
    BY DEF Emit
  <1>3. NextInOrder
    BY <1>2, NextEntries
  <1>4. InOrder(local[w].messages, overtaken', sent)
    <2>1. local[w].messages \in Seq(Message)
      BY <1>1 DEF Entry
    <2>2. InOrder(local[w].messages, overtaken, sent)
      BY DEF Entries, LocalInOrder
    <2>3. sent <= sent
      OBVIOUS
    <2> QED
      BY <2>1, <2>2, <2>3, StaysInOrder, Zenon
  <1>5. /\ l \in Entry /\ Len(l.messages) <= Cap
        /\ InOrder(l.messages, overtaken', sent + 1) /\ LastHasMid(l)
        /\ HasEnd(l.messages) => HasEnd(local[w].messages) \/ kind = "end"
    BY <1>1, <1>4, PushedInOrder
  <1>6. local' = [local EXCEPT ![w] = l] /\ local'[w] = l /\ Send(w, l.messages, kind)
    BY DEF Emit, Entries, LocalTypes
  <1> HIDE DEF l
  <1>7. /\ LocalTypes' /\ WritesTypes' /\ LocalInOrder' /\ WritesInOrder' /\ LastMid'
        /\ local'[w] = l
        /\ \A v \in Workers : v # w => local'[v] = local[v]
    BY <1>2, <1>3, <1>5, <1>6, ReplaceEntry DEF Entries
  <1> QED
    BY <1>5, <1>7 DEF Entries

LEMMA FreeEntries ==
    ASSUME Entries, NEW w \in Workers, Free(w), overtaken' = overtaken, sent' = sent,
           sent \in Nat
    PROVE  /\ Entries'
           /\ \A v \in Workers : HasEnd(local'[v].messages) => HasEnd(local[v].messages)
  <1>1. NoJob \in Entry /\ NoJob.messages = <<>> /\ Len(NoJob.messages) = 0 /\ NoJob.mid = 0
    BY DEF NoJob, Entry
  <1>2. InOrder(NoJob.messages, overtaken', sent') /\ LastHasMid(NoJob) /\ ~HasEnd(NoJob.messages)
    BY <1>1, EmptyInOrder DEF LastHasMid
  <1>3. Cap \in Nat /\ Len(NoJob.messages) <= Cap
    BY <1>1
  <1>4. local' = [local EXCEPT ![w] = NoJob] /\ Send(w, NoJob.messages, "del")
    BY <1>1 DEF Free
  <1>5. NextInOrder
    BY NextEntries
  <1> HIDE DEF NoJob
  <1>6. /\ LocalTypes' /\ WritesTypes' /\ LocalInOrder' /\ WritesInOrder' /\ LastMid'
        /\ local'[w] = NoJob
        /\ \A v \in Workers : v # w => local'[v] = local[v]
    BY <1>1, <1>2, <1>3, <1>4, <1>5, ReplaceEntry DEF Entries
  <1> QED
    BY <1>2, <1>6 DEF Entries

-----------------------------------------------------------------------------
(* The steps.                                                              *)

LEMMA InitIInv == Init => IInv
  <1> SUFFICES ASSUME Init PROVE IInv
    OBVIOUS
  <1> USE DEF Init
  <1>1. TypeOK
    <2>1. NoJob \in Entry /\ Len(NoJob.messages) = 0
      BY DEF NoJob, Entry
    <2>2. Cap \in Nat
      OBVIOUS
    <2> HIDE DEF NoJob
    <2>3. /\ local \in [Workers -> Entry]
          /\ \A w \in Workers : Len(local[w].messages) <= Cap
      BY <2>1, <2>2
    <2>4. <<>> \in Seq(Message) /\ <<>> \in Seq(Kinds) /\ <<>> \in Seq(Command)
      OBVIOUS
    <2>5. writes \in [Workers -> Seq(Seq(Message) \X (Kinds \cup {"del"}))]
      BY <2>4 DEF Command
    <2>6. /\ relays \in [Workers -> Seq(Kinds)] /\ cache \in Seq(Message) /\ inbox \in Seq(Kinds)
          /\ snap \in [Clients -> Seq(Message)]
      BY <2>4
    <2>7. /\ local \in [Workers -> [mid : Nat, messages : Seq(Message)]]
          /\ \A w \in Workers : Len(local[w].messages) <= Cap
      BY <2>3 DEF Entry
    <2>8. /\ requeues \in Nat /\ logs \in Nat /\ requeues + logs <= MaxEvents
          /\ late \in [Workers -> Nat] /\ mid \in [Clients -> Nat]
          /\ sent \in Nat /\ got \in [Clients -> SUBSET Nat]
      OBVIOUS
    <2>9. overtaken \in BOOLEAN /\ restarted \in BOOLEAN
      OBVIOUS
    <2> QED
      BY <2>5, <2>6, <2>7, <2>8, <2>9 DEF TypeOK, Stages
  <1>2. Lists /\ LastMid /\ EndIsLast
    <2>1. NoJob.messages = <<>>
      BY DEF NoJob
    <2>2. \A w \in Workers : Len(writes[w]) = 0
      OBVIOUS
    <2> HIDE DEF NoJob
    <2>3. InOrder(<<>>, overtaken, sent) /\ ~HasEnd(<<>>)
      BY EmptyInOrder
    <2>4. \A w \in Workers : local[w] = NoJob
      OBVIOUS
    <2>5. LocalInOrder /\ EndIsLast
      BY <2>1, <2>3, <2>4 DEF LocalInOrder, EndIsLast
    <2>6. LastMid
      BY <2>1, <2>4 DEF LastMid, LastHasMid, NoJob
    <2>7. WritesInOrder
      BY <2>2 DEF WritesInOrder
    <2>8. CacheInOrder /\ SnapsInOrder
      BY <2>3 DEF CacheInOrder, SnapsInOrder
    <2> QED
      BY <2>5, <2>6, <2>7, <2>8 DEF Lists
  <1>3. EndingEnded /\ AnsweredNew /\ AllGiven
    BY DEF EndingEnded, AnsweredNew, AllGiven, Given
  <1> QED
    BY <1>1, <1>2, <1>3 DEF IInv

\* What the history variables do in a step.
Forward == (overtaken => overtaken') /\ sent \in Nat /\ sent' \in Nat /\ sent <= sent'

\* A step of a worker that is no step of a client.
LEMMA SameClients ==
    ASSUME TypeOK, AnsweredNew, SnapsInOrder, AllGiven, UNCHANGED client, Forward
    PROVE  AnsweredNew' /\ SnapsInOrder' /\ AllGiven'
  <1>1. UNCHANGED <<stage, mid, snap, got>>
    BY DEF client
  <1>2. AnsweredNew'
    BY <1>1 DEF AnsweredNew, New
  <1>3. SnapsInOrder'
    <2> SUFFICES ASSUME NEW c \in Clients PROVE InOrder(snap'[c], overtaken', sent')
      BY DEF SnapsInOrder
    <2>1. snap[c] \in Seq(Message) /\ InOrder(snap[c], overtaken, sent)
      BY DEF TypeOK, SnapsInOrder
    <2>2. InOrder(snap[c], overtaken', sent')
      BY <2>1, StaysInOrder, Zenon DEF Forward
    <2> QED
      BY <1>1, <2>2
  <1>4. AllGiven'
    <2> SUFFICES ASSUME NEW c \in Clients, NEW n \in 1 .. mid[c]
                 PROVE  n \in got[c] \/ n + Cap <= sent'
      BY <1>1 DEF AllGiven, Given
    <2>1. n \in got[c] \/ n + Cap <= sent
      BY DEF AllGiven, Given
    <2>2. mid[c] \in Nat /\ n \in Nat /\ Cap \in Nat
      BY DEF TypeOK
    <2> QED
      BY <2>1, <2>2 DEF Forward
  <1> QED
    BY <1>2, <1>3, <1>4

LEMMA SameCache ==
    ASSUME TypeOK, CacheInOrder, cache' = cache, Forward
    PROVE  CacheInOrder'
  <1>1. cache \in Seq(Message) /\ InOrder(cache, overtaken, sent)
    BY DEF TypeOK, CacheInOrder
  <1> QED
    <2>1. InOrder(cache, overtaken', sent')
      BY <1>1, StaysInOrder, Zenon DEF Forward
    <2> QED
      BY <2>1 DEF CacheInOrder

LEMMA WorkerTypes ==
    ASSUME IInv, Entries', UNCHANGED <<relays, cache, expiring, primary, client>>, Forward,
           job' \in Workers \cup {"queued", "ended"},
           requeues' \in Nat, logs' \in Nat, requeues' + logs' <= MaxEvents,
           late' \in [Workers -> Nat], ending' \in Workers \cup {"no", "done"},
           overtaken' \in BOOLEAN, restarted' \in BOOLEAN
    PROVE  TypeOK' /\ Lists' /\ LastMid' /\ AnsweredNew' /\ AllGiven'
  <1>1. TypeOK'
    BY DEF IInv, TypeOK, Entries, LocalTypes, WritesTypes, Entry, Command, primary, client, Forward
  <1>2. AnsweredNew' /\ SnapsInOrder' /\ AllGiven'
    BY SameClients DEF IInv, Lists
  <1>3. CacheInOrder'
    BY SameCache DEF IInv, Lists
  <1> QED
    BY <1>1, <1>2, <1>3 DEF Lists, Entries

LEMMA SameHistory ==
    ASSUME TypeOK, UNCHANGED <<overtaken, numbers>>
    PROVE  Forward /\ overtaken' \in BOOLEAN /\ restarted' \in BOOLEAN
  <1> QED
    BY DEF TypeOK, numbers, Forward

LEMMA SilentStep ==
    ASSUME IInv, NEW w \in Workers, Take(w) \/ Finish(w)
    PROVE  IInv'
  <1>1. UNCHANGED <<relay, primary, client, requeues, logs, overtaken>>
    BY DEF Take, Finish
  <1>2. Entries'
    BY <1>1, IInvEntries DEF relay, numbers, Entries, LocalTypes, WritesTypes, LocalInOrder,
                             WritesInOrder, LastMid
  <1>3. /\ job' \in Workers \cup {"queued", "ended"} /\ late' \in [Workers -> Nat]
        /\ ending' \in Workers \cup {"no", "done"}
    BY DEF Take, Finish, IInv, TypeOK
  <1>4. Forward /\ overtaken' \in BOOLEAN /\ restarted' \in BOOLEAN
    BY <1>1, SameHistory DEF relay, IInv
  <1>5. TypeOK' /\ Lists' /\ LastMid' /\ AnsweredNew' /\ AllGiven'
    <2>1. requeues' \in Nat /\ logs' \in Nat /\ requeues' + logs' <= MaxEvents
      BY <1>1 DEF IInv, TypeOK
    <2>2. UNCHANGED <<relays, cache, expiring, primary, client>>
      BY <1>1 DEF relay
    <2> QED
      BY <1>2, <1>3, <1>4, <2>1, <2>2, WorkerTypes
  <1>6. job # "ended"
    BY ConstantsAssumption DEF Take, Finish, IInv, TypeOK
  <1>7. ending # "done" /\ ending = "no" /\ ~overtaken
    BY <1>6 DEF IInv, EndingEnded
  <1>8. EndingEnded'
    BY <1>1, <1>7 DEF Take, Finish, EndingEnded
  <1>9. EndIsLast'
    BY <1>1, <1>7 DEF relay, IInv, EndIsLast
  <1> QED
    BY <1>5, <1>8, <1>9 DEF IInv

LEMMA RequeueStep ==
    ASSUME IInv, NEW w \in Workers, Requeue(w)
    PROVE  IInv'
  <1>1. /\ Free(w)
        /\ UNCHANGED <<relays, cache, numbers, expiring, primary, client>>
        /\ UNCHANGED <<logs, late, ending, overtaken>>
    BY DEF Requeue
  <1>2. Forward /\ overtaken' \in BOOLEAN /\ restarted' \in BOOLEAN
    BY <1>1, SameHistory DEF IInv
  <1>3. Entries' /\ \A v \in Workers : HasEnd(local'[v].messages) => HasEnd(local[v].messages)
    BY <1>1, <1>2, IInvEntries, FreeEntries DEF Forward, numbers
  <1>4. /\ job' = "queued" /\ requeues' \in Nat /\ logs' \in Nat
        /\ requeues' + logs' <= MaxEvents
    BY DEF Requeue, IInv, TypeOK
  <1>5. TypeOK' /\ Lists' /\ LastMid' /\ AnsweredNew' /\ AllGiven'
    <2>1. late' \in [Workers -> Nat] /\ ending' \in Workers \cup {"no", "done"}
      BY <1>1 DEF IInv, TypeOK
    <2> QED
      BY <1>1, <1>2, <1>3, <1>4, <2>1, WorkerTypes
  <1>6. job # "ended"
    BY DEF Requeue
  <1>7. EndingEnded'
    BY <1>1, <1>6 DEF IInv, EndingEnded
  <1>8. EndIsLast'
    BY <1>1, <1>3 DEF IInv, EndIsLast
  <1> QED
    BY <1>5, <1>7, <1>8 DEF IInv

LEMMA EmitStep ==
    ASSUME IInv, NEW w \in Workers, ActiveLands(w) \/ Log(w) \/ EndLands(w)
    PROVE  IInv'
  <1>1. PICK kind \in Kinds :
            /\ Emit(w, kind)
            /\ kind = "end" => EndLands(w)
            /\ kind = "active" => ActiveLands(w)
            /\ kind = "log" => Log(w)
    BY DEF ActiveLands, Log, EndLands, Kinds
  <1>2. UNCHANGED <<relays, cache, expiring, primary, client>> /\ sent' = sent + 1
    BY <1>1 DEF Emit
  <1>3. job' = job /\ requeues' = requeues
    BY DEF ActiveLands, Log, EndLands
  <1>4. logs' \in Nat /\ requeues' + logs' <= MaxEvents
    <2>1. requeues \in Nat /\ logs \in Nat /\ requeues + logs <= MaxEvents /\ MaxEvents \in Nat
      BY DEF IInv, TypeOK
    <2>2. logs' = logs \/ (logs' = logs + 1 /\ requeues + logs < MaxEvents)
      BY DEF ActiveLands, Log, EndLands
    <2> QED
      BY <1>3, <2>1, <2>2
  <1>5. /\ late' \in [Workers -> Nat]
        /\ \A v \in Workers : late[v] = 0 => late'[v] = 0
    <2>1. late \in [Workers -> Nat]
      BY DEF IInv, TypeOK
    <2>2. CASE ActiveLands(w)
      <3>1. late[w] > 0 /\ late[w] - 1 \in Nat /\ late' = [late EXCEPT ![w] = late[w] - 1]
        BY <2>1, <2>2 DEF ActiveLands
      <3> QED
        BY <2>1, <3>1
    <2>3. CASE Log(w) \/ EndLands(w)
      BY <2>1, <2>3 DEF Log, EndLands
    <2> QED
      BY <2>2, <2>3
  <1>6. /\ ending' \in Workers \cup {"no", "done"}
        /\ ending = "done" => ending' = "done"
        /\ ending' # "no" => ending # "no"
    BY DEF ActiveLands, Log, EndLands, IInv, TypeOK
  <1>7. overtaken' \in BOOLEAN /\ restarted' \in BOOLEAN
    <2>1. restarted' \in BOOLEAN
      BY <1>1 DEF Emit, IInv, TypeOK
    <2>2. overtaken \in BOOLEAN
      BY DEF IInv, TypeOK
    <2>3. CASE EndLands(w)
      <3>1. overtaken' = (late[w] > 0)
        BY <2>3 DEF EndLands
      <3> QED
        BY <2>1, <3>1
    <2>4. CASE ActiveLands(w) \/ Log(w)
      BY <2>1, <2>2, <2>4 DEF ActiveLands, Log
    <2> QED
      BY <2>3, <2>4
  <1>8. /\ overtaken => overtaken'
        /\ overtaken' => ending' = "done"
    <2>1. CASE EndLands(w)
      <3>1. ending = w /\ ending' = "done"
        BY <2>1 DEF EndLands
      <3>2. ~overtaken
        BY <3>1, ConstantsAssumption DEF IInv, EndingEnded
      <3> QED
        BY <3>1, <3>2
    <2>2. CASE ActiveLands(w) \/ Log(w)
      BY <2>2 DEF ActiveLands, Log, IInv, EndingEnded
    <2> QED
      BY <2>1, <2>2
  <1>9. Forward
    BY <1>2, <1>8 DEF IInv, TypeOK, Forward
  <1>10. HasEnd(local[w].messages) => overtaken' /\ kind = "active"
    <2> SUFFICES ASSUME HasEnd(local[w].messages) PROVE overtaken' /\ kind = "active"
      OBVIOUS
    <2>1. ending = "done" /\ (late[w] = 0 \/ overtaken) /\ job = "ended"
      BY DEF IInv, EndIsLast, EndingEnded
    <2>2. ~Log(w) /\ ~EndLands(w)
      BY <2>1, ConstantsAssumption DEF Log, EndLands
    <2>3. kind = "active" /\ late[w] > 0
      BY <1>1, <2>2 DEF Kinds, ActiveLands
    <2> QED
      BY <1>8, <2>1, <2>3
  <1>11. /\ Entries'
         /\ \A v \in Workers : HasEnd(local'[v].messages) =>
                 HasEnd(local[v].messages) \/ (v = w /\ kind = "end")
    BY <1>1, <1>8, <1>9, <1>10, IInvEntries, EmitEntries DEF Forward
  <1>12. TypeOK' /\ Lists' /\ LastMid' /\ AnsweredNew' /\ AllGiven'
    <2>1. job' \in Workers \cup {"queued", "ended"} /\ requeues' \in Nat
      BY <1>3 DEF IInv, TypeOK
    <2> QED
      BY <1>2, <1>4, <1>5, <1>6, <1>7, <1>9, <1>11, <2>1, WorkerTypes
  <1>13. EndingEnded'
    BY <1>3, <1>6, <1>8 DEF IInv, EndingEnded
  <1>14. ASSUME NEW v \in Workers, HasEnd(local'[v].messages)
         PROVE  ending' = "done" /\ (late'[v] = 0 \/ overtaken')
    <2>1. CASE HasEnd(local[v].messages)
      BY <1>5, <1>6, <1>8, <2>1 DEF IInv, EndIsLast
    <2>2. CASE v = w /\ kind = "end"
      <3>1. EndLands(w) /\ late[w] \in Nat
        BY <1>1, <2>2 DEF IInv, TypeOK
      <3>2. ending' = "done" /\ (late[w] > 0 => overtaken') /\ late' = late
        BY <3>1 DEF EndLands
      <3>3. late[w] = 0 \/ late[w] > 0
        BY <3>1
      <3> QED
        BY <2>2, <3>2, <3>3
    <2> QED
      BY <1>11, <1>14, <2>1, <2>2
  <1>15. EndIsLast'
    BY <1>14 DEF EndIsLast
  <1> QED
    BY <1>12, <1>13, <1>15 DEF IInv

\* The rest of the handlers takes the oldest command of the worker.
LEMMA WriteStep ==
    ASSUME IInv, NEW w \in Workers, Write(w)
    PROVE  IInv'
  <1> DEFINE queue == writes[w]
  <1>1. /\ queue \in Seq(Command) /\ queue # <<>>
        /\ writes' = [writes EXCEPT ![w] = Tail(queue)]
        /\ cache' = Head(queue)[1]
        /\ UNCHANGED <<worker, local, numbers, expiring, primary, client>>
    BY IInvEntries DEF Write, Entries, WritesTypes
  <1>2. relays' = IF Head(queue)[2] = "del" THEN relays
                  ELSE [relays EXCEPT ![w] = Append(relays[w], Head(queue)[2])]
    BY DEF Write
  <1> HIDE DEF queue
  <1>3. /\ Tail(queue) \in Seq(Command) /\ Head(queue) \in Command /\ Head(queue) = queue[1]
        /\ Len(Tail(queue)) = Len(queue) - 1 /\ Len(queue) \in Nat /\ Len(queue) >= 1
        /\ \A i \in 1 .. Len(Tail(queue)) : Tail(queue)[i] = queue[i + 1]
    BY <1>1
  <1>4. Head(queue)[1] \in Seq(Message) /\ Head(queue)[2] \in Kinds \cup {"del"}
    BY <1>3 DEF Command
  <1>5. relays \in [Workers -> Seq(Kinds)]
    BY DEF IInv, TypeOK
  <1>6. relays' \in [Workers -> Seq(Kinds)]
    <2>1. CASE Head(queue)[2] = "del"
      BY <1>2, <1>5, <2>1
    <2>2. CASE Head(queue)[2] # "del"
      <3>1. Head(queue)[2] \in Kinds
        BY <1>4, <2>2
      <3>2. Append(relays[w], Head(queue)[2]) \in Seq(Kinds)
        BY <1>5, <3>1
      <3> QED
        BY <1>2, <1>5, <2>2, <3>2
    <2> QED
      BY <2>1, <2>2
  <1>7. /\ WritesTypes' /\ writes'[w] = Tail(queue)
        /\ \A v \in Workers : v # w => writes'[v] = writes[v]
    BY <1>1, <1>3, IInvEntries DEF Entries, WritesTypes
  <1>8. \A i \in 1 .. Len(queue) : InOrder(queue[i][1], overtaken', sent')
    BY <1>1 DEF worker, numbers, IInv, Lists, WritesInOrder, queue
  <1>9. CacheInOrder'
    <2>1. 1 \in 1 .. Len(queue)
      BY <1>3
    <2> QED
      BY <1>1, <1>3, <1>8, <2>1 DEF CacheInOrder
  <1>10. ASSUME NEW v \in Workers, NEW i \in 1 .. Len(writes'[v])
         PROVE  InOrder(writes'[v][i][1], overtaken', sent')
    <2>1. CASE v # w
      <3>1. writes'[v] = writes[v]
        BY <1>7, <2>1
      <3> QED
        BY <1>1, <1>10, <3>1 DEF worker, numbers, IInv, Lists, WritesInOrder
    <2>2. CASE v = w
      <3>1. i \in 1 .. Len(Tail(queue))
        BY <1>7, <1>10, <2>2
      <3>2. i + 1 \in 1 .. Len(queue) /\ writes'[v][i] = queue[i + 1]
        BY <1>3, <1>7, <2>2, <3>1
      <3> QED
        BY <1>8, <3>2
    <2> QED
      BY <2>1, <2>2
  <1>11. TypeOK'
    <2>1. cache' \in Seq(Message) /\ overtaken' \in BOOLEAN /\ restarted' \in BOOLEAN
      BY <1>1, <1>4, SameHistory DEF worker, IInv
    <2> QED
      BY <1>1, <1>6, <1>7, <2>1
      DEF IInv, TypeOK, WritesTypes, Command, worker, numbers, primary, client
  <1>12. AnsweredNew' /\ SnapsInOrder' /\ AllGiven'
    BY <1>1, SameClients, SameHistory DEF worker, IInv, Lists
  <1>13. WritesInOrder'
    BY <1>10 DEF WritesInOrder
  <1>14. LocalInOrder' /\ LastMid' /\ EndingEnded' /\ EndIsLast'
    BY <1>1 DEF worker, numbers, IInv, Lists, LocalInOrder, LastMid, EndingEnded, EndIsLast
  <1> QED
    BY <1>9, <1>11, <1>12, <1>13, <1>14 DEF IInv, Lists

\* A step that touches no list.
LEMMA SameLists ==
    ASSUME IInv, TypeOK', AnsweredNew', UNCHANGED <<mid, got>>,
           UNCHANGED <<worker, local, writes, cache, numbers, snap>>
    PROVE  IInv'
  <1>1. LocalInOrder' /\ WritesInOrder' /\ CacheInOrder' /\ SnapsInOrder'
    BY DEF worker, numbers, IInv, Lists, LocalInOrder, WritesInOrder, CacheInOrder, SnapsInOrder
  <1>2. LastMid' /\ EndingEnded' /\ EndIsLast' /\ AllGiven'
    BY DEF worker, numbers, IInv, LastMid, EndingEnded, EndIsLast, AllGiven, Given
  <1> QED
    BY <1>1, <1>2 DEF IInv, Lists

LEMMA PublishStep ==
    ASSUME IInv, NEW w \in Workers, Publish(w)
    PROVE  IInv'
  <1>1. relays \in [Workers -> Seq(Kinds)] /\ inbox \in Seq(Kinds) /\ expiring \in SUBSET Workers
    BY DEF IInv, TypeOK
  <1>2. relays[w] \in Seq(Kinds) /\ relays[w] # <<>>
    BY <1>1 DEF Publish
  <1>3. Tail(relays[w]) \in Seq(Kinds) /\ Head(relays[w]) \in Kinds
    BY <1>2
  <1>4. relays' \in [Workers -> Seq(Kinds)]
    BY <1>1, <1>3 DEF Publish
  <1>5. inbox' \in Seq(Kinds)
    BY <1>1, <1>3 DEF Publish
  <1>6. expiring' \in SUBSET Workers
    BY <1>1 DEF Publish, Timers
  <1>7. /\ UNCHANGED <<worker, local, writes, cache, numbers>>
        /\ UNCHANGED <<room, listeners, sub, closing, closed, client>>
    BY DEF Publish
  <1>8. TypeOK'
    <2>1. overtaken' \in BOOLEAN /\ restarted' \in BOOLEAN
      BY <1>7, SameHistory DEF worker, IInv
    <2> QED
      BY <1>4, <1>5, <1>6, <1>7, <2>1 DEF IInv, TypeOK, worker, numbers, client
  <1>9. AnsweredNew'
    BY <1>7 DEF client, IInv, AnsweredNew, New
  <1> QED
    BY <1>7, <1>8, <1>9, SameLists DEF client

LEMMA ExpireStep ==
    ASSUME IInv, NEW w \in Workers, Expire(w)
    PROVE  IInv'
  <1>1. /\ Free(w) /\ expiring' \subseteq expiring
        /\ UNCHANGED <<worker, relays, cache, numbers, primary, client>>
    BY DEF Expire
  <1>2. Entries' /\ \A v \in Workers : HasEnd(local'[v].messages) => HasEnd(local[v].messages)
    <2>1. overtaken' = overtaken /\ sent' = sent /\ sent \in Nat
      BY <1>1 DEF worker, numbers, IInv, TypeOK
    <2> QED
      BY <1>1, <2>1, IInvEntries, FreeEntries
  <1>3. TypeOK'
    <2>1. overtaken' \in BOOLEAN /\ restarted' \in BOOLEAN
      BY <1>1, SameHistory DEF worker, IInv
    <2> QED
      BY <1>1, <1>2, <2>1
      DEF IInv, TypeOK, Entries, LocalTypes, WritesTypes, Entry, Command,
          worker, numbers, primary, client
  <1>4. AnsweredNew' /\ SnapsInOrder' /\ AllGiven' /\ CacheInOrder'
    BY <1>1, SameClients, SameHistory DEF worker, numbers, IInv, Lists, CacheInOrder
  <1>5. EndingEnded' /\ EndIsLast'
    BY <1>1, <1>2 DEF IInv, EndingEnded, EndIsLast, worker
  <1> QED
    BY <1>2, <1>3, <1>4, <1>5 DEF IInv, Lists, Entries

LEMMA PrimaryStep ==
    ASSUME IInv, Primary
    PROVE  IInv'
  <1> USE DEF primary, client
  <1>1. CASE Subscribed
    <2>1. TypeOK' /\ AnsweredNew'
      BY <1>1 DEF Subscribed, IInv, TypeOK, AnsweredNew, New, worker, relay, numbers
    <2> QED
      BY <1>1, <2>1, SameLists DEF Subscribed, relay
  <1>2. CASE Receive
    <2>1. /\ inbox' = Tail(inbox) /\ inbox # <<>> /\ inbox \in Seq(Kinds)
          /\ UNCHANGED <<worker, relay, room, closing, closed, mid, snap, knows, got, fresh>>
      BY <1>2 DEF Receive, IInv, TypeOK
    <2>2. inbox' \in Seq(Kinds)
      BY <2>1
    <2>3. /\ sub' \in {"none", "pending", "on", "leaving"} /\ listeners' \subseteq Clients
          /\ stage' \in [Clients -> Stages]
          /\ \A c \in Clients : stage'[c] = "answered" => stage[c] = "answered"
      BY <1>2 DEF Receive, IInv, TypeOK, Stages
    <2>4. TypeOK'
      BY <2>1, <2>2, <2>3 DEF IInv, TypeOK, worker, relay, numbers
    <2>5. AnsweredNew'
      BY <2>1, <2>3 DEF IInv, AnsweredNew, New
    <2> QED
      BY <2>1, <2>4, <2>5, SameLists DEF relay
  <1>3. CASE CloseRoom
    <2>1. TypeOK' /\ AnsweredNew'
      BY <1>3 DEF CloseRoom, IInv, TypeOK, AnsweredNew, New, worker, relay, numbers
    <2> QED
      BY <1>3, <2>1, SameLists DEF CloseRoom, relay
  <1>4. CASE Close
    <2>1. TypeOK' /\ AnsweredNew'
      BY <1>4 DEF Close, IInv, TypeOK, AnsweredNew, New, worker, relay, numbers
    <2> QED
      BY <1>4, <2>1, SameLists DEF Close, relay
  <1>5. CASE Forget
    <2>1. TypeOK' /\ AnsweredNew'
      BY <1>5 DEF Forget, IInv, TypeOK, AnsweredNew, New, worker, relay, numbers
    <2> QED
      BY <1>5, <2>1, SameLists DEF Forget, relay
  <1> QED
    BY <1>1, <1>2, <1>3, <1>4, <1>5 DEF Primary

-----------------------------------------------------------------------------
(* The clients.                                                            *)

\* A client is answered only by Answer, which has looked for new messages.
LEMMA MoveStep ==
    ASSUME IInv, NEW c \in Clients, NEW place \in Stages, Goto(c, place),
           UNCHANGED <<worker, relay, mid, snap, got>>,
           room' \in BOOLEAN, listeners' \subseteq Clients,
           sub' \in {"none", "pending", "on", "leaving"},
           UNCHANGED <<inbox, closing, closed, fresh>>,
           knows' \in [Clients -> {"no", "end", "close"}],
           place = "answered" => New(c) # {}
    PROVE  IInv'
  <1>1. stage' = [stage EXCEPT ![c] = place] /\ stage \in [Clients -> Stages]
    BY DEF Goto, IInv, TypeOK
  <1>2. TypeOK'
    BY <1>1 DEF IInv, TypeOK, worker, relay, numbers
  <1>3. \A d \in Clients : New(d)' = New(d)
    BY DEF New
  <1>4. AnsweredNew'
    BY <1>1, <1>3 DEF IInv, AnsweredNew
  <1> QED
    BY <1>2, <1>4, SameLists DEF relay

LEMMA ReadStep ==
    ASSUME IInv, NEW c \in Clients, Read(c)
    PROVE  IInv'
  <1>1. /\ snap' = [snap EXCEPT ![c] = cache] /\ stage' = [stage EXCEPT ![c] = "read"]
        /\ fresh' \in {fresh, fresh \cup {c}}
        /\ UNCHANGED <<worker, relay, primary, mid, knows, got>>
    BY DEF Read, Goto
  <1>2. /\ snap \in [Clients -> Seq(Message)] /\ cache \in Seq(Message)
        /\ stage \in [Clients -> Stages] /\ fresh \subseteq Clients
    BY DEF IInv, TypeOK
  <1>3. /\ snap' \in [Clients -> Seq(Message)] /\ stage' \in [Clients -> Stages]
        /\ fresh' \subseteq Clients
    BY <1>1, <1>2 DEF Stages
  <1>4. TypeOK'
    <2>1. overtaken' \in BOOLEAN /\ restarted' \in BOOLEAN
      BY <1>1, SameHistory DEF worker, relay, IInv
    <2> QED
      BY <1>1, <1>3, <2>1 DEF IInv, TypeOK, worker, relay, numbers, primary
  <1>5. \A d \in Clients : snap'[d] = IF d = c THEN cache ELSE snap[d]
    BY <1>1, <1>2
  <1>6. SnapsInOrder'
    BY <1>1, <1>5 DEF worker, relay, numbers, IInv, Lists, CacheInOrder, SnapsInOrder
  <1>7. ASSUME NEW d \in Clients, stage'[d] = "answered" PROVE New(d)' # {}
    <2>1. d # c /\ stage[d] = "answered"
      BY <1>1, <1>2, <1>7
    <2>2. New(d)' = New(d)
      BY <1>1, <1>5, <2>1 DEF New
    <2> QED
      BY <2>1, <2>2 DEF IInv, AnsweredNew
  <1>8. LocalInOrder' /\ WritesInOrder' /\ CacheInOrder' /\ LastMid' /\ EndingEnded' /\ EndIsLast'
    BY <1>1 DEF relay, worker, numbers, IInv, Lists, LocalInOrder, WritesInOrder, CacheInOrder,
                LastMid, EndingEnded, EndIsLast
  <1>9. AllGiven'
    BY <1>1 DEF relay, numbers, IInv, AllGiven, Given
  <1> QED
    BY <1>4, <1>6, <1>7, <1>8, <1>9 DEF IInv, Lists, AnsweredNew

\* The list a client has read goes up to the last number it learns; what lies before
\* the list has been cut off.
LEMMA LearnGives ==
    ASSUME IInv, NEW c \in Clients, NEW i \in New(c), LastOf(c, i),
           NEW n \in 1 .. snap[c][i].mid
    PROVE  n \in got[c] \cup {snap[c][k].mid : k \in New(c)} \/ n + Cap <= sent
  <1> DEFINE t == snap[c]
  <1>1. /\ t \in Seq(Message) /\ mid[c] \in Nat /\ InOrder(t, overtaken, sent)
        /\ sent \in Nat /\ Cap \in Nat
    BY DEF IInv, TypeOK, Lists, SnapsInOrder
  <1>2. New(c) = {k \in 1 .. Len(t) : t[k].mid > mid[c]} /\ i \in New(c)
    BY DEF New
  <1>3. Given(c)
    BY DEF IInv, AllGiven
  <1>4. n \in 1 .. t[i].mid
    OBVIOUS
  <1> HIDE DEF t
  <1>5. i \in 1 .. Len(t) /\ Len(t) \in Nat /\ 1 \in 1 .. Len(t) /\ Len(t) \in 1 .. Len(t)
    BY <1>1, <1>2
  <1>6. t[i].mid \in Nat /\ t[1].mid \in Nat
    BY <1>1, <1>5, MidIsNat
  <1>7. \A k \in 1 .. Len(t) : t[k].mid = t[1].mid + k - 1
    BY <1>1 DEF InOrder, Numbered
  <1>8. CASE n <= mid[c]
    <2>1. n \in 1 .. mid[c]
      BY <1>1, <1>4, <1>6, <1>8
    <2> QED
      BY <1>3, <2>1 DEF Given
  <1>9. CASE n > mid[c] /\ n >= t[1].mid
    <2> DEFINE k == n - t[1].mid + 1
    <2>1. t[i].mid = t[1].mid + i - 1 /\ n \in Nat /\ i \in Nat
      BY <1>4, <1>5, <1>6, <1>7
    <2>2. k \in 1 .. Len(t)
      BY <1>4, <1>5, <1>6, <1>9, <2>1
    <2>3. t[k].mid = n
      <3>1. t[k].mid = t[1].mid + k - 1
        BY <1>7, <2>2
      <3> QED
        BY <1>6, <2>1, <3>1
    <2>4. k \in New(c)
      BY <1>2, <1>9, <2>2, <2>3
    <2> HIDE DEF k
    <2> QED
      BY <2>3, <2>4 DEF t
  <1>10. CASE n > mid[c] /\ n < t[1].mid
    <2>1. Len(t) = Cap /\ t[Len(t)].mid <= sent
      <3>1. t[1].mid # 1
        BY <1>4, <1>6, <1>10
      <3>2. t # <<>>
        BY <1>5
      <3> QED
        BY <1>1, <3>1, <3>2 DEF InOrder, CutOff
    <2>2. t[Len(t)].mid = t[1].mid + Len(t) - 1
      BY <1>5, <1>7
    <2> QED
      BY <1>1, <1>4, <1>6, <1>10, <2>1, <2>2
  <1>11. n \in Nat
    BY <1>4, <1>6
  <1> QED
    BY <1>1, <1>6, <1>8, <1>9, <1>10, <1>11

LEMMA LearnStep ==
    ASSUME IInv, NEW c \in Clients, Learn(c)
    PROVE  IInv'
  <1>1. /\ snap' = [snap EXCEPT ![c] = <<>>]
        /\ got' = [got EXCEPT ![c] = got[c] \cup {snap[c][k].mid : k \in New(c)}]
        /\ UNCHANGED <<worker, relay, primary, fresh>>
    BY DEF Learn
  <1>2. PICK i \in New(c) : LastOf(c, i) /\ mid' = [mid EXCEPT ![c] = snap[c][i].mid]
    BY DEF Learn
  <1>3. /\ snap \in [Clients -> Seq(Message)] /\ stage \in [Clients -> Stages]
        /\ mid \in [Clients -> Nat] /\ knows \in [Clients -> {"no", "end", "close"}]
        /\ got \in [Clients -> SUBSET Nat]
    BY DEF IInv, TypeOK
  <1>4. \A k \in New(c) : snap[c][k].mid \in Nat
    BY <1>3, MidIsNat DEF New
  <1>5. mid' \in [Clients -> Nat] /\ got' \in [Clients -> SUBSET Nat]
    <2>1. mid' \in [Clients -> Nat]
      BY <1>2, <1>3, <1>4
    <2>2. got[c] \cup {snap[c][k].mid : k \in New(c)} \in SUBSET Nat
      BY <1>3, <1>4
    <2>3. got' \in [Clients -> SUBSET Nat]
      BY <1>1, <1>3, <2>2
    <2> QED
      BY <2>1, <2>3
  <1>6. PICK place \in {"done", "idle"} : stage' = [stage EXCEPT ![c] = place]
    BY DEF Learn, Goto
  <1>7. knows' \in [Clients -> {"no", "end", "close"}]
    BY <1>3 DEF Learn
  <1>8. <<>> \in Seq(Message)
    OBVIOUS
  <1>9. snap' \in [Clients -> Seq(Message)] /\ stage' \in [Clients -> Stages]
    BY <1>1, <1>3, <1>6, <1>8 DEF Stages
  <1>10. TypeOK'
    <2>1. /\ UNCHANGED <<job, requeues, logs, late, ending, overtaken>>
          /\ UNCHANGED <<local, writes, relays, cache, sent, restarted, expiring>>
          /\ UNCHANGED <<room, listeners, sub, inbox, closing, closed, fresh>>
      BY <1>1 DEF worker, relay, numbers, primary
    <2>2. overtaken' \in BOOLEAN /\ restarted' \in BOOLEAN /\ room' = room /\ closed' = closed
      BY <2>1 DEF IInv, TypeOK
    <2> QED
      BY <1>5, <1>7, <1>9, <2>1, <2>2 DEF IInv, TypeOK
  <1>11. \A d \in Clients : snap'[d] = IF d = c THEN <<>> ELSE snap[d]
    BY <1>1, <1>3
  <1>12. SnapsInOrder'
    BY <1>1, <1>11, EmptyInOrder DEF worker, relay, numbers, IInv, Lists, SnapsInOrder
  <1>13. ASSUME NEW d \in Clients, stage'[d] = "answered" PROVE New(d)' # {}
    <2>1. d # c /\ stage[d] = "answered"
      BY <1>3, <1>6, <1>13
    <2>2. snap'[d] = snap[d] /\ mid'[d] = mid[d]
      BY <1>2, <1>3, <1>11, <2>1
    <2>3. New(d)' = New(d)
      BY <2>2 DEF New
    <2> QED
      BY <2>1, <2>3 DEF IInv, AnsweredNew
  <1>14. LocalInOrder' /\ WritesInOrder' /\ CacheInOrder' /\ LastMid' /\ EndingEnded' /\ EndIsLast'
    BY <1>1 DEF relay, worker, numbers, IInv, Lists, LocalInOrder, WritesInOrder, CacheInOrder,
                LastMid, EndingEnded, EndIsLast
  <1>15. ASSUME NEW d \in Clients, NEW n \in 1 .. mid'[d]
         PROVE  n \in got'[d] \/ n + Cap <= sent'
    <2>1. sent' = sent
      BY <1>1 DEF relay, numbers
    <2>2. CASE d = c
      <3>1. mid'[c] = snap[c][i].mid /\ got'[c] = got[c] \cup {snap[c][k].mid : k \in New(c)}
        BY <1>1, <1>2, <1>3
      <3>2. n \in 1 .. snap[c][i].mid
        BY <1>15, <2>2, <3>1
      <3>3. n \in got[c] \cup {snap[c][k].mid : k \in New(c)} \/ n + Cap <= sent
        BY <1>2, <3>2, LearnGives
      <3> QED
        BY <2>1, <2>2, <3>1, <3>3
    <2>3. CASE d # c
      <3>1. mid'[d] = mid[d] /\ got'[d] = got[d]
        BY <1>1, <1>2, <1>3, <2>3
      <3>2. Given(d)
        BY DEF IInv, AllGiven
      <3> QED
        BY <1>15, <2>1, <3>1, <3>2 DEF Given
    <2> QED
      BY <2>2, <2>3
  <1>16. AllGiven'
    BY <1>15 DEF AllGiven, Given
  <1> QED
    BY <1>10, <1>12, <1>13, <1>14, <1>16 DEF IInv, Lists, AnsweredNew

LEMMA ClientStep ==
    ASSUME IInv, NEW c \in Clients, Client(c)
    PROVE  IInv'
  <1> USE DEF Stages
  <1>1. /\ listeners \subseteq Clients /\ knows \in [Clients -> {"no", "end", "close"}]
        /\ room \in BOOLEAN /\ sub \in {"none", "pending", "on", "leaving"}
    BY DEF IInv, TypeOK
  <1>2. CASE Answer(c)
    <2>1. PICK place \in {"answered", "closed"} :
              Goto(c, place) /\ (place = "answered" => New(c) # {})
      BY <1>2 DEF Answer
    <2> QED
      BY <1>1, <1>2, <2>1, MoveStep DEF Answer, primary
  <1>3. CASE Wait(c)
    <2>1. room' \in BOOLEAN /\ listeners' \subseteq Clients
          /\ sub' \in {"none", "pending", "on", "leaving"} /\ knows' = knows
      BY <1>1, <1>3 DEF Wait
    <2> QED
      BY <1>1, <1>3, <2>1, MoveStep DEF Wait
  <1>4. CASE Timeout(c)
    <2>1. listeners' \subseteq Clients /\ room' = room /\ sub' = sub /\ knows' = knows
      BY <1>1, <1>4 DEF Timeout
    <2> QED
      BY <1>1, <1>4, <2>1, MoveStep DEF Timeout
  <1>5. CASE Ask(c)
    BY <1>1, <1>5, MoveStep DEF Ask, primary
  <1>6. CASE Refresh(c)
    BY <1>1, <1>6, MoveStep DEF Refresh, primary
  <1>7. CASE GiveUp(c)
    <2>1. knows' \in [Clients -> {"no", "end", "close"}]
      BY <1>1, <1>7 DEF GiveUp
    <2> QED
      BY <1>1, <1>7, <2>1, MoveStep DEF GiveUp, primary
  <1> QED
    BY <1>2, <1>3, <1>4, <1>5, <1>6, <1>7, ReadStep, LearnStep DEF Client

-----------------------------------------------------------------------------
(* The invariant.                                                          *)

LEMMA NextIInv == IInv /\ [Next]_vars => IInv'
  <1> SUFFICES ASSUME IInv, [Next]_vars PROVE IInv'
    OBVIOUS
  <1>1. ASSUME NEW w \in Workers, Process(w) \/ Relay(w) PROVE IInv'
    <2>1. CASE Take(w) \/ Finish(w)
      BY <2>1, SilentStep
    <2>2. CASE ActiveLands(w) \/ Log(w) \/ EndLands(w)
      BY <2>2, EmitStep
    <2> QED
      BY <1>1, <2>1, <2>2, RequeueStep, WriteStep, PublishStep, ExpireStep DEF Process, Relay
  <1>2. CASE UNCHANGED vars
    <2>1. TypeOK'
      BY <1>2 DEF vars, worker, relay, numbers, primary, client, IInv, TypeOK
    <2>2. AnsweredNew'
      BY <1>2 DEF vars, client, IInv, AnsweredNew, New
    <2> QED
      BY <1>2, <2>1, <2>2, SameLists DEF vars, relay, client
  <1> QED
    BY <1>1, <1>2, PrimaryStep, ClientStep DEF Next

LEMMA Inductive == Spec => []IInv
  <1> QED
    BY InitIInv, NextIInv, PTL DEF Spec

\* Every variable keeps its type, and no worker keeps more than Cap messages of the
\* job, whatever it has to announce.
THEOREM TypeCorrect == Spec => []TypeOK
  <1>1. IInv => TypeOK
    BY DEF IInv
  <1> QED
    BY <1>1, Inductive, PTL

\* The messages in the cache and those read for a client are numbered without a gap.
\* After the terminal status there is nothing but the status ACTIVE, and that only if
\* the last update of the row has overtaken an update to active of its worker.
THEOREM BatchesAreOrdinal == Spec => []Ordinal
  <1>1. IInv => Ordinal
    <2> SUFFICES ASSUME IInv, NEW t \in {cache} \cup {snap[c] : c \in Clients},
                        NEW i \in 1 .. Len(t)
                 PROVE  /\ i < Len(t) => t[i + 1].mid = t[i].mid + 1
                        /\ t[i].kind = "end" =>
                              \A j \in i + 1 .. Len(t) : overtaken /\ t[j].kind = "active"
      BY DEF Ordinal
    <2>1. InOrder(t, overtaken, sent) /\ t \in Seq(Message)
      BY DEF IInv, TypeOK, Lists, CacheInOrder, SnapsInOrder
    <2>2. t[i].kind = "end" => \A j \in i + 1 .. Len(t) : overtaken /\ t[j].kind = "active"
      BY <2>1 DEF InOrder, EndsLast
    <2>3. ASSUME i < Len(t) PROVE t[i + 1].mid = t[i].mid + 1
      <3>1. i + 1 \in 1 .. Len(t) /\ 1 \in 1 .. Len(t)
        BY <2>1, <2>3
      <3>2. t[1].mid \in Nat
        BY <2>1, <3>1, MidIsNat
      <3>3. t[i + 1].mid = t[1].mid + (i + 1) - 1 /\ t[i].mid = t[1].mid + i - 1
        BY <2>1, <3>1 DEF InOrder, Numbered
      <3>4. i \in Nat
        OBVIOUS
      <3> QED
        BY <3>2, <3>3, <3>4
    <2> QED
      BY <2>2, <2>3
  <1> QED
    BY <1>1, Inductive, PTL

\* Of a job whose numbers have not begun again, a client has been given every message
\* up to the last one it has got, but for those that were cut off: Cap newer ones had
\* been sent before it asked.
THEOREM NoneIsSkipped == Spec => []NoneSkipped
  <1>1. IInv => NoneSkipped
    BY DEF IInv, AllGiven, Given, NoneSkipped
  <1> QED
    BY <1>1, Inductive, PTL
=============================================================================
