-------------------------- MODULE RelayTaskProofs --------------------------
(***************************************************************************)
(* Proofs about RelayTask, for any filters, any queue and any number of    *)
(* tasks and events.  What the properties rest on is the order of events   *)
(* along a task's queue and channel, the queue being empty while the       *)
(* connection is open, and where in a task's channel the newest filter and *)
(* the Shutdown are.                                                       *)
(***************************************************************************)
EXTENDS RelayTask, FunctionTheorems, FiniteSetTheorems, SequenceTheorems, TLAPS

Runs(t) == phase[t] \notin {"none", "dead"}

\* A task that does not run holds nothing; the listed one runs, and nobody
\* told it to shut down; one that was removed was told, or is gone.
LifecycleOf(t) ==
    /\ phase[t] = "none" <=> t > tasks
    /\ ~Runs(t) => /\ cmds[t] = <<>> /\ queue[t] = <<>> /\ sub[t] = NoFilter
                   /\ accepted[t] = {} /\ sent[t] = <<>>
    /\ connected[t] <=> phase[t] \in {"resub", "flush", "open"}
    /\ t = listed =>
          Runs(t) /\ \A i \in DOMAIN cmds[t] : cmds[t][i] # ShutdownCmd
    /\ Runs(t) /\ t # listed =>
          \E i \in DOMAIN cmds[t] : cmds[t][i] = ShutdownCmd

Lifecycle == listed <= tasks /\ \A t \in Tasks : LifecycleOf(t)

\* Events grow along a queue, along a channel, and from the one to the other.
Grows(q) == \A i, j \in DOMAIN q : i < j => q[i] < q[j]

EventsGrow(c) ==
    \A i, j \in DOMAIN c :
        i < j /\ c[i].kind = "publish" /\ c[j].kind = "publish" => c[i].event < c[j].event

Before(q, c) ==
    \A i \in DOMAIN q, j \in DOMAIN c : c[j].kind = "publish" => q[i] < c[j].event

\* That is the order of what a task holds; and while the connection is open
\* none of it is in the queue.
InOrderOf(t) ==
    /\ Grows(queue[t]) /\ EventsGrow(cmds[t]) /\ Before(queue[t], cmds[t])
    /\ phase[t] = "open" => queue[t] = <<>>

InOrder == \A t \in Tasks : InOrderOf(t)

\* What a task holds or sent it accepted, and that was published.
AccountedOf(t) ==
    /\ Waiting(t) \cup Range(queue[t]) \cup Range(sent[t]) \subseteq accepted[t]
    /\ \A e \in accepted[t] : e <= published

Accounted == \A t \in Tasks : AccountedOf(t)

\* The newest filter is the last one on its way to the listed task, or the
\* one it has; and the relay has what the task has once that resubscribed.
FilterOf(t) ==
    /\ phase[t] \in {"flush", "open"} => live[t] = sub[t]
    /\ t = listed =>
          \/ \E i \in DOMAIN cmds[t] :
                /\ cmds[t][i] = SubscribeCmd(filter)
                /\ \A j \in DOMAIN cmds[t] : j > i => cmds[t][j].kind # "subscribe"
          \/ /\ \A j \in DOMAIN cmds[t] : cmds[t][j].kind # "subscribe"
             /\ sub[t] = filter

FilterOnItsWay == \A t \in Tasks : FilterOf(t)

\* NewestKept, for one task.
NewestKeptOf(t) ==
    phase[t] # "dead" =>
        \A e \in accepted[t] \ lost[t] :
            \/ e \in Waiting(t) \cup Range(queue[t]) \cup Range(sent[t])
            \/ Cardinality({n \in accepted[t] : n > e}) >= QueueCap

IInv ==
    TypeOK /\ Lifecycle /\ InOrder /\ Accounted /\ FilterOnItsWay /\ NewestKept
-----------------------------------------------------------------------------
(* Types *)

\* What the commands are, and what they carry.
LEMMA CommandTypes ==
    /\ \A e \in Events : PublishCmd(e) \in Commands
    /\ \A f \in Filters \cup {NoFilter} : SubscribeCmd(f) \in Commands
    /\ ShutdownCmd \in Commands
    /\ \A c \in Commands :
          /\ c.kind \in {"publish", "subscribe", "shutdown"}
          /\ c.kind = "publish" => c.event \in Events
          /\ c.kind = "subscribe" =>
                c.filter \in Filters \cup {NoFilter} /\ c = SubscribeCmd(c.filter)
          /\ c.kind = "shutdown" <=> c = ShutdownCmd
BY DEF Commands, PublishCmd, SubscribeCmd, ShutdownCmd

\* Their kinds, whatever they carry.
LEMMA CommandKinds ==
    /\ \A e : PublishCmd(e).kind = "publish" /\ PublishCmd(e).event = e
    /\ \A f : SubscribeCmd(f).kind = "subscribe" /\ SubscribeCmd(f).filter = f
    /\ ShutdownCmd.kind = "shutdown"
BY DEF PublishCmd, SubscribeCmd, ShutdownCmd

\* An empty sequence is one of anything, and has no place.
LEMMA Empty == \A S : <<>> \in Seq(S) /\ Len(<<>>) = 0 /\ DOMAIN <<>> = {}
BY EmptySeq

\* What is put at the end of a channel, of a queue, or after what was sent.
LEMMA PutTypes ==
    /\ \A q \in Seq(Commands), c \in Commands : Append(q, c) \in Seq(Commands)
    /\ \A q \in Seq(Events), e \in Events : Append(q, e) \in Seq(Events)
BY AppendProperties

\* The queue stays within its capacity and keeps its order of arrival.
LEMMA BoundedType ==
    ASSUME NEW q \in Seq(Events), Len(q) <= QueueCap, NEW e \in Events
    PROVE  Bounded(q, e) \in Seq(Events) /\ Len(Bounded(q, e)) <= QueueCap
<1>1. CASE Len(q) < QueueCap
  BY <1>1, AppendProperties, LenProperties, RelayAssumption DEF Bounded
<1>2. CASE ~(Len(q) < QueueCap)
  <2>1. Len(q) = QueueCap /\ q # <<>>
    BY <1>2, LenProperties, EmptySeq, RelayAssumption
  <2>2. Tail(q) \in Seq(Events) /\ Len(Tail(q)) = QueueCap - 1
    BY <2>1, HeadTailProperties
  <2>. QED
    BY <1>2, <2>2, AppendProperties, RelayAssumption DEF Bounded
<1>. QED
  BY <1>1, <1>2

\* One step per action: every step keeps the types.
LEMMA TypeStep == ASSUME TypeOK, Lifecycle, [Next]_vars PROVE TypeOK'
<1>. USE RelayAssumption DEF Tasks, Phases
<1>1. CASE Publish
  <2>1. published + 1 \in Events /\ published' \in 0..MaxEvents
    BY <1>1 DEF Publish, TypeOK, Events
  <2>2. CASE listed = 0
    BY <1>1, <2>1, <2>2 DEF Publish, TypeOK, local, link
  <2>3. CASE listed # 0
    <3>1. listed \in Tasks /\ PublishCmd(published + 1) \in Commands
      BY <2>1, <2>3, CommandTypes DEF TypeOK
    <3>2. Append(cmds[listed], PublishCmd(published + 1)) \in Seq(Commands)
      BY <3>1, PutTypes DEF TypeOK
    <3>3. cmds' \in [Tasks -> Seq(Commands)]
      BY <1>1, <2>3, <3>2 DEF Publish, SendTo, TypeOK
    <3>4. accepted' \in [Tasks -> SUBSET Events]
      <4>1. accepted[listed] \cup {published + 1} \in SUBSET Events
        BY <2>1, <3>1 DEF TypeOK
      <4>. QED
        BY <1>1, <2>3, <4>1 DEF Publish, TypeOK
    <3>. QED
      BY <1>1, <2>1, <3>3, <3>4 DEF Publish, TypeOK, local, link
  <2>. QED
    BY <2>2, <2>3
<1>2. ASSUME NEW f \in Filters \cup {NoFilter}, SetSubscription(f)
     PROVE  TypeOK'
  <2>1. SubscribeCmd(f) \in Commands
    BY <1>2, CommandTypes
  <2>2. cmds' \in [Tasks -> Seq(Commands)]
    <3>1. CASE listed = 0
      BY <1>2, <3>1 DEF SetSubscription, TypeOK
    <3>2. CASE listed # 0
      <4>1. Append(cmds[listed], SubscribeCmd(f)) \in Seq(Commands)
        BY <2>1, <3>2, PutTypes DEF TypeOK
      <4>. QED
        BY <1>2, <3>2, <4>1 DEF SetSubscription, SendTo, TypeOK
    <3>. QED
      BY <3>1, <3>2
  <2>. QED
    BY <1>2, <2>2 DEF SetSubscription, TypeOK, local, link, seen
<1>3. CASE AddRelay
  BY <1>3, CommandTypes DEF AddRelay, FirstCmds, TypeOK, local, link, seen
<1>4. CASE RemoveRelay
  BY <1>4, CommandTypes, PutTypes DEF RemoveRelay, SendTo, TypeOK, local, link, seen
<1>5. ASSUME NEW t \in Tasks, OfflineCmd(t)
     PROVE  TypeOK'
  BY <1>5, CommandTypes, HeadTailProperties, BoundedType DEF OfflineCmd, TypeOK, pool, link, seen
<1>6. ASSUME NEW t \in Tasks, Returns(t), connected' \in [Tasks -> BOOLEAN]
     PROVE  TypeOK'
  BY <1>6, Empty DEF Returns, TypeOK, pool
<1>7. ASSUME NEW t \in Tasks, OfflineShutdown(t)
     PROVE  TypeOK'
  BY <1>6, <1>7 DEF OfflineShutdown, TypeOK
<1>8. ASSUME NEW t \in Tasks, BeginConnect(t) \/ BackoffElapses(t) \/ ConnectFails(t) \/ Connects(t)
     PROVE  TypeOK'
  BY <1>8 DEF BeginConnect, BackoffElapses, ConnectFails, Connects, TypeOK, pool, local, link, seen
<1>9. ASSUME NEW t \in Tasks, Resubscribe(t)
     PROVE  TypeOK'
  BY <1>9 DEF Resubscribe, Resubscribed, Flushes, HangUp, TypeOK, pool, local, seen
<1>10. ASSUME NEW t \in Tasks, FlushOne(t)
     PROVE  TypeOK'
  <2>1. /\ Head(queue[t]) \in Events /\ Tail(queue[t]) \in Seq(Events)
        /\ Len(Tail(queue[t])) <= QueueCap
    BY <1>10, HeadTailProperties, LenProperties DEF FlushOne, TypeOK
  <2>2. [queue EXCEPT ![t] = Tail(@)] \in [Tasks -> Seq(Events)]
    BY <2>1 DEF TypeOK
  <2>3. \A u \in Tasks : Len(queue'[u]) <= QueueCap
    BY <1>10, <2>1 DEF TypeOK, FlushOne, Popped
  <2>4. [sent EXCEPT ![t] = Append(@, Head(queue[t]))] \in [Tasks -> Seq(Events)]
    BY <2>1, PutTypes DEF TypeOK
  <2>. QED
    <3>1. queue' \in [Tasks -> Seq(Events)] /\ sent' \in [Tasks -> Seq(Events)]
      BY <1>10, <2>2, <2>4 DEF FlushOne, Popped, TypeOK
    <3>2. /\ phase' \in [Tasks -> Phases] /\ connected' \in [Tasks -> BOOLEAN]
          /\ live' \in [Tasks -> Filters \cup {NoFilter}]
      BY <1>10 DEF FlushOne, HangUp, TypeOK
    <3>3. lost' \in [Tasks -> SUBSET Events]
      <4>1. lost[t] \cup {Head(queue[t])} \in SUBSET Events
        BY <2>1 DEF TypeOK
      <4>. QED
        BY <1>10, <4>1 DEF FlushOne, TypeOK
    <3>. QED
      BY <1>10, <2>3, <3>1, <3>2, <3>3 DEF FlushOne, TypeOK, pool
<1>11. ASSUME NEW t \in Tasks, Open(t)
     PROVE  TypeOK'
  BY <1>11 DEF Open, Flushed, TypeOK, pool, local, link, seen
<1>12. ASSUME NEW t \in Tasks, LiveCmd(t)
     PROVE  TypeOK'
  <2>1. Head(cmds[t]) \in Commands /\ Tail(cmds[t]) \in Seq(Commands)
    BY <1>12, HeadTailProperties DEF LiveCmd, TypeOK
  <2>. DEFINE c == Head(cmds[t])
  <2>2. CASE c.kind = "publish" /\ LivePublish(t, c.event) /\ UNCHANGED sub
    <3>1. /\ [sent EXCEPT ![t] = Append(@, c.event)] \in [Tasks -> Seq(Events)]
          /\ [queue EXCEPT ![t] = Bounded(@, c.event)] \in [Tasks -> Seq(Events)]
          /\ Len(Bounded(queue[t], c.event)) <= QueueCap
      BY <2>1, <2>2, CommandTypes, BoundedType, PutTypes DEF TypeOK
    <3>. QED
      BY <1>12, <2>1, <2>2, <3>1 DEF LiveCmd, LivePublish, HangUp, TypeOK, pool
  <2>3. CASE c.kind = "subscribe" /\ LiveSubscribe(t, c.filter) /\ UNCHANGED <<queue, sent>>
    BY <1>12, <2>1, <2>3, CommandTypes DEF LiveCmd, LiveSubscribe, HangUp, TypeOK, pool
  <2>. QED
    BY <1>12, <2>2, <2>3 DEF LiveCmd
<1>13. ASSUME NEW t \in Tasks, LiveShutdown(t)
     PROVE  TypeOK'
  BY <1>6, <1>13 DEF LiveShutdown, Disconnected, TypeOK
<1>14. ASSUME NEW t \in Tasks, Breaks(t)
     PROVE  TypeOK'
  BY <1>14 DEF Breaks, HangUp, TypeOK, pool, local, seen
<1>15. CASE UNCHANGED vars
  BY <1>15 DEF vars, TypeOK, pool, local, link, seen
<1>. QED
  BY <1>1, <1>2, <1>3, <1>4, <1>5, <1>7, <1>8, <1>9, <1>10, <1>11, <1>12, <1>13,
     <1>14, <1>15 DEF Next, Pool, Step
-----------------------------------------------------------------------------
(* Places in a channel *)

\* Putting adds one place, at the end.
LEMMA PutPlaces ==
    ASSUME NEW S, NEW q \in Seq(S), NEW c \in S
    PROVE  /\ Append(q, c) \in Seq(S)
           /\ Append(q, c)[Len(q) + 1] = c
           /\ \A i \in DOMAIN q :
                 i \in DOMAIN Append(q, c) /\ Append(q, c)[i] = q[i] /\ i < Len(q) + 1
           /\ \A i \in DOMAIN Append(q, c) : i \in DOMAIN q \/ i = Len(q) + 1
           /\ Len(q) + 1 \in DOMAIN Append(q, c)
BY AppendProperties, LenProperties

\* Taking the head moves the others one place to the front.
LEMMA TakePlaces ==
    ASSUME NEW S, NEW q \in Seq(S), q # <<>>
    PROVE  /\ Head(q) = q[1] /\ 1 \in DOMAIN q /\ Head(q) \in S
           /\ Tail(q) \in Seq(S)
           /\ \A i \in DOMAIN Tail(q) :
                 i \in Nat /\ i >= 1 /\ i + 1 \in DOMAIN q /\ Tail(q)[i] = q[i + 1]
           /\ \A i \in DOMAIN q :
                 i \in Nat /\ (i = 1 \/ (i > 1 /\ i - 1 \in DOMAIN Tail(q)
                                         /\ Tail(q)[i - 1] = q[i]))
<1>1. Len(q) \in Nat /\ Len(q) # 0 /\ DOMAIN q = 1..Len(q)
  BY EmptySeq, LenProperties
<1>2. /\ Tail(q) \in Seq(S) /\ Len(Tail(q)) = Len(q) - 1
      /\ \A i \in 1..Len(Tail(q)) : Tail(q)[i] = q[i + 1]
      /\ Head(q) \in S
  BY HeadTailProperties
<1>3. DOMAIN Tail(q) = 1..(Len(q) - 1)
  BY <1>2, LenProperties
<1>4. Head(q) = q[1]
  OBVIOUS
<1>. QED
  BY <1>1, <1>2, <1>3, <1>4

-----------------------------------------------------------------------------
-----------------------------------------------------------------------------
(* A step changes one task *)

SameTask(u) ==
    /\ cmds'[u] = cmds[u] /\ phase'[u] = phase[u]
    /\ sub'[u] = sub[u] /\ queue'[u] = queue[u]
    /\ connected'[u] = connected[u] /\ live'[u] = live[u]
    /\ sent'[u] = sent[u] /\ accepted'[u] = accepted[u] /\ lost'[u] = lost[u]

OnlyTask(t) == \A u \in Tasks \ {t} : SameTask(u)

InvOf(t) ==
    LifecycleOf(t) /\ InOrderOf(t) /\ AccountedOf(t) /\ FilterOf(t) /\ NewestKeptOf(t)

\* IInv, task by task.
LEMMA TaskByTask ==
    IInv <=> TypeOK /\ listed <= tasks /\ \A t \in Tasks : InvOf(t)
<1>1. NewestKept <=> \A t \in Tasks : NewestKeptOf(t)
  BY DEF NewestKept, NewestKeptOf
<1>. QED
  BY <1>1 DEF IInv, InvOf, Lifecycle, InOrder, Accounted, FilterOnItsWay

\* A task that does not change keeps its part, when it is listed as before, and
\* only the listed task hears of a filter.
LEMMA Untouched ==
    ASSUME NEW u \in Tasks, InvOf(u), SameTask(u),
           TypeOK, published' \in Nat, published <= published',
           u = listed' <=> u = listed, u > tasks' <=> u > tasks,
           u = listed => filter' = filter
    PROVE  InvOf(u)'
<1>1. LifecycleOf(u)'
  BY DEF InvOf, LifecycleOf, SameTask, Runs
<1>2. InOrderOf(u)'
  BY DEF InvOf, InOrderOf, SameTask
<1>3. AccountedOf(u)'
  <2>1. accepted[u] \subseteq Nat /\ published \in Nat
    BY DEF TypeOK, Events
  <2>2. Waiting(u)' = Waiting(u)
    BY DEF SameTask, Waiting
  <2>. QED
    BY <2>1, <2>2 DEF InvOf, AccountedOf, SameTask
<1>4. FilterOf(u)'
  BY DEF InvOf, FilterOf, SameTask
<1>5. NewestKeptOf(u)'
  <2>2. Waiting(u)' = Waiting(u)
    BY DEF SameTask, Waiting
  <2>. QED
    BY <2>2 DEF InvOf, NewestKeptOf, SameTask
<1>. QED
  BY <1>1, <1>2, <1>3, <1>4, <1>5 DEF InvOf

\* So a step of one task has only that task to answer for.
LEMMA OneTask ==
    ASSUME IInv, TypeOK', NEW t \in Tasks, OnlyTask(t), UNCHANGED pool, InvOf(t)'
    PROVE  IInv'
<1>1. ASSUME NEW u \in Tasks, u # t PROVE InvOf(u)'
  <2>1. TypeOK /\ InvOf(u)
    BY TaskByTask
  <2>2. SameTask(u)
    BY <1>1 DEF OnlyTask
  <2>3. published' \in Nat /\ published <= published'
    BY <2>1 DEF pool, TypeOK
  <2>. QED
    BY <2>1, <2>2, <2>3, Untouched DEF pool
<1>2. listed' <= tasks'
  BY TaskByTask DEF pool
<1>3. TypeOK' /\ listed' <= tasks' /\ (\A u \in Tasks : InvOf(u)')
  BY <1>1, <1>2
<1>4. NewestKept'
  BY <1>3 DEF InvOf, NewestKept, NewestKeptOf
<1>. QED
  BY <1>3, <1>4 DEF IInv, InvOf, Lifecycle, InOrder, Accounted, FilterOnItsWay
-----------------------------------------------------------------------------
(* Events along a queue and a channel *)

EventsIn(c) == {c[i].event : i \in {i \in DOMAIN c : c[i].kind = "publish"}}

EventOf(c) == IF c.kind = "publish" THEN {c.event} ELSE {}

\* The events of a channel after a put and before a take.
LEMMA EventsPut ==
    ASSUME NEW q \in Seq(Commands), NEW c \in Commands
    PROVE  EventsIn(Append(q, c)) = EventsIn(q) \cup EventOf(c)
BY PutPlaces DEF EventsIn, EventOf

LEMMA EventsTake ==
    ASSUME NEW q \in Seq(Commands), q # <<>>
    PROVE  EventsIn(q) = EventOf(Head(q)) \cup EventsIn(Tail(q))
<1>1. ASSUME NEW e \in EventsIn(q) PROVE e \in EventOf(Head(q)) \cup EventsIn(Tail(q))
  <2>1. PICK i \in DOMAIN q : q[i].kind = "publish" /\ e = q[i].event
    BY <1>1 DEF EventsIn
  <2>2. CASE i = 1
    BY <2>1, <2>2, TakePlaces DEF EventOf
  <2>3. CASE i # 1
    <3>1. i - 1 \in DOMAIN Tail(q) /\ Tail(q)[i - 1] = q[i]
      BY <2>3, TakePlaces
    <3>. QED
      BY <2>1, <3>1 DEF EventsIn
  <2>. QED
    BY <2>2, <2>3
<1>2. ASSUME NEW e \in EventOf(Head(q)) PROVE e \in EventsIn(q)
  BY <1>2, TakePlaces DEF EventOf, EventsIn
<1>3. ASSUME NEW e \in EventsIn(Tail(q)) PROVE e \in EventsIn(q)
  <2>1. PICK i \in DOMAIN Tail(q) : Tail(q)[i].kind = "publish" /\ e = Tail(q)[i].event
    BY <1>3 DEF EventsIn
  <2>2. i + 1 \in DOMAIN q /\ Tail(q)[i] = q[i + 1]
    BY TakePlaces
  <2>. QED
    BY <2>1, <2>2 DEF EventsIn
<1>. QED
  BY <1>1, <1>2, <1>3

\* The same of a queue.
LEMMA RangePut ==
    ASSUME NEW q \in Seq(Events), NEW e \in Events
    PROVE  Range(Append(q, e)) = Range(q) \cup {e}
BY PutPlaces DEF Range

LEMMA RangeTake ==
    ASSUME NEW q \in Seq(Events), q # <<>>
    PROVE  Range(q) = {Head(q)} \cup Range(Tail(q))
<1>1. ASSUME NEW e \in Range(q) PROVE e \in {Head(q)} \cup Range(Tail(q))
  <2>1. PICK i \in DOMAIN q : e = q[i]
    BY <1>1 DEF Range
  <2>2. CASE i = 1
    BY <2>1, <2>2, TakePlaces
  <2>3. CASE i # 1
    <3>1. i - 1 \in DOMAIN Tail(q) /\ Tail(q)[i - 1] = q[i]
      BY <2>3, TakePlaces
    <3>. QED
      BY <2>1, <3>1 DEF Range
  <2>. QED
    BY <2>2, <2>3
<1>2. ASSUME NEW e \in Range(Tail(q)) PROVE e \in Range(q)
  <2>1. PICK i \in DOMAIN Tail(q) : e = Tail(q)[i]
    BY <1>2 DEF Range
  <2>2. i + 1 \in DOMAIN q /\ Tail(q)[i] = q[i + 1]
    BY TakePlaces
  <2>. QED
    BY <2>1, <2>2 DEF Range
<1>3. Head(q) \in Range(q)
  BY TakePlaces DEF Range
<1>. QED
  BY <1>1, <1>2, <1>3

\* A queue that grows: its head is the least, and it still grows without it.
LEMMA GrowsTake ==
    ASSUME NEW q \in Seq(Events), q # <<>>, Grows(q)
    PROVE  Grows(Tail(q)) /\ \A e \in Range(Tail(q)) : Head(q) < e
<1>1. ASSUME NEW i \in DOMAIN Tail(q), NEW j \in DOMAIN Tail(q), i < j
      PROVE  Tail(q)[i] < Tail(q)[j]
  <2>1. /\ i + 1 \in DOMAIN q /\ Tail(q)[i] = q[i + 1] /\ i \in Nat
        /\ j + 1 \in DOMAIN q /\ Tail(q)[j] = q[j + 1] /\ j \in Nat
    BY TakePlaces
  <2>. QED
    BY <1>1, <2>1 DEF Grows
<1>2. ASSUME NEW j \in DOMAIN Tail(q) PROVE Head(q) < Tail(q)[j]
  <2>1. /\ j + 1 \in DOMAIN q /\ Tail(q)[j] = q[j + 1] /\ j \in Nat /\ j >= 1
        /\ Head(q) = q[1] /\ 1 \in DOMAIN q
    BY TakePlaces
  <2>. QED
    BY <2>1 DEF Grows
<1>. QED
  BY <1>1, <1>2 DEF Grows, Range

\* A newer event may be put at its end.
LEMMA GrowsPut ==
    ASSUME NEW q \in Seq(Events), NEW e \in Events, Grows(q), \A d \in Range(q) : d < e
    PROVE  Grows(Append(q, e))
<1>1. Append(q, e)[Len(q) + 1] = e /\ Len(q) \in Nat /\ DOMAIN q = 1..Len(q)
  BY PutPlaces, LenProperties
<1>2. ASSUME NEW i \in DOMAIN Append(q, e), NEW j \in DOMAIN Append(q, e), i < j
      PROVE  Append(q, e)[i] < Append(q, e)[j]
  <2>1. i \in DOMAIN q \/ i = Len(q) + 1
    BY PutPlaces
  <2>2. j \in DOMAIN q \/ j = Len(q) + 1
    BY PutPlaces
  <2>3. i \in DOMAIN q /\ Append(q, e)[i] = q[i] /\ q[i] \in Range(q)
    BY <1>1, <1>2, <2>1, <2>2, PutPlaces DEF Range
  <2>. QED
    BY <1>1, <1>2, <2>2, <2>3, PutPlaces DEF Grows
<1>. QED
  BY <1>2 DEF Grows

\* The same of the events in a channel.
LEMMA EventsGrowTake ==
    ASSUME NEW q \in Seq(Commands), q # <<>>, EventsGrow(q)
    PROVE  /\ EventsGrow(Tail(q))
           /\ Head(q).kind = "publish" => \A e \in EventsIn(Tail(q)) : Head(q).event < e
<1>1. ASSUME NEW i \in DOMAIN Tail(q), NEW j \in DOMAIN Tail(q), i < j,
             Tail(q)[i].kind = "publish", Tail(q)[j].kind = "publish"
      PROVE  Tail(q)[i].event < Tail(q)[j].event
  <2>1. /\ i + 1 \in DOMAIN q /\ Tail(q)[i] = q[i + 1] /\ i \in Nat
        /\ j + 1 \in DOMAIN q /\ Tail(q)[j] = q[j + 1] /\ j \in Nat
    BY TakePlaces
  <2>. QED
    BY <1>1, <2>1 DEF EventsGrow
<1>2. ASSUME NEW j \in DOMAIN Tail(q), Tail(q)[j].kind = "publish", Head(q).kind = "publish"
      PROVE  Head(q).event < Tail(q)[j].event
  <2>1. /\ j + 1 \in DOMAIN q /\ Tail(q)[j] = q[j + 1] /\ j \in Nat /\ j >= 1
        /\ Head(q) = q[1] /\ 1 \in DOMAIN q
    BY TakePlaces
  <2>. QED
    BY <1>2, <2>1 DEF EventsGrow
<1>. QED
  BY <1>1, <1>2 DEF EventsGrow, EventsIn

LEMMA EventsGrowPut ==
    ASSUME NEW q \in Seq(Commands), NEW c \in Commands, EventsGrow(q),
           \A d \in EventsIn(q), e \in EventOf(c) : d < e
    PROVE  EventsGrow(Append(q, c))
<1>1. Append(q, c)[Len(q) + 1] = c /\ Len(q) \in Nat /\ DOMAIN q = 1..Len(q)
  BY PutPlaces, LenProperties
<1>2. ASSUME NEW i \in DOMAIN Append(q, c), NEW j \in DOMAIN Append(q, c), i < j,
             Append(q, c)[i].kind = "publish", Append(q, c)[j].kind = "publish"
      PROVE  Append(q, c)[i].event < Append(q, c)[j].event
  <2>1. i \in DOMAIN q \/ i = Len(q) + 1
    BY PutPlaces
  <2>2. j \in DOMAIN q \/ j = Len(q) + 1
    BY PutPlaces
  <2>3. i \in DOMAIN q /\ Append(q, c)[i] = q[i] /\ q[i].event \in EventsIn(q)
    BY <1>1, <1>2, <2>1, <2>2, PutPlaces DEF EventsIn
  <2>4. CASE j \in DOMAIN q
    BY <1>2, <2>3, <2>4, PutPlaces DEF EventsGrow
  <2>5. CASE j = Len(q) + 1
    BY <1>1, <1>2, <2>3, <2>5 DEF EventOf
  <2>. QED
    BY <2>2, <2>4, <2>5
<1>. QED
  BY <1>2 DEF EventsGrow

\* Every event of the one is before every event of the other.
LEMMA BeforeAll ==
    ASSUME NEW q, NEW c
    PROVE  Before(q, c) <=> \A d \in Range(q), e \in EventsIn(c) : d < e
BY DEF Before, Range, EventsIn
-----------------------------------------------------------------------------
(* What a running task does *)

Held(t) == EventsIn(cmds[t]) \cup Range(queue[t]) \cup Range(sent[t])

Newer(t, e) == {n \in accepted[t] : n > e}

\* It stays a running task, and nobody gives it anything meanwhile.
GoesOn(t) ==
    /\ OnlyTask(t) /\ UNCHANGED pool /\ accepted'[t] = accepted[t]
    /\ Runs(t) /\ Runs(t)'
    /\ connected'[t] <=> phase'[t] \in {"resub", "flush", "open"}

TakesCmd(t) ==
    /\ cmds[t] # <<>> /\ Head(cmds[t]) # ShutdownCmd
    /\ cmds'[t] = Tail(cmds[t])

\* It has to answer for the order of what it holds, for its subscription, and
\* for every event it lets go of.
LEMMA TaskStep ==
    ASSUME IInv, TypeOK', NEW t \in Tasks, GoesOn(t),
           cmds'[t] = cmds[t] \/ TakesCmd(t),
           InOrderOf(t)', FilterOf(t)',
           Held(t)' \subseteq Held(t), lost[t] \subseteq lost'[t],
           \A e \in Held(t) :
               e \in Held(t)' \/ e \in lost'[t] \/ Cardinality(Newer(t, e)) >= QueueCap
    PROVE  IInv'
<1>1. TypeOK /\ InvOf(t)
  BY TaskByTask
<1>2. LifecycleOf(t)'
  <2>1. \A i \in DOMAIN cmds'[t] : t = listed => cmds'[t][i] # ShutdownCmd
    <3>1. cmds[t] \in Seq(Commands)
      BY <1>1 DEF TypeOK
    <3>2. \A i \in DOMAIN cmds[t] : t = listed => cmds[t][i] # ShutdownCmd
      BY <1>1 DEF InvOf, LifecycleOf
    <3>. QED
      <4>1. CASE cmds'[t] = cmds[t]
        BY <3>2, <4>1
      <4>2. CASE TakesCmd(t)
        <5>1. \A i \in DOMAIN Tail(cmds[t]) :
                  i + 1 \in DOMAIN cmds[t] /\ Tail(cmds[t])[i] = cmds[t][i + 1]
          BY <3>1, <4>2, TakePlaces DEF TakesCmd
        <5>. QED
          BY <3>2, <4>2, <5>1 DEF TakesCmd
      <4>. QED
        BY <4>1, <4>2
  <2>2. t # listed => \E i \in DOMAIN cmds'[t] : cmds'[t][i] = ShutdownCmd
    <3>1. CASE cmds'[t] = cmds[t]
      BY <1>1, <3>1 DEF InvOf, LifecycleOf, GoesOn
    <3>2. CASE TakesCmd(t) /\ t # listed
      <4>1. PICK i \in DOMAIN cmds[t] : cmds[t][i] = ShutdownCmd
        BY <1>1, <3>2 DEF InvOf, LifecycleOf, GoesOn
      <4>2. i - 1 \in DOMAIN Tail(cmds[t]) /\ Tail(cmds[t])[i - 1] = cmds[t][i]
        BY <1>1, <3>2, <4>1, TakePlaces DEF TakesCmd, TypeOK
      <4>. QED
        BY <3>2, <4>1, <4>2 DEF TakesCmd
    <3>. QED
      BY <3>1, <3>2
  <2>3. /\ Runs(t)' /\ listed' = listed /\ tasks' = tasks
        /\ phase'[t] = "none" <=> t > tasks
        /\ connected'[t] <=> phase'[t] \in {"resub", "flush", "open"}
    BY <1>1 DEF GoesOn, InvOf, LifecycleOf, Runs, pool
  <2>. QED
    BY <2>1, <2>2, <2>3 DEF LifecycleOf
<1>3. Waiting(t) = EventsIn(cmds[t]) /\ Waiting(t)' = EventsIn(cmds'[t])
  BY DEF Waiting, EventsIn
<1>4. AccountedOf(t)'
  BY <1>1, <1>3 DEF InvOf, AccountedOf, Held, GoesOn, pool
<1>5. NewestKeptOf(t)'
  <2>1. SUFFICES ASSUME NEW e \in accepted'[t] \ lost'[t]
                 PROVE  \/ e \in Held(t)'
                        \/ Cardinality({n \in accepted'[t] : n > e}) >= QueueCap
    BY <1>3 DEF NewestKeptOf, Held
  <2>2. e \in Held(t) \/ Cardinality(Newer(t, e)) >= QueueCap
    BY <1>1, <1>3, <2>1 DEF InvOf, NewestKeptOf, GoesOn, Runs, Held, Newer
  <2>. QED
    BY <2>1, <2>2 DEF GoesOn, Newer
<1>. QED
  BY <1>2, <1>4, <1>5, OneTask DEF InvOf, GoesOn

-----------------------------------------------------------------------------
(* What a step is to the LossyChannel *)

Holding(t) == EventsIn(cmds[t]) \cup Range(queue[t])

ChannelStep == [Channel!Next]_(Channel!vars)

\* What it holds are numbers.
LEMMA HoldingNumbers ==
    ASSUME TypeOK, NEW t \in Tasks, InvOf(t)
    PROVE  Holding(t) \subseteq Nat
<1>1. Holding(t) = Waiting(t) \cup Range(queue[t])
  BY DEF Holding, EventsIn, Waiting
<1>2. Holding(t) \subseteq accepted[t]
  BY <1>1 DEF InvOf, AccountedOf
<1>3. accepted[t] \subseteq Nat
  BY DEF TypeOK, Events
<1>. QED
  BY <1>2, <1>3

\* The channel's line of a task is what it holds, and what it sent.
LEMMA LinesOnly ==
    ASSUME TypeOK, TypeOK', NEW t \in Tasks, OnlyTask(t)
    PROVE  /\ Pending = [u \in Tasks |-> Holding(u)]
           /\ Pending' = [Pending EXCEPT ![t] = Holding(t)']
           /\ sent' = [sent EXCEPT ![t] = sent'[t]]
<1>1. Pending = [u \in Tasks |-> Holding(u)]
  BY DEF Pending, Waiting, Holding, EventsIn
<1>2. Pending' = [u \in Tasks |-> EventsIn(cmds'[u]) \cup Range(queue'[u])]
  BY DEF Pending, Waiting, EventsIn
<1>3. \A u \in Tasks \ {t} : EventsIn(cmds'[u]) \cup Range(queue'[u]) = Holding(u)
  BY DEF OnlyTask, SameTask, Holding
<1>4. sent' = [sent EXCEPT ![t] = sent'[t]]
  BY DEF OnlyTask, SameTask, TypeOK
<1>. QED
  BY <1>1, <1>2, <1>3, <1>4 DEF Holding

\* Nothing comes, nothing goes.
LEMMA IsStutter ==
    ASSUME TypeOK, TypeOK', NEW t \in Tasks, OnlyTask(t),
           Holding(t)' = Holding(t), sent'[t] = sent[t]
    PROVE  ChannelStep
<1>1. Pending' = Pending
  BY LinesOnly
<1>2. sent' = sent
  <2>1. sent' = [sent EXCEPT ![t] = sent[t]]
    BY LinesOnly
  <2>2. sent \in [Tasks -> Seq(Events)]
    BY DEF TypeOK
  <2>. QED
    BY <2>1, <2>2
<1>. QED
  BY <1>1, <1>2 DEF ChannelStep, Channel!vars

\* The oldest is sent, or it is lost.
LEMMA IsDeparture ==
    ASSUME TypeOK, TypeOK', NEW t \in Tasks, OnlyTask(t),
           NEW m \in Holding(t), \A n \in Holding(t) : m <= n,
           Holding(t)' = Holding(t) \ {m},
           sent'[t] = Append(sent[t], m) \/ sent'[t] = sent[t]
    PROVE  ChannelStep
<1>1. /\ Pending[t] = Holding(t) /\ Pending' = [Pending EXCEPT ![t] = @ \ {m}]
      /\ sent' = [sent EXCEPT ![t] = sent'[t]]
  BY LinesOnly
<1>2. m \in Pending[t] /\ Channel!LeavesFirst(t, m)
  BY <1>1 DEF Channel!LeavesFirst
<1>3. CASE sent'[t] = Append(sent[t], m)
  BY <1>1, <1>2, <1>3 DEF ChannelStep, Channel!Next, Channel!Deliver
<1>4. CASE sent'[t] = sent[t]
  <2>1. sent \in [Tasks -> Seq(Events)]
    BY DEF TypeOK
  <2>2. sent' = sent
    BY <1>1, <1>4, <2>1
  <2>. QED
    BY <1>2, <2>2 DEF ChannelStep, Channel!Next, Channel!LoseOldest
<1>. QED
  BY <1>3, <1>4

-----------------------------------------------------------------------------
(* Each kind of step of a running task *)

\* A step that leaves channel, queue and socket alone.
LEMMA HoldsStill ==
    ASSUME IInv, TypeOK', NEW t \in Tasks, GoesOn(t),
           UNCHANGED <<cmds[t], queue[t], sent[t], lost[t], sub[t]>>,
           phase'[t] = "open" => queue[t] = <<>>,
           phase'[t] \in {"flush", "open"} => live'[t] = sub[t]
    PROVE  IInv' /\ ChannelStep
<1>1. InvOf(t)
  BY TaskByTask
<1>2. Held(t)' = Held(t)
  BY DEF Held
<1>3. InOrderOf(t)' /\ FilterOf(t)'
  BY <1>1 DEF InvOf, InOrderOf, FilterOf, GoesOn, pool
<1>4. ChannelStep
  BY TaskByTask, IsStutter DEF Holding, GoesOn
<1>. QED
  BY <1>2, <1>3, <1>4, TaskStep

\* The head of a channel leaves it: what is left of the order.
LEMMA TakenInOrder ==
    ASSUME TypeOK, NEW t \in Tasks, InOrderOf(t), TakesCmd(t)
    PROVE  /\ cmds[t] \in Seq(Commands) /\ Head(cmds[t]) \in Commands
           /\ cmds'[t] \in Seq(Commands)
           /\ EventsIn(cmds[t]) = EventOf(Head(cmds[t])) \cup EventsIn(cmds'[t])
           /\ EventsGrow(cmds'[t])
           /\ \A d \in Range(queue[t]), e \in EventsIn(cmds[t]) : d < e
           /\ \A d \in EventOf(Head(cmds[t])), e \in EventsIn(cmds'[t]) : d < e
<1>1. cmds[t] \in Seq(Commands) /\ cmds[t] # <<>> /\ cmds'[t] = Tail(cmds[t])
  BY DEF TypeOK, TakesCmd
<1>2. EventsGrow(cmds[t]) /\ Before(queue[t], cmds[t])
  BY DEF InOrderOf
<1>. QED
  BY <1>1, <1>2, TakePlaces, EventsTake, EventsGrowTake, BeforeAll DEF EventOf

\* A subscription is taken from the channel and becomes the task's.
LEMMA TakesFilter ==
    ASSUME IInv, TypeOK', NEW t \in Tasks, GoesOn(t), TakesCmd(t),
           Head(cmds[t]).kind = "subscribe", sub'[t] = Head(cmds[t]).filter,
           UNCHANGED <<queue[t], sent[t], lost[t]>>,
           phase'[t] = "open" => phase[t] = "open",
           phase'[t] \in {"flush", "open"} => live'[t] = sub'[t]
    PROVE  IInv' /\ ChannelStep
<1>1. TypeOK /\ InvOf(t)
  BY TaskByTask
<1>2. /\ cmds[t] \in Seq(Commands) /\ cmds[t] # <<>> /\ cmds'[t] = Tail(cmds[t])
      /\ Head(cmds[t]) = cmds[t][1] /\ 1 \in DOMAIN cmds[t] /\ Head(cmds[t]) \in Commands
      /\ Head(cmds[t]) = SubscribeCmd(sub'[t])
  BY <1>1, TakePlaces, CommandTypes DEF TakesCmd, TypeOK
<1>3. InOrderOf(t)'
  <2>1. \A e \in EventsIn(cmds'[t]) : e \in EventsIn(cmds[t])
    BY <1>1, TakenInOrder DEF InvOf
  <2>. QED
    BY <1>1, <2>1, TakenInOrder, BeforeAll DEF InvOf, InOrderOf
<1>4. Held(t)' = Held(t)
  BY <1>1, TakenInOrder DEF InvOf, EventOf, Held
<1>5. FilterOf(t)'
  <2>1. SUFFICES ASSUME t = listed
                 PROVE  \/ \E i \in DOMAIN cmds'[t] :
                              /\ cmds'[t][i] = SubscribeCmd(filter)
                              /\ \A j \in DOMAIN cmds'[t] : j > i => cmds'[t][j].kind # "subscribe"
                        \/ /\ \A j \in DOMAIN cmds'[t] : cmds'[t][j].kind # "subscribe"
                           /\ sub'[t] = filter
    BY DEF FilterOf, GoesOn, pool
  <2>2. PICK i \in DOMAIN cmds[t] :
            /\ cmds[t][i] = SubscribeCmd(filter)
            /\ \A j \in DOMAIN cmds[t] : j > i => cmds[t][j].kind # "subscribe"
    BY <1>1, <1>2, <2>1 DEF InvOf, FilterOf
  <2>3. \A j \in DOMAIN cmds'[t] :
            j \in Nat /\ j >= 1 /\ j + 1 \in DOMAIN cmds[t] /\ cmds'[t][j] = cmds[t][j + 1]
    BY <1>2, TakePlaces
  <2>4. CASE i = 1
    <3>1. sub'[t] = filter
      BY <1>2, <2>2, <2>4, CommandKinds
    <3>. QED
      BY <2>2, <2>3, <2>4, <3>1
  <2>5. CASE i # 1
    <3>1. i \in Nat /\ i - 1 \in DOMAIN cmds'[t] /\ cmds'[t][i - 1] = cmds[t][i]
      BY <1>2, <2>2, <2>5, TakePlaces
    <3>2. \A j \in DOMAIN cmds'[t] : j > i - 1 => cmds'[t][j].kind # "subscribe"
      BY <2>2, <2>3, <3>1
    <3>. QED
      BY <2>2, <3>1, <3>2
  <2>. QED
    BY <2>4, <2>5
<1>6. ChannelStep
  <2>1. Holding(t)' = Holding(t)
    BY <1>1, TakenInOrder DEF InvOf, EventOf, Holding
  <2>. QED
    BY <1>1, <2>1, IsStutter DEF GoesOn
<1>. QED
  BY <1>3, <1>4, <1>5, <1>6, TaskStep

\* The subscription is not concerned by the event a task takes.
LEMMA FilterStays ==
    ASSUME IInv, NEW t \in Tasks, GoesOn(t), TakesCmd(t),
           Head(cmds[t]).kind = "publish", sub'[t] = sub[t],
           phase'[t] \in {"flush", "open"} => live'[t] = sub'[t]
    PROVE  FilterOf(t)'
<1>1. TypeOK /\ InvOf(t)
  BY TaskByTask
<1>2. /\ cmds[t] \in Seq(Commands) /\ cmds[t] # <<>> /\ cmds'[t] = Tail(cmds[t])
      /\ cmds[t][1].kind # "subscribe" /\ 1 \in DOMAIN cmds[t]
  BY <1>1, TakePlaces DEF TakesCmd, TypeOK
<1>3. \A j \in DOMAIN cmds'[t] :
          j \in Nat /\ j >= 1 /\ j + 1 \in DOMAIN cmds[t] /\ cmds'[t][j] = cmds[t][j + 1]
  BY <1>2, TakePlaces
<1>4. SUFFICES ASSUME t = listed
               PROVE  \/ \E i \in DOMAIN cmds'[t] :
                            /\ cmds'[t][i] = SubscribeCmd(filter)
                            /\ \A j \in DOMAIN cmds'[t] : j > i => cmds'[t][j].kind # "subscribe"
                      \/ /\ \A j \in DOMAIN cmds'[t] : cmds'[t][j].kind # "subscribe"
                         /\ sub'[t] = filter
  BY DEF FilterOf, GoesOn, pool
<1>5. CASE \E i \in DOMAIN cmds[t] :
              /\ cmds[t][i] = SubscribeCmd(filter)
              /\ \A j \in DOMAIN cmds[t] : j > i => cmds[t][j].kind # "subscribe"
  <2>1. PICK i \in DOMAIN cmds[t] :
            /\ cmds[t][i] = SubscribeCmd(filter)
            /\ \A j \in DOMAIN cmds[t] : j > i => cmds[t][j].kind # "subscribe"
    BY <1>5
  <2>2. i # 1
    BY <1>2, <2>1, CommandKinds
  <2>3. i \in Nat /\ i - 1 \in DOMAIN cmds'[t] /\ cmds'[t][i - 1] = cmds[t][i]
    BY <1>2, <2>2, TakePlaces
  <2>4. \A j \in DOMAIN cmds'[t] : j > i - 1 => cmds'[t][j].kind # "subscribe"
    BY <1>3, <2>1, <2>3
  <2>. QED
    BY <2>1, <2>3, <2>4
<1>6. CASE (\A j \in DOMAIN cmds[t] : cmds[t][j].kind # "subscribe") /\ sub[t] = filter
  BY <1>3, <1>6
<1>. QED
  BY <1>1, <1>4, <1>5, <1>6 DEF InvOf, FilterOf

\* An event is taken from the channel and sent; only an open connection does that.
LEMMA SendsEvent ==
    ASSUME IInv, TypeOK', NEW t \in Tasks, GoesOn(t), TakesCmd(t),
           Head(cmds[t]).kind = "publish", phase[t] = "open",
           sent'[t] = Append(sent[t], Head(cmds[t]).event),
           UNCHANGED <<phase[t], queue[t], sub[t], live[t], lost[t]>>
    PROVE  IInv' /\ ChannelStep
<1>1. TypeOK /\ InvOf(t)
  BY TaskByTask
<1>2. Head(cmds[t]).event \in Events /\ sent[t] \in Seq(Events)
  BY <1>1, TakenInOrder, CommandTypes DEF InvOf, TypeOK
<1>3. Held(t)' = Held(t)
  <2>1. EventsIn(cmds[t]) = {Head(cmds[t]).event} \cup EventsIn(cmds'[t])
    BY <1>1, TakenInOrder DEF InvOf, EventOf
  <2>2. Range(sent'[t]) = Range(sent[t]) \cup {Head(cmds[t]).event}
    BY <1>2, RangePut
  <2>. QED
    BY <2>1, <2>2 DEF Held
<1>4. InOrderOf(t)'
  <2>1. \A e \in EventsIn(cmds'[t]) : e \in EventsIn(cmds[t])
    BY <1>1, TakenInOrder DEF InvOf
  <2>. QED
    BY <1>1, <2>1, TakenInOrder, BeforeAll DEF InvOf, InOrderOf
<1>5. FilterOf(t)'
  BY <1>1, FilterStays DEF InvOf, FilterOf
<1>6. ChannelStep
  <2>. DEFINE m == Head(cmds[t]).event
  <2>1. queue[t] = <<>> /\ queue'[t] = <<>> /\ Range(<<>>) = {}
    BY <1>1, Empty DEF InvOf, InOrderOf, Range
  <2>2. /\ EventsIn(cmds[t]) = {m} \cup EventsIn(cmds'[t])
        /\ \A n \in EventsIn(cmds'[t]) : m < n
    BY <1>1, TakenInOrder DEF InvOf, EventOf
  <2>3. \A n \in EventsIn(cmds'[t]) : n \in Nat
    BY <1>1, <2>2, HoldingNumbers DEF Holding
  <2>4. m \in Holding(t) /\ Holding(t)' = Holding(t) \ {m} /\ \A n \in Holding(t) : m <= n
    BY <1>2, <2>1, <2>2, <2>3 DEF Holding, Events
  <2>. QED
    BY <1>1, <2>4, IsDeparture DEF GoesOn
<1>. QED
  BY <1>3, <1>4, <1>5, <1>6, TaskStep

\* When a full queue takes one more, its oldest goes: as many newer stay.
LEMMA OldestGoes ==
    ASSUME NEW q \in Seq(Events), Grows(q), NEW e \in Events, \A d \in Range(q) : d < e,
           Len(q) <= QueueCap
    PROVE  /\ Grows(Bounded(q, e))
           /\ Range(Bounded(q, e)) \subseteq Range(q) \cup {e}
           /\ e \in Range(Bounded(q, e))
           /\ \A d \in Range(q) : d \notin Range(Bounded(q, e)) =>
                 /\ Len(q) = QueueCap /\ q # <<>> /\ d = Head(q)
                 /\ Len(Bounded(q, e)) = QueueCap
                 /\ \A n \in Range(Bounded(q, e)) : n > d
<1>1. CASE Len(q) < QueueCap
  <2>1. Bounded(q, e) = Append(q, e)
    BY <1>1 DEF Bounded
  <2>. QED
    BY <2>1, RangePut, GrowsPut
<1>2. CASE ~(Len(q) < QueueCap)
  <2>1. /\ Len(q) = QueueCap /\ q # <<>> /\ Bounded(q, e) = Append(Tail(q), e)
    BY <1>2, LenProperties, EmptySeq, RelayAssumption DEF Bounded
  <2>2. /\ Tail(q) \in Seq(Events) /\ Len(Tail(q)) = QueueCap - 1
        /\ Head(q) \in Events
    BY <2>1, HeadTailProperties
  <2>3. /\ Range(q) = {Head(q)} \cup Range(Tail(q))
        /\ Grows(Tail(q)) /\ \A n \in Range(Tail(q)) : Head(q) < n
    BY <2>1, RangeTake, GrowsTake
  <2>4. Range(Bounded(q, e)) = Range(Tail(q)) \cup {e} /\ Grows(Bounded(q, e))
    <3>1. \A d \in Range(Tail(q)) : d < e
      BY <2>3
    <3>. QED
      <4>1. Range(Append(Tail(q), e)) = Range(Tail(q)) \cup {e}
        BY <2>2, RangePut
      <4>2. Grows(Append(Tail(q), e))
        BY <2>2, <2>3, <3>1, GrowsPut
      <4>. QED
        BY <2>1, <4>1, <4>2
  <2>5. Len(Bounded(q, e)) = QueueCap
    BY <2>1, <2>2, AppendProperties, RelayAssumption
  <2>6. Head(q) < e /\ e \in Nat /\ \A n \in Range(Tail(q)) : n \in Nat
    <3>1. Range(Tail(q)) \in SUBSET Events
      BY <2>2, RangeOfSeq
    <3>. QED
      BY <2>3, <3>1 DEF Events
  <2>. QED
    BY <2>1, <2>2, <2>3, <2>4, <2>5, <2>6 DEF Events
<1>. QED
  BY <1>1, <1>2

\* So many are newer than it.
LEMMA QueueCounts ==
    ASSUME NEW q \in Seq(Events), Grows(q), NEW S \in SUBSET Events, Range(q) \subseteq S
    PROVE  Len(q) <= Cardinality(S)
<1>1. IsFiniteSet(S)
  <2>1. 1 \in Int /\ MaxEvents \in Int
    BY RelayAssumption
  <2>2. IsFiniteSet(Events)
    BY <2>1, FS_Interval DEF Events
  <2>. QED
    BY <2>2, FS_Subset
<1>2. Len(q) \in Nat /\ q \in [1..Len(q) -> Events]
  BY LenProperties
<1>3. q \in [1..Len(q) -> S]
  BY <1>2 DEF Range
<1>4. \A i, j \in 1..Len(q) : q[i] = q[j] => i = j
  <2>1. SUFFICES ASSUME NEW i \in 1..Len(q), NEW j \in 1..Len(q), i < j
                 PROVE  q[i] # q[j]
    BY <1>2
  <2>. QED
    BY <1>2, <2>1 DEF Grows, Events
<1>5. q \in Injection(1..Len(q), S)
  BY <1>3, <1>4 DEF Injection, IsInjective
<1>. QED
  BY <1>1, <1>2, <1>5, FS_Injection, FS_Interval

\* An event is taken from the channel and put into the queue.
LEMMA QueuesEvent ==
    ASSUME IInv, TypeOK', NEW t \in Tasks, GoesOn(t), TakesCmd(t),
           Head(cmds[t]).kind = "publish",
           queue'[t] = Bounded(queue[t], Head(cmds[t]).event),
           phase'[t] \notin {"flush", "open"},
           UNCHANGED <<sub[t], sent[t], lost[t]>>
    PROVE  IInv' /\ ChannelStep
<1>. DEFINE e == Head(cmds[t]).event
            q == queue[t]
<1>1. TypeOK /\ InvOf(t)
  BY TaskByTask
<1>2. /\ e \in Events /\ q \in Seq(Events) /\ Len(q) <= QueueCap
      /\ Bounded(q, e) \in Seq(Events)
  BY <1>1, TakenInOrder, CommandTypes, BoundedType DEF InvOf, TypeOK
<1>3. /\ EventsIn(cmds[t]) = {e} \cup EventsIn(cmds'[t])
      /\ EventsGrow(cmds'[t])
      /\ \A d \in Range(q) : d < e
      /\ \A d \in Range(q) \cup {e}, n \in EventsIn(cmds'[t]) : d < n
  BY <1>1, TakenInOrder DEF InvOf, EventOf
<1>4. Grows(q)
  BY <1>1 DEF InvOf, InOrderOf
<1>5. /\ Grows(Bounded(q, e))
      /\ Range(Bounded(q, e)) \subseteq Range(q) \cup {e}
      /\ e \in Range(Bounded(q, e))
      /\ \A d \in Range(q) : d \notin Range(Bounded(q, e)) =>
            /\ Len(Bounded(q, e)) = QueueCap /\ d = Head(q)
            /\ \A n \in Range(Bounded(q, e)) : n > d
  BY <1>2, <1>3, <1>4, OldestGoes
<1>6. InOrderOf(t)'
  <2>1. Before(Bounded(q, e), cmds'[t])
    BY <1>3, <1>5, BeforeAll
  <2>. QED
    BY <1>3, <1>5, <2>1 DEF InOrderOf
<1>7. FilterOf(t)'
  BY FilterStays
<1>8. Held(t)' \subseteq Held(t)
  BY <1>3, <1>5 DEF Held
<1>9. ASSUME NEW d \in Held(t), d \notin Held(t)'
      PROVE  Cardinality(Newer(t, d)) >= QueueCap
  <2>1. d \in Range(q) /\ d \notin Range(Bounded(q, e))
    BY <1>3, <1>5, <1>9 DEF Held
  <2>2. Range(Bounded(q, e)) \subseteq accepted[t]
    BY <1>1, <1>3, <1>5 DEF InvOf, AccountedOf, Waiting, EventsIn
  <2>3. Range(Bounded(q, e)) \subseteq Newer(t, d)
    BY <1>5, <2>1, <2>2 DEF Newer
  <2>4. Newer(t, d) \in SUBSET Events
    BY <1>1 DEF Newer, TypeOK
  <2>5. Len(Bounded(q, e)) <= Cardinality(Newer(t, d)) /\ Len(Bounded(q, e)) = QueueCap
    BY <1>2, <1>5, <2>1, <2>3, <2>4, QueueCounts
  <2>6. Cardinality(Newer(t, d)) \in Nat
    <3>1. 1 \in Int /\ MaxEvents \in Int
      BY RelayAssumption
    <3>. QED
      BY <2>4, <3>1, FS_Interval, FS_Subset, FS_CardinalityType DEF Events
  <2>. QED
    BY <2>5, <2>6, RelayAssumption
<1>10. ChannelStep
  <2>1. CASE Range(q) \subseteq Range(Bounded(q, e))
    <3>1. Holding(t)' = Holding(t)
      BY <1>3, <1>5, <2>1 DEF Holding
    <3>. QED
      BY <1>1, <3>1, IsStutter DEF GoesOn
  <2>2. CASE ~(Range(q) \subseteq Range(Bounded(q, e)))
    <3>1. PICK d \in Range(q) : d \notin Range(Bounded(q, e))
      BY <2>2
    <3>2. Range(q) \ {d} \subseteq Range(Bounded(q, e)) /\ \A n \in Range(Bounded(q, e)) : n > d
      BY <1>5, <3>1
    <3>3. d \in Nat /\ \A n \in Holding(t) : n \in Nat
      BY <1>1, <3>1, HoldingNumbers DEF Holding
    <3>4. \A n \in EventsIn(cmds[t]) : d < n
      BY <1>1, <3>1, TakenInOrder DEF InvOf
    <3>5. d \in Holding(t) /\ Holding(t)' = Holding(t) \ {d}
      BY <1>3, <1>5, <3>1, <3>2, <3>3, <3>4 DEF Holding
    <3>6. \A n \in Holding(t) : d <= n
      BY <3>1, <3>2, <3>3, <3>4 DEF Holding
    <3>. QED
      BY <1>1, <3>5, <3>6, IsDeparture DEF GoesOn
  <2>. QED
    BY <2>1, <2>2
<1>. QED
  BY <1>6, <1>7, <1>8, <1>9, <1>10, TaskStep

\* An event leaves the queue for the socket, or is lost to a broken one.
LEMMA FlushesEvent ==
    ASSUME IInv, TypeOK', NEW t \in Tasks, GoesOn(t),
           queue[t] # <<>>, queue'[t] = Tail(queue[t]),
           UNCHANGED <<cmds[t], sub[t]>>, phase'[t] # "open",
           phase'[t] = "flush" => phase[t] = "flush" /\ live'[t] = live[t],
           \/ sent'[t] = Append(sent[t], Head(queue[t])) /\ lost'[t] = lost[t]
           \/ lost'[t] = lost[t] \cup {Head(queue[t])} /\ sent'[t] = sent[t]
    PROVE  IInv' /\ ChannelStep
<1>1. TypeOK /\ InvOf(t)
  BY TaskByTask
<1>2. queue[t] \in Seq(Events) /\ sent[t] \in Seq(Events) /\ Head(queue[t]) \in Events
  BY <1>1, HeadTailProperties DEF TypeOK
<1>3. Range(queue[t]) = {Head(queue[t])} \cup Range(queue'[t])
  BY <1>2, RangeTake
<1>4. InOrderOf(t)'
  <2>1. Grows(queue'[t])
    BY <1>1, <1>2, GrowsTake DEF InvOf, InOrderOf
  <2>2. Before(queue'[t], cmds'[t])
    BY <1>1, <1>3, BeforeAll DEF InvOf, InOrderOf
  <2>. QED
    BY <1>1, <2>1, <2>2 DEF InvOf, InOrderOf
<1>5. FilterOf(t)'
  BY <1>1 DEF InvOf, FilterOf, GoesOn, pool
<1>6. ChannelStep
  <2>1. \A n \in Range(queue'[t]) \cup EventsIn(cmds[t]) : Head(queue[t]) < n
    BY <1>1, <1>2, <1>3, GrowsTake, BeforeAll DEF InvOf, InOrderOf
  <2>2. \A n \in Holding(t) : n \in Nat
    BY <1>1, HoldingNumbers
  <2>3. /\ Head(queue[t]) \in Holding(t) /\ Holding(t)' = Holding(t) \ {Head(queue[t])}
        /\ \A n \in Holding(t) : Head(queue[t]) <= n
    <3>1. Holding(t) = {Head(queue[t])} \cup Range(queue'[t]) \cup EventsIn(cmds[t])
      BY <1>3 DEF Holding
    <3>2. Holding(t)' = Range(queue'[t]) \cup EventsIn(cmds[t])
      BY DEF Holding
    <3>3. Head(queue[t]) \in Nat
      BY <2>2, <3>1
    <3>. QED
      BY <2>1, <2>2, <3>1, <3>2, <3>3
  <2>. QED
    BY <1>1, <2>3, IsDeparture DEF GoesOn
<1>7. CASE sent'[t] = Append(sent[t], Head(queue[t])) /\ lost'[t] = lost[t]
  <2>1. Range(sent'[t]) = Range(sent[t]) \cup {Head(queue[t])}
    BY <1>2, <1>7, RangePut
  <2>2. Held(t)' = Held(t)
    BY <1>3, <2>1 DEF Held
  <2>. QED
    BY <1>4, <1>5, <1>7, <1>6, <2>2, TaskStep
<1>8. CASE lost'[t] = lost[t] \cup {Head(queue[t])} /\ sent'[t] = sent[t]
  <2>1. Held(t)' \cup {Head(queue[t])} = Held(t)
    BY <1>3, <1>8 DEF Held
  <2>. QED
    BY <1>4, <1>5, <1>8, <1>6, <2>1, TaskStep
<1>. QED
  BY <1>7, <1>8
-----------------------------------------------------------------------------
(* Every step keeps the invariant *)

\* The task's own steps, but for the two by which it ends.
LEMMA GoesOnStep ==
    ASSUME IInv, TypeOK', NEW t \in Tasks,
           \/ OfflineCmd(t) \/ BeginConnect(t) \/ BackoffElapses(t) \/ ConnectFails(t)
           \/ Connects(t) \/ Resubscribe(t) \/ FlushOne(t) \/ Open(t) \/ LiveCmd(t) \/ Breaks(t)
    PROVE  IInv' /\ ChannelStep
<1>1. TypeOK /\ InvOf(t)
  BY TaskByTask
<1>2. CASE BeginConnect(t) \/ BackoffElapses(t) \/ ConnectFails(t) \/ Connects(t)
  <2>1. GoesOn(t) /\ UNCHANGED <<cmds[t], queue[t], sent[t], lost[t], sub[t]>>
    <3>1. CASE BeginConnect(t)
      BY <1>1, <3>1 DEF BeginConnect, GoesOn, OnlyTask, SameTask, InvOf, LifecycleOf, Runs,
         TypeOK, pool, local, link, seen
    <3>2. CASE BackoffElapses(t)
      BY <1>1, <3>2 DEF BackoffElapses, GoesOn, OnlyTask, SameTask, InvOf, LifecycleOf, Runs,
         TypeOK, pool, local, link, seen
    <3>3. CASE ConnectFails(t)
      BY <1>1, <3>3 DEF ConnectFails, GoesOn, OnlyTask, SameTask, InvOf, LifecycleOf, Runs,
         TypeOK, pool, local, link, seen
    <3>4. CASE Connects(t)
      BY <1>1, <3>4 DEF Connects, GoesOn, OnlyTask, SameTask, InvOf, LifecycleOf, Runs,
         TypeOK, pool, local, link, seen
    <3>. QED
      BY <1>2, <3>1, <3>2, <3>3, <3>4
  <2>2. phase'[t] \notin {"flush", "open"}
    BY <1>1, <1>2 DEF BeginConnect, BackoffElapses, ConnectFails, Connects, TypeOK
  <2>. QED
    BY <2>1, <2>2, HoldsStill
<1>3. CASE Resubscribe(t)
  <2>1. GoesOn(t) /\ UNCHANGED <<cmds[t], queue[t], sent[t], lost[t], sub[t]>>
    BY <1>1, <1>3 DEF Resubscribe, Resubscribed, Flushes, HangUp, GoesOn, OnlyTask, SameTask,
       InvOf, LifecycleOf, Runs, TypeOK, pool, local, seen
  <2>2. phase'[t] # "open" /\ (phase'[t] = "flush" => live'[t] = sub[t])
    BY <1>1, <1>3 DEF Resubscribe, Resubscribed, Flushes, HangUp, TypeOK
  <2>. QED
    BY <2>1, <2>2, HoldsStill
<1>4. CASE Open(t)
  <2>1. GoesOn(t) /\ UNCHANGED <<cmds[t], queue[t], sent[t], lost[t], sub[t]>>
    BY <1>1, <1>4 DEF Open, Flushed, GoesOn, OnlyTask, SameTask, InvOf, LifecycleOf, Runs,
       TypeOK, pool, local, link, seen
  <2>2. queue[t] = <<>> /\ live'[t] = sub[t]
    BY <1>1, <1>4 DEF Open, Flushed, link, InvOf, FilterOf
  <2>. QED
    BY <2>1, <2>2, HoldsStill
<1>5. CASE Breaks(t)
  <2>1. GoesOn(t) /\ UNCHANGED <<cmds[t], queue[t], sent[t], lost[t], sub[t]>>
    BY <1>1, <1>5 DEF Breaks, HangUp, GoesOn, OnlyTask, SameTask, InvOf, LifecycleOf, Runs,
       TypeOK, pool, local, seen
  <2>2. phase'[t] \notin {"flush", "open"}
    BY <1>1, <1>5 DEF Breaks, HangUp, TypeOK
  <2>. QED
    BY <2>1, <2>2, HoldsStill
<1>6. CASE FlushOne(t)
  <2>1. /\ phase[t] = "flush" /\ queue[t] # <<>> /\ queue'[t] = Tail(queue[t])
        /\ UNCHANGED <<cmds[t], sub[t]>>
    BY <1>1, <1>6 DEF FlushOne, Popped, TypeOK
  <2>2. CASE /\ sent' = [sent EXCEPT ![t] = Append(@, Head(queue[t]))]
             /\ UNCHANGED <<phase, connected, live, lost>>
    <3>1. GoesOn(t)
      BY <1>1, <1>6, <2>2 DEF FlushOne, Popped, GoesOn, OnlyTask, SameTask, InvOf, LifecycleOf,
         Runs, TypeOK, pool
    <3>2. sent'[t] = Append(sent[t], Head(queue[t])) /\ lost'[t] = lost[t]
      BY <1>1, <2>2 DEF TypeOK
    <3>. QED
      BY <2>1, <2>2, <3>1, <3>2, FlushesEvent
  <2>3. CASE /\ HangUp(t)
             /\ lost' = [lost EXCEPT ![t] = @ \cup {Head(queue[t])}]
             /\ UNCHANGED sent
    <3>1. GoesOn(t)
      BY <1>1, <1>6, <2>3 DEF FlushOne, Popped, HangUp, GoesOn, OnlyTask, SameTask, InvOf,
         LifecycleOf, Runs, TypeOK, pool
    <3>2. lost'[t] = lost[t] \cup {Head(queue[t])} /\ sent'[t] = sent[t] /\ phase'[t] = "backoff"
      BY <1>1, <2>3 DEF HangUp, TypeOK
    <3>. QED
      BY <2>1, <3>1, <3>2, FlushesEvent
  <2>. QED
    BY <1>6, <2>2, <2>3 DEF FlushOne
<1>7. ASSUME TakesCmd(t) PROVE Head(cmds[t]) \in Commands
  BY <1>1, <1>7, TakenInOrder DEF InvOf
<1>8. CASE OfflineCmd(t)
  <2>1. TakesCmd(t) /\ phase[t] \in {"offline", "backoff"} /\ phase'[t] = phase[t]
    BY <1>1, <1>8, CommandKinds DEF OfflineCmd, TakesCmd, TypeOK
  <2>2. GoesOn(t)
    BY <1>1, <1>8 DEF OfflineCmd, GoesOn, OnlyTask, SameTask, InvOf, LifecycleOf, Runs, TypeOK,
       pool, link, seen
  <2>3. CASE Head(cmds[t]).kind = "publish"
    <3>1. queue'[t] = Bounded(queue[t], Head(cmds[t]).event) /\ UNCHANGED <<sub[t], sent[t], lost[t]>>
      BY <1>1, <1>8, <2>3 DEF OfflineCmd, TypeOK, seen
    <3>. QED
      BY <2>1, <2>2, <2>3, <3>1, QueuesEvent
  <2>4. CASE Head(cmds[t]).kind = "subscribe"
    <3>1. sub'[t] = Head(cmds[t]).filter /\ UNCHANGED <<queue[t], sent[t], lost[t]>>
      BY <1>1, <1>8, <2>4 DEF OfflineCmd, TypeOK, seen
    <3>. QED
      BY <2>1, <2>2, <2>4, <3>1, TakesFilter
  <2>. QED
    BY <1>7, <1>8, <2>1, <2>3, <2>4, CommandTypes DEF OfflineCmd
<1>9. CASE LiveCmd(t)
  <2>1. /\ TakesCmd(t) /\ phase[t] = "open" /\ UNCHANGED <<pool, accepted, lost>>
        /\ cmds' = [cmds EXCEPT ![t] = Tail(@)]
    BY <1>1, <1>9, CommandKinds DEF LiveCmd, TakesCmd, TypeOK
  <2>2. CASE Head(cmds[t]).kind = "publish" /\ LivePublish(t, Head(cmds[t]).event) /\ UNCHANGED sub
    <3>1. CASE /\ sent' = [sent EXCEPT ![t] = Append(@, Head(cmds[t]).event)]
               /\ UNCHANGED <<phase, connected, live, queue>>
      <4>1. GoesOn(t)
        BY <1>1, <2>1, <2>2, <3>1 DEF GoesOn, OnlyTask, SameTask, InvOf, LifecycleOf, Runs, TypeOK
      <4>2. sent'[t] = Append(sent[t], Head(cmds[t]).event)
        BY <1>1, <3>1 DEF TypeOK
      <4>. QED
        BY <2>1, <2>2, <3>1, <4>1, <4>2, SendsEvent
    <3>2. CASE /\ HangUp(t)
               /\ queue' = [queue EXCEPT ![t] = Bounded(@, Head(cmds[t]).event)]
               /\ UNCHANGED sent
      <4>1. GoesOn(t)
        BY <1>1, <2>1, <2>2, <3>2 DEF HangUp, GoesOn, OnlyTask, SameTask, InvOf, LifecycleOf,
           Runs, TypeOK
      <4>2. queue'[t] = Bounded(queue[t], Head(cmds[t]).event) /\ phase'[t] = "backoff"
        BY <1>1, <3>2 DEF HangUp, TypeOK
      <4>. QED
        BY <2>1, <2>2, <3>2, <4>1, <4>2, QueuesEvent
    <3>. QED
      BY <2>2, <3>1, <3>2 DEF LivePublish
  <2>3. CASE /\ Head(cmds[t]).kind = "subscribe" /\ LiveSubscribe(t, Head(cmds[t]).filter)
             /\ UNCHANGED <<queue, sent>>
    <3>1. GoesOn(t)
      BY <1>1, <2>1, <2>3 DEF LiveSubscribe, HangUp, GoesOn, OnlyTask, SameTask, InvOf,
         LifecycleOf, Runs, TypeOK
    <3>2. sub'[t] = Head(cmds[t]).filter /\ (phase'[t] \in {"flush", "open"} => live'[t] = sub'[t])
      BY <1>1, <2>3 DEF LiveSubscribe, HangUp, TypeOK
    <3>. QED
      BY <2>1, <2>3, <3>1, <3>2, TakesFilter
  <2>. QED
    BY <1>9, <2>2, <2>3 DEF LiveCmd
<1>. QED
  BY <1>2, <1>3, <1>4, <1>5, <1>6, <1>8, <1>9

\* The task ends, told to: everything it held is gone.
LEMMA EndStep ==
    ASSUME IInv, TypeOK', NEW t \in Tasks, OfflineShutdown(t) \/ LiveShutdown(t)
    PROVE  IInv' /\ ChannelStep
<1>1. TypeOK /\ InvOf(t)
  BY TaskByTask
<1>2. Returns(t) /\ ShutsDown(t) /\ phase[t] \in {"offline", "backoff", "open"}
      /\ ~connected'[t] /\ (\A u \in Tasks \ {t} : connected'[u] = connected[u])
  BY <1>1 DEF OfflineShutdown, LiveShutdown, Disconnected, InvOf, LifecycleOf, TypeOK
<1>3. OnlyTask(t) /\ UNCHANGED pool
  BY <1>1, <1>2 DEF Returns, OnlyTask, SameTask, TypeOK
<1>4. /\ phase'[t] = "dead" /\ cmds'[t] = <<>> /\ queue'[t] = <<>> /\ sub'[t] = NoFilter
      /\ sent'[t] = <<>> /\ accepted'[t] = {}
  BY <1>1, <1>2 DEF Returns, TypeOK
<1>5. t # listed
  <2>1. 1 \in DOMAIN cmds[t] /\ cmds[t][1] = ShutdownCmd
    BY <1>1, <1>2, TakePlaces DEF ShutsDown, TypeOK
  <2>. QED
    BY <1>1, <2>1 DEF InvOf, LifecycleOf
<1>6. LifecycleOf(t)'
  BY <1>1, <1>2, <1>3, <1>4, <1>5 DEF InvOf, LifecycleOf, Runs, pool
<1>7. InOrderOf(t)' /\ AccountedOf(t)' /\ NewestKeptOf(t)' /\ FilterOf(t)'
  BY <1>3, <1>4, <1>5, Empty DEF InOrderOf, AccountedOf, NewestKeptOf, FilterOf, Grows, EventsGrow,
     Before, Waiting, Range, pool
<1>8. ChannelStep
  <2>1. Holding(t)' = {}
    BY <1>4, Empty DEF Holding, EventsIn, Range
  <2>2. Pending' = [Pending EXCEPT ![t] = {}] /\ sent' = [sent EXCEPT ![t] = <<>>]
    BY <1>1, <1>3, <1>4, <2>1, LinesOnly
  <2>. QED
    BY <2>2 DEF ChannelStep, Channel!Next, Channel!End
<1>. QED
  BY <1>3, <1>6, <1>7, <1>8, OneTask DEF InvOf

\* With more events accepted there are no fewer newer ones.
LEMMA NewerGrows ==
    ASSUME NEW S \in SUBSET Events, NEW T \in SUBSET Events, S \subseteq T, NEW e
    PROVE  Cardinality({n \in S : n > e}) >= QueueCap =>
               Cardinality({n \in T : n > e}) >= QueueCap
<1>1. 1 \in Int /\ MaxEvents \in Int
  BY RelayAssumption
<1>2. IsFiniteSet({n \in T : n > e})
  BY <1>1, FS_Interval, FS_Subset DEF Events
<1>3. {n \in S : n > e} \in SUBSET {n \in T : n > e}
  OBVIOUS
<1>4. IsFiniteSet({n \in S : n > e}) /\ Cardinality({n \in S : n > e}) <= Cardinality({n \in T : n > e})
  BY <1>2, <1>3, FS_Subset
<1>5. Cardinality({n \in S : n > e}) \in Nat /\ Cardinality({n \in T : n > e}) \in Nat
  BY <1>2, <1>4, FS_CardinalityType
<1>. QED
  BY <1>4, <1>5, RelayAssumption

\* A step of the pool changes the task it is about, and no other.
LEMMA PoolTask ==
    ASSUME IInv, TypeOK', NEW t \in Tasks, OnlyTask(t), InvOf(t)',
           published <= published', listed' <= tasks',
           \A u \in Tasks \ {t} : /\ u = listed' <=> u = listed
                                  /\ u > tasks' <=> u > tasks
                                  /\ u = listed => filter' = filter
    PROVE  IInv'
<1>1. ASSUME NEW u \in Tasks, u # t PROVE InvOf(u)'
  <2>1. TypeOK /\ InvOf(u) /\ SameTask(u) /\ published' \in Nat
    BY <1>1, TaskByTask DEF OnlyTask, TypeOK
  <2>. QED
    BY <1>1, <2>1, Untouched
<1>2. \A u \in Tasks : InvOf(u)'
  BY <1>1
<1>3. NewestKept'
  BY <1>2 DEF InvOf, NewestKept, NewestKeptOf
<1>. QED
  BY <1>2, <1>3 DEF IInv, InvOf, Lifecycle, InOrder, Accounted, FilterOnItsWay

\* What a command put into a running task's channel does to its part.
LEMMA PutStep ==
    ASSUME IInv, TypeOK', NEW t \in Tasks, NEW c \in Commands, Runs(t),
           cmds'[t] = Append(cmds[t], c),
           UNCHANGED <<phase[t], sub[t], queue[t], connected[t], live[t], sent[t], lost[t], tasks>>,
           published <= published',
           accepted'[t] = accepted[t] \cup EventOf(c),
           \A e \in EventOf(c) : e <= published' /\ \A d \in accepted[t] : d < e,
           t = listed' => c # ShutdownCmd /\ t = listed,
           t # listed' => c = ShutdownCmd,
           t = listed' /\ c.kind # "subscribe" => filter' = filter,
           t = listed' /\ c.kind = "subscribe" => c = SubscribeCmd(filter')
    PROVE  InvOf(t)'
<1>1. TypeOK /\ InvOf(t)
  BY TaskByTask
<1>2. cmds[t] \in Seq(Commands) /\ Waiting(t) = EventsIn(cmds[t]) /\ Waiting(t)' = EventsIn(cmds'[t])
  BY <1>1 DEF TypeOK, Waiting, EventsIn
<1>3. EventsIn(cmds'[t]) = EventsIn(cmds[t]) \cup EventOf(c)
  BY <1>2, EventsPut
<1>4. LifecycleOf(t)'
  <2>1. t = listed' => \A i \in DOMAIN cmds'[t] : cmds'[t][i] # ShutdownCmd
    BY <1>1, <1>2, PutPlaces DEF InvOf, LifecycleOf
  <2>2. t # listed' => \E i \in DOMAIN cmds'[t] : cmds'[t][i] = ShutdownCmd
    BY <1>2, PutPlaces
  <2>. QED
    BY <1>1, <2>1, <2>2 DEF InvOf, LifecycleOf, Runs
<1>5. AccountedOf(t)'
  <2>1. accepted[t] \subseteq Nat /\ published \in Nat /\ published' \in Nat
    BY <1>1 DEF TypeOK, Events
  <2>2. \A e \in accepted'[t] : e <= published'
    BY <1>1, <2>1 DEF InvOf, AccountedOf
  <2>. QED
    BY <1>1, <1>2, <1>3, <2>2 DEF InvOf, AccountedOf
<1>6. InOrderOf(t)'
  <2>1. \A d \in EventsIn(cmds[t]) \cup Range(queue[t]), e \in EventOf(c) : d < e
    BY <1>1, <1>2 DEF InvOf, AccountedOf
  <2>2. EventsGrow(cmds'[t])
    BY <1>1, <1>2, <2>1, EventsGrowPut DEF InvOf, InOrderOf
  <2>3. Before(queue[t], cmds'[t])
    BY <1>1, <1>3, <2>1, BeforeAll DEF InvOf, InOrderOf
  <2>. QED
    BY <1>1, <2>2, <2>3 DEF InvOf, InOrderOf
<1>7. NewestKeptOf(t)'
  <2>1. accepted[t] \in SUBSET Events /\ accepted'[t] \in SUBSET Events
    BY <1>1 DEF TypeOK
  <2>2. SUFFICES ASSUME phase[t] # "dead", NEW e \in accepted'[t] \ lost'[t],
                        e \notin EventsIn(cmds'[t]) \cup Range(queue[t]) \cup Range(sent[t])
                 PROVE  Cardinality({n \in accepted'[t] : n > e}) >= QueueCap
    BY <1>2 DEF NewestKeptOf
  <2>3. e \in accepted[t] \ lost[t] /\ e \notin Waiting(t) \cup Range(queue[t]) \cup Range(sent[t])
    BY <1>2, <1>3, <2>2
  <2>4. Cardinality({n \in accepted[t] : n > e}) >= QueueCap
    BY <1>1, <2>2, <2>3 DEF InvOf, NewestKeptOf
  <2>. QED
    BY <2>1, <2>4, NewerGrows
<1>8. FilterOf(t)'
  <2>1. ASSUME t = listed', c.kind = "subscribe"
        PROVE  \E i \in DOMAIN cmds'[t] :
                  /\ cmds'[t][i] = SubscribeCmd(filter')
                  /\ \A j \in DOMAIN cmds'[t] : j > i => cmds'[t][j].kind # "subscribe"
    <3>1. /\ Len(cmds[t]) + 1 \in DOMAIN cmds'[t] /\ cmds'[t][Len(cmds[t]) + 1] = c
          /\ \A j \in DOMAIN cmds'[t] : ~(j > Len(cmds[t]) + 1)
      BY <1>2, PutPlaces, LenProperties
    <3>. QED
      BY <2>1, <3>1
  <2>2. ASSUME t = listed', c.kind # "subscribe",
               NEW i \in DOMAIN cmds[t], cmds[t][i] = SubscribeCmd(filter),
               \A j \in DOMAIN cmds[t] : j > i => cmds[t][j].kind # "subscribe"
        PROVE  /\ i \in DOMAIN cmds'[t] /\ cmds'[t][i] = SubscribeCmd(filter')
               /\ \A j \in DOMAIN cmds'[t] : j > i => cmds'[t][j].kind # "subscribe"
    BY <1>2, <2>2, PutPlaces
  <2>3. ASSUME t = listed', c.kind # "subscribe",
               \A j \in DOMAIN cmds[t] : cmds[t][j].kind # "subscribe", sub[t] = filter
        PROVE  (\A j \in DOMAIN cmds'[t] : cmds'[t][j].kind # "subscribe") /\ sub'[t] = filter'
    BY <1>2, <2>3, PutPlaces
  <2>. QED
    BY <1>1, <2>1, <2>2, <2>3 DEF InvOf, FilterOf
<1>. QED
  BY <1>4, <1>5, <1>6, <1>7, <1>8 DEF InvOf

\* The pool's operations.
LEMMA PoolStep ==
    ASSUME IInv, TypeOK', Pool
    PROVE  IInv' /\ ChannelStep
<1>1. TypeOK /\ listed <= tasks /\ (\A u \in Tasks : InvOf(u))
  BY TaskByTask
<1>2. listed # 0 => listed \in Tasks
  BY <1>1, RelayAssumption DEF TypeOK, Tasks
<1>3. listed # 0 => Runs(listed)
  BY <1>1, <1>2 DEF InvOf, LifecycleOf
<1>4. CASE Publish
  <2>1. published' = published + 1 /\ published \in Nat /\ published' \in Events
    BY <1>1, <1>4, RelayAssumption DEF Publish, TypeOK, Events
  <2>2. CASE listed = 0
    <3>1. \A u \in Tasks : SameTask(u)
      BY <1>4, <2>2 DEF Publish, SameTask, local, link
    <3>2. \A u \in Tasks : InvOf(u)'
      BY <1>1, <1>4, <2>1, <3>1, Untouched DEF Publish
    <3>3. NewestKept'
      BY <3>2 DEF InvOf, NewestKept, NewestKeptOf
    <3>4. listed' <= tasks'
      BY <1>1, <1>4 DEF Publish
    <3>5. ChannelStep
      BY <1>4, <2>2 DEF Publish, local, ChannelStep, Channel!vars, Pending, Waiting
    <3>. QED
      BY <3>2, <3>3, <3>4, <3>5 DEF IInv, InvOf, Lifecycle, InOrder, Accounted, FilterOnItsWay
  <2>3. CASE listed # 0
    <3>. DEFINE c == PublishCmd(published + 1)
    <3>1. c \in Commands /\ c.kind = "publish" /\ c.event = published'
      BY <2>1, CommandTypes, CommandKinds
    <3>2. /\ cmds' = [cmds EXCEPT ![listed] = Append(@, c)]
          /\ accepted' = [accepted EXCEPT ![listed] = @ \cup {published'}]
          /\ UNCHANGED <<filter, listed, tasks, phase, local, link, sent, lost>>
      BY <1>4, <2>1, <2>3 DEF Publish, SendTo
    <3>3. OnlyTask(listed)
      BY <1>1, <3>2 DEF OnlyTask, SameTask, TypeOK, local, link
    <3>4. cmds'[listed] = Append(cmds[listed], c) /\ accepted'[listed] = accepted[listed] \cup EventOf(c)
      BY <1>1, <1>2, <2>3, <3>1, <3>2 DEF TypeOK, EventOf
    <3>5. \A e \in EventOf(c) : e <= published' /\ \A d \in accepted[listed] : d < e
      <4>1. \A d \in accepted[listed] : d \in Nat /\ d <= published
        BY <1>1, <1>2, <2>3 DEF InvOf, AccountedOf, TypeOK, Events
      <4>. QED
        BY <2>1, <3>1, <4>1 DEF EventOf
    <3>6. InvOf(listed)'
      <4>1. c # ShutdownCmd
        BY <3>1, CommandKinds
      <4>2. /\ UNCHANGED <<phase[listed], sub[listed], queue[listed], connected[listed],
                           live[listed], sent[listed], lost[listed], tasks>>
            /\ listed' = listed /\ filter' = filter /\ published <= published'
        BY <2>1, <3>2 DEF local, link
      <4>3. \A t \in Tasks : t = listed => InvOf(t)'
        BY <1>2, <1>3, <2>3, <3>1, <3>4, <3>5, <4>1, <4>2, PutStep
      <4>. QED
        BY <1>2, <2>3, <3>2, <4>3
    <3>7. ChannelStep
      <4>1. PICK t \in Tasks : t = listed
        BY <1>2, <2>3
      <4>2. cmds[t] \in Seq(Commands) /\ cmds'[t] = Append(cmds[t], c) /\ queue'[t] = queue[t]
        BY <1>1, <3>2, <3>4, <4>1 DEF TypeOK, local
      <4>3. Holding(t)' = Holding(t) \cup {published'}
        BY <3>1, <4>2, EventsPut DEF Holding, EventOf
      <4>4. /\ Pending[t] = Holding(t) /\ Pending' = [Pending EXCEPT ![t] = @ \cup {published'}]
            /\ sent' = sent
        BY <1>1, <3>2, <3>3, <4>1, <4>3, LinesOnly
      <4>5. \A n \in Pending[t] \cup Range(sent[t]) : n < published'
        <5>1. Holding(t) \cup Range(sent[t]) \subseteq accepted[t]
          BY <1>1 DEF InvOf, AccountedOf, Waiting, Holding, EventsIn
        <5>2. \A n \in accepted[t] : n \in Nat /\ n <= published
          BY <1>1 DEF InvOf, AccountedOf, TypeOK, Events
        <5>. QED
          BY <2>1, <4>4, <5>1, <5>2
      <4>6. Channel!Accept(t)
        <5>1. PICK m \in Events : m = published'
          BY <2>1
        <5>. QED
          BY <4>4, <4>5, <5>1 DEF Channel!Accept, Channel!Range, Range
      <4>. QED
        BY <4>6 DEF ChannelStep, Channel!Next
    <3>. QED
      BY <1>1, <1>2, <2>1, <2>3, <3>2, <3>3, <3>6, <3>7, PoolTask
  <2>. QED
    BY <2>2, <2>3
<1>5. ASSUME NEW f \in Filters \cup {NoFilter}, SetSubscription(f) PROVE IInv' /\ ChannelStep
  <2>1. /\ filter' = f /\ UNCHANGED <<listed, tasks, published, phase, local, link, seen>>
        /\ published \in Nat
    BY <1>1, <1>5, RelayAssumption DEF SetSubscription, TypeOK
  <2>2. CASE listed = 0
    <3>1. \A u \in Tasks : SameTask(u)
      BY <1>5, <2>2 DEF SetSubscription, SameTask, local, link, seen
    <3>2. \A u \in Tasks : u # listed
      BY <2>2, RelayAssumption DEF Tasks
    <3>3. \A u \in Tasks : InvOf(u)'
      BY <1>1, <2>1, <3>1, <3>2, Untouched
    <3>4. NewestKept'
      BY <3>3 DEF InvOf, NewestKept, NewestKeptOf
    <3>5. listed' <= tasks'
      BY <1>1, <2>1
    <3>6. ChannelStep
      BY <1>5, <2>1, <2>2
         DEF SetSubscription, local, seen, ChannelStep, Channel!vars, Pending, Waiting
    <3>. QED
      BY <3>3, <3>4, <3>5, <3>6 DEF IInv, InvOf, Lifecycle, InOrder, Accounted, FilterOnItsWay
  <2>3. CASE listed # 0
    <3>1. PICK t \in Tasks : t = listed
      BY <1>2, <2>3
    <3>. DEFINE c == SubscribeCmd(f)
    <3>2. c \in Commands /\ c.kind = "subscribe" /\ c # ShutdownCmd
      BY <1>5, CommandTypes, CommandKinds
    <3>3. cmds' = [cmds EXCEPT ![t] = Append(@, c)]
      BY <1>5, <2>3, <3>1 DEF SetSubscription, SendTo
    <3>4. OnlyTask(t)
      BY <1>1, <2>1, <3>3 DEF OnlyTask, SameTask, TypeOK, local, link, seen
    <3>5. /\ cmds'[t] = Append(cmds[t], c) /\ EventOf(c) = {}
          /\ accepted'[t] = accepted[t] \cup EventOf(c)
          /\ UNCHANGED <<phase[t], sub[t], queue[t], connected[t], live[t], sent[t], lost[t], tasks>>
      BY <1>1, <2>1, <3>2, <3>3 DEF TypeOK, EventOf, local, link, seen
    <3>6. InvOf(t)'
      BY <1>3, <2>1, <2>3, <3>1, <3>2, <3>5, PutStep
    <3>7. ChannelStep
      <4>1. cmds[t] \in Seq(Commands) /\ queue'[t] = queue[t] /\ sent'[t] = sent[t]
        BY <1>1, <2>1 DEF TypeOK, local, seen
      <4>2. Holding(t)' = Holding(t)
        BY <3>2, <3>5, <4>1, EventsPut DEF Holding
      <4>. QED
        BY <1>1, <3>4, <4>1, <4>2, IsStutter
    <3>. QED
      BY <1>1, <2>1, <3>1, <3>4, <3>6, <3>7, PoolTask
  <2>. QED
    BY <2>2, <2>3
<1>6. CASE RemoveRelay
  <2>1. /\ listed # 0 /\ listed' = 0 /\ cmds' = [cmds EXCEPT ![listed] = Append(@, ShutdownCmd)]
        /\ UNCHANGED <<filter, tasks, published, phase, local, link, seen>>
        /\ published \in Nat /\ tasks \in Nat
    BY <1>1, <1>6, RelayAssumption DEF RemoveRelay, SendTo, TypeOK
  <2>2. PICK t \in Tasks : t = listed
    BY <1>2, <2>1
  <2>3. \A u \in Tasks : u # listed'
    BY <2>1, RelayAssumption DEF Tasks
  <2>4. OnlyTask(t)
    BY <1>1, <2>1, <2>2 DEF OnlyTask, SameTask, TypeOK, local, link, seen
  <2>5. ShutdownCmd \in Commands /\ EventOf(ShutdownCmd) = {}
    BY CommandTypes, CommandKinds DEF EventOf
  <2>6. /\ cmds'[t] = Append(cmds[t], ShutdownCmd)
        /\ accepted'[t] = accepted[t] \cup EventOf(ShutdownCmd)
        /\ UNCHANGED <<phase[t], sub[t], queue[t], connected[t], live[t], sent[t], lost[t], tasks>>
    BY <1>1, <2>1, <2>2, <2>5 DEF TypeOK, local, link, seen
  <2>7. InvOf(t)'
    BY <1>3, <2>1, <2>2, <2>3, <2>5, <2>6, PutStep
  <2>8. ChannelStep
    <3>1. cmds[t] \in Seq(Commands) /\ queue'[t] = queue[t] /\ sent'[t] = sent[t]
      BY <1>1, <2>1 DEF TypeOK, local, seen
    <3>2. Holding(t)' = Holding(t)
      BY <2>5, <2>6, <3>1, EventsPut DEF Holding
    <3>. QED
      BY <1>1, <2>4, <3>1, <3>2, IsStutter
  <2>. QED
    BY <1>1, <2>1, <2>2, <2>3, <2>4, <2>7, <2>8, PoolTask
<1>7. CASE AddRelay
  <2>1. /\ listed = 0 /\ tasks \in Nat /\ tasks + 1 \in Tasks /\ listed' = tasks + 1 /\ tasks' = tasks + 1
        /\ cmds' = [cmds EXCEPT ![tasks + 1] = FirstCmds(filter)]
        /\ phase' = [phase EXCEPT ![tasks + 1] = "offline"]
        /\ UNCHANGED <<filter, published, local, link, seen>>
        /\ published \in Nat
    BY <1>1, <1>7, RelayAssumption DEF AddRelay, TypeOK, Tasks
  <2>2. PICK t \in Tasks : t = tasks + 1
    BY <2>1
  <2>3. OnlyTask(t)
    BY <1>1, <2>1, <2>2 DEF OnlyTask, SameTask, TypeOK, local, link, seen
  <2>4. /\ phase[t] = "none" /\ queue[t] = <<>> /\ sub[t] = NoFilter /\ accepted[t] = {}
        /\ sent[t] = <<>> /\ ~connected[t]
    BY <1>1, <2>1, <2>2 DEF InvOf, LifecycleOf, Runs
  <2>5. /\ cmds'[t] = FirstCmds(filter) /\ phase'[t] = "offline"
        /\ UNCHANGED <<queue[t], sub[t], accepted[t], sent[t], connected[t]>>
    BY <1>1, <2>1, <2>2 DEF TypeOK, local, link, seen
  <2>6. \/ filter = NoFilter /\ FirstCmds(filter) = <<>>
        \/ FirstCmds(filter) = <<SubscribeCmd(filter)>>
    BY DEF FirstCmds
  <2>7. \A i \in DOMAIN cmds'[t] : i = 1 /\ cmds'[t][i] = SubscribeCmd(filter)
    BY <2>5, <2>6, Empty
  <2>8. LifecycleOf(t)'
    BY <2>1, <2>2, <2>4, <2>5, <2>7, CommandKinds DEF LifecycleOf, Runs
  <2>9. InOrderOf(t)' /\ AccountedOf(t)' /\ NewestKeptOf(t)'
    BY <2>4, <2>5, <2>7, CommandKinds, Empty DEF InOrderOf, AccountedOf, NewestKeptOf, Grows,
       EventsGrow, Before, Waiting, Range
  <2>10. FilterOf(t)'
    <3>1. CASE filter = NoFilter /\ FirstCmds(filter) = <<>>
      BY <2>1, <2>4, <2>5, <3>1, Empty DEF FilterOf
    <3>2. CASE FirstCmds(filter) = <<SubscribeCmd(filter)>>
      <4>1. 1 \in DOMAIN cmds'[t] /\ cmds'[t][1] = SubscribeCmd(filter)
        BY <2>5, <3>2
      <4>. QED
        BY <2>1, <2>5, <2>7, <4>1 DEF FilterOf
    <3>. QED
      BY <2>6, <3>1, <3>2
  <2>11. \A u \in Tasks \ {t} : (u = listed' <=> u = listed) /\ (u > tasks' <=> u > tasks)
    BY <2>1, <2>2, RelayAssumption DEF Tasks
  <2>12. published <= published' /\ listed' <= tasks'
    BY <2>1
  <2>13. ChannelStep
    <3>1. cmds[t] = <<>>
      BY <1>1, <2>4 DEF InvOf, LifecycleOf, Runs
    <3>2. EventsIn(cmds'[t]) = {} /\ EventsIn(cmds[t]) = {}
      BY <2>7, <3>1, CommandKinds, Empty DEF EventsIn
    <3>3. Holding(t)' = Holding(t)
      BY <2>5, <3>2 DEF Holding
    <3>. QED
      BY <1>1, <2>3, <2>5, <3>3, IsStutter
  <2>. QED
    BY <2>1, <2>3, <2>8, <2>9, <2>10, <2>11, <2>12, <2>13, PoolTask DEF InvOf
<1>. QED
  BY <1>4, <1>5, <1>6, <1>7 DEF Pool

\* Init establishes the invariant, and is the channel's.
LEMMA InvInit == ASSUME Init PROVE IInv /\ Channel!Init
<1>1. TypeOK
  BY Empty, RelayAssumption DEF Init, TypeOK, Tasks, Phases
<1>2. Lifecycle
  BY Empty, RelayAssumption DEF Init, Lifecycle, LifecycleOf, Runs, Tasks
<1>3. InOrder
  BY Empty DEF Init, InOrder, InOrderOf, Grows, EventsGrow, Before
<1>4. Accounted /\ NewestKept
  BY Empty DEF Init, Accounted, AccountedOf, NewestKept, Waiting, Range
<1>5. FilterOnItsWay
  BY RelayAssumption DEF Init, FilterOnItsWay, FilterOf, Tasks
<1>6. Channel!Init
  <2>1. \A t \in Tasks : Waiting(t) \cup Range(queue[t]) = {}
    BY Empty DEF Init, Waiting, Range
  <2>. QED
    BY <2>1 DEF Init, Channel!Init, Pending
<1>. QED
  BY <1>1, <1>2, <1>3, <1>4, <1>5, <1>6 DEF IInv

\* Every step keeps it, and is a step of the channel.
LEMMA InvStep == ASSUME IInv, [Next]_vars PROVE IInv' /\ ChannelStep
<1>1. TypeOK'
  BY TypeStep DEF IInv
<1>2. CASE Pool
  BY <1>1, <1>2, PoolStep
<1>3. ASSUME NEW t \in Tasks, Step(t) \/ ConnectFails(t) \/ Connects(t) \/ Breaks(t)
      PROVE  IInv' /\ ChannelStep
  BY <1>1, <1>3, GoesOnStep, EndStep DEF Step
<1>4. CASE UNCHANGED vars
  <2>1. UNCHANGED <<cmds, queue, sent, phase, accepted, lost, sub, live, connected>> /\ UNCHANGED pool
    BY <1>4 DEF vars, local, link, seen
  <2>2. ChannelStep
    BY <2>1 DEF ChannelStep, Channel!vars, Pending, Waiting
  <2>3. \A u \in Tasks : InvOf(u)'
    <3>1. \A u \in Tasks : SameTask(u) /\ InvOf(u)
      BY <2>1, TaskByTask DEF SameTask
    <3>2. published' \in Nat /\ published <= published' /\ TypeOK
      BY <2>1, RelayAssumption DEF IInv, TypeOK, pool
    <3>. QED
      BY <2>1, <3>1, <3>2, Untouched DEF pool
  <2>4. NewestKept' /\ listed' <= tasks'
    BY <2>1, <2>3 DEF IInv, Lifecycle, InvOf, NewestKept, NewestKeptOf, pool
  <2>. QED
    BY <1>1, <2>2, <2>3, <2>4 DEF IInv, InvOf, Lifecycle, InOrder, Accounted, FilterOnItsWay
<1>. QED
  BY <1>2, <1>3, <1>4 DEF Next

\* What the properties take from it.
LEMMA InvGives == ASSUME IInv PROVE OnlyListedRuns /\ SubscriptionCurrent
<1>1. TypeOK /\ Lifecycle /\ FilterOnItsWay
  BY DEF IInv
<1>2. OnlyListedRuns
  BY <1>1 DEF Lifecycle, LifecycleOf, Runs, OnlyListedRuns
<1>3. SubscriptionCurrent
  BY <1>1, Empty DEF FilterOnItsWay, FilterOf, SubscriptionCurrent
<1>. QED
  BY <1>2, <1>3

(* Every reachable state satisfies the inductive invariant. *)
LEMMA Inductive == Spec => []IInv
<1>1. Init => IInv
  BY InvInit
<1>2. IInv /\ [Next]_vars => IInv'
  BY InvStep
<1>. QED
  BY <1>1, <1>2, PTL DEF Spec

(***************************************************************************)
(* The variables of every relay task stay within their types, and a        *)
(* queue within its capacity.                                              *)
(***************************************************************************)
THEOREM TypeCorrect == Spec => []TypeOK
<1>1. IInv => TypeOK
  BY DEF IInv
<1>. QED
  BY <1>1, Inductive, PTL

(***************************************************************************)
(* Of the tasks ever started for a relay, whatever was removed, added      *)
(* again or cut off, all but the listed one are gone or have their         *)
(* Shutdown waiting, and "connected" says what the connection is.          *)
(***************************************************************************)
THEOREM ListedRuns == Spec => []OnlyListedRuns
<1>1. IInv => OnlyListedRuns
  BY InvGives
<1>. QED
  BY <1>1, Inductive, PTL

(***************************************************************************)
(* A listed relay that is connected and caught up with its commands has    *)
(* the engine's newest subscription.                                       *)
(***************************************************************************)
THEOREM Subscribed == Spec => []SubscriptionCurrent
<1>1. IInv => SubscriptionCurrent
  BY InvGives
<1>. QED
  BY <1>1, Inductive, PTL

(***************************************************************************)
(* For a queue of any capacity: an accepted event that is neither held nor *)
(* sent was lost in a failed flush, or pushed out by a queue's worth of    *)
(* newer ones.                                                             *)
(***************************************************************************)
THEOREM NewestStay == Spec => []NewestKept
<1>1. IInv => NewestKept
  BY DEF IInv
<1>. QED
  BY <1>1, Inductive, PTL

(***************************************************************************)
(* Each relay task is a line of the LossyChannel: in order, at most once,  *)
(* and losing only the oldest.                                             *)
(***************************************************************************)
THEOREM Refines == Spec => ImplementsChannel
<1>1. Init => Channel!Init
  BY InvInit
<1>2. IInv /\ [Next]_vars => [Channel!Next]_(Channel!vars)
  BY InvStep DEF ChannelStep
<1>. QED
  BY <1>1, <1>2, Inductive, PTL DEF Spec, ImplementsChannel, Channel!Spec
-----------------------------------------------------------------------------
(* What the abstraction promises, and the tasks therefore keep *)

ChannelTyped ==
    Pending \in [Tasks -> SUBSET Events] /\ sent \in [Tasks -> Seq(Events)]

\* One line, from what it held and had handed over.
LineFifo(held, over) ==
    /\ \A i, j \in DOMAIN over : i < j => over[i] < over[j]
    /\ \A n \in Range(over), m \in held : n < m

\* Handing over the oldest held keeps the line in order.
LEMMA LineDelivers ==
    ASSUME NEW held \in SUBSET Events, NEW over \in Seq(Events), NEW m \in held,
           \A n \in held : m <= n, LineFifo(held, over)
    PROVE  LineFifo(held \ {m}, Append(over, m)) /\ Append(over, m) \in Seq(Events)
<1> DEFINE new == Append(over, m)
<1>0. Events \subseteq Nat
  BY RelayAssumption DEF Events
<1>1. m \in Events /\ m \in Nat /\ \A n \in held : n \in Nat
  BY <1>0
<1>10. Len(over) \in Nat /\ DOMAIN over = 1..Len(over) /\ \A i \in 1..Len(over) : over[i] \in Events
  OBVIOUS
<1>11. /\ new \in Seq(Events) /\ DOMAIN new = 1..(Len(over) + 1) /\ new[Len(over) + 1] = m
      /\ \A i \in 1..Len(over) : new[i] = over[i]
  BY <1>1
<1>2. /\ new \in Seq(Events) /\ Len(over) \in Nat /\ DOMAIN over = 1..Len(over)
      /\ DOMAIN new = 1..(Len(over) + 1) /\ new[Len(over) + 1] = m
      /\ \A i \in 1..Len(over) : new[i] = over[i] /\ over[i] \in Nat
  BY <1>0, <1>10, <1>11, Zenon
<1> HIDE DEF new
<1>3. \A i \in DOMAIN over : over[i] < m
  BY DEF LineFifo, Range
<1>4. ASSUME NEW i \in DOMAIN new, NEW j \in DOMAIN new, i < j  PROVE new[i] < new[j]
  <2>1. i \in 1..Len(over)
    BY <1>2, <1>4
  <2>2. CASE j = Len(over) + 1
    BY <1>2, <1>3, <2>1, <2>2
  <2>3. CASE j # Len(over) + 1
    <3>1. j \in 1..Len(over)
      BY <1>2, <2>3
    <3> QED  BY <1>2, <1>4, <2>1, <3>1 DEF LineFifo
  <2> QED  BY <2>2, <2>3
<1>5. ASSUME NEW n \in Range(new), NEW k \in held \ {m}  PROVE n < k
  <2>1. PICK i \in DOMAIN new : n = new[i]
    BY DEF Range
  <2>2. m < k
    BY <1>1
  <2>3. CASE i = Len(over) + 1
    BY <1>2, <2>1, <2>2, <2>3
  <2>4. CASE i # Len(over) + 1
    <3>1. i \in DOMAIN over /\ n = over[i]
      BY <1>2, <2>1, <2>4
    <3> QED  BY <3>1 DEF LineFifo, Range
  <2> QED  BY <2>3, <2>4
<1>6. LineFifo(held \ {m}, new)
  BY <1>4, <1>5 DEF LineFifo
<1> QED  BY <1>2, <1>6 DEF new

\* Nothing held, nothing handed over.
LEMMA ChannelStarts == Channel!Init => ChannelTyped /\ Channel!Fifo
BY DEF Channel!Init, ChannelTyped, Channel!Fifo, Range

\* Whatever a line of the channel does, it stays in order.
LEMMA ChannelKeeps ==
    ChannelTyped /\ Channel!Fifo /\ [Channel!Next]_(Channel!vars)
        => ChannelTyped' /\ (Channel!Fifo)'
<1> DEFINE Right(l) == LineFifo(Pending[l], sent[l])
<1>9. Channel!Fifo <=> \A l \in Tasks : Right(l)
  BY DEF Channel!Fifo, LineFifo, Range, Channel!Range
<1>10. (Channel!Fifo)' <=> \A l \in Tasks : Right(l)'
  BY DEF Channel!Fifo, LineFifo, Range, Channel!Range
<1>1. SUFFICES ASSUME ChannelTyped, \A l \in Tasks : Right(l), [Channel!Next]_(Channel!vars)
               PROVE  ChannelTyped' /\ \A l \in Tasks : Right(l)'
  BY <1>9, <1>10
<1>2. CASE UNCHANGED Channel!vars
  BY <1>1, <1>2 DEF Channel!vars, ChannelTyped
<1>3. ASSUME NEW l \in Tasks, NEW held \in SUBSET Events, NEW over \in Seq(Events),
             LineFifo(held, over),
             Pending' = [Pending EXCEPT ![l] = held], sent' = [sent EXCEPT ![l] = over]
      PROVE  ChannelTyped' /\ \A k \in Tasks : Right(k)'
  <2>1. ChannelTyped'
    BY <1>1, <1>3 DEF ChannelTyped
  <2>2. Pending'[l] = held /\ sent'[l] = over
    BY <1>1, <1>3 DEF ChannelTyped
  <2>3. \A k \in Tasks \ {l} : Pending'[k] = Pending[k] /\ sent'[k] = sent[k]
    BY <1>1, <1>3 DEF ChannelTyped
  <2> QED  BY <1>1, <1>3, <2>1, <2>2, <2>3
<1>4. ASSUME NEW l \in Tasks  PROVE
        /\ Pending[l] \in SUBSET Events /\ sent[l] \in Seq(Events)
        /\ LineFifo(Pending[l], sent[l])
        /\ sent = [sent EXCEPT ![l] = sent[l]]
  BY <1>1 DEF ChannelTyped
<1>5. ASSUME NEW l \in Tasks, Channel!Accept(l)  PROVE ChannelTyped' /\ \A k \in Tasks : Right(k)'
  <2>1. PICK m \in Events :
          /\ \A n \in Pending[l] \cup Range(sent[l]) : n < m
          /\ Pending' = [Pending EXCEPT ![l] = Pending[l] \cup {m}] /\ sent' = sent
    BY <1>5 DEF Channel!Accept, Range, Channel!Range
  <2>2. LineFifo(Pending[l] \cup {m}, sent[l])
    BY <1>4, <2>1 DEF LineFifo
  <2>3. Pending[l] \cup {m} \in SUBSET Events
    BY <1>4, <2>1
  <2>4. sent' = [sent EXCEPT ![l] = sent[l]]
    BY <1>4, <2>1
  <2> QED  BY <1>3, <1>4, <2>1, <2>2, <2>3, <2>4
<1>6. ASSUME NEW l \in Tasks, Channel!Deliver(l)  PROVE ChannelTyped' /\ \A k \in Tasks : Right(k)'
  <2>1. PICK m \in Pending[l] :
          /\ \A n \in Pending[l] : m <= n
          /\ Pending' = [Pending EXCEPT ![l] = Pending[l] \ {m}]
          /\ sent' = [sent EXCEPT ![l] = Append(sent[l], m)]
    BY <1>6 DEF Channel!Deliver, Channel!LeavesFirst
  <2>2. LineFifo(Pending[l] \ {m}, Append(sent[l], m)) /\ Append(sent[l], m) \in Seq(Events)
    BY <1>4, <2>1, LineDelivers
  <2> QED  BY <1>3, <1>4, <2>1, <2>2
<1>7. ASSUME NEW l \in Tasks, Channel!LoseOldest(l)  PROVE ChannelTyped' /\ \A k \in Tasks : Right(k)'
  <2>1. PICK m \in Pending[l] : Pending' = [Pending EXCEPT ![l] = Pending[l] \ {m}] /\ sent' = sent
    BY <1>7 DEF Channel!LoseOldest, Channel!LeavesFirst
  <2>2. LineFifo(Pending[l] \ {m}, sent[l])
    BY <1>4 DEF LineFifo
  <2> QED  BY <1>3, <1>4, <2>1, <2>2
<1>8. ASSUME NEW l \in Tasks, Channel!End(l)  PROVE ChannelTyped' /\ \A k \in Tasks : Right(k)'
  <2>1. Pending' = [Pending EXCEPT ![l] = {}] /\ sent' = [sent EXCEPT ![l] = <<>>]
    BY <1>8 DEF Channel!End
  <2>2. LineFifo({}, <<>>) /\ <<>> \in Seq(Events)
    BY DEF LineFifo
  <2> QED  BY <1>3, <2>1, <2>2
<1> QED
  BY <1>1, <1>2, <1>5, <1>6, <1>7, <1>8 DEF Channel!Next

(***************************************************************************)
(* Every channel of the abstraction, and so every relay task through any   *)
(* failures, reconnects and removals, hands over in the order of           *)
(* publishing, nothing twice, and nothing that it still holds is older     *)
(* than what it has sent.                                                  *)
(***************************************************************************)
THEOREM SentInOrderOnce == Spec => []Channel!Fifo
<1>1. Channel!Spec => [](ChannelTyped /\ Channel!Fifo)
  BY ChannelStarts, ChannelKeeps, PTL DEF Channel!Spec
<1>2. Spec => Channel!Spec
  BY Refines DEF ImplementsChannel
<1> QED  BY <1>1, <1>2, PTL
=============================================================================
