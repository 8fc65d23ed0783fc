----------------------------- MODULE RelayTask -----------------------------
(***************************************************************************)
(* The connection to one relay (src/core/src/relay.rs): RelayPool's entry  *)
(* for its url and the relay_task behind it, which connects, resubscribes, *)
(* flushes the offline queue, pumps commands, and reconnects with backoff. *)
(*                                                                         *)
(* Removing the relay sends its task a Shutdown; adding it again starts a  *)
(* new task while the old one may still be winding down, so tasks are      *)
(* numbered and "listed" is the one in the pool's map (0: none).           *)
(*                                                                         *)
(* Any send on the socket may fail; a connection may break at any time.    *)
(* Events are numbered in the order the engine publishes them.             *)
(***************************************************************************)
EXTENDS Naturals, Sequences, FiniteSetsExt

CONSTANTS
    Filters,    \* subscription filters of the engine
    NoFilter,   \* no group held: no subscription
    QueueCap,   \* OFFLINE_QUEUE_CAP
    MaxTasks,   \* bound: how often the relay is added
    MaxEvents,  \* bound: events published
    MaxCmds     \* bound: subscription changes waiting for one task

ASSUME RelayAssumption ==
    /\ NoFilter \notin Filters
    /\ QueueCap \in Nat \ {0}
    /\ MaxTasks \in Nat /\ MaxEvents \in Nat /\ MaxCmds \in Nat

VARIABLES
    filter,     \* RelayPool::filter
    listed,     \* the task in RelayPool::relays
    tasks,      \* tasks started so far
    published,  \* events published so far
    cmds,       \* per task: its command channel
    phase,      \* per task: where relay_task stands
    sub, queue, \* per task: its locals
    connected,  \* per task: RelayHandle::connected
    live,       \* per task: the relay's view of our subscription
    (*********************************************************************)
    (* Observation only, while the task runs.                            *)
    (*********************************************************************)
    sent,       \* per task: events handed to the socket
    accepted,   \* per task: events put into its channel
    lost        \* per task: events whose send failed while flushing

pool  == <<filter, listed, tasks, published>>
local == <<sub, queue>>
link  == <<connected, live>>
seen  == <<sent, accepted, lost>>
vars  == <<pool, cmds, phase, local, link, seen>>

Tasks  == 1..MaxTasks
Events == 1..MaxEvents

Commands ==
    [kind: {"publish"}, event: Events]
    \cup [kind: {"subscribe"}, filter: Filters \cup {NoFilter}]
    \cup [kind: {"shutdown"}]

PublishCmd(e)   == [kind |-> "publish", event |-> e]
SubscribeCmd(f) == [kind |-> "subscribe", filter |-> f]
ShutdownCmd     == [kind |-> "shutdown"]

\* "offline": draining; "backoff": waiting; "resub", "flush": just connected.
Phases ==
    {"none", "offline", "connecting", "backoff", "resub", "flush", "open", "dead"}

-----------------------------------------------------------------------------
(* The pool, called by the engine *)

SendTo(t, c) == cmds' = [cmds EXCEPT ![t] = Append(@, c)]

Publish ==
    /\ published < MaxEvents
    /\ published' = published + 1
    /\ IF listed = 0 THEN UNCHANGED <<cmds, accepted>>
       ELSE /\ SendTo(listed, PublishCmd(published + 1))
            /\ accepted' = [accepted EXCEPT ![listed] = @ \cup {published + 1}]
    /\ UNCHANGED <<filter, listed, tasks, phase, local, link, sent, lost>>

SetSubscription(f) ==
    /\ listed # 0 => Len(cmds[listed]) < MaxCmds
    /\ filter' = f
    /\ IF listed = 0 THEN UNCHANGED cmds ELSE SendTo(listed, SubscribeCmd(f))
    /\ UNCHANGED <<listed, tasks, published, phase, local, link, seen>>

\* Mutant: a relay added later learns of the filter with its next change.
FirstCmdsNone(f) == <<>>

FirstCmds(f) == IF f = NoFilter THEN <<>> ELSE <<SubscribeCmd(f)>>

AddRelay ==
    /\ listed = 0 /\ tasks < MaxTasks
    /\ tasks' = tasks + 1 /\ listed' = tasks + 1
    /\ cmds' = [cmds EXCEPT ![tasks + 1] = FirstCmds(filter)]
    /\ phase' = [phase EXCEPT ![tasks + 1] = "offline"]
    /\ UNCHANGED <<filter, published, local, link, seen>>

RemoveRelay ==
    /\ listed # 0
    /\ SendTo(listed, ShutdownCmd)
    /\ listed' = 0
    /\ UNCHANGED <<filter, tasks, published, phase, local, link, seen>>

-----------------------------------------------------------------------------
(* Commands while disconnected: apply_offline_cmd *)

\* Mutant: a full queue refuses the new event.
BoundedRefusing(q, e) == IF Len(q) < QueueCap THEN Append(q, e) ELSE q

\* push_bounded: the oldest go.
Bounded(q, e) ==
    IF Len(q) < QueueCap THEN Append(q, e) ELSE Append(Tail(q), e)

OfflineCmd(t) ==
    LET c == Head(cmds[t]) IN
    /\ phase[t] \in {"offline", "backoff"} /\ cmds[t] # <<>>
    /\ c.kind # "shutdown"
    /\ cmds' = [cmds EXCEPT ![t] = Tail(@)]
    /\ queue' = IF c.kind = "publish" THEN [queue EXCEPT ![t] = Bounded(@, c.event)]
                                      ELSE queue
    /\ sub' = IF c.kind = "subscribe" THEN [sub EXCEPT ![t] = c.filter] ELSE sub
    /\ UNCHANGED <<pool, phase, link, seen>>

\* The task returns: its locals, its channel and its socket are gone.
Returns(t) ==
    /\ phase' = [phase EXCEPT ![t] = "dead"]
    /\ cmds' = [cmds EXCEPT ![t] = <<>>]
    /\ queue' = [queue EXCEPT ![t] = <<>>]
    /\ sub' = [sub EXCEPT ![t] = NoFilter]
    /\ live' = [live EXCEPT ![t] = NoFilter]
    /\ sent' = [sent EXCEPT ![t] = <<>>]
    /\ accepted' = [accepted EXCEPT ![t] = {}]
    /\ lost' = [lost EXCEPT ![t] = {}]
    /\ UNCHANGED pool

\* Mutant: a task that is not connected skips its Shutdown.
ShutsDownOpen(t) ==
    phase[t] = "open" /\ cmds[t] # <<>> /\ Head(cmds[t]) = ShutdownCmd

ShutsDown(t) == cmds[t] # <<>> /\ Head(cmds[t]) = ShutdownCmd

OfflineShutdown(t) ==
    /\ phase[t] \in {"offline", "backoff"} /\ ShutsDown(t)
    /\ Returns(t)
    /\ UNCHANGED connected

BeginConnect(t) ==
    /\ phase[t] = "offline" /\ cmds[t] = <<>>
    /\ phase' = [phase EXCEPT ![t] = "connecting"]
    /\ UNCHANGED <<pool, cmds, local, link, seen>>

\* Refused, or timed out; commands wait meanwhile.
ConnectFails(t) ==
    /\ phase[t] = "connecting"
    /\ phase' = [phase EXCEPT ![t] = "backoff"]
    /\ UNCHANGED <<pool, cmds, local, link, seen>>

BackoffElapses(t) ==
    /\ phase[t] = "backoff"
    /\ phase' = [phase EXCEPT ![t] = "offline"]
    /\ UNCHANGED <<pool, cmds, local, link, seen>>

Connects(t) ==
    /\ phase[t] = "connecting"
    /\ phase' = [phase EXCEPT ![t] = "resub"]
    /\ connected' = [connected EXCEPT ![t] = TRUE]
    /\ UNCHANGED <<pool, cmds, local, live, seen>>

-----------------------------------------------------------------------------
(* Connected *)

\* The connection is given up: connected.store(false), then wait_backoff.
HangUp(t) ==
    /\ phase' = [phase EXCEPT ![t] = "backoff"]
    /\ connected' = [connected EXCEPT ![t] = FALSE]
    /\ live' = [live EXCEPT ![t] = NoFilter]

Flushes(t) == phase' = [phase EXCEPT ![t] = "flush"] /\ UNCHANGED connected

\* Mutant: the subscription is not renewed on a new connection.
NotResubscribed(t) ==
    /\ phase[t] = "resub"
    /\ Flushes(t)
    /\ UNCHANGED live

\* send_req, if there is a subscription.
Resubscribed(t) ==
    /\ phase[t] = "resub"
    /\ \/ Flushes(t) /\ live' = [live EXCEPT ![t] = sub[t]]
       \/ sub[t] # NoFilter /\ HangUp(t)

Resubscribe(t) ==
    /\ Resubscribed(t)
    /\ UNCHANGED <<pool, cmds, local, seen>>

\* Mutant: the event is sent but stays at the front of the queue.
Peeked(t) == UNCHANGED queue

Popped(t) == queue' = [queue EXCEPT ![t] = Tail(@)]

\* An event leaves the queue before it is sent: a failed send loses it.
FlushOne(t) ==
    /\ phase[t] = "flush" /\ queue[t] # <<>>
    /\ Popped(t)
    /\ \/ /\ sent' = [sent EXCEPT ![t] = Append(@, Head(queue[t]))]
          /\ UNCHANGED <<phase, connected, live, lost>>
       \/ /\ HangUp(t)
          /\ lost' = [lost EXCEPT ![t] = @ \cup {Head(queue[t])}]
          /\ UNCHANGED sent
    /\ UNCHANGED <<pool, cmds, sub, accepted>>

\* Mutant: the task listens for commands before the queue is empty.
FlushedEarly(t) == phase[t] = "flush"

Flushed(t) == phase[t] = "flush" /\ queue[t] = <<>>

Open(t) ==
    /\ Flushed(t)
    /\ phase' = [phase EXCEPT ![t] = "open"]
    /\ UNCHANGED <<pool, cmds, local, link, seen>>

LivePublish(t, e) ==
    \/ /\ sent' = [sent EXCEPT ![t] = Append(@, e)]
       /\ UNCHANGED <<phase, connected, live, queue>>
    \/ /\ HangUp(t)
       /\ queue' = [queue EXCEPT ![t] = Bounded(@, e)]
       /\ UNCHANGED sent

\* CLOSE if subscribed, then the new REQ, if any; either send may fail.
LiveSubscribe(t, f) ==
    /\ sub' = [sub EXCEPT ![t] = f]
    /\ \/ live' = [live EXCEPT ![t] = f] /\ UNCHANGED <<phase, connected>>
       \/ (sub[t] # NoFilter \/ f # NoFilter) /\ HangUp(t)

LiveCmd(t) ==
    LET c == Head(cmds[t]) IN
    /\ phase[t] = "open" /\ cmds[t] # <<>> /\ c.kind # "shutdown"
    /\ cmds' = [cmds EXCEPT ![t] = Tail(@)]
    /\ \/ c.kind = "publish" /\ LivePublish(t, c.event) /\ UNCHANGED sub
       \/ c.kind = "subscribe" /\ LiveSubscribe(t, c.filter) /\ UNCHANGED <<queue, sent>>
    /\ UNCHANGED <<pool, accepted, lost>>

\* Mutant: the task forgets to clear its connected flag when shut down.
ReturnsConnected(t) == Returns(t) /\ UNCHANGED connected

Disconnected(t) == Returns(t) /\ connected' = [connected EXCEPT ![t] = FALSE]

\* Close, then connected.store(false), then the task returns.
LiveShutdown(t) ==
    /\ phase[t] = "open" /\ ShutsDown(t)
    /\ Disconnected(t)

\* Closed by the relay, a read error, a failed ping, or nothing heard in time.
Breaks(t) ==
    /\ phase[t] = "open"
    /\ HangUp(t)
    /\ UNCHANGED <<pool, cmds, local, seen>>

-----------------------------------------------------------------------------

Init ==
    /\ filter = NoFilter /\ listed = 0 /\ tasks = 0 /\ published = 0
    /\ cmds = [t \in Tasks |-> <<>>]
    /\ phase = [t \in Tasks |-> "none"]
    /\ sub = [t \in Tasks |-> NoFilter]
    /\ queue = [t \in Tasks |-> <<>>]
    /\ connected = [t \in Tasks |-> FALSE]
    /\ live = [t \in Tasks |-> NoFilter]
    /\ sent = [t \in Tasks |-> <<>>]
    /\ accepted = [t \in Tasks |-> {}]
    /\ lost = [t \in Tasks |-> {}]

Pool ==
    \/ Publish \/ AddRelay \/ RemoveRelay
    \/ \E f \in Filters \cup {NoFilter} : SetSubscription(f)

\* What the task does of its own accord.
Step(t) ==
    \/ OfflineCmd(t) \/ OfflineShutdown(t) \/ BeginConnect(t) \/ BackoffElapses(t)
    \/ Resubscribe(t) \/ FlushOne(t) \/ Open(t) \/ LiveCmd(t)
    \/ LiveShutdown(t)

Next ==
    \/ Pool
    \/ \E t \in Tasks : Step(t) \/ ConnectFails(t) \/ Connects(t) \/ Breaks(t)

Spec == Init /\ [][Next]_vars

(***************************************************************************)
(* The runtime polls every task: it goes on when it can, a connection      *)
(* attempt ends within CONNECT_TIMEOUT, and wait_backoff ends by its       *)
(* deadline however many commands it serves.                               *)
(***************************************************************************)
Fairness ==
    \A t \in Tasks :
        /\ WF_vars(Step(t))
        /\ WF_vars(BackoffElapses(t))
        /\ WF_vars(ConnectFails(t) \/ Connects(t))

FairSpec == Spec /\ Fairness
-----------------------------------------------------------------------------
(* Properties *)

\* Every variable holds a value the code's types and caps allow.
TypeOK ==
    /\ filter \in Filters \cup {NoFilter}
    /\ listed \in 0..MaxTasks /\ tasks \in 0..MaxTasks /\ published \in 0..MaxEvents
    /\ cmds \in [Tasks -> Seq(Commands)]
    /\ phase \in [Tasks -> Phases]
    /\ sub \in [Tasks -> Filters \cup {NoFilter}]
    /\ queue \in [Tasks -> Seq(Events)]
    /\ \A t \in Tasks : Len(queue[t]) <= QueueCap
    /\ connected \in [Tasks -> BOOLEAN]
    /\ live \in [Tasks -> Filters \cup {NoFilter}]
    /\ sent \in [Tasks -> Seq(Events)]
    /\ accepted \in [Tasks -> SUBSET Events] /\ lost \in [Tasks -> SUBSET Events]

\* The events in a task's channel, and with those in its queue what it holds.
Waiting(t) == {cmds[t][i].event : i \in {i \in DOMAIN cmds[t] :
                                             cmds[t][i].kind = "publish"}}

Pending == [t \in Tasks |-> Waiting(t) \cup Range(queue[t])]

Channel == INSTANCE LossyChannel
    WITH Lines <- Tasks, Messages <- Events, pending <- Pending, delivered <- sent

(***************************************************************************)
(* Seen from the engine each task is one line of a LossyChannel: events    *)
(* reach the socket in the order they were published and none of them      *)
(* twice, and what is lost is always the oldest, through failed sends,     *)
(* reconnects and a full queue.  (relay.rs: relay_task; it rests on the    *)
(* queue being empty while the connection is open, so that a failed live   *)
(* publish put at its back is still ahead of every later event.)           *)
(***************************************************************************)
ImplementsChannel == Channel!Spec

(***************************************************************************)
(* An event a live task accepted is waiting, queued or sent, unless it was *)
(* lost in a failed flush, or at least a queue's worth of later events     *)
(* pushed it out.  (relay.rs: push_bounded, the failed live publish.)      *)
(***************************************************************************)
NewestKept ==
    \A t \in Tasks : phase[t] # "dead" =>
        \A e \in accepted[t] \ lost[t] :
            \/ e \in Waiting(t) \cup Range(queue[t]) \cup Range(sent[t])
            \/ Cardinality({n \in accepted[t] : n > e}) >= QueueCap

(***************************************************************************)
(* When the listed task is connected and has handled its commands, the     *)
(* relay holds exactly the pool's subscription, also right after the relay *)
(* was added, removed and added again, or reconnected.                     *)
(* (relay.rs: set_relays, set_subscription, relay_task.)                   *)
(***************************************************************************)
SubscriptionCurrent ==
    \A t \in Tasks :
        t = listed /\ phase[t] \in {"flush", "open"} /\ cmds[t] = <<>> =>
            live[t] = filter

(***************************************************************************)
(* Only a task that is connected says so, and at most the listed one goes  *)
(* on: a removed relay's task has its Shutdown ahead of it or is gone.     *)
(* (relay.rs: RelayHandle::connected, which fetch counts; set_relays.)     *)
(***************************************************************************)
OnlyListedRuns ==
    \A t \in Tasks :
        /\ connected[t] <=> phase[t] \in {"resub", "flush", "open"}
        /\ phase[t] \notin {"none", "dead"} /\ t # listed =>
               \E i \in DOMAIN cmds[t] : cmds[t][i] = ShutdownCmd

(***************************************************************************)
(* If a connection to a listed relay in the end holds, the queue empties   *)
(* and every event published is taken out of the channel.                  *)
(* (relay.rs: the flush on reconnect.)                                     *)
(***************************************************************************)
QueueDrains ==
    \A t \in Tasks :
        <>[](listed = t) /\ <>[](phase[t] \in {"resub", "flush", "open"}) =>
            <>[](queue[t] = <<>> /\ Waiting(t) = {})

(***************************************************************************)
(* A removed relay's task ends, in whatever phase of whatever connection   *)
(* its removal finds it, as long as a send in progress ends.               *)
(* (relay.rs: RelayCmd::Shutdown, handled in every phase.)                 *)
(***************************************************************************)
RemovedEnds ==
    \A t \in Tasks : (phase[t] # "none" /\ listed # t) ~> phase[t] = "dead"
=============================================================================
