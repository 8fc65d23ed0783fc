---------------------------- MODULE TrackExport ----------------------------
(***************************************************************************)
(* Exporting a track (src/core/src/engine.rs: export_track and what ends   *)
(* it): the engine asks every connected relay for the stored broadcasts of *)
(* one sender in one group, adds what arrives to the points it recorded    *)
(* live, and ships the track when all relays it reached are done, or when  *)
(* the export's time is up.                                                *)
(*                                                                         *)
(* All relays answer into one channel, in the order of their frames.  A    *)
(* relay that drops takes its open requests with it; a request that finds  *)
(* the relay gone is dropped too.  Relays may send stored broadcasts that  *)
(* were not asked for, and end each request's answer once.                 *)
(***************************************************************************)
EXTENDS Naturals, Sequences, FiniteSets

CONSTANTS
    Relays,
    Events,      \* broadcasts, by id
    Log,         \* per event: what it says, see LogAssumption
    Stored,      \* per relay: the broadcasts it keeps
    Targets,     \* tracks a user may export: [sender, group]
    MaxExports,  \* bound: exports started
    MaxInbox     \* bound: frames the engine has not yet handled

\* "ts" and "at" are the times of the fix and of the broadcast; a STOP, which
\* has no fix, has ts 0.  Two broadcasts of one fix in one second, of which an
\* export may keep either, are left out.
ASSUME LogAssumption ==
    /\ IsFiniteSet(Relays)
    /\ Targets # {} /\ \A g \in Targets : DOMAIN g = {"sender", "group"}
    /\ \A e \in Events : Log[e].ts \in Nat /\ Log[e].at \in Nat
    /\ \A e, f \in Events :
           Log[e].ts = Log[f].ts /\ Log[e].at = Log[f].at => e = f \/ Log[e].ts = 0
    /\ Stored \in [Relays -> SUBSET Events]
    /\ MaxExports \in Nat /\ MaxInbox \in Nat

VARIABLES
    held,        \* groups whose key the user holds
    history,     \* per target: the points recorded live
    connected,   \* per relay: RelayHandle::connected
    cmds,        \* per relay: Fetch commands in its channel
    asked,       \* per relay: request -> broadcasts it has still to send
    inbox,       \* PoolEvents for the engine, of all relays
    exports,     \* Engine::next_corr
    pending,     \* Engine::pending_exports
    (*********************************************************************)
    (* Observation only, per export.                                     *)
    (*********************************************************************)
    target,      \* what was asked for
    reached,     \* relays whose channel took the request
    answered,    \* relays whose answer ended in time
    files        \* what the user got: a sequence of tracks

links == <<connected, cmds, asked>>
noted == <<target, reached, answered>>
vars  == <<held, history, links, inbox, exports, pending, noted, files>>

Exports == 1..MaxExports
Groups  == UNION {Log[e].groups : e \in Events}

Found(c, e)  == [kind |-> "event", corr |-> c, event |-> e]
Ended(c, r)  == [kind |-> "eose", corr |-> c, relay |-> r]

-----------------------------------------------------------------------------
(* What a broadcast is to an export *)

\* HistPoint::from_incoming: a STOP carries no position.
HasPoint(e) == Log[e].ts # 0

\* backfill_filter: one author, one recipient.
Matches(e, g) == Log[e].sender = g.sender /\ g.group \in Log[e].groups

\* verify_and_decrypt with the keys of the target's group, if still held.
Opens(e, g) == g.group \in held /\ g.group \in Log[e].groups

\* Mutant: any of the user's groups opens it.
AcceptsAnyGroup(e, g) ==
    Log[e].groups \cap held # {} /\ Log[e].sender = g.sender /\ HasPoint(e)

\* on_fetch_event: it opens, it is the sender's, and it has a position.
Accepts(e, g) == Opens(e, g) /\ Log[e].sender = g.sender /\ HasPoint(e)

\* Mutant: of two broadcasts of one fix the earlier is shipped.
TrackEarliest(S) ==
    {e \in S : \A f \in S : Log[f].ts = Log[e].ts => Log[f].at >= Log[e].at}

\* One point per time of fix, the latest broadcast; sorted by that time.
Track(S) ==
    {e \in S : \A f \in S : Log[f].ts = Log[e].ts => Log[f].at <= Log[e].at}

-----------------------------------------------------------------------------
(* The engine *)

\* The exports S are removed and shipped (an empty track is a toast).
Finish(S) ==
    files' = [c \in Exports |->
        IF c \in S THEN Append(files[c], Track(pending[c].points)) ELSE files[c]]

Without(S) == [c \in DOMAIN pending \ S |-> pending[c]]

Reachable == {r \in Relays : connected[r]}

\* Mutant: relays that are not connected are waited for as well.
AwaitedAll == Cardinality(Relays)

Awaited == Cardinality(Reachable)

ExportTrack(g) ==
    LET c == exports + 1 IN
    /\ exports < MaxExports
    /\ exports' = c
    /\ cmds' = [r \in Relays |-> IF connected[r] THEN Append(cmds[r], c) ELSE cmds[r]]
    /\ target' = [target EXCEPT ![c] = g]
    /\ reached' = [reached EXCEPT ![c] = Reachable]
    /\ \/ /\ Awaited = 0
          /\ files' = [files EXCEPT ![c] = <<Track(history[g])>>]
          /\ UNCHANGED pending
       \/ /\ Awaited > 0
          /\ pending' = [x \in DOMAIN pending \cup {c} |->
                 IF x = c THEN [of |-> g, left |-> Awaited, points |-> history[g]]
                          ELSE pending[x]]
          /\ UNCHANGED files
    /\ UNCHANGED <<held, history, connected, asked, inbox, answered>>

FetchEvent(c, e) ==
    /\ IF c \in DOMAIN pending /\ Accepts(e, pending[c].of)
       THEN pending' = [pending EXCEPT ![c].points = @ \cup {e}]
       ELSE UNCHANGED pending
    /\ UNCHANGED <<answered, files>>

Completes(c) == pending[c].left <= 1

Removed(S) == pending' = Without(S)

FetchEose(c, r) ==
    \/ c \notin DOMAIN pending /\ UNCHANGED <<pending, answered, files>>
    \/ /\ c \in DOMAIN pending
       /\ answered' = [answered EXCEPT ![c] = @ \cup {r}]
       /\ IF Completes(c) THEN Finish({c}) /\ Removed({c})
          ELSE pending' = [pending EXCEPT ![c].left = @ - 1] /\ UNCHANGED files

OnPoolEvent ==
    /\ inbox # <<>>
    /\ inbox' = Tail(inbox)
    /\ LET ev == Head(inbox) IN
       \/ ev.kind = "event" /\ FetchEvent(ev.corr, ev.event)
       \/ ev.kind = "eose" /\ FetchEose(ev.corr, ev.relay)
    /\ UNCHANGED <<held, history, links, exports, target, reached>>

\* Mutant: only what no relay is still answering times out.
OverdueAnswered(c) == {x \in DOMAIN pending : x <= c /\ pending[x].left = 0}

\* Exports time out in the order they were asked for.
Overdue(c) == {x \in DOMAIN pending : x <= c}

\* on_tick.
Tick(c) ==
    /\ Overdue(c) # {}
    /\ Finish(Overdue(c))
    /\ Removed(Overdue(c))
    /\ UNCHANGED <<held, history, links, inbox, exports, noted>>

\* The groups of no target concern no export.
RemoveGroup(g) ==
    /\ g \in held /\ \E x \in Targets : x.group = g
    /\ held' = held \ {g}
    /\ UNCHANGED <<history, links, inbox, exports, pending, noted, files>>

-----------------------------------------------------------------------------
(* The relay tasks and their relays *)

engine == <<held, history, exports, pending, noted, files>>

NoRequest == [c \in {} |-> {}]

Drops(r) ==
    /\ connected' = [connected EXCEPT ![r] = FALSE]
    /\ asked' = [asked EXCEPT ![r] = NoRequest]

\* The offline task has emptied its channel before it connects again.
Connect(r) ==
    /\ ~connected[r] /\ cmds[r] = <<>>
    /\ connected' = [connected EXCEPT ![r] = TRUE]
    /\ UNCHANGED <<engine, cmds, asked, inbox>>

Disconnect(r) ==
    /\ connected[r]
    /\ Drops(r)
    /\ UNCHANGED <<engine, cmds, inbox>>

\* apply_offline_cmd: one-shot fetches are never queued.
OfflineFetch(r) ==
    /\ ~connected[r] /\ cmds[r] # <<>>
    /\ cmds' = [cmds EXCEPT ![r] = Tail(@)]
    /\ UNCHANGED <<engine, connected, asked, inbox>>

\* REQ on a subscription of its own; what the relay will answer with.
LiveFetch(r) ==
    LET c == Head(cmds[r])
        found == {e \in Stored[r] : Matches(e, target[c])} IN
    /\ connected[r] /\ cmds[r] # <<>>
    /\ cmds' = [cmds EXCEPT ![r] = Tail(@)]
    /\ \/ /\ \E extra \in SUBSET (Stored[r] \ found) :
                 asked' = [asked EXCEPT ![r] = [x \in DOMAIN @ \cup {c} |->
                     IF x = c THEN found \cup extra ELSE @[x]]]
          /\ UNCHANGED connected
       \/ Drops(r)
    /\ UNCHANGED <<engine, inbox>>

\* A stored broadcast arrives: routed by the request's id.
RelaySends(r, c, e) ==
    /\ c \in DOMAIN asked[r] /\ e \in asked[r][c] /\ Len(inbox) < MaxInbox
    /\ asked' = [asked EXCEPT ![r][c] = @ \ {e}]
    /\ inbox' = Append(inbox, Found(c, e))
    /\ UNCHANGED <<engine, connected, cmds>>

\* EOSE, upon which the task closes the request.
RelayEnds(r, c) ==
    /\ c \in DOMAIN asked[r] /\ asked[r][c] = {} /\ Len(inbox) < MaxInbox
    /\ asked' = [asked EXCEPT ![r] = [x \in DOMAIN @ \ {c} |-> @[x]]]
    /\ inbox' = Append(inbox, Ended(c, r))
    /\ UNCHANGED <<engine, connected, cmds>>

-----------------------------------------------------------------------------

Init ==
    /\ held = Groups
    /\ history \in [Targets -> SUBSET Events]
    /\ \A g \in Targets : \A e \in history[g] : Matches(e, g) /\ HasPoint(e)
    /\ \A g \in Targets : history[g] = Track(history[g])
    /\ connected = [r \in Relays |-> FALSE]
    /\ cmds = [r \in Relays |-> <<>>]
    /\ asked = [r \in Relays |-> NoRequest]
    /\ inbox = <<>>
    /\ exports = 0
    /\ pending = [c \in {} |-> {}]
    /\ target \in [Exports -> {CHOOSE g \in Targets : TRUE}]
    /\ reached = [c \in Exports |-> {}]
    /\ answered = [c \in Exports |-> {}]
    /\ files = [c \in Exports |-> <<>>]

Next ==
    \/ \E g \in Targets : ExportTrack(g)
    \/ OnPoolEvent
    \/ \E c \in Exports : Tick(c)
    \/ \E g \in Groups : RemoveGroup(g)
    \/ \E r \in Relays :
           \/ Connect(r) \/ Disconnect(r) \/ OfflineFetch(r) \/ LiveFetch(r)
           \/ \E c \in Exports :
                  RelayEnds(r, c) \/ \E e \in Events : RelaySends(r, c, e)

Spec == Init /\ [][Next]_vars

(***************************************************************************)
(* The tick comes every second, whatever the relays do: exports do not     *)
(* stay in the table until they are all overdue and never time out.        *)
(***************************************************************************)
FairSpec == Spec /\ WF_vars(Tick(MaxExports))
-----------------------------------------------------------------------------
(* Properties *)

Inbox ==
    [kind: {"event"}, corr: Exports, event: Events]
    \cup [kind: {"eose"}, corr: Exports, relay: Relays]

Pending == [of: Targets, left: 1..Cardinality(Relays), points: SUBSET Events]

\* Every variable has its type; only requests that were made are open.
TypeOK ==
    /\ held \subseteq Groups
    /\ history \in [Targets -> SUBSET Events]
    /\ connected \in [Relays -> BOOLEAN]
    /\ cmds \in [Relays -> Seq(Exports)]
    /\ DOMAIN asked = Relays
    /\ \A r \in Relays : \A c \in DOMAIN asked[r] :
           c \in 1..exports /\ asked[r][c] \subseteq Events
    /\ inbox \in Seq(Inbox)
    /\ exports \in 0..MaxExports
    /\ \A c \in DOMAIN pending : c \in 1..exports /\ pending[c] \in Pending
    /\ target \in [Exports -> Targets]
    /\ reached \in [Exports -> SUBSET Relays] /\ answered \in [Exports -> SUBSET Relays]
    /\ files \in [Exports -> Seq(SUBSET Events)]

Points(R, g) == UNION {{e \in Stored[r] : Matches(e, g) /\ HasPoint(e)} : r \in R}

Shipped == {c \in Exports : files[c] # <<>>}

(***************************************************************************)
(* A track holds, for each time of fix, the latest broadcast among those   *)
(* recorded live and all those the relays that answered in time hold; what *)
(* else it holds came from a relay that was asked, and is the sender's and *)
(* the group's.  A group that was removed meanwhile excuses what is        *)
(* missing, never what does not belong.                                    *)
(* (engine.rs: on_fetch_event, finish_export; the answer to one request    *)
(* cannot run into another's, and its end never overtakes its events.)     *)
(***************************************************************************)
Whole ==
    \A c \in Shipped :
        LET g    == target[c]
            most == history[g] \cup Points(reached[c], g)
            owed == history[g] \cup Points(answered[c], g)
        IN  /\ files[c][1] \subseteq most
            /\ g.group \in held => \E S \in SUBSET most : owed \subseteq S /\ files[c][1] = Track(S)

(***************************************************************************)
(* An export waits exactly for the relays it reached that have not ended   *)
(* their answer, dropped ones included, and ends with the last of them;    *)
(* the user gets one track per export, however its last answer and its     *)
(* timeout fall together.  (engine.rs: PendingExport::relays_pending,      *)
(* finish_export removes it first; relay.rs: fetch counts what it sent.)   *)
(***************************************************************************)
AwaitsReached ==
    \A c \in 1..exports :
        /\ Len(files[c]) <= 1
        /\ c \in Shipped => c \notin DOMAIN pending
        /\ c \in DOMAIN pending => pending[c].left = Cardinality(reached[c] \ answered[c])
        /\ reached[c] \subseteq answered[c] => c \in Shipped

(***************************************************************************)
(* Again and again no export is open: each of them ends, whichever relays  *)
(* drop, stall or never answer.  (engine.rs: on_tick, FETCH_TIMEOUT.)      *)
(***************************************************************************)
EveryExportEnds == []<>(DOMAIN pending = {})
=============================================================================
