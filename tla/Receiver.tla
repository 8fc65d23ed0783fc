------------------------------ MODULE Receiver ------------------------------
(***************************************************************************)
(* The receiving half of the engine (src/core/src/engine.rs, protocol.rs,  *)
(* dedup.rs): the replay window of processed event ids, the track display, *)
(* the one-shot alert notifications and the track history.                 *)
(*                                                                         *)
(* The broadcasts of every session (a sender in a group) are chosen once,  *)
(* in "log", oldest first; an event's id is its index there.  Relays keep  *)
(* them all and may deliver each of them at any time, in any order and any *)
(* number of times: every relay replays its stored events, newest first,   *)
(* to every new subscription.  The engine may stop and restart; only the   *)
(* processed ids are on disk.                                              *)
(*                                                                         *)
(* A position is known by the time of its fix, ts; 0 stands for none.      *)
(***************************************************************************)
EXTENDS Naturals, Sequences, FiniteSetsExt

CONSTANTS
    Sessions,     \* (sender, group) pairs
    Names,        \* what a sender may put into an ACTIVE's name
    NoName,       \* no name: a member of Names if senders may omit it
    MaxEvents,    \* bound: broadcasts of all sessions together
    Clock,        \* bound: created_at and ts lie in 1..Clock
    MaxStarts,    \* bound: how often the engine starts
    Capacity,     \* SEEN_CAPACITY
    MaxPoints,    \* MAX_POINTS_PER_SESSION
    Window,       \* HISTORY_WINDOW_SECS
    MaxSessions   \* MAX_HISTORY_SESSIONS

ASSUME ReceiverAssumption ==
    /\ MaxEvents \in Nat /\ MaxStarts \in Nat /\ Clock \in Nat \ {0}
    /\ Window \in Nat /\ Capacity \in Nat \ {0}
    /\ MaxPoints \in Nat \ {0} /\ MaxSessions \in Nat \ {0}
    /\ Names # {}

VARIABLES
    log,          \* what the senders broadcast, oldest first
    up, starts,   \* the engine runs; how often it has started
    seen, dirty,  \* Engine::seen (SeenIds::order), Engine::seen_dirty
    processed,    \* config.json: processed_ids
    tracks,       \* Engine::tracks
    history,      \* Engine::history
    (*********************************************************************)
    (* Observation only.                                                 *)
    (*********************************************************************)
    delivered,    \* ids delivered to this engine
    before,       \* ids delivered to the engines before it
    notified,     \* ids that raised a notification
    renotified,   \* ids that raised more than one
    forgotten,    \* ids that left the window: evicted, or lost in a crash
    recorded      \* ids recorded in a session's present history

window   == <<seen, dirty, processed>>
shown    == <<tracks, history>>
observed == <<delivered, before, notified, renotified, forgotten, recorded>>
life     == <<up, starts>>
vars     == <<log, life, window, shown, observed>>

Ids == 1..MaxEvents

-----------------------------------------------------------------------------
(* What the senders broadcast *)

\* A STOP carries neither a fix nor a name.  A sender broadcasts what its
\* platform hands it: a fix may be older than the one before it, and "at" is
\* the sender's clock, while "ts" is the positioning system's.
Event ==
    [of: Sessions, at: 1..Clock, kind: {"active", "alert"}, ts: 1..Clock,
     name: Names]
    \cup [of: Sessions, at: 1..Clock, kind: {"stop"}, ts: {0}, name: {NoName}]

\* Ids follow created_at.
Logs == {l \in [Ids -> Event] : \A i, j \in Ids : i < j => l[i].at <= l[j].at}

IsPoint(i) == log[i].kind # "stop"
IsAlert(i) == log[i].kind = "alert"

Track == [ev: Ids \cup {0}, last: 0..Clock, name: Names \cup {NoName}]

NoTrack == [ev |-> 0, last |-> 0, name |-> NoName]

Point == [ts: 1..Clock, at: 1..Clock]

History == [points: SUBSET Point, lastSeen: 0..Clock]

NoHistory == [points |-> {}, lastSeen |-> 0]

-----------------------------------------------------------------------------
(* SeenIds *)

WithId(order, id) ==
    IF Len(order) < Capacity THEN Append(order, id) ELSE Append(Tail(order), id)

Remembered(id) ==
    /\ seen' = WithId(seen, id)
    /\ dirty' = TRUE

-----------------------------------------------------------------------------
(* TrackHistory::insert and the global cap *)

PointOf(i) == [ts |-> log[i].ts, at |-> log[i].at]

\* Mutant: of two points with one ts the later to arrive is kept.
MergedByArrival(points, p) == {q \in points : q.ts # p.ts} \cup {p}

\* One point per ts: of two the one with the larger created_at.
Merged(points, p) ==
    IF \E q \in points : q.ts = p.ts /\ q.at >= p.at
    THEN points
    ELSE {q \in points : q.ts # p.ts} \cup {p}

InWindow(points) == {q \in points : \A n \in points : n.ts <= q.ts + Window}

Newest(points) ==
    {q \in points : Cardinality({n \in points : n.ts > q.ts}) < MaxPoints}

Inserted(h, p) ==
    [points   |-> Newest(InWindow(Merged(h.points, p))),
     lastSeen |-> IF p.at > h.lastSeen THEN p.at ELSE h.lastSeen]

Held(hs) == {s \in Sessions : hs[s].points # {}}

\* Sessions that may go: least recently updated, if there are too many.
Victims(hs) ==
    IF Cardinality(Held(hs)) <= MaxSessions THEN {}
    ELSE {v \in Held(hs) : \A s \in Held(hs) : hs[v].lastSeen <= hs[s].lastSeen}

RecordHistory(i) ==
    LET s    == log[i].of
        more == [history EXCEPT ![s] = Inserted(@, PointOf(i))]
        ids  == [recorded EXCEPT ![s] = @ \cup {i}]
    IN \/ IsPoint(i) /\ Victims(more) = {} /\ history' = more /\ recorded' = ids
       \/ \E v \in Victims(more) :
              /\ IsPoint(i)
              /\ history' = [more EXCEPT ![v] = NoHistory]
              /\ recorded' = [ids EXCEPT ![v] = {}]
       \/ ~IsPoint(i) /\ UNCHANGED <<history, recorded>>

-----------------------------------------------------------------------------
(* The track display *)

Shows(s) == tracks[s].ev # 0

\* Mutant: what arrives last is shown.
NeverOlder(i) == FALSE

Older(i) ==
    LET t == tracks[log[i].of] IN t.ev # 0 /\ log[i].at < log[t.ev].at

\* The fix a STOP inherits from the display before it.
RetainedFix(t) ==
    IF t.last # 0 THEN t.last ELSE IF t.ev = 0 THEN 0 ELSE log[t.ev].ts

Folded(t, i) ==
    IF IsPoint(i)
    THEN [ev |-> i, last |-> 0, name |-> log[i].name]
    ELSE [ev |-> i, last |-> RetainedFix(t), name |-> t.name]

\* Mutant: the first backfill is final.
BackfilledOnce(t, i) ==
    IF IsPoint(t.ev) THEN t
    ELSE [t EXCEPT !.last = IF @ = 0 THEN log[i].ts ELSE @,
                   !.name = IF @ = NoName THEN log[i].name ELSE @]

\* backfill_retained: only a STOP leans on what older events carry.
Backfilled(t, i) ==
    IF IsPoint(t.ev) THEN t
    ELSE [t EXCEPT !.last = IF log[i].ts > @ THEN log[i].ts ELSE @,
                   !.name = IF @ = NoName THEN log[i].name ELSE @]

\* Mutant: a sender nobody has seen yet is taken for one already alerting.
AlertEdgeOfKnown(i) ==
    LET t == tracks[log[i].of] IN IsAlert(i) /\ t.ev # 0 /\ ~IsAlert(t.ev)

AlertEdge(i) ==
    LET t == tracks[log[i].of] IN IsAlert(i) /\ (t.ev # 0 => ~IsAlert(t.ev))

\* Mutant: a replay notifies like a new event.
AnnouncesReplays(i, notify) == AlertEdge(i)

Announces(i, notify) == notify /\ AlertEdge(i)

Announce(i, notify) ==
    /\ notified' = IF Announces(i, notify) THEN notified \cup {i} ELSE notified
    /\ renotified' = IF Announces(i, notify) THEN renotified \cup ({i} \cap notified)
                                              ELSE renotified

ApplyIncoming(i, notify) ==
    /\ RecordHistory(i)
    /\ \/ /\ Older(i)
          /\ tracks' = [tracks EXCEPT ![log[i].of] = Backfilled(@, i)]
          /\ UNCHANGED <<notified, renotified>>
       \/ /\ ~Older(i)
          /\ tracks' = [tracks EXCEPT ![log[i].of] = Folded(@, i)]
          /\ Announce(i, notify)

-----------------------------------------------------------------------------
(* An event arrives from a relay *)

ReceiveNew(i) ==
    /\ up /\ i \notin Range(seen)
    /\ Remembered(i)
    /\ ApplyIncoming(i, TRUE)
    /\ delivered' = delivered \cup {i}
    /\ forgotten' = forgotten \cup (Range(seen) \ Range(seen'))
    /\ UNCHANGED <<log, life, processed, before>>

\* A processed event is folded again for display only.
Advances(i) ==
    LET t == tracks[log[i].of] IN t.ev # 0 => log[i].at > log[t.ev].at

ReceiveAgain(i) ==
    /\ up /\ i \in Range(seen)
    /\ \/ Advances(i) /\ ApplyIncoming(i, FALSE)
       \/ /\ ~Advances(i)
          /\ tracks' = [tracks EXCEPT ![log[i].of] = Backfilled(@, i)]
          /\ UNCHANGED <<history, notified, renotified, recorded>>
    /\ delivered' = delivered \cup {i}
    /\ UNCHANGED <<log, life, window, before, forgotten>>

-----------------------------------------------------------------------------
(* Saving the window, and the engine's life *)

\* The 60-second flush.
FlushSeen ==
    /\ up /\ dirty
    /\ processed' = seen
    /\ dirty' = FALSE
    /\ UNCHANGED <<log, life, seen, shown, observed>>

\* Any command that persists the configuration saves the ids with it.
Persist ==
    /\ up
    /\ processed' = seen
    /\ UNCHANGED <<log, life, seen, dirty, shown, observed>>

Start ==
    /\ ~up /\ starts < MaxStarts
    /\ up' = TRUE /\ starts' = starts + 1
    /\ seen' = processed
    /\ UNCHANGED <<log, dirty, processed, shown, observed>>

Gone ==
    /\ up' = FALSE
    /\ seen' = <<>> /\ dirty' = FALSE
    /\ tracks' = [s \in Sessions |-> NoTrack]
    /\ history' = [s \in Sessions |-> NoHistory]
    /\ recorded' = [s \in Sessions |-> {}]
    /\ delivered' = {}
    /\ before' = before \cup delivered
    /\ UNCHANGED <<log, starts, notified, renotified>>

\* The end of run(): a last flush.
Shutdown ==
    /\ up
    /\ processed' = IF dirty THEN seen ELSE processed
    /\ Gone
    /\ UNCHANGED forgotten

Crash ==
    /\ up
    /\ forgotten' = forgotten \cup (Range(seen) \ Range(processed))
    /\ Gone
    /\ UNCHANGED processed

-----------------------------------------------------------------------------

Init ==
    /\ log \in Logs
    /\ up = FALSE /\ starts = 0
    /\ seen = <<>> /\ dirty = FALSE /\ processed = <<>>
    /\ tracks = [s \in Sessions |-> NoTrack]
    /\ history = [s \in Sessions |-> NoHistory]
    /\ delivered = {} /\ before = {} /\ notified = {} /\ renotified = {}
    /\ forgotten = {} /\ recorded = [s \in Sessions |-> {}]

Next ==
    \/ \E i \in Ids : ReceiveNew(i) \/ ReceiveAgain(i)
    \/ FlushSeen \/ Persist \/ Start \/ Shutdown \/ Crash

Spec == Init /\ [][Next]_vars
-----------------------------------------------------------------------------
(* Properties *)

\* Every variable holds a value the code's types and caps allow.
TypeOK ==
    /\ log \in Logs
    /\ up \in BOOLEAN /\ starts \in 0..MaxStarts /\ dirty \in BOOLEAN
    /\ seen \in Seq(Ids) /\ Len(seen) <= Capacity
    /\ processed \in Seq(Ids) /\ Len(processed) <= Capacity
    /\ tracks \in [Sessions -> Track]
    /\ history \in [Sessions -> History]
    /\ delivered \subseteq Ids /\ before \subseteq Ids /\ forgotten \subseteq Ids
    /\ notified \subseteq Ids /\ renotified \subseteq notified
    /\ recorded \in [Sessions -> SUBSET Ids]

Delivered(s) == {i \in delivered : log[i].of = s}

(***************************************************************************)
(* Whatever the order of arrival, the display of a session is as new as    *)
(* the newest of its events that reached this engine, new or replayed.     *)
(* (engine.rs: apply_incoming's is_older guard, the duplicate path.)       *)
(***************************************************************************)
DisplayIsNewest ==
    \A s \in Sessions :
        /\ Shows(s) <=> Delivered(s) # {}
        /\ \A i \in Delivered(s) : log[i].at <= log[tracks[s].ev].at

(***************************************************************************)
(* A displayed STOP keeps one of the fixes that arrived, before or after   *)
(* it, and none older than that of the latest broadcast among them (one of *)
(* these, if several are of one second).  It is the newest fix of all, in  *)
(* whatever order the events arrived, if they were broadcast in the order  *)
(* of their fixes; if a sender's fixes ran backwards, which of them is     *)
(* kept depends on the order of arrival.  And the STOP keeps a name when   *)
(* every ACTIVE that arrived had one.  (engine.rs: apply_incoming's        *)
(* last_coords and last_name, backfill_retained.)                          *)
(***************************************************************************)
FixesInOrder(ids) ==
    \A i, j \in ids : log[i].at <= log[j].at => log[i].ts <= log[j].ts

KeepsFix(fix, points) ==
    /\ \E i \in points : fix = log[i].ts
    /\ \E i \in points : (\A j \in points : log[j].at <= log[i].at) /\ log[i].ts <= fix
    /\ FixesInOrder(points) => \A i \in points : log[i].ts <= fix

StopKeepsLastKnown ==
    \A s \in Sessions :
        LET points == {i \in Delivered(s) : IsPoint(i)} IN
        Shows(s) /\ ~IsPoint(tracks[s].ev) /\ points # {} =>
            /\ KeepsFix(tracks[s].last, points)
            /\ (\A i \in points : log[i].name # NoName) => tracks[s].name # NoName

(***************************************************************************)
(* A track shown as alerting was announced, or an engine before this one   *)
(* had already processed an alert of that session: no fresh alert comes up *)
(* in silence.  (engine.rs: apply_incoming, the no-alert -> alert edge.)   *)
(***************************************************************************)
AlertNotSilent ==
    \A s \in Sessions :
        Shows(s) /\ IsAlert(tracks[s].ev) =>
            \E i \in Delivered(s) : IsAlert(i) /\ i \in notified \cup before

(***************************************************************************)
(* An event notifies a second time only if its id had left the window: it  *)
(* was evicted, or a crash came before the flush.                          *)
(* (protocol.rs: process_incoming; engine.rs: the duplicate path.)         *)
(***************************************************************************)
RenotifiedOnlyForgotten == renotified \subseteq forgotten

(***************************************************************************)
(* A session's history is what sorting and pruning all its recorded events *)
(* at once would leave: per ts the latest broadcast, within the window of  *)
(* the newest, at most MaxPoints; and no more sessions than allowed.       *)
(* (engine.rs: TrackHistory::insert, prune_history_global.)                *)
(***************************************************************************)
LatestPoints(ids) ==
    {PointOf(i) : i \in {i \in ids : \A j \in ids :
                             log[j].ts = log[i].ts => log[j].at <= log[i].at}}

HistoryIsNewest ==
    /\ \A s \in Sessions :
           history[s].points = Newest(InWindow(LatestPoints(recorded[s])))
    /\ Cardinality(Held(history)) <= MaxSessions
=============================================================================
