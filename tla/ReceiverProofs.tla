--------------------------- MODULE ReceiverProofs ---------------------------
(***************************************************************************)
(* Proofs about module Receiver, for any senders, any broadcasts and any   *)
(* order in which the relays deliver and replay them.                      *)
(***************************************************************************)
EXTENDS Receiver, SequenceTheorems, FiniteSetTheorems, TLAPS

-----------------------------------------------------------------------------
(* The replay window *)

(* Remembering an id may forget the oldest one, and no other. *)
LEMMA Windowed ==
    ASSUME NEW order \in Seq(Ids), Len(order) <= Capacity, NEW id \in Ids
    PROVE  /\ WithId(order, id) \in Seq(Ids) /\ Len(WithId(order, id)) <= Capacity
           /\ id \in Range(WithId(order, id))
           /\ Range(WithId(order, id)) \subseteq Range(order) \cup {id}
<1>c. Capacity \in Nat \ {0}
  BY ReceiverAssumption
<1>a. ASSUME NEW q \in Seq(Ids)
      PROVE  /\ Append(q, id) \in Seq(Ids) /\ Len(Append(q, id)) = Len(q) + 1
             /\ id \in Range(Append(q, id))
             /\ Range(Append(q, id)) \subseteq Range(q) \cup {id}
  <2> DEFINE r == Append(q, id)
  <2>1. /\ r \in Seq(Ids) /\ Len(r) = Len(q) + 1 /\ Len(q) \in Nat
        /\ DOMAIN r = 1 .. Len(q) + 1 /\ DOMAIN q = 1 .. Len(q)
        /\ r[Len(q) + 1] = id /\ \A i \in 1 .. Len(q) : r[i] = q[i]
    OBVIOUS
  <2> HIDE DEF r
  <2>2. Len(q) + 1 \in DOMAIN r
    BY <2>1
  <2>3. \A i \in DOMAIN r : i = Len(q) + 1 \/ i \in DOMAIN q
    BY <2>1
  <2>4. id \in Range(r) /\ Range(r) \subseteq Range(q) \cup {id}
    BY <2>1, <2>2, <2>3 DEF Range
  <2> QED  BY <2>1, <2>4 DEF r
<1>1. CASE Len(order) < Capacity
  BY <1>1, <1>a, <1>c DEF WithId
<1>2. CASE ~(Len(order) < Capacity)
  <2> DEFINE q == Tail(order)
  <2>1. /\ q \in Seq(Ids) /\ Len(q) = Len(order) - 1 /\ Len(order) \in Nat \ {0}
        /\ DOMAIN q = 1 .. Len(order) - 1 /\ DOMAIN order = 1 .. Len(order)
        /\ \A i \in DOMAIN q : q[i] = order[i + 1]
    BY <1>2, <1>c
  <2>2. Range(q) \subseteq Range(order)
    <3>1. \A i \in DOMAIN q : i + 1 \in DOMAIN order
      BY <2>1
    <3> QED  BY <2>1, <3>1 DEF Range
  <2>3. WithId(order, id) = Append(q, id)
    BY <1>2 DEF WithId
  <2> HIDE DEF q
  <2> QED  BY <1>a, <1>c, <2>1, <2>2, <2>3
<1> QED  BY <1>1, <1>2

-----------------------------------------------------------------------------
(* What is shown, remembered and announced *)

(* The ids this engine or an earlier one had, and those it may notify of again. *)
Windows ==
    /\ up /\ ~dirty => processed = seen
    /\ ~up => ~dirty /\ delivered = {}
    /\ Range(seen) \cup Range(processed) \subseteq delivered \cup before
    /\ notified \subseteq forgotten \cup Range(IF up THEN seen ELSE processed)
    /\ RenotifiedOnlyForgotten

(* What a session shows is one of the events that reached this engine, the newest. *)
DisplayOf(s) ==
    /\ tracks[s].ev = 0 => Delivered(s) = {} /\ tracks[s].last = 0
    /\ tracks[s].ev # 0 =>
           /\ tracks[s].ev \in Delivered(s)
           /\ \A i \in Delivered(s) : log[i].at <= log[tracks[s].ev].at
           /\ IsPoint(tracks[s].ev) =>
                  tracks[s].last = 0 /\ tracks[s].name = log[tracks[s].ev].name

Displays == \A s \in Sessions : DisplayOf(s)

(* A fix kept for these points; without any there is none. *)
Keeps(fix, points) ==
    IF points = {} THEN fix = 0 ELSE KeepsFix(fix, points)

(* A displayed STOP carries what the events before and after it said. *)
RetainsOf(s) ==
    LET points == {i \in Delivered(s) : IsPoint(i)} IN
    Shows(s) /\ ~IsPoint(tracks[s].ev) =>
        /\ Keeps(tracks[s].last, points)
        /\ points # {} /\ (\A i \in points : log[i].name # NoName) =>
               tracks[s].name # NoName

Retains == \A s \in Sessions : RetainsOf(s)

ShownInv == TypeOK /\ Windows /\ Displays /\ AlertNotSilent /\ Retains

-----------------------------------------------------------------------------
(* Types *)

(* What a broadcast says. *)
LEMMA Broadcasts ==
    ASSUME log \in Logs, NEW i \in Ids
    PROVE  /\ log[i].of \in Sessions /\ log[i].at \in 1..Clock /\ log[i].ts \in 0..Clock
           /\ log[i].at \in Nat /\ log[i].ts \in Nat
           /\ log[i].name \in Names \cup {NoName}
           /\ IsPoint(i) => log[i].ts \in 1..Clock
           /\ ~IsPoint(i) => log[i].ts = 0 /\ log[i].name = NoName
           /\ IsAlert(i) => IsPoint(i)
           /\ \A j \in Ids : i < j => log[i].at <= log[j].at
<1>1. \A j \in Ids : log[j] \in Event
  BY DEF Logs
<1>3. /\ log[i].of \in Sessions /\ log[i].at \in 1..Clock /\ log[i].ts \in 0..Clock
      /\ log[i].name \in Names \cup {NoName}
      /\ IsPoint(i) => log[i].ts \in 1..Clock
      /\ ~IsPoint(i) => log[i].ts = 0 /\ log[i].name = NoName
      /\ IsAlert(i) => IsPoint(i)
  BY <1>1, ReceiverAssumption DEF Event, IsPoint, IsAlert
<1>4. \A j \in Ids : i < j => log[i].at <= log[j].at
  BY DEF Logs
<1> QED  BY <1>3, <1>4, ReceiverAssumption

LEMMA HistoryTyped ==
    ASSUME TypeOK, NEW i \in Ids, RecordHistory(i)
    PROVE  history' \in [Sessions -> History] /\ recorded' \in [Sessions -> SUBSET Ids]
<1> DEFINE s    == log[i].of
           more == [history EXCEPT ![s] = Inserted(@, PointOf(i))]
           ids  == [recorded EXCEPT ![s] = @ \cup {i}]
<1>1. log \in Logs /\ history \in [Sessions -> History] /\ recorded \in [Sessions -> SUBSET Ids]
  BY DEF TypeOK
<1>2. s \in Sessions /\ ids \in [Sessions -> SUBSET Ids]
  BY <1>1, Broadcasts
<1>3. IsPoint(i) => more \in [Sessions -> History]
  <2>1. SUFFICES ASSUME IsPoint(i)  PROVE Inserted(history[s], PointOf(i)) \in History
    BY <1>1, <1>2
  <2>2. PointOf(i) \in Point /\ PointOf(i).at \in 0..Clock
    BY <1>1, <2>1, Broadcasts, ReceiverAssumption DEF PointOf, Point
  <2>3. history[s].points \subseteq Point /\ history[s].lastSeen \in 0..Clock
    BY <1>1, <1>2 DEF History
  <2>4. Newest(InWindow(Merged(history[s].points, PointOf(i)))) \subseteq Point
    BY <2>2, <2>3 DEF Newest, InWindow, Merged
  <2> QED  BY <2>2, <2>3, <2>4 DEF Inserted, History
<1>4. NoHistory \in History
  BY ReceiverAssumption DEF NoHistory, History
<1>5. Victims(more) \subseteq Sessions
  BY DEF Victims, Held
<1> HIDE DEF more, ids
<1>6. \/ IsPoint(i) /\ history' = more /\ recorded' = ids
      \/ \E v \in Victims(more) : /\ IsPoint(i)
                                  /\ history' = [more EXCEPT ![v] = NoHistory]
                                  /\ recorded' = [ids EXCEPT ![v] = {}]
      \/ UNCHANGED <<history, recorded>>
  BY DEF RecordHistory, more, ids
<1> QED  BY <1>1, <1>2, <1>3, <1>4, <1>5, <1>6

LEMMA TypedInit ==
    ASSUME Init  PROVE TypeOK
<1>1. NoTrack \in Track /\ NoHistory \in History
  BY ReceiverAssumption DEF NoTrack, Track, NoHistory, History
<1>2. <<>> \in Seq(Ids) /\ Len(<<>>) = 0
  OBVIOUS
<1>3. seen \in Seq(Ids) /\ Len(seen) <= Capacity /\ processed \in Seq(Ids) /\ Len(processed) <= Capacity
  BY <1>2, ReceiverAssumption DEF Init
<1>4. /\ tracks \in [Sessions -> Track] /\ history \in [Sessions -> History]
      /\ recorded \in [Sessions -> SUBSET Ids]
  BY <1>1 DEF Init
<1>5. log \in Logs /\ up \in BOOLEAN /\ dirty \in BOOLEAN
  BY DEF Init
<1>6. starts \in 0..MaxStarts
  BY ReceiverAssumption DEF Init
<1>7. /\ delivered \subseteq Ids /\ before \subseteq Ids /\ forgotten \subseteq Ids
      /\ notified \subseteq Ids /\ renotified \subseteq notified
  BY DEF Init
<1> QED  BY <1>3, <1>4, <1>5, <1>6, <1>7 DEF TypeOK

(* A display that is folded or backfilled is one that can be shown. *)
LEMMA DisplayTyped ==
    ASSUME TypeOK, NEW i \in Ids, NEW t \in Track
    PROVE  Folded(t, i) \in Track /\ (t.ev # 0 => Backfilled(t, i) \in Track)
<1>1. log \in Logs
  BY DEF TypeOK
<1>2. /\ t.ev \in Ids \cup {0} /\ t.last \in 0..Clock /\ t.name \in Names \cup {NoName}
      /\ 0 \in 0..Clock
  BY ReceiverAssumption DEF Track
<1>3. log[i].ts \in 0..Clock /\ log[i].name \in Names \cup {NoName}
  BY <1>1, Broadcasts
<1>4. RetainedFix(t) \in 0..Clock
  BY <1>1, <1>2, Broadcasts DEF RetainedFix
<1> QED  BY <1>2, <1>3, <1>4 DEF Folded, Backfilled, Track

(* An event that arrives is folded, or it backfills what is shown. *)
LEMMA Arrives ==
    ASSUME TypeOK, NEW i \in Ids, ReceiveNew(i) \/ ReceiveAgain(i)
    PROVE  /\ i \in Ids /\ log' = log /\ delivered' = delivered \cup {i}
           /\ UNCHANGED <<up, starts, before, processed>>
           /\ \/ /\ ~Older(i)
                 /\ tracks' = [tracks EXCEPT ![log[i].of] = Folded(@, i)]
              \/ /\ tracks[log[i].of].ev # 0
                 /\ log[i].at <= log[tracks[log[i].of].ev].at
                 /\ tracks' = [tracks EXCEPT ![log[i].of] = Backfilled(@, i)]
<1>1. log \in Logs /\ log[i].of \in Sessions /\ tracks \in [Sessions -> Track]
  BY Broadcasts DEF TypeOK
<1>2. tracks[log[i].of].ev \in Ids \cup {0}
  BY <1>1 DEF Track
<1>3. log[i].at \in Nat /\ (tracks[log[i].of].ev # 0 => log[tracks[log[i].of].ev].at \in Nat)
  BY <1>1, <1>2, Broadcasts
<1>4. /\ log' = log /\ delivered' = delivered \cup {i}
      /\ UNCHANGED <<up, starts, before, processed>>
  BY DEF ReceiveNew, ReceiveAgain, life, window
<1>5. \/ ApplyIncoming(i, TRUE) \/ ApplyIncoming(i, FALSE)
      \/ ~Advances(i) /\ tracks' = [tracks EXCEPT ![log[i].of] = Backfilled(@, i)]
  BY DEF ReceiveNew, ReceiveAgain
<1>6. \A n \in BOOLEAN : ApplyIncoming(i, n) =>
          \/ ~Older(i) /\ tracks' = [tracks EXCEPT ![log[i].of] = Folded(@, i)]
          \/ Older(i) /\ tracks' = [tracks EXCEPT ![log[i].of] = Backfilled(@, i)]
  BY DEF ApplyIncoming
<1>7. Older(i) \/ ~Advances(i) =>
          tracks[log[i].of].ev # 0 /\ log[i].at <= log[tracks[log[i].of].ev].at
  BY <1>3 DEF Older, Advances
<1> QED  BY <1>4, <1>5, <1>6, <1>7

LEMMA TypedStep ==
    ASSUME TypeOK, [Next]_vars  PROVE TypeOK'
<1>t. /\ seen \in Seq(Ids) /\ Len(seen) <= Capacity
      /\ processed \in Seq(Ids) /\ Len(processed) <= Capacity
  BY DEF TypeOK
<1>1. ASSUME NEW i \in Ids, ReceiveNew(i) \/ ReceiveAgain(i)  PROVE TypeOK'
  <2> DEFINE s == log[i].of
  <2>1. /\ log \in Logs /\ s \in Sessions /\ tracks \in [Sessions -> Track]
    BY Broadcasts DEF TypeOK
  <2>2. tracks' \in [Sessions -> Track]
    <3>1. /\ Folded(tracks[s], i) \in Track
          /\ tracks[s].ev # 0 => Backfilled(tracks[s], i) \in Track
      BY <2>1, DisplayTyped
    <3> HIDE DEF s
    <3>2. \/ tracks' = [tracks EXCEPT ![s] = Folded(@, i)]
          \/ tracks[s].ev # 0 /\ tracks' = [tracks EXCEPT ![s] = Backfilled(@, i)]
      BY <1>1, Arrives DEF s
    <3> QED  BY <2>1, <3>1, <3>2
  <2>3. history' \in [Sessions -> History] /\ recorded' \in [Sessions -> SUBSET Ids]
    BY <1>1, HistoryTyped DEF ReceiveNew, ReceiveAgain, ApplyIncoming, TypeOK
  <2>4. notified' \subseteq Ids /\ renotified' \subseteq notified'
    BY <1>1 DEF ReceiveNew, ReceiveAgain, ApplyIncoming, Announce, TypeOK
  <2>5. seen' \in Seq(Ids) /\ Len(seen') <= Capacity
    <3>1. CASE ReceiveNew(i)
      BY <1>t, <3>1, Windowed DEF ReceiveNew, Remembered
    <3>2. CASE ReceiveAgain(i)
      BY <1>t, <3>2 DEF ReceiveAgain, window
    <3> QED  BY <1>1, <3>1, <3>2
  <2>6. forgotten' \subseteq Ids
    <3>1. Range(seen) \subseteq Ids
      BY <1>t DEF Range
    <3> QED  BY <1>1, <3>1 DEF ReceiveNew, ReceiveAgain, TypeOK
  <2>7. dirty' \in BOOLEAN
    BY <1>1 DEF ReceiveNew, ReceiveAgain, Remembered, window, TypeOK
  <2> QED  BY <1>1, <2>2, <2>3, <2>4, <2>5, <2>6, <2>7, Arrives DEF TypeOK
<1>2. CASE FlushSeen \/ Persist
  BY <1>2 DEF FlushSeen, Persist, life, shown, observed, TypeOK
<1>3. CASE Start
  <2>1. starts' \in 0..MaxStarts
    BY <1>3, ReceiverAssumption DEF Start, TypeOK
  <2>2. up' \in BOOLEAN
    BY <1>3 DEF Start
  <2>3. seen' = processed /\ UNCHANGED <<log, dirty, processed, tracks, history, delivered, before,
                                        notified, renotified, forgotten, recorded>>
    BY <1>3 DEF Start, shown, observed
  <2> QED  BY <1>t, <2>1, <2>2, <2>3 DEF TypeOK
<1>4. CASE Shutdown \/ Crash
  <2>1. NoTrack \in Track /\ NoHistory \in History
    BY ReceiverAssumption DEF NoTrack, Track, NoHistory, History
  <2>2. Gone /\ processed' \in {seen, processed}
    BY <1>4 DEF Shutdown, Crash
  <2>3. forgotten' \subseteq Ids
    <3>1. Range(seen) \subseteq Ids
      BY <1>t DEF Range
    <3> QED  BY <1>4, <3>1 DEF Shutdown, Crash, TypeOK
  <2>4. /\ tracks' \in [Sessions -> Track] /\ history' \in [Sessions -> History]
        /\ recorded' \in [Sessions -> SUBSET Ids]
    BY <2>1, <2>2 DEF Gone
  <2>5. seen' \in Seq(Ids) /\ Len(seen') <= Capacity
    BY <2>2, ReceiverAssumption DEF Gone
  <2>6. processed' \in Seq(Ids) /\ Len(processed') <= Capacity
    BY <1>t, <2>2
  <2> QED  BY <2>2, <2>3, <2>4, <2>5, <2>6 DEF Gone, TypeOK
<1>5. CASE UNCHANGED vars
  BY <1>5 DEF vars, life, window, shown, observed, TypeOK
<1> QED  BY <1>1, <1>2, <1>3, <1>4, <1>5 DEF Next

-----------------------------------------------------------------------------
(* The replay window and the notifications *)

LEMMA WindowsStep ==
    ASSUME TypeOK, Windows, [Next]_vars  PROVE Windows'
<1>t. /\ seen \in Seq(Ids) /\ Len(seen) <= Capacity /\ delivered \subseteq Ids
      /\ processed \in Seq(Ids) /\ Len(processed) <= Capacity
      /\ up \in BOOLEAN /\ dirty \in BOOLEAN
  BY DEF TypeOK
<1> USE DEF RenotifiedOnlyForgotten
<1>1. ASSUME NEW i \in Ids, ReceiveNew(i)  PROVE Windows'
  <2>1. /\ up /\ up' = up /\ i \notin Range(seen) /\ dirty' /\ seen' = WithId(seen, i)
        /\ delivered' = delivered \cup {i} /\ before' = before /\ processed' = processed
        /\ forgotten' = forgotten \cup (Range(seen) \ Range(seen'))
    BY <1>1 DEF ReceiveNew, Remembered, life
  <2>2. i \in Range(seen') /\ Range(seen') \subseteq Range(seen) \cup {i}
    BY <1>t, <2>1, Windowed
  <2>3. /\ notified' \subseteq notified \cup {i}
        /\ renotified' \subseteq renotified \cup ({i} \cap notified)
    BY <1>1 DEF ReceiveNew, ApplyIncoming, Announce
  <2> QED  BY <2>1, <2>2, <2>3 DEF Windows
<1>2. ASSUME NEW i \in Ids, ReceiveAgain(i)  PROVE Windows'
  <2>1. /\ UNCHANGED <<up, seen, dirty, processed, before, forgotten>> /\ up
        /\ delivered' = delivered \cup {i}
    BY <1>2 DEF ReceiveAgain, window, life
  <2>2. UNCHANGED <<notified, renotified>>
    BY <1>2 DEF ReceiveAgain, ApplyIncoming, Announce, Announces
  <2> QED  BY <2>1, <2>2 DEF Windows
<1>3. CASE FlushSeen
  <2>1. /\ up /\ up' = up /\ processed' = seen /\ seen' = seen
        /\ UNCHANGED <<delivered, before, notified, renotified, forgotten>>
    BY <1>3 DEF FlushSeen, life, observed
  <2> QED  BY <2>1 DEF Windows
<1>4. CASE Persist
  <2>1. /\ up /\ up' = up /\ processed' = seen /\ seen' = seen
        /\ UNCHANGED <<delivered, before, notified, renotified, forgotten>>
    BY <1>4 DEF Persist, life, observed
  <2> QED  BY <2>1 DEF Windows
<1>5. CASE Start
  <2>1. /\ ~up /\ up' /\ seen' = processed /\ processed' = processed /\ dirty' = dirty
        /\ UNCHANGED <<delivered, before, notified, renotified, forgotten>>
    BY <1>5 DEF Start, observed
  <2> QED  BY <2>1 DEF Windows
<1>6. CASE Shutdown
  <2>1. /\ up /\ ~up' /\ ~dirty' /\ seen' = <<>> /\ delivered' = {}
        /\ before' = before \cup delivered
        /\ UNCHANGED <<notified, renotified, forgotten>>
    BY <1>6 DEF Shutdown, Gone
  <2>2. processed' = seen
    BY <1>6, <2>1 DEF Shutdown, Windows
  <2>3. Range(seen') = {}
    BY <2>1 DEF Range
  <2> QED  BY <2>1, <2>2, <2>3 DEF Windows
<1>7. CASE Crash
  <2>1. /\ up /\ ~up' /\ ~dirty' /\ seen' = <<>> /\ delivered' = {}
        /\ before' = before \cup delivered /\ processed' = processed
        /\ forgotten' = forgotten \cup (Range(seen) \ Range(processed))
        /\ UNCHANGED <<notified, renotified>>
    BY <1>7 DEF Crash, Gone
  <2>2. Range(seen') = {}
    BY <2>1 DEF Range
  <2> QED  BY <2>1, <2>2 DEF Windows
<1>8. CASE UNCHANGED vars
  BY <1>8 DEF vars, life, window, observed, Windows
<1> QED  BY <1>1, <1>2, <1>3, <1>4, <1>5, <1>6, <1>7, <1>8 DEF Next

-----------------------------------------------------------------------------
(* The display *)

(* Where no event arrives, a display stays or all are gone. *)
LEMMA Rest ==
    ASSUME FlushSeen \/ Persist \/ Start \/ UNCHANGED vars
    PROVE  UNCHANGED <<log, tracks, delivered, notified, before>>
BY DEF FlushSeen, Persist, Start, vars, life, window, shown, observed

(* An event that arrives concerns the session it is of, and no other. *)
LEMMA Elsewhere ==
    ASSUME TypeOK, NEW i \in Ids, ReceiveNew(i) \/ ReceiveAgain(i),
           NEW z \in Sessions, z # log[i].of
    PROVE  log' = log /\ tracks'[z] = tracks[z] /\ Delivered(z)' = Delivered(z)
<1>1. log \in Logs /\ log[i].of \in Sessions /\ tracks \in [Sessions -> Track]
  BY Broadcasts DEF TypeOK
<1>2. log' = log /\ delivered' = delivered \cup {i}
  BY Arrives
<1>3. \/ tracks' = [tracks EXCEPT ![log[i].of] = Folded(@, i)]
      \/ tracks' = [tracks EXCEPT ![log[i].of] = Backfilled(@, i)]
  BY Arrives
<1>4. tracks'[z] = tracks[z]
  BY <1>1, <1>3
<1>5. Delivered(z)' = Delivered(z)
  BY <1>2 DEF Delivered
<1> QED  BY <1>2, <1>4, <1>5

(* In its session it is shown, or the display before it stays on. *)
LEMMA Here ==
    ASSUME TypeOK, NEW i \in Ids, ReceiveNew(i) \/ ReceiveAgain(i),
           NEW s \in Sessions, s = log[i].of
    PROVE  /\ log' = log /\ Delivered(s)' = Delivered(s) \cup {i}
           /\ tracks[s] \in Track /\ Delivered(s) \subseteq Ids
           /\ \/ /\ tracks[s].ev # 0 => log[tracks[s].ev].at <= log[i].at
                 /\ tracks'[s] = Folded(tracks[s], i)
              \/ /\ tracks[s].ev # 0 /\ log[i].at <= log[tracks[s].ev].at
                 /\ tracks'[s] = Backfilled(tracks[s], i)
<1>1. log \in Logs /\ tracks \in [Sessions -> Track] /\ delivered \subseteq Ids
  BY DEF TypeOK
<1>2. tracks[s] \in Track /\ tracks[s].ev \in Ids \cup {0}
  BY <1>1 DEF Track
<1>3. /\ log' = log /\ delivered' = delivered \cup {i}
      /\ \/ ~Older(i) /\ tracks' = [tracks EXCEPT ![s] = Folded(@, i)]
         \/ /\ tracks[s].ev # 0 /\ log[i].at <= log[tracks[s].ev].at
            /\ tracks' = [tracks EXCEPT ![s] = Backfilled(@, i)]
  BY Arrives
<1>4. \A j \in Ids : log[j].at \in Nat
  BY <1>1, Broadcasts
<1>5. ~Older(i) => (tracks[s].ev # 0 => log[tracks[s].ev].at <= log[i].at)
  BY <1>2, <1>4 DEF Older
<1>6. Delivered(s)' = Delivered(s) \cup {i} /\ Delivered(s) \subseteq Ids
  BY <1>1, <1>3 DEF Delivered
<1>7. \/ ~Older(i) /\ tracks'[s] = Folded(tracks[s], i)
      \/ /\ tracks[s].ev # 0 /\ log[i].at <= log[tracks[s].ev].at
         /\ tracks'[s] = Backfilled(tracks[s], i)
  BY <1>1, <1>3
<1> QED  BY <1>2, <1>3, <1>5, <1>6, <1>7

LEMMA DisplaysStep ==
    ASSUME TypeOK, Displays, [Next]_vars  PROVE Displays'
<1>1. ASSUME NEW i \in Ids, ReceiveNew(i) \/ ReceiveAgain(i), NEW s \in Sessions
      PROVE  DisplayOf(s)'
  <2>0. DisplayOf(s) /\ log \in Logs
    BY DEF Displays, TypeOK
  <2>1. CASE s # log[i].of
    <3>1. log' = log /\ tracks'[s] = tracks[s] /\ Delivered(s)' = Delivered(s)
      BY <1>1, <2>1, Elsewhere
    <3> QED  BY <2>0, <3>1 DEF DisplayOf, IsPoint
  <2>2. CASE s = log[i].of
    <3> DEFINE t == tracks[s]
    <3>1. /\ log' = log /\ Delivered(s)' = Delivered(s) \cup {i}
          /\ t \in Track /\ Delivered(s) \subseteq Ids
          /\ \/ /\ t.ev # 0 => log[t.ev].at <= log[i].at
                /\ tracks'[s] = Folded(t, i)
             \/ /\ t.ev # 0 /\ log[i].at <= log[t.ev].at
                /\ tracks'[s] = Backfilled(t, i)
      BY <1>1, <2>2, Here
    <3>2. \A j \in Ids : log[j].at \in Nat
      BY <2>0, Broadcasts
    <3>3. t.ev \in Ids \cup {0}
      BY <3>1 DEF Track
    <3>4. i # 0
      BY DEF Ids
    <3>5. CASE (t.ev # 0 => log[t.ev].at <= log[i].at) /\ tracks'[s] = Folded(t, i)
      <4>1. /\ tracks'[s].ev = i
            /\ IsPoint(i) => tracks'[s].last = 0 /\ tracks'[s].name = log[i].name
        BY <3>5 DEF Folded
      <4>2. \A j \in Delivered(s) : log[j].at <= log[i].at
        BY <2>0, <3>1, <3>2, <3>3, <3>5 DEF DisplayOf
      <4>3. \A j \in Delivered(s)' : log[j].at <= log[i].at
        BY <3>1, <3>2, <4>2
      <4> HIDE DEF t
      <4> QED  BY <3>1, <3>4, <4>1, <4>3 DEF DisplayOf, IsPoint
    <3>6. CASE /\ t.ev # 0 /\ log[i].at <= log[t.ev].at
               /\ tracks'[s] = Backfilled(t, i)
      <4>1. tracks'[s].ev = t.ev /\ (IsPoint(t.ev) => tracks'[s] = t)
        BY <3>1, <3>6 DEF Backfilled, Track
      <4>2. \A j \in Delivered(s)' : log[j].at <= log[t.ev].at
        BY <2>0, <3>1, <3>6 DEF DisplayOf
      <4> QED  BY <2>0, <3>1, <3>6, <4>1, <4>2 DEF DisplayOf, IsPoint
    <3> QED  BY <3>1, <3>5, <3>6
  <2> QED  BY <2>1, <2>2
<1>2. CASE FlushSeen \/ Persist \/ Start \/ UNCHANGED vars
  BY <1>2, Rest DEF Displays, DisplayOf, Delivered, IsPoint
<1>3. CASE Shutdown \/ Crash
  BY <1>3 DEF Shutdown, Crash, Gone, Displays, DisplayOf, Delivered, NoTrack
<1>4. ASSUME NEW i \in Ids, ReceiveNew(i) \/ ReceiveAgain(i)  PROVE Displays'
  BY <1>1, <1>4 DEF Displays
<1> QED  BY <1>2, <1>3, <1>4 DEF Next

-----------------------------------------------------------------------------
(* Alerts *)

LEMMA AlertStep ==
    ASSUME TypeOK, Windows, Displays, AlertNotSilent, [Next]_vars
    PROVE  AlertNotSilent'
<1> DEFINE Known(s) == \E i \in Delivered(s) : IsAlert(i) /\ i \in notified \cup before
           Alerts(s) == Shows(s) /\ IsAlert(tracks[s].ev)
<1>1. ASSUME NEW i \in Ids, ReceiveNew(i) \/ ReceiveAgain(i), NEW s \in Sessions, Alerts(s)'
      PROVE  Known(s)'
  <2>1. log' = log /\ before' = before /\ notified \subseteq notified'
    BY <1>1, Arrives DEF ReceiveNew, ReceiveAgain, ApplyIncoming, Announce
  <2>2. CASE s # log[i].of
    BY <1>1, <2>1, <2>2, Elsewhere DEF AlertNotSilent, Shows, IsAlert
  <2>3. CASE s = log[i].of
    <3> DEFINE t == tracks[s]
    <3>1. /\ Delivered(s)' = Delivered(s) \cup {i} /\ t \in Track
          /\ \/ tracks'[s] = Folded(t, i)
             \/ t.ev # 0 /\ tracks'[s] = Backfilled(t, i)
      BY <1>1, <2>3, Here
    <3>2. CASE t.ev # 0 /\ IsAlert(t.ev)
      BY <2>1, <3>1, <3>2 DEF AlertNotSilent, Shows, IsAlert
    <3>3. CASE t.ev = 0 \/ ~IsAlert(t.ev)
      <4>1. Backfilled(t, i).ev = t.ev
        BY <3>1 DEF Backfilled, Track
      <4>2. tracks'[s].ev # t.ev
        BY <1>1, <2>1, <3>3 DEF Shows, IsAlert
      <4>3. tracks'[s] # Backfilled(t, i) /\ tracks'[s] = Folded(t, i)
        BY <3>1, <4>1, <4>2
      <4>4. IsAlert(i) /\ AlertEdge(i)
        BY <1>1, <2>1, <2>3, <3>3, <4>3 DEF Folded, IsAlert, AlertEdge
      <4>5. SUFFICES i \in notified' \cup before
        BY <2>1, <3>1, <4>4 DEF IsAlert
      <4>6. log \in Logs /\ tracks \in [Sessions -> Track]
        BY DEF TypeOK
      <4>7. [tracks EXCEPT ![log[i].of] = Backfilled(@, i)][s] = Backfilled(t, i)
        BY <2>3, <4>6
      <4>8. CASE ReceiveNew(i)
        <5>1. Announce(i, TRUE)
          BY <4>3, <4>7, <4>8 DEF ReceiveNew, ApplyIncoming
        <5> QED  BY <4>4, <5>1 DEF Announce, Announces
      <4>9. CASE ReceiveAgain(i)
        <5>1. Advances(i) /\ i \in Range(seen)
          BY <4>3, <4>7, <4>9 DEF ReceiveAgain
        <5>2. SUFFICES ASSUME i \in delivered  PROVE FALSE
          BY <5>1 DEF Windows
        <5>3. i \in Delivered(s)
          BY <2>3, <5>2 DEF Delivered
        <5>4. t.ev # 0 /\ log[i].at <= log[t.ev].at
          BY <5>3 DEF Displays, DisplayOf
        <5>5. t.ev \in Ids /\ log[i].at \in Nat /\ log[t.ev].at \in Nat
          BY <3>1, <4>6, <5>4, Broadcasts DEF Track
        <5> QED  BY <2>3, <5>1, <5>4, <5>5 DEF Advances
      <4> QED  BY <1>1, <4>8, <4>9
    <3> QED  BY <3>2, <3>3
  <2> QED  BY <2>2, <2>3
<1>2. CASE FlushSeen \/ Persist \/ Start \/ UNCHANGED vars
  BY <1>2, Rest DEF AlertNotSilent, Shows, Delivered, IsAlert
<1>3. CASE Shutdown \/ Crash
  BY <1>3 DEF Shutdown, Crash, Gone, AlertNotSilent, Shows, NoTrack
<1>4. ASSUME NEW i \in Ids, ReceiveNew(i) \/ ReceiveAgain(i)  PROVE AlertNotSilent'
  <2>1. \A s \in Sessions : Alerts(s)' => Known(s)'
    BY <1>1, <1>4
  <2> QED  BY <2>1 DEF AlertNotSilent
<1> QED  BY <1>2, <1>3, <1>4 DEF Next

-----------------------------------------------------------------------------
(* What a STOP retains *)

(* One more fix: the newer of it and the one kept is kept. *)
LEMMA KeepsNewer ==
    ASSUME log \in Logs, NEW points \in SUBSET Ids, \A j \in points : IsPoint(j),
           NEW fix \in Nat, Keeps(fix, points), NEW i \in Ids, IsPoint(i),
           NEW kept, kept = IF log[i].ts > fix THEN log[i].ts ELSE fix
    PROVE  Keeps(kept, points \cup {i})
<1> DEFINE more == points \cup {i}
<1>1. \A j \in Ids : log[j].ts \in Nat /\ log[j].at \in Nat
  BY Broadcasts
<1>2. kept \in Nat /\ fix <= kept /\ log[i].ts <= kept
  BY <1>1
<1>3. CASE points = {}
  <2>1. kept = log[i].ts
    BY <1>1, <1>3, Broadcasts DEF Keeps
  <2> QED  BY <1>1, <1>3, <2>1 DEF Keeps, KeepsFix
<1>4. CASE points # {}
  <2>0. KeepsFix(fix, points)
    BY <1>4 DEF Keeps
  <2>1. \E j \in more : kept = log[j].ts
    BY <2>0 DEF KeepsFix
  <2>2. PICK j \in points : (\A k \in points : log[k].at <= log[j].at) /\ log[j].ts <= fix
    BY <2>0 DEF KeepsFix
  <2>3. \E k \in more : (\A n \in more : log[n].at <= log[k].at) /\ log[k].ts <= kept
    <3>1. CASE log[i].at <= log[j].at
      <4>1. (\A n \in more : log[n].at <= log[j].at) /\ log[j].ts <= kept
        BY <1>1, <1>2, <2>2, <3>1
      <4> QED  BY <4>1
    <3>2. CASE ~(log[i].at <= log[j].at)
      <4>1. \A n \in more : log[n].at <= log[i].at
        BY <1>1, <2>2, <3>2
      <4> QED  BY <1>2, <4>1
    <3> QED  BY <3>1, <3>2
  <2>4. ASSUME FixesInOrder(more), NEW k \in more  PROVE log[k].ts <= kept
    <3>1. FixesInOrder(points)
      BY <2>4 DEF FixesInOrder
    <3>2. \A n \in points : log[n].ts <= fix
      BY <2>0, <3>1 DEF KeepsFix
    <3> QED  BY <1>1, <1>2, <3>2
  <2> QED  BY <2>1, <2>3, <2>4 DEF Keeps, KeepsFix
<1> QED  BY <1>3, <1>4

(* A STOP that takes over a display takes over what it shows or keeps. *)
LEMMA Retained ==
    ASSUME TypeOK, NEW s \in Sessions, DisplayOf(s), RetainsOf(s),
           NEW points, points = {j \in Delivered(s) : IsPoint(j)}
    PROVE  /\ Keeps(RetainedFix(tracks[s]), points)
           /\ points # {} /\ (\A j \in points : log[j].name # NoName) =>
                  tracks[s].name # NoName
<1> DEFINE t == tracks[s]
           D == Delivered(s)
<1>1. log \in Logs /\ D \subseteq Ids /\ t.ev \in Ids \cup {0} /\ t.last \in Nat
  BY ReceiverAssumption DEF TypeOK, Track, Delivered
<1>2. \A j \in Ids : log[j].ts \in Nat /\ log[j].at \in Nat
  BY <1>1, Broadcasts
<1>3. CASE t.ev = 0
  <2>1. points = {} /\ RetainedFix(t) = 0
    BY <1>3 DEF DisplayOf, RetainedFix
  <2> QED  BY <2>1 DEF Keeps
<1>4. CASE t.ev # 0 /\ ~IsPoint(t.ev)
  <2>1. log[t.ev].ts = 0
    BY <1>1, <1>4, Broadcasts
  <2>2. RetainedFix(t) = t.last
    BY <1>4, <2>1 DEF RetainedFix
  <2>3. /\ Keeps(t.last, points)
        /\ points # {} /\ (\A j \in points : log[j].name # NoName) => t.name # NoName
    BY <1>4 DEF RetainsOf, Shows
  <2> QED  BY <2>2, <2>3
<1>5. CASE t.ev # 0 /\ IsPoint(t.ev)
  <2>1. /\ t.ev \in points /\ t.last = 0 /\ t.name = log[t.ev].name
        /\ \A j \in points : j \in Ids /\ log[j].at <= log[t.ev].at
    BY <1>1, <1>5 DEF DisplayOf
  <2>2. RetainedFix(t) = log[t.ev].ts
    BY <1>5, <2>1 DEF RetainedFix
  <2>3. \E j \in points : (\A k \in points : log[k].at <= log[j].at) /\ log[j].ts <= log[t.ev].ts
    BY <1>2, <2>1
  <2>4. FixesInOrder(points) => \A j \in points : log[j].ts <= log[t.ev].ts
    BY <2>1 DEF FixesInOrder
  <2>5. KeepsFix(log[t.ev].ts, points)
    BY <2>1, <2>3, <2>4 DEF KeepsFix
  <2> QED  BY <2>1, <2>2, <2>5 DEF Keeps
<1> QED  BY <1>1, <1>3, <1>4, <1>5

(* An older event fills in what the STOP on display lacks. *)
LEMMA FilledIn ==
    ASSUME TypeOK, NEW s \in Sessions, RetainsOf(s), Shows(s), ~IsPoint(tracks[s].ev),
           NEW points, points = {j \in Delivered(s) : IsPoint(j)},
           NEW i \in Ids, NEW more, more = {j \in Delivered(s) \cup {i} : IsPoint(j)},
           NEW u, u = Backfilled(tracks[s], i)
    PROVE  /\ Keeps(u.last, more)
           /\ more # {} /\ (\A j \in more : log[j].name # NoName) => u.name # NoName
<1> DEFINE t == tracks[s]
<1>1. log \in Logs /\ points \subseteq Ids /\ t \in Track /\ t.last \in Nat
  BY ReceiverAssumption DEF TypeOK, Track, Delivered
<1>2. log[i].ts \in Nat /\ (~IsPoint(i) => log[i].ts = 0)
  BY <1>1, Broadcasts
<1>3. /\ u.last = IF log[i].ts > t.last THEN log[i].ts ELSE t.last
      /\ u.name = IF t.name = NoName THEN log[i].name ELSE t.name
  BY <1>1 DEF Backfilled, Track
<1>4. /\ Keeps(t.last, points)
      /\ points # {} /\ (\A j \in points : log[j].name # NoName) => t.name # NoName
  BY DEF RetainsOf
<1>5. Keeps(u.last, more)
  <2>1. CASE IsPoint(i)
    <3>1. more = points \cup {i} /\ \A j \in points : IsPoint(j)
      BY <2>1
    <3> QED  BY <1>1, <1>3, <1>4, <2>1, <3>1, KeepsNewer
  <2>2. CASE ~IsPoint(i)
    <3>1. more = points /\ u.last = t.last
      BY <1>1, <1>2, <1>3, <2>2
    <3> QED  BY <1>4, <3>1
  <2> QED  BY <2>1, <2>2
<1>6. more # {} /\ (\A j \in more : log[j].name # NoName) => u.name # NoName
  BY <1>3, <1>4
<1> QED  BY <1>5, <1>6

LEMMA RetainsStep ==
    ASSUME TypeOK, Displays, Retains, [Next]_vars  PROVE Retains'
<1>1. ASSUME NEW i \in Ids, ReceiveNew(i) \/ ReceiveAgain(i), NEW s \in Sessions
      PROVE  RetainsOf(s)'
  <2>0. DisplayOf(s) /\ RetainsOf(s)
    BY DEF Displays, Retains
  <2>1. CASE s # log[i].of
    <3>1. log' = log /\ tracks'[s] = tracks[s] /\ Delivered(s)' = Delivered(s)
      BY <1>1, <2>1, Elsewhere
    <3> QED  BY <2>0, <3>1 DEF RetainsOf, Shows, IsPoint, Keeps, KeepsFix, FixesInOrder
  <2>2. CASE s = log[i].of
    <3> DEFINE t == tracks[s]
               points == {j \in Delivered(s) : IsPoint(j)}
               more == {j \in Delivered(s) \cup {i} : IsPoint(j)}
               Good(u) ==
                   /\ Keeps(u.last, more)
                   /\ more # {} /\ (\A j \in more : log[j].name # NoName) =>
                          u.name # NoName
    <3>1. /\ log' = log /\ Delivered(s)' = Delivered(s) \cup {i} /\ t \in Track
          /\ \/ tracks'[s] = Folded(t, i)
             \/ t.ev # 0 /\ tracks'[s] = Backfilled(t, i)
      BY <1>1, <2>2, Here
    <3>2. CASE tracks'[s] = Folded(t, i) /\ IsPoint(i)
      BY <3>1, <3>2 DEF RetainsOf, Folded, IsPoint
    <3>3. CASE tracks'[s] = Folded(t, i) /\ ~IsPoint(i)
      <4>1. /\ Keeps(RetainedFix(t), points)
            /\ points # {} /\ (\A j \in points : log[j].name # NoName) => t.name # NoName
        BY <2>0, Retained
      <4>2. more = points
        BY <3>3
      <4>3. tracks'[s].last = RetainedFix(t) /\ tracks'[s].name = t.name
        BY <3>3 DEF Folded
      <4>4. Good(tracks'[s])
        BY <4>1, <4>2, <4>3
      <4> QED  BY <3>1, <4>4 DEF RetainsOf, IsPoint, Keeps, KeepsFix, FixesInOrder
    <3>4. CASE t.ev # 0 /\ tracks'[s] = Backfilled(t, i)
      <4>1. tracks'[s].ev = t.ev
        BY <3>1, <3>4 DEF Backfilled, Track
      <4>2. CASE IsPoint(t.ev)
        BY <3>1, <4>1, <4>2 DEF RetainsOf, IsPoint
      <4>3. CASE ~IsPoint(t.ev)
        <5>1. Good(tracks'[s])
          BY <2>0, <3>4, <4>3, FilledIn DEF Shows
        <5> QED  BY <3>1, <5>1 DEF RetainsOf, IsPoint, Keeps, KeepsFix, FixesInOrder
      <4> QED  BY <4>2, <4>3
    <3> QED  BY <3>1, <3>2, <3>3, <3>4
  <2> QED  BY <2>1, <2>2
<1>2. CASE FlushSeen \/ Persist \/ Start \/ UNCHANGED vars
  BY <1>2, Rest DEF Retains, RetainsOf, Shows, Delivered, IsPoint, Keeps, KeepsFix, FixesInOrder
<1>3. CASE Shutdown \/ Crash
  BY <1>3 DEF Shutdown, Crash, Gone, Retains, RetainsOf, Shows, NoTrack
<1>4. ASSUME NEW i \in Ids, ReceiveNew(i) \/ ReceiveAgain(i)  PROVE Retains'
  BY <1>1, <1>4 DEF Retains
<1> QED  BY <1>2, <1>3, <1>4 DEF Next

-----------------------------------------------------------------------------
(* The history: points kept by their fixes' times *)

(* Points with times of fixes, finitely many. *)
Timed(X) == IsFiniteSet(X) /\ \A q \in X : q.ts \in Nat

OnePerFix(X) == \A q, r \in X : q.ts = r.ts => q = r

Above(X, v) == {n \in X : n.ts > v}

(* A point of time v would stay among the points X. *)
Near(X, v)  == \A n \in X : n.ts <= v + Window
Few(X, v)   == Cardinality(Above(X, v)) < MaxPoints
Stays(X, v) == Near(X, v) /\ Few(X, v)

Pruned(X) == Newest(InWindow(X))

(* Finitely many things have a greatest one. *)
LEMMA Greatest ==
    ASSUME NEW X, IsFiniteSet(X), X # {}, NEW f, \A q \in X : f[q] \in Nat
    PROVE  \E m \in X : \A n \in X : f[n] <= f[m]
<1> DEFINE F == FiniteSubsetsOf(X)
           O == StrictSubsetOrdering(X)
           Up(q) == {n \in X : f[n] > f[q]}
           T == {Up(q) : q \in X}
<1>1. IsWellFoundedOn(O, F)
  BY FS_StrictSubsetOrderingWellFounded
<1>2. T \subseteq F /\ T # {}
  <2>1. ASSUME NEW q \in X  PROVE Up(q) \in F
    <3>1. Up(q) \in SUBSET X
      OBVIOUS
    <3>2. IsFiniteSet(Up(q))
      BY <3>1, FS_Subset
    <3> QED  BY <3>1, <3>2 DEF FiniteSubsetsOf
  <2> QED  BY <2>1
<1>3. PICK U \in T : \A V \in T : <<V, U>> \notin O
  <2> HIDE DEF F, O, T
  <2> QED  BY <1>1, <1>2, WFMin
<1>4. PICK m \in X : U = Up(m)
  BY DEF T
<1>5. ASSUME NEW n \in X, f[n] > f[m]  PROVE FALSE
  <2>1. Up(n) \subseteq U /\ n \in U /\ n \notin Up(n)
    BY <1>4, <1>5
  <2>2. Up(n) \in SUBSET X /\ U \in SUBSET X
    BY <1>4
  <2>3. <<Up(n), U>> \in O
    BY <2>1, <2>2 DEF StrictSubsetOrdering
  <2> QED  BY <1>3, <2>3
<1> QED  BY <1>5

LEMMA Latest ==
    ASSUME NEW X, Timed(X), X # {}
    PROVE  \E m \in X : \A n \in X : n.ts <= m.ts
<1> DEFINE f == [q \in X |-> q.ts]
<1>1. \A q \in X : f[q] = q.ts /\ f[q] \in Nat
  BY DEF Timed
<1> HIDE DEF f
<1>2. PICK m \in X : \A n \in X : f[n] <= f[m]
  BY <1>1, Greatest DEF Timed
<1> QED  BY <1>1, <1>2

LEMMA Fewer ==
    ASSUME NEW X, Timed(X), NEW Y, Y \subseteq X
    PROVE  Timed(Y) /\ Cardinality(Y) \in Nat /\ Cardinality(Y) <= Cardinality(X)
<1>1. IsFiniteSet(Y) /\ Cardinality(Y) <= Cardinality(X)
  BY FS_Subset DEF Timed
<1>2. Cardinality(Y) \in Nat
  BY <1>1, FS_CardinalityType
<1> QED  BY <1>1, <1>2 DEF Timed

(* Among fewer points a point would rather stay, and so would a newer one. *)
LEMMA Stay ==
    ASSUME NEW X, Timed(X), NEW Y, Y \subseteq X, NEW v \in Nat, NEW w \in Nat,
           v <= w, Stays(X, v)
    PROVE  Stays(Y, w)
<1>1. Window \in Nat /\ MaxPoints \in Nat
  BY ReceiverAssumption
<1>2. Timed(Y) /\ Near(Y, w)
  BY <1>1, Fewer DEF Stays, Near, Timed
<1>3. Above(Y, w) \subseteq Above(X, v) /\ Above(X, v) \subseteq X
  BY <1>2 DEF Above, Timed
<1>4. Timed(Above(X, v)) /\ Cardinality(Above(X, v)) \in Nat
  BY <1>3, Fewer
<1>5. Cardinality(Above(Y, w)) \in Nat /\ Cardinality(Above(Y, w)) <= Cardinality(Above(X, v))
  BY <1>3, <1>4, Fewer
<1> QED  BY <1>1, <1>2, <1>4, <1>5 DEF Stays, Few

LEMMA PrunedIs ==
    ASSUME NEW X, Timed(X)
    PROVE  Pruned(X) = {q \in X : Stays(X, q.ts)}
<1> DEFINE W == InWindow(X)
<1>1. W = {q \in X : Near(X, q.ts)}
  BY DEF InWindow, Near
<1>2. ASSUME NEW q \in W
      PROVE  {n \in W : n.ts > q.ts} = Above(X, q.ts)
  <2>1. Window \in Nat
    BY ReceiverAssumption
  <2> QED  BY <1>1, <1>2, <2>1 DEF Above, Near, Timed
<1> HIDE DEF W
<1>3. Pruned(X) = {q \in W : Few(X, q.ts)}
  BY <1>2 DEF Pruned, Newest, Few, W
<1> QED  BY <1>1, <1>3 DEF Stays

(* The points that were pruned make no difference to any other. *)
LEMMA PrunedAgain ==
    ASSUME NEW X, Timed(X), NEW v \in Nat
    PROVE  Stays(Pruned(X), v) <=> Stays(X, v)
<1> DEFINE K == Pruned(X)
<1>1. K = {q \in X : Stays(X, q.ts)} /\ K \subseteq X /\ Timed(K)
  BY PrunedIs, Fewer
<1>2. Window \in Nat /\ MaxPoints \in Nat \ {0}
  BY ReceiverAssumption
<1> HIDE DEF K
<1>3. ASSUME Near(K, v)  PROVE Near(X, v)
  <2>1. CASE X = {}
    BY <2>1 DEF Near
  <2>2. CASE X # {}
    <3>1. PICK m \in X : \A n \in X : n.ts <= m.ts
      BY <2>2, Latest
    <3>2. Above(X, m.ts) = {}
      BY <3>1 DEF Above, Timed
    <3>3. Stays(X, m.ts)
      BY <1>2, <3>1, <3>2, FS_EmptySet DEF Stays, Near, Few, Timed
    <3> QED  BY <1>1, <1>2, <1>3, <3>1, <3>3 DEF Near, Timed
  <2> QED  BY <2>1, <2>2
<1>4. ASSUME Near(X, v), Few(K, v)  PROVE Few(X, v)
  <2> DEFINE T == Above(X, v)
             G == T \ K
  <2>1. T \subseteq X /\ Timed(T) /\ Timed(G) /\ Above(K, v) = T \cap K
    BY <1>1, Fewer DEF Above
  <2>2. CASE G = {}
    BY <1>4, <2>1, <2>2 DEF Few
  <2>3. CASE G # {}
    <3>1. PICK n \in G : \A g \in G : g.ts <= n.ts
      BY <2>1, <2>3, Latest
    <3>2. n \in X /\ n.ts > v /\ n.ts \in Nat /\ ~Stays(X, n.ts)
      BY <1>1, <2>1 DEF Above, Timed
    <3>3. Near(X, n.ts)
      BY <1>2, <1>4, <3>2 DEF Near, Timed
    <3>4. Above(X, n.ts) \subseteq Above(K, v)
      BY <2>1, <3>1, <3>2 DEF Above, Timed
    <3>5. Timed(Above(K, v)) /\ Cardinality(Above(K, v)) \in Nat
      BY <1>1, Fewer DEF Above
    <3>6. Cardinality(Above(X, n.ts)) <= Cardinality(Above(K, v)) /\ Cardinality(Above(X, n.ts)) \in Nat
      BY <3>4, <3>5, Fewer
    <3>7. Few(X, n.ts)
      BY <1>2, <1>4, <3>5, <3>6 DEF Few
    <3> QED  BY <3>2, <3>3, <3>7 DEF Stays
  <2> QED  BY <2>2, <2>3
<1>5. Stays(X, v) => Stays(K, v)
  BY <1>1, Stay
<1> QED  BY <1>3, <1>4, <1>5 DEF Stays, K

(* A point put in the place of the one of its fix counts as that one. *)
LEMMA Replaced ==
    ASSUME NEW X, Timed(X), OnePerFix(X), NEW p, p.ts \in Nat, NEW v \in Nat,
           NEW Y, IsFiniteSet(Y), {q \in Above(X, v) : q.ts # p.ts} \subseteq Y,
           p.ts > v => p \in Y
    PROVE  Cardinality(Above(X, v)) <= Cardinality(Y)
<1> DEFINE A == Above(X, v)
           C == {q \in A : q.ts # p.ts}
<1>1. IsFiniteSet(A) /\ IsFiniteSet(C) /\ C \subseteq Y
  BY Fewer DEF Above, Timed
<1>2. Cardinality(C) \in Nat /\ Cardinality(C) <= Cardinality(Y) /\ Cardinality(Y) \in Nat
  BY <1>1, FS_Subset, FS_CardinalityType
<1>3. CASE C = A
  BY <1>2, <1>3
<1>4. CASE C # A
  <2>1. PICK q \in A : q.ts = p.ts
    BY <1>4
  <2>2. A = C \cup {q} /\ q \notin C
    BY <2>1 DEF Above, OnePerFix
  <2>3. p \notin C /\ p \in Y
    BY <2>1 DEF Above
  <2> HIDE DEF A, C
  <2>4. Cardinality(A) = Cardinality(C) + 1
    BY <1>1, <2>2, FS_AddElement
  <2>5. Cardinality(C \cup {p}) = Cardinality(C) + 1
    BY <1>1, <2>3, FS_AddElement
  <2>6. C \cup {p} \in SUBSET Y
    BY <1>1, <2>3
  <2>7. Cardinality(C \cup {p}) <= Cardinality(Y)
    BY <2>6, FS_Subset
  <2> QED  BY <2>4, <2>5, <2>7 DEF A
<1> QED  BY <1>3, <1>4

LEMMA MergedTimed ==
    ASSUME NEW X, Timed(X), NEW p, p.ts \in Nat
    PROVE  Timed(Merged(X, p))
<1> DEFINE O == {q \in X : q.ts # p.ts}
<1>1. IsFiniteSet(O) /\ IsFiniteSet(O \cup {p})
  BY Fewer, FS_AddElement DEF Timed
<1>2. Merged(X, p) = X \/ Merged(X, p) = O \cup {p}
  BY DEF Merged
<1> HIDE DEF O
<1>3. CASE Merged(X, p) = X
  BY <1>3
<1>4. CASE Merged(X, p) = O \cup {p}
  BY <1>1, <1>4 DEF Timed, O
<1> QED  BY <1>2, <1>3, <1>4

(* A point merges into the pruned points as it does into all of them. *)
LEMMA MergedPruned ==
    ASSUME NEW L, Timed(L), OnePerFix(L), NEW p, p.ts \in Nat
    PROVE  Pruned(Merged(Pruned(L), p)) = Pruned(Merged(L, p))
<1> DEFINE K == Pruned(L)
           A == Merged(L, p)
           B == Merged(K, p)
<1>1. K = {q \in L : Stays(L, q.ts)} /\ K \subseteq L /\ Timed(K) /\ OnePerFix(K)
  BY PrunedIs, Fewer DEF OnePerFix
<1>2. Timed(A) /\ Timed(B)
  BY <1>1, MergedTimed
<1>3. /\ Pruned(A) = {q \in A : Stays(A, q.ts)}
      /\ Pruned(B) = {q \in B : Stays(B, q.ts)}
  BY <1>2, PrunedIs
<1>4. Window \in Nat /\ MaxPoints \in Nat \ {0}
  BY ReceiverAssumption
<1>5. \A v \in Nat : Stays(K, v) <=> Stays(L, v)
  BY PrunedAgain
<1> HIDE DEF K
<1>6. CASE \E q \in L : q.ts = p.ts /\ q.at >= p.at
  <2>1. PICK o \in L : o.ts = p.ts /\ o.at >= p.at
    BY <1>6
  <2>2. A = L
    BY <1>6 DEF Merged
  <2>3. CASE o \in K
    <3>1. B = K
      BY <2>1, <2>3 DEF Merged
    <3>2. Pruned(B) = {q \in K : Stays(L, q.ts)}
      BY <1>1, <1>3, <1>5, <3>1 DEF Timed
    <3>3. Pruned(B) = K
      BY <1>1, <3>2
    <3> QED  BY <2>2, <3>3 DEF K
  <2>4. CASE o \notin K
    <3>1. ~Stays(L, p.ts) /\ ~Stays(K, p.ts)
      BY <1>1, <1>5, <2>1, <2>4
    <3>2. \A q \in K : q.ts # p.ts
      BY <1>1, <2>1, <2>4 DEF OnePerFix
    <3>3. B = K \cup {p}
      BY <3>2 DEF Merged
    <3>4. ~Stays(B, p.ts)
      BY <1>2, <3>1, <3>3, Stay
    <3>5. ASSUME NEW q \in K  PROVE Stays(B, q.ts)
      <4>1. Stays(L, q.ts) /\ q \in L /\ q.ts \in Nat
        BY <1>1 DEF Timed
      <4>2. p.ts < q.ts
        <5>1. SUFFICES ASSUME q.ts <= p.ts  PROVE FALSE
          BY <4>1
        <5>2. Stays(L, p.ts)
          BY <4>1, <5>1, Stay
        <5> QED  BY <3>1, <5>2
      <4>3. Near(B, q.ts)
        BY <1>1, <1>4, <1>5, <3>3, <4>1, <4>2 DEF Stays, Near
      <4>4. Above(B, q.ts) = Above(K, q.ts)
        BY <1>1, <3>3, <4>1, <4>2 DEF Above, Timed
      <4>5. Few(K, q.ts)
        BY <1>5, <4>1 DEF Stays
      <4> QED  BY <4>3, <4>4, <4>5 DEF Stays, Few
    <3>6. Pruned(B) = K
      BY <1>3, <3>3, <3>4, <3>5
    <3> QED  BY <2>2, <3>6 DEF K
  <2> QED  BY <2>3, <2>4
<1>7. CASE ~\E q \in L : q.ts = p.ts /\ q.at >= p.at
  <2>1. /\ A = {q \in L : q.ts # p.ts} \cup {p}
        /\ B = {q \in K : q.ts # p.ts} \cup {p}
        /\ B \subseteq A
    BY <1>1, <1>7 DEF Merged
  <2> HIDE DEF A, B
  <2>2. ASSUME NEW v \in Nat, Near(A, v)  PROVE Near(L, v)
    BY <1>4, <2>1, <2>2 DEF Near
  <2>3. ASSUME NEW v \in Nat, Near(B, v)  PROVE Near(A, v)
    <3>1. Near(K, v)
      BY <2>1, <2>3 DEF Near
    <3>2. Near(L, v)
      <4>1. CASE L = {}
        BY <4>1 DEF Near
      <4>2. CASE L # {}
        <5>1. PICK m \in L : \A n \in L : n.ts <= m.ts
          BY <4>2, Latest
        <5>2. Above(L, m.ts) = {}
          BY <5>1 DEF Above, Timed
        <5>3. Stays(L, m.ts)
          BY <1>4, <5>1, <5>2, FS_EmptySet DEF Stays, Near, Few, Timed
        <5> QED  BY <1>1, <1>4, <2>3, <3>1, <5>1, <5>3 DEF Near, Timed
      <4> QED  BY <4>1, <4>2
    <3> QED  BY <2>1, <2>3, <3>2 DEF Near
  <2>4. ASSUME NEW v \in Nat, Stays(A, v)  PROVE Stays(L, v)
    <3>1. IsFiniteSet(Above(A, v)) /\ Cardinality(Above(A, v)) \in Nat
      BY <1>2, Fewer DEF Above, Timed
    <3>2. {q \in Above(L, v) : q.ts # p.ts} \subseteq Above(A, v)
      BY <2>1 DEF Above
    <3>3. p.ts > v => p \in Above(A, v)
      BY <2>1 DEF Above
    <3>4. Cardinality(Above(L, v)) <= Cardinality(Above(A, v)) /\ Cardinality(Above(L, v)) \in Nat
      BY <3>1, <3>2, <3>3, Replaced, Fewer DEF Above
    <3> QED  BY <1>4, <2>2, <2>4, <3>1, <3>4 DEF Stays, Few
  <2>5. ASSUME NEW v \in Nat, Stays(B, v)  PROVE Stays(A, v)
    <3> DEFINE T == Above(A, v)
               G == T \ B
    <3>1. Near(A, v)
      BY <2>3, <2>5 DEF Stays
    <3>2. T \subseteq A /\ Timed(T) /\ Timed(G) /\ Above(B, v) = T \cap B
      BY <1>2, <2>1, Fewer DEF Above
    <3>3. CASE G = {}
      BY <2>5, <3>1, <3>2, <3>3 DEF Stays, Few
    <3>4. CASE G # {}
      <4>1. PICK n \in G : \A g \in G : g.ts <= n.ts
        BY <3>2, <3>4, Latest
      <4>2. n \in L /\ n.ts # p.ts /\ n.ts > v /\ n.ts \in Nat /\ ~Stays(L, n.ts)
        BY <1>1, <2>1, <3>2 DEF Above, Timed
      <4>3. Near(A, n.ts)
        BY <1>2, <1>4, <3>1, <4>2 DEF Near, Timed
      <4>4. Near(L, n.ts)
        BY <2>2, <4>2, <4>3
      <4>5. {q \in Above(L, n.ts) : q.ts # p.ts} \subseteq Above(B, v)
        <5>1. SUFFICES ASSUME NEW q \in L, q.ts > n.ts, q.ts # p.ts  PROVE q \in Above(B, v)
          BY DEF Above
        <5>2. q \in T /\ q \notin G
          BY <2>1, <4>1, <4>2, <5>1 DEF Above, Timed
        <5> QED  BY <3>2, <5>2
      <4>6. p.ts > n.ts => p \in Above(B, v)
        BY <2>1, <4>2 DEF Above
      <4>7. IsFiniteSet(Above(B, v)) /\ Cardinality(Above(B, v)) \in Nat
        BY <1>2, Fewer DEF Above, Timed
      <4>8. /\ Cardinality(Above(L, n.ts)) <= Cardinality(Above(B, v))
            /\ Cardinality(Above(L, n.ts)) \in Nat
        BY <4>2, <4>5, <4>6, <4>7, Replaced, Fewer DEF Above
      <4> QED  BY <1>4, <2>5, <4>2, <4>4, <4>7, <4>8 DEF Stays, Few
    <3> QED  BY <3>3, <3>4
  <2>6. ASSUME NEW v \in Nat, Stays(A, v)  PROVE Stays(B, v)
    BY <1>2, <2>1, <2>6, Stay
  <2>7. \A q \in A : Stays(A, q.ts) => q \in B
    BY <1>1, <1>2, <2>1, <2>4 DEF Timed
  <2>8. \A v \in Nat : Stays(A, v) <=> Stays(B, v)
    BY <2>5, <2>6
  <2>9. {q \in A : Stays(A, q.ts)} = {q \in B : Stays(B, q.ts)}
    BY <1>2, <2>1, <2>7, <2>8 DEF Timed
  <2>10. Pruned(B) = Pruned(A)
    BY <1>3, <2>9 DEF A, B
  <2> QED  BY <2>10 DEF A, B, K
<1> QED  BY <1>6, <1>7 DEF K

-----------------------------------------------------------------------------
(* The history: what a session's recorded events leave *)

LEMMA IdsFinite ==
    ASSUME NEW R \in SUBSET Ids  PROVE IsFiniteSet(R)
<1>1. 1 \in Int /\ MaxEvents \in Int
  BY ReceiverAssumption
<1>2. IsFiniteSet(1..MaxEvents)
  BY <1>1, FS_Interval
<1> QED  BY <1>2, FS_Subset DEF Ids

(* Recording one more event is merging its point into the latest ones. *)
LEMMA LatestMerged ==
    ASSUME log \in Logs, NEW R \in SUBSET Ids, NEW i \in Ids
    PROVE  /\ Timed(LatestPoints(R)) /\ OnePerFix(LatestPoints(R))
           /\ LatestPoints(R \cup {i}) = Merged(LatestPoints(R), PointOf(i))
<1> DEFINE IsNew(j, S) == \A k \in S : log[k].ts = log[j].ts => log[k].at <= log[j].at
           L == LatestPoints(R)
           p == PointOf(i)
<1>1. \A j \in Ids : log[j].at \in Nat /\ log[j].ts \in Nat
  BY Broadcasts
<1>2. \A j \in Ids : PointOf(j).ts = log[j].ts /\ PointOf(j).at = log[j].at
  BY DEF PointOf
<1>3. ASSUME NEW S \in SUBSET Ids, NEW q
      PROVE  q \in LatestPoints(S) <=> \E j \in S : IsNew(j, S) /\ q = PointOf(j)
  BY DEF LatestPoints
<1>4. IsFiniteSet(L)
  <2> DEFINE S == {j \in R : IsNew(j, R)}
             f == [j \in S |-> PointOf(j)]
  <2>1. IsFiniteSet(S)
    BY IdsFinite
  <2>2. L = {PointOf(j) : j \in S}
    BY DEF LatestPoints
  <2>3. f \in Surjection(S, L)
    BY <2>2 DEF Surjection
  <2> QED  BY <2>1, <2>3, FS_Surjection
<1>5. Timed(L)
  BY <1>1, <1>2, <1>3, <1>4 DEF Timed
<1>6. OnePerFix(L)
  <2>1. SUFFICES ASSUME NEW q \in L, NEW r \in L, q.ts = r.ts  PROVE q = r
    BY DEF OnePerFix
  <2>2. PICK j \in R : IsNew(j, R) /\ q = PointOf(j)
    BY <1>3
  <2>3. PICK k \in R : IsNew(k, R) /\ r = PointOf(k)
    BY <1>3
  <2>4. log[j].ts = log[k].ts /\ log[j].at = log[k].at
    BY <1>1, <1>2, <2>1, <2>2, <2>3
  <2> QED  BY <2>2, <2>3, <2>4 DEF PointOf
<1>7. ASSUME NEW j \in R
      PROVE  \E q \in L : q.ts = log[j].ts /\ log[j].at <= q.at
  <2> DEFINE S == {k \in R : log[k].ts = log[j].ts}
             f == [k \in Ids |-> log[k].at]
  <2>1. IsFiniteSet(S) /\ j \in S
    BY IdsFinite
  <2>2. \A k \in S : f[k] = log[k].at /\ f[k] \in Nat /\ k \in R /\ log[k].ts = log[j].ts
    BY <1>1
  <2>3. \A k \in R : log[k].ts = log[j].ts => k \in S
    OBVIOUS
  <2> HIDE DEF S, f
  <2>4. PICK m \in S : \A k \in S : f[k] <= f[m]
    BY <2>1, <2>2, Greatest
  <2>5. IsNew(m, R)
    BY <2>2, <2>3, <2>4
  <2>6. PointOf(m) \in L
    BY <1>3, <2>2, <2>5
  <2> QED  BY <1>2, <2>1, <2>2, <2>4, <2>6
<1>8. R \cup {i} \in SUBSET Ids
  OBVIOUS
<1>9. LatestPoints(R \cup {i}) = Merged(L, p)
  <2>1. CASE \E q \in L : q.ts = p.ts /\ q.at >= p.at
    <3>1. PICK k \in R : IsNew(k, R) /\ log[k].ts = log[i].ts /\ log[i].at <= log[k].at
      BY <1>1, <1>2, <1>3, <2>1
    <3>2. ASSUME NEW q, q \in LatestPoints(R \cup {i})  PROVE q \in L
      <4>1. PICK j \in R \cup {i} : IsNew(j, R \cup {i}) /\ q = PointOf(j)
        BY <1>3, <1>8, <3>2
      <4>2. CASE j \in R
        BY <1>3, <4>1, <4>2
      <4>3. CASE j = i
        <5>1. log[k].at = log[i].at
          BY <1>1, <3>1, <4>1, <4>3
        <5>2. q = PointOf(k)
          BY <3>1, <4>1, <4>3, <5>1 DEF PointOf
        <5> QED  BY <1>3, <3>1, <5>2
      <4> QED  BY <4>2, <4>3
    <3>3. ASSUME NEW q \in L  PROVE q \in LatestPoints(R \cup {i})
      <4>1. PICK j \in R : IsNew(j, R) /\ q = PointOf(j)
        BY <1>3
      <4>2. log[i].ts = log[j].ts => log[i].at <= log[j].at
        BY <1>1, <3>1, <4>1
      <4>3. IsNew(j, R \cup {i})
        BY <4>1, <4>2
      <4> QED  BY <1>3, <1>8, <4>1, <4>3
    <3>4. Merged(L, p) = L
      BY <2>1 DEF Merged
    <3> QED  BY <3>2, <3>3, <3>4
  <2>2. CASE ~\E q \in L : q.ts = p.ts /\ q.at >= p.at
    <3>1. \A j \in R : log[j].ts = log[i].ts => log[j].at < log[i].at
      BY <1>1, <1>2, <1>5, <1>7, <2>2, <1>3
    <3>2. IsNew(i, R \cup {i})
      BY <1>1, <3>1
    <3>3. p \in LatestPoints(R \cup {i})
      BY <1>3, <1>8, <3>2
    <3>4. ASSUME NEW q, q \in LatestPoints(R \cup {i}), q # p
          PROVE  q \in L /\ q.ts # p.ts
      <4>1. PICK j \in R \cup {i} : IsNew(j, R \cup {i}) /\ q = PointOf(j)
        BY <1>3, <1>8, <3>4
      <4>2. j \in R /\ IsNew(j, R)
        BY <3>4, <4>1
      <4>3. log[j].ts # log[i].ts
        BY <1>1, <3>1, <4>1, <4>2
      <4> QED  BY <1>2, <1>3, <4>1, <4>2, <4>3
    <3>5. ASSUME NEW q \in L, q.ts # p.ts  PROVE q \in LatestPoints(R \cup {i})
      <4>1. PICK j \in R : IsNew(j, R) /\ q = PointOf(j)
        BY <1>3
      <4>2. IsNew(j, R \cup {i})
        BY <1>2, <3>5, <4>1
      <4> QED  BY <1>3, <1>8, <4>1, <4>2
    <3>6. Merged(L, p) = {q \in L : q.ts # p.ts} \cup {p}
      BY <2>2 DEF Merged
    <3> QED  BY <3>3, <3>4, <3>5, <3>6
  <2> QED  BY <2>1, <2>2
<1> QED  BY <1>5, <1>6, <1>9

(* What is kept of the events of one session. *)
KeptOf(hs, ids, s) == hs[s].points = Pruned(LatestPoints(ids[s]))

Histories == IsFiniteSet(Held(history)) /\ HistoryIsNewest

(* Some session is the least recently updated, and it goes. *)
LEMMA Evicted ==
    ASSUME NEW hs \in [Sessions -> History], IsFiniteSet(Held(hs)),
           Victims(hs) = {}
    PROVE  Cardinality(Held(hs)) <= MaxSessions
<1> DEFINE H == Held(hs)
           f == [s \in Sessions |-> Clock - hs[s].lastSeen]
<1>1. SUFFICES ASSUME ~(Cardinality(H) <= MaxSessions)  PROVE FALSE
  OBVIOUS
<1>2. H # {} /\ H \subseteq Sessions
  <2>1. H # {}
    BY <1>1, FS_EmptySet, ReceiverAssumption
  <2> QED  BY <2>1 DEF Held
<1>3. \A s \in H : hs[s].lastSeen \in 0..Clock
  BY <1>2 DEF History
<1>4. \A s \in H : f[s] = Clock - hs[s].lastSeen /\ f[s] \in Nat
  BY <1>2, <1>3, ReceiverAssumption
<1> HIDE DEF f, H
<1>5. PICK v \in H : \A s \in H : f[s] <= f[v]
  BY <1>2, <1>4, Greatest DEF H
<1>6. \A s \in H : hs[v].lastSeen <= hs[s].lastSeen
  BY <1>3, <1>4, <1>5, ReceiverAssumption
<1>7. v \in Victims(hs)
  BY <1>1, <1>5, <1>6 DEF Victims, H
<1> QED  BY <1>7

LEMMA HistoriesKept ==
    ASSUME TypeOK, Histories, NEW i \in Ids, RecordHistory(i), log' = log
    PROVE  Histories'
<1> DEFINE s    == log[i].of
           more == [history EXCEPT ![s] = Inserted(@, PointOf(i))]
           ids  == [recorded EXCEPT ![s] = @ \cup {i}]
<1>1. /\ log \in Logs /\ history \in [Sessions -> History]
      /\ recorded \in [Sessions -> SUBSET Ids] /\ s \in Sessions
      /\ history' \in [Sessions -> History]
  BY Broadcasts, HistoryTyped DEF TypeOK
<1>2. \A R \in SUBSET Ids : LatestPoints(R)' = LatestPoints(R)
  BY DEF LatestPoints, PointOf
<1>3. \A z \in Sessions : KeptOf(history, recorded, z)
  BY DEF Histories, HistoryIsNewest, KeptOf, Pruned
<1>4. MaxSessions \in Nat \ {0}
  BY ReceiverAssumption
<1>5. CASE ~IsPoint(i)
  <2>1. UNCHANGED <<history, recorded>>
    BY <1>5 DEF RecordHistory, Victims
  <2>2. \A z \in Sessions : LatestPoints(recorded[z])' = LatestPoints(recorded[z])
    BY <1>1, <1>2, <2>1
  <2> QED  BY <2>1, <2>2 DEF Histories, HistoryIsNewest, Held
<1>6. CASE IsPoint(i)
  <2>1. PointOf(i).ts \in Nat /\ PointOf(i) \in Point
    BY <1>1, <1>6, Broadcasts, ReceiverAssumption DEF PointOf, Point
  <2>2. more[s].points = Pruned(LatestPoints(recorded[s] \cup {i}))
    <3> DEFINE R == recorded[s]
               L == LatestPoints(R)
    <3>1. R \in SUBSET Ids
      BY <1>1
    <3>2. /\ Timed(L) /\ OnePerFix(L)
          /\ LatestPoints(R \cup {i}) = Merged(L, PointOf(i))
      BY <1>1, <3>1, LatestMerged
    <3>3. more[s].points = Pruned(Merged(history[s].points, PointOf(i)))
      BY <1>1 DEF Inserted, Pruned
    <3>4. history[s].points = Pruned(L)
      BY <1>1, <1>3 DEF KeptOf
    <3> HIDE DEF L, R, more, s
    <3> QED  BY <2>1, <3>2, <3>3, <3>4, MergedPruned DEF R
  <2>3. \A z \in Sessions : KeptOf(more, ids, z)
    <3>1. KeptOf(more, ids, s)
      BY <1>1, <2>2 DEF KeptOf
    <3>2. \A z \in Sessions \ {s} : more[z] = history[z] /\ ids[z] = recorded[z]
      BY <1>1
    <3> QED  BY <1>3, <3>1, <3>2 DEF KeptOf
  <2>4. /\ IsFiniteSet(Held(more)) /\ Cardinality(Held(more)) \in Nat
        /\ Cardinality(Held(more)) <= MaxSessions + 1
    <3>1. Held(more) \subseteq Held(history) \cup {s}
      BY <1>1 DEF Held
    <3>2. IsFiniteSet(Held(history)) /\ Cardinality(Held(history)) <= MaxSessions
      BY DEF Histories, HistoryIsNewest
    <3>3. /\ IsFiniteSet(Held(history) \cup {s})
          /\ Cardinality(Held(history)) \in Nat
          /\ Cardinality(Held(history) \cup {s}) \in Nat
          /\ Cardinality(Held(history) \cup {s}) <= Cardinality(Held(history)) + 1
      <4> DEFINE H == Held(history)
      <4> HIDE DEF H, s
      <4>1. /\ IsFiniteSet(H \cup {s})
            /\ Cardinality(H \cup {s}) = IF s \in H THEN Cardinality(H) ELSE Cardinality(H) + 1
        BY <3>2, FS_AddElement DEF H
      <4>2. Cardinality(H) \in Nat /\ Cardinality(H \cup {s}) \in Nat
        BY <3>2, <4>1, FS_CardinalityType DEF H
      <4> QED  BY <4>1, <4>2 DEF H
    <3>4. /\ IsFiniteSet(Held(more))
          /\ Cardinality(Held(more)) <= Cardinality(Held(history) \cup {s})
      BY <3>1, <3>3, FS_Subset
    <3>5. Cardinality(Held(more)) \in Nat
      BY <3>4, FS_CardinalityType
    <3> QED  BY <1>4, <3>2, <3>3, <3>4, <3>5
  <2>5. more \in [Sessions -> History] /\ ids \in [Sessions -> SUBSET Ids]
    <3>1. history[s].points \subseteq Point /\ history[s].lastSeen \in 0..Clock
      BY <1>1 DEF History
    <3>2. Inserted(history[s], PointOf(i)) \in History
      <4>1. Newest(InWindow(Merged(history[s].points, PointOf(i)))) \subseteq Point
        BY <2>1, <3>1 DEF Newest, InWindow, Merged
      <4>2. PointOf(i).at \in 0..Clock
        BY <2>1, ReceiverAssumption DEF Point
      <4> QED  BY <3>1, <4>1, <4>2 DEF Inserted, History
    <3> QED  BY <1>1, <3>2
  <2> HIDE DEF more, ids
  <2>6. CASE Victims(more) = {} /\ history' = more /\ recorded' = ids
    <3>1. Cardinality(Held(more)) <= MaxSessions
      BY <2>4, <2>5, <2>6, Evicted
    <3>2. \A z \in Sessions : LatestPoints(recorded[z])' = LatestPoints(ids[z])
      BY <1>2, <2>5, <2>6 DEF LatestPoints, PointOf
    <3> QED  BY <2>3, <2>4, <2>6, <3>1, <3>2 DEF Histories, HistoryIsNewest, KeptOf, Pruned, Held
  <2>7. ASSUME NEW v \in Victims(more), history' = [more EXCEPT ![v] = NoHistory],
               recorded' = [ids EXCEPT ![v] = {}]
        PROVE  Histories'
    <3>1. v \in Held(more) /\ v \in Sessions
      BY DEF Victims, Held
    <3>2. Held(history)' = Held(more) \ {v}
      BY <2>5, <2>7, <3>1 DEF Held, NoHistory
    <3>3. /\ IsFiniteSet(Held(more) \ {v})
          /\ Cardinality(Held(more) \ {v}) <= MaxSessions
      <4>1. /\ IsFiniteSet(Held(more) \ {v})
            /\ Cardinality(Held(more) \ {v}) = Cardinality(Held(more)) - 1
        BY <2>4, <3>1, FS_RemoveElement
      <4> QED  BY <1>4, <2>4, <4>1
    <3>4. \A z \in Sessions : LatestPoints(recorded[z])' = LatestPoints(recorded'[z])
      BY <2>7 DEF LatestPoints, PointOf
    <3>5. LatestPoints({}) = {} /\ Pruned({}) = {}
      BY DEF LatestPoints, Pruned, Newest, InWindow
    <3>6. \A z \in Sessions : KeptOf(history', recorded', z)
      BY <2>3, <2>5, <2>7, <3>1, <3>5 DEF KeptOf, NoHistory
    <3> QED  BY <3>2, <3>3, <3>4, <3>6 DEF Histories, HistoryIsNewest, KeptOf, Pruned
  <2> QED  BY <1>6, <2>6, <2>7 DEF RecordHistory, more, ids
<1> QED  BY <1>5, <1>6

LEMMA HistoriesStep ==
    ASSUME TypeOK, Histories, [Next]_vars  PROVE Histories'
<1>1. ASSUME NEW i \in Ids, ReceiveNew(i) \/ ReceiveAgain(i), RecordHistory(i)
      PROVE  Histories'
  BY <1>1, Arrives, HistoriesKept
<1>2. ASSUME UNCHANGED <<log, history, recorded>>  PROVE Histories'
  BY <1>2 DEF Histories, HistoryIsNewest, Held, LatestPoints, PointOf
<1>3. CASE Shutdown \/ Crash
  <2>1. /\ history' = [s \in Sessions |-> NoHistory] /\ recorded' = [s \in Sessions |-> {}]
        /\ log' = log
    BY <1>3 DEF Shutdown, Crash, Gone
  <2>2. Held(history)' = {}
    BY <2>1 DEF Held, NoHistory
  <2>3. LatestPoints({})' = {} /\ Newest(InWindow({})) = {}
    BY DEF LatestPoints, Newest, InWindow
  <2>4. \A s \in Sessions : history'[s].points = {} /\ recorded'[s] = {}
    BY <2>1 DEF NoHistory
  <2>5. \A s \in Sessions : LatestPoints(recorded[s])' = {}
    BY <2>3, <2>4 DEF LatestPoints
  <2>6. Held(history') = {}
    BY <2>2 DEF Held
  <2>7. IsFiniteSet(Held(history')) /\ Cardinality(Held(history')) <= MaxSessions
    BY <2>6, FS_EmptySet, ReceiverAssumption
  <2>8. \A s \in Sessions :
            history'[s].points = Newest(InWindow(LatestPoints(recorded[s])'))
    BY <2>3, <2>4, <2>5
  <2> QED  BY <2>2, <2>6, <2>7, <2>8 DEF Histories, HistoryIsNewest, LatestPoints, PointOf
<1>4. ASSUME NEW i \in Ids, ReceiveNew(i) \/ ReceiveAgain(i)
      PROVE  RecordHistory(i) \/ UNCHANGED <<log, history, recorded>>
  BY <1>4 DEF ReceiveNew, ReceiveAgain, ApplyIncoming
<1>5. CASE FlushSeen \/ Persist \/ Start \/ UNCHANGED vars
  BY <1>2, <1>5 DEF FlushSeen, Persist, Start, vars, life, window, shown, observed
<1> QED  BY <1>1, <1>2, <1>3, <1>4, <1>5 DEF Next

-----------------------------------------------------------------------------
(* The theorems *)

LEMMA ShownInit ==
    ASSUME Init  PROVE ShownInv /\ Histories
<1>1. TypeOK
  BY TypedInit
<1>2. Range(<<>>) = {}
  BY DEF Range
<1>3. Windows
  BY <1>2 DEF Init, Windows, RenotifiedOnlyForgotten
<1>4. Displays /\ AlertNotSilent /\ Retains
  BY DEF Init, NoTrack, Displays, DisplayOf, Delivered, AlertNotSilent, Retains, RetainsOf, Shows
<1>5. Histories
  <2>1. Held(history) = {}
    BY DEF Init, Held, NoHistory
  <2>2. \A s \in Sessions : history[s].points = {} /\ recorded[s] = {}
    BY DEF Init, NoHistory
  <2>3. LatestPoints({}) = {} /\ Newest(InWindow({})) = {}
    BY DEF LatestPoints, Newest, InWindow
  <2>4. IsFiniteSet(Held(history)) /\ Cardinality(Held(history)) <= MaxSessions
    BY <2>1, FS_EmptySet, ReceiverAssumption
  <2>5. \A s \in Sessions : history[s].points = Newest(InWindow(LatestPoints(recorded[s])))
    BY <2>2, <2>3
  <2> QED  BY <2>4, <2>5 DEF Histories, HistoryIsNewest
<1> QED  BY <1>1, <1>3, <1>4, <1>5 DEF ShownInv

(* What is shown, announced, retained and recorded is inductive. *)
LEMMA Inductive == Spec => [](ShownInv /\ Histories)
<1>1. Init => ShownInv /\ Histories
  BY ShownInit
<1>2. ShownInv /\ Histories /\ [Next]_vars => (ShownInv /\ Histories)'
  BY TypedStep, WindowsStep, DisplaysStep, AlertStep, RetainsStep, HistoriesStep DEF ShownInv
<1> QED  BY <1>1, <1>2, PTL DEF Spec

(* Every variable of the receiver holds a value of its type. *)
THEOREM TypeCorrect == Spec => []TypeOK
BY Inductive, PTL DEF ShownInv

(***************************************************************************)
(* apply_incoming, the duplicate path: in whatever order the relays        *)
(* deliver and replay, a session shows the newest event that arrived.      *)
(***************************************************************************)
THEOREM ShowsNewest == Spec => []DisplayIsNewest
<1>1. ShownInv => DisplayIsNewest
  BY DEF ShownInv, Displays, DisplayOf, DisplayIsNewest, Shows
<1> QED  BY <1>1, Inductive, PTL

(***************************************************************************)
(* apply_incoming's alert edge: a track never alerts unless some alert of  *)
(* its session notified, or reached an engine before this one.             *)
(***************************************************************************)
THEOREM AlertsAnnounced == Spec => []AlertNotSilent
<1>1. ShownInv => AlertNotSilent
  BY DEF ShownInv
<1> QED  BY <1>1, Inductive, PTL

(***************************************************************************)
(* process_incoming: only an id that left the window notifies once more.   *)
(***************************************************************************)
THEOREM NotifiedOnce == Spec => []RenotifiedOnlyForgotten
<1>1. ShownInv => RenotifiedOnlyForgotten
  BY DEF ShownInv, Windows
<1> QED  BY <1>1, Inductive, PTL

(***************************************************************************)
(* backfill_retained: a displayed STOP keeps a fix of the events that      *)
(* arrived before it and after it, as new as the latest broadcast's, the   *)
(* newest of all if the fixes were broadcast in order; and a name.         *)
(***************************************************************************)
THEOREM StopRemembers == Spec => []StopKeepsLastKnown
<1>1. ShownInv => StopKeepsLastKnown
  BY DEF ShownInv, Retains, RetainsOf, Keeps, StopKeepsLastKnown
<1> QED  BY <1>1, Inductive, PTL

(***************************************************************************)
(* TrackHistory::insert, prune_history_global: inserting and pruning one   *)
(* event at a time leaves what pruning them all at once would, and no more *)
(* sessions than allowed.                                                  *)
(***************************************************************************)
THEOREM HistoryExact == Spec => []HistoryIsNewest
<1>1. Histories => HistoryIsNewest
  BY DEF Histories
<1> QED  BY <1>1, Inductive, PTL
=============================================================================
