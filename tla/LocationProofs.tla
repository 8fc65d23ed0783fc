--------------------------- MODULE LocationProofs ---------------------------
(***************************************************************************)
(* Proofs about module Location, for any cadences and any number of taps.  *)
(*                                                                         *)
(* What the engine wants of the GPS travels through two queues, UiEvents   *)
(* and the looper's runnables, to the one session of the bridge.  The      *)
(* argument is the same for a session that must be on, must be off or must *)
(* have a rate: the last word on the matter, be it still in the first      *)
(* queue, in the second (Coming) or obeyed (Done), is the engine's.        *)
(***************************************************************************)
EXTENDS Location, SequenceTheorems, TLAPS

Paces == Rates \cup {AlertRate}

UiEvent ==
    [kind: {"need", "snapshot"}, on: BOOLEAN] \cup [kind: {"interval"}, rate: Paces]

Runnable ==
    [kind: {"ask", "stop"}] \cup [kind: {"start", "set", "relax"}, rate: Paces]

Listener == {NoListener} \cup [interval: Paces, rate: Paces \cup {AcquireRate}]

Command == {"start", "panic", "stop", "clear", "unavailable"}

Typed ==
    /\ share \in BOOLEAN /\ alert \in BOOLEAN /\ adaptive \in Rates
    /\ cmds \in Seq(Command) /\ ui \in Seq(UiEvent)
    /\ sharing \in BOOLEAN /\ active \in BOOLEAN
    /\ after \in {"none", "start", "panic"}
    /\ results \in Seq(BOOLEAN) /\ looper \in Seq(Runnable)
    /\ listener \in Listener /\ acquired \in BOOLEAN
    /\ service \in {"on", "off", "refused"}
    /\ permission \in {"none", "foreground", "always"}
    /\ owed \in BOOLEAN /\ declined \in BOOLEAN
    /\ overlooked \in BOOLEAN /\ overtaken \in BOOLEAN

-----------------------------------------------------------------------------
(* The last word *)

None(q, S) == \A i \in DOMAIN q : q[i] \notin S

(* The last of S in a queue is one of X. *)
Last(q, S, X) ==
    \E i \in DOMAIN q : q[i] \in X /\ \A j \in DOMAIN q : j > i => q[j] \notin S

(* The last of the events eu and the runnables er is one of xu or of xr ... *)
Coming(u, r, eu, xu, er, xr) == Last(u, eu, xu) \/ (None(u, eu) /\ Last(r, er, xr))

(* ... or there is none left: the last one has been obeyed. *)
Done(u, r, eu, er) == None(u, eu) /\ None(r, er)

Needs   == {e \in UiEvent : e.kind = "need"}
NeedOn  == {e \in Needs : e.on}
NeedOff == {e \in Needs : ~e.on}
Starts  == {r \in Runnable : r.kind = "start"}
Stops   == {r \in Runnable : r.kind = "stop"}

On  == listener # NoListener /\ service # "off"
Off == listener = NoListener /\ service = "off"

OffPath ==
    \/ Coming(ui, looper, Needs, NeedOff, Starts \cup Stops, Stops)
    \/ Done(ui, looper, Needs, Starts \cup Stops) /\ Off

OnPath ==
    \/ Coming(ui, looper, Needs, NeedOn, Starts \cup Stops, Starts)
    \/ Done(ui, looper, Needs, Starts \cup Stops) /\ On

(* A refusal on its way ends the share that has no session. *)
Refused ==
    \/ overlooked
    \/ \E i \in DOMAIN results : ~results[i]
    \/ \E i \in DOMAIN cmds : cmds[i] \in {"stop", "unavailable"}

Sessions ==
    /\ ~share => OffPath
    /\ share => OnPath \/ Refused
    /\ listener # NoListener => permission = "always"
    /\ acquired => listener # NoListener

(* Nobody is asked for what was granted. *)
Dialogs == dialog # "none" => permission # "always"

(* A panic that waits is carried out by the grant that is on its way. *)
Deferred ==
    /\ owed => declined \/ after = "panic"
    /\ owed /\ permission = "always" => declined \/ \E i \in DOMAIN results : results[i]

Pacing == {e \in UiEvent : e.kind \in {"need", "interval"}}

PaceOf(p) ==
    {e \in Pacing : IF e.kind = "need" THEN e.on /\ p = MinRate ELSE e.rate = p}

Setting == {r \in Runnable : r.kind \in {"start", "set", "stop"}}

SettingOf(p) == {r \in Setting : r.kind # "stop" /\ r.rate = p}

Paced(p) ==
    listener # NoListener =>
        \/ overtaken
        \/ /\ listener.interval = p
           /\ \A i \in DOMAIN looper : looper[i].kind = "relax" => looper[i].rate = p

RatePath(p) ==
    \/ Coming(ui, looper, Pacing, PaceOf(p), Setting, SettingOf(p))
    \/ Done(ui, looper, Pacing, Setting) /\ Paced(p)

(* The controller passes intervals on only while a session is wanted. *)
Awake == Last(ui, Needs, NeedOn) \/ (None(ui, Needs) /\ active)

Relaxing == \E i \in DOMAIN looper : looper[i].kind = "relax"

Rated ==
    /\ share => RatePath(Effective) /\ Awake
    /\ acquired => listener.rate = listener.interval \/ Relaxing

IInv == Typed /\ Dialogs /\ Sessions /\ Deferred /\ Rated

(* One more event in a queue: the last word is the new one, if it is a word at all. *)
LEMMA Appended ==
    ASSUME NEW T, NEW q \in Seq(T), NEW e \in T, NEW S, NEW X
    PROVE  /\ None(Append(q, e), S) <=> None(q, S) /\ e \notin S
           /\ e \in X => Last(Append(q, e), S, X)
           /\ e \notin S /\ Last(q, S, X) => Last(Append(q, e), S, X)
<1> DEFINE r == Append(q, e)
<1>1. /\ DOMAIN q = 1..Len(q) /\ DOMAIN r = 1..Len(q) + 1 /\ Len(q) \in Nat
      /\ \A i \in 1..Len(q) : r[i] = q[i]
      /\ r[Len(q) + 1] = e
  OBVIOUS
<1> HIDE DEF r
<1>2. None(r, S) <=> None(q, S) /\ e \notin S
  BY <1>1 DEF None
<1>3. e \in X => Last(r, S, X)
  <2>1. Len(q) + 1 \in DOMAIN r /\ \A j \in DOMAIN r : ~(j > Len(q) + 1)
    BY <1>1
  <2> QED  BY <1>1, <2>1 DEF Last
<1>4. e \notin S /\ Last(q, S, X) => Last(r, S, X)
  BY <1>1 DEF Last
<1> QED  BY <1>2, <1>3, <1>4 DEF r

(* Several more. *)
LEMMA Joined ==
    ASSUME NEW T, NEW q \in Seq(T), NEW s \in Seq(T), NEW S, NEW X
    PROVE  /\ None(q \o s, S) <=> None(q, S) /\ None(s, S)
           /\ Last(s, S, X) => Last(q \o s, S, X)
           /\ None(s, S) /\ Last(q, S, X) => Last(q \o s, S, X)
<1> DEFINE r == q \o s
<1>1. /\ DOMAIN q = 1..Len(q) /\ DOMAIN s = 1..Len(s) /\ DOMAIN r = 1..Len(q) + Len(s)
      /\ Len(q) \in Nat /\ Len(s) \in Nat
      /\ \A i \in 1..Len(q) : r[i] = q[i]
      /\ \A i \in 1..Len(s) : r[Len(q) + i] = s[i]
  OBVIOUS
<1>a. \A k \in DOMAIN r : k \in DOMAIN q \/ \E i \in DOMAIN s : k = Len(q) + i
  <2>1. TAKE k \in DOMAIN r
  <2>2. CASE k <= Len(q)
    BY <1>1, <2>2
  <2>3. CASE k > Len(q)
    <3>1. k - Len(q) \in DOMAIN s /\ k = Len(q) + (k - Len(q))
      BY <1>1, <2>3
    <3> QED  BY <3>1
  <2> QED  BY <1>1, <2>2, <2>3
<1> HIDE DEF r
<1>2. None(r, S) <=> None(q, S) /\ None(s, S)
  <2>1. None(r, S) => None(q, S) /\ None(s, S)
    BY <1>1 DEF None
  <2>2. None(q, S) /\ None(s, S) => None(r, S)
    BY <1>1, <1>a DEF None
  <2> QED  BY <2>1, <2>2
<1>3. Last(s, S, X) => Last(r, S, X)
  <2>1. SUFFICES ASSUME NEW i \in DOMAIN s, s[i] \in X,
                        \A j \in DOMAIN s : j > i => s[j] \notin S
                 PROVE  Last(r, S, X)
    BY DEF Last
  <2>2. Len(q) + i \in DOMAIN r /\ r[Len(q) + i] \in X
    BY <1>1, <2>1
  <2>3. ASSUME NEW j \in DOMAIN r, j > Len(q) + i  PROVE r[j] \notin S
    BY <1>1, <1>a, <2>1, <2>3
  <2> QED  BY <2>2, <2>3 DEF Last
<1>4. None(s, S) /\ Last(q, S, X) => Last(r, S, X)
  <2>1. SUFFICES ASSUME None(s, S), NEW i \in DOMAIN q, q[i] \in X,
                        \A j \in DOMAIN q : j > i => q[j] \notin S
                 PROVE  Last(r, S, X)
    BY DEF Last
  <2>2. i \in DOMAIN r /\ r[i] \in X
    BY <1>1, <2>1
  <2>3. ASSUME NEW j \in DOMAIN r, j > i  PROVE r[j] \notin S
    BY <1>1, <1>a, <2>1, <2>3 DEF None
  <2> QED  BY <2>2, <2>3 DEF Last
<1> QED  BY <1>2, <1>3, <1>4 DEF r

(* The first one leaves: it was the last word, or that word is still in the queue. *)
LEMMA Taken ==
    ASSUME NEW T, NEW q \in Seq(T), q # <<>>, NEW S, NEW X
    PROVE  /\ Head(q) \in T /\ Tail(q) \in Seq(T)
           /\ None(q, S) <=> Head(q) \notin S /\ None(Tail(q), S)
           /\ Last(q, S, X) => \/ Last(Tail(q), S, X)
                               \/ Head(q) \in X /\ None(Tail(q), S)
<1> DEFINE r == Tail(q)
<1>1. /\ Head(q) \in T /\ r \in Seq(T)
      /\ Len(q) \in Nat \ {0} /\ DOMAIN q = 1..Len(q) /\ DOMAIN r = 1..Len(q) - 1
      /\ \A i \in DOMAIN r : r[i] = q[i + 1]
      /\ Head(q) = q[1]
  OBVIOUS
<1>a. \A k \in DOMAIN q : k = 1 \/ (k - 1 \in DOMAIN r /\ q[k] = r[k - 1])
  BY <1>1
<1>b. \A i \in DOMAIN r : i + 1 \in DOMAIN q /\ i \in Nat \ {0} /\ r[i] = q[i + 1]
  BY <1>1
<1>c. 1 \in DOMAIN q /\ DOMAIN q \subseteq Nat
  BY <1>1
<1> HIDE DEF r
<1>2. None(q, S) <=> Head(q) \notin S /\ None(r, S)
  <2>1. None(q, S) => Head(q) \notin S /\ None(r, S)
    BY <1>1, <1>b, <1>c DEF None
  <2>2. Head(q) \notin S /\ None(r, S) => None(q, S)
    BY <1>1, <1>a, <1>c DEF None
  <2> QED  BY <2>1, <2>2
<1>3. Last(q, S, X) => Last(r, S, X) \/ (Head(q) \in X /\ None(r, S))
  <2>1. SUFFICES ASSUME NEW i \in DOMAIN q, q[i] \in X,
                        \A j \in DOMAIN q : j > i => q[j] \notin S
                 PROVE  Last(r, S, X) \/ (Head(q) \in X /\ None(r, S))
    BY DEF Last
  <2>2. CASE i = 1
    BY <1>1, <1>b, <2>1, <2>2 DEF None
  <2>3. CASE i # 1
    <3>1. i - 1 \in DOMAIN r /\ r[i - 1] \in X
      BY <1>a, <2>1, <2>3
    <3>2. ASSUME NEW j \in DOMAIN r, j > i - 1  PROVE r[j] \notin S
      BY <1>b, <1>c, <2>1, <3>2
    <3> QED  BY <3>1, <3>2 DEF Last
  <2> QED  BY <2>2, <2>3
<1> QED  BY <1>1, <1>2, <1>3 DEF r

-----------------------------------------------------------------------------
(* What each way of moving the queues does to the last word *)

(* The engine speaks: about something else, or it has the last word. *)
LEMMA Emitted ==
    ASSUME NEW u \in Seq(UiEvent), NEW s \in Seq(UiEvent), NEW r,
           NEW eu, NEW xu, NEW er, NEW xr
    PROVE  /\ Last(s, eu, xu) => Coming(u \o s, r, eu, xu, er, xr)
           /\ None(s, eu) /\ Coming(u, r, eu, xu, er, xr) =>
                  Coming(u \o s, r, eu, xu, er, xr)
           /\ None(s, eu) /\ Done(u, r, eu, er) => Done(u \o s, r, eu, er)
BY Joined DEF Coming, Done

(* A runnable is posted that does not matter. *)
LEMMA Posted ==
    ASSUME NEW u, NEW r \in Seq(Runnable), NEW e \in Runnable,
           NEW eu, NEW xu, NEW er, NEW xr, e \notin er
    PROVE  /\ Coming(u, r, eu, xu, er, xr) => Coming(u, Append(r, e), eu, xu, er, xr)
           /\ Done(u, r, eu, er) => Done(u, Append(r, e), eu, er)
BY Appended DEF Coming, Done

(* The controller takes an event that does not matter. *)
LEMMA Passed ==
    ASSUME NEW u \in Seq(UiEvent), u # <<>>, NEW r,
           NEW eu, NEW xu, NEW er, NEW xr, xu \subseteq eu, Head(u) \notin eu
    PROVE  /\ Coming(u, r, eu, xu, er, xr) => Coming(Tail(u), r, eu, xu, er, xr)
           /\ Done(u, r, eu, er) => Done(Tail(u), r, eu, er)
BY Taken DEF Coming, Done

(* The controller turns an event that does into the runnable that says the same. *)
LEMMA Handed ==
    ASSUME NEW u \in Seq(UiEvent), u # <<>>, NEW r \in Seq(Runnable), NEW e \in Runnable,
           NEW eu, NEW xu, NEW er, NEW xr,
           Head(u) \in eu, Head(u) \in xu => e \in xr
    PROVE  /\ Coming(u, r, eu, xu, er, xr) => Coming(Tail(u), Append(r, e), eu, xu, er, xr)
           /\ ~Done(u, r, eu, er)
BY Taken, Appended DEF Coming, Done

(* The looper runs one: it was the last word, or that word is still to come. *)
LEMMA Ran ==
    ASSUME NEW u, NEW r \in Seq(Runnable), r # <<>>, NEW eu, NEW xu, NEW er, NEW xr
    PROVE  /\ Coming(u, r, eu, xu, er, xr) =>
                  \/ Coming(u, Tail(r), eu, xu, er, xr)
                  \/ Head(r) \in xr /\ Done(u, Tail(r), eu, er)
           /\ Done(u, r, eu, er) => Head(r) \notin er /\ Done(u, Tail(r), eu, er)
BY Taken DEF Coming, Done

-----------------------------------------------------------------------------
(* Types *)

LEMMA Constants ==
    /\ MinRate \in Paces /\ AlertRate \in Paces /\ Rates \subseteq Paces
    /\ \A i \in Paces : i \in Nat /\ i # 0 /\ i # AcquireRate
    /\ Ask \in Runnable /\ Stop \in Runnable
    /\ \A i \in Paces : Start(i) \in Runnable /\ Set(i) \in Runnable /\ Relax(i) \in Runnable
    /\ \A on \in BOOLEAN : Need(on) \in UiEvent /\ Snapshot(on) \in UiEvent
    /\ \A i \in Paces : Interval(i) \in UiEvent
<1>1. /\ MinRate \in Paces /\ AlertRate \in Paces /\ Rates \subseteq Paces
      /\ \A i \in Paces : i \in Nat /\ i # 0 /\ i # AcquireRate
  BY RateAssumption DEF Paces
<1>2. /\ Ask \in Runnable /\ Stop \in Runnable
      /\ \A i \in Paces : Start(i) \in Runnable /\ Set(i) \in Runnable /\ Relax(i) \in Runnable
  BY DEF Runnable, Ask, Stop, Start, Set, Relax
<1>3. /\ \A on \in BOOLEAN : Need(on) \in UiEvent /\ Snapshot(on) \in UiEvent
      /\ \A i \in Paces : Interval(i) \in UiEvent
  BY DEF UiEvent, Need, Snapshot, Interval
<1> QED  BY <1>1, <1>2, <1>3

(* What the bridge listens with after a subscription, and what it posts. *)
LEMMA Subscribed ==
    ASSUME NEW i \in Paces, NEW got \in BOOLEAN, NEW rest \in Seq(Runnable),
           Subscribe(i, got, rest)
    PROVE  /\ listener' \in Listener /\ listener' # NoListener /\ acquired' \in BOOLEAN
           /\ listener'.interval = i
           /\ \/ looper' = rest /\ acquired' = got
              \/ looper' = Append(rest, Relax(i)) /\ acquired'
           /\ acquired' => listener'.rate = i \/ looper' = Append(rest, Relax(i))
           /\ looper' \in Seq(Runnable)
<1>1. listener' = [interval |-> i, rate |-> IF got THEN i ELSE AcquireRate]
  BY DEF Subscribe
<1>2. /\ listener' \in Listener /\ listener' # NoListener /\ listener'.interval = i
      /\ got => listener'.rate = i
  BY <1>1, Constants DEF Listener, NoListener
<1>3. \/ looper' = rest /\ acquired' = got
      \/ looper' = Append(rest, Relax(i)) /\ acquired' = TRUE
  BY DEF Subscribe, FirstFix
<1>4. Relax(i) \in Runnable
  BY Constants
<1>5. CASE looper' = rest /\ acquired' = got
  BY <1>2, <1>5
<1>6. CASE looper' = Append(rest, Relax(i)) /\ acquired' = TRUE
  <2>1. Append(rest, Relax(i)) \in Seq(Runnable)
    BY <1>4, AppendProperties
  <2> QED  BY <1>2, <1>6, <2>1
<1> QED  BY <1>3, <1>5, <1>6

LEMMA Sentences ==
    ASSUME NEW T
    PROVE  /\ <<>> \in Seq(T)
           /\ \A a \in T : <<a>> \in Seq(T)
           /\ \A a, b \in T : <<a, b>> \in Seq(T)
           /\ \A a, b, c \in T : <<a, b, c>> \in Seq(T)
OBVIOUS

LEMMA TypedInit ==
    ASSUME Init  PROVE Typed
<1>1. cmds \in Seq(Command)
  BY Sentences DEF Init, Command
<1>2. ui \in Seq(UiEvent) /\ looper \in Seq(Runnable) /\ results \in Seq(BOOLEAN)
  BY Sentences DEF Init
<1> QED  BY <1>1, <1>2, RateAssumption DEF Init, Typed, Listener

(* What a command tells the user interface. *)
LEMMA Handles ==
    ASSUME Typed, NEW c \in Command, Handle(c)
    PROVE  \E s \in Seq(UiEvent) :
             /\ ui' = ui \o s
             /\ \/ /\ c \notin {"stop", "unavailable"} /\ ~share
                   /\ share' /\ ~overlooked' /\ adaptive' = MinRate
                   /\ \/ s = <<Need(TRUE), Snapshot(TRUE)>> /\ ~alert'
                      \/ s = <<Need(TRUE), Interval(AlertRate), Snapshot(TRUE)>> /\ alert'
                \/ /\ c \notin {"stop", "unavailable"} /\ share /\ share'
                   /\ UNCHANGED <<adaptive, overlooked>>
                   /\ \/ s = <<Interval(AlertRate), Snapshot(TRUE)>> /\ alert'
                      \/ s = <<Interval(adaptive), Snapshot(TRUE)>> /\ ~alert'
                \/ /\ c \in {"stop", "unavailable"} /\ ~share' /\ ~alert'
                   /\ UNCHANGED <<adaptive, overlooked>>
                   /\ s = <<Need(FALSE), Snapshot(FALSE)>>
                \/ /\ c \notin {"stop", "unavailable"}
                   /\ UNCHANGED <<share, alert, adaptive, overlooked>> /\ s = <<>>
<1>e. /\ Need(TRUE) \in UiEvent /\ Need(FALSE) \in UiEvent
      /\ Snapshot(TRUE) \in UiEvent /\ Snapshot(FALSE) \in UiEvent
      /\ Interval(AlertRate) \in UiEvent /\ Interval(adaptive) \in UiEvent
  BY Constants DEF Typed
<1>t. share \in BOOLEAN /\ alert \in BOOLEAN /\ ui \in Seq(UiEvent)
  BY DEF Typed
<1>1. CASE c \in {"start", "panic"} /\ ~share
  <2>1. PICK alerting \in BOOLEAN : Begin(alerting)
    BY <1>1, <1>t DEF Handle
  <2>2. CASE alerting
    <3> DEFINE s == <<Need(TRUE), Interval(AlertRate), Snapshot(TRUE)>>
    <3>1. s \in Seq(UiEvent)
      BY <1>e, Sentences
    <3>2. ui' = ui \o s
      BY <2>1, <2>2 DEF Begin, Emit
    <3> QED  BY <1>1, <2>1, <2>2, <3>1, <3>2 DEF Begin
  <2>3. CASE ~alerting
    <3> DEFINE s == <<Need(TRUE), Snapshot(TRUE)>>
    <3>1. s \in Seq(UiEvent)
      BY <1>e, Sentences
    <3>2. ui' = ui \o s
      BY <2>1, <2>3 DEF Begin, Emit
    <3> QED  BY <1>1, <2>1, <2>3, <3>1, <3>2 DEF Begin
  <2> QED  BY <2>2, <2>3
<1>2. CASE \/ c = "panic" /\ share /\ ~alert
           \/ c = "clear" /\ share /\ alert
  <2>1. PICK on \in BOOLEAN : SetAlert(on)
    BY <1>2, <1>t DEF Handle
  <2> DEFINE s == <<Interval(IF on THEN AlertRate ELSE adaptive), Snapshot(TRUE)>>
  <2>2. s \in Seq(UiEvent)
    BY <1>e, Sentences
  <2>3. ui' = ui \o s
    BY <2>1 DEF SetAlert, Emit
  <2> QED  BY <1>2, <2>1, <2>2, <2>3 DEF SetAlert
<1>3. CASE c \in {"stop", "unavailable"}
  <2>1. StopShare
    BY <1>3 DEF Handle
  <2> DEFINE s == <<Need(FALSE), Snapshot(FALSE)>>
  <2>2. s \in Seq(UiEvent)
    BY <1>e, Sentences
  <2>3. ui' = ui \o s
    BY <2>1 DEF StopShare, Emit
  <2> QED  BY <1>3, <2>1, <2>2, <2>3 DEF StopShare
<1>4. CASE \/ c \in {"start"} /\ share
           \/ c = "panic" /\ share /\ alert
           \/ c = "clear" /\ ~(share /\ alert)
  <2>1. Nothing
    BY <1>4, <1>t DEF Handle
  <2>2. <<>> \in Seq(UiEvent) /\ ui' = ui \o <<>>
    BY <2>1, <1>t DEF Nothing
  <2> QED  BY <1>4, <2>1, <2>2 DEF Nothing, engine
<1> QED  BY <1>1, <1>2, <1>3, <1>4, <1>t DEF Command

LEMMA TypedStep ==
    ASSUME Typed, [Next]_vars  PROVE Typed'
<1> USE DEF Typed
<1>r. /\ Ask \in Runnable /\ Stop \in Runnable
      /\ Append(looper, Ask) \in Seq(Runnable) /\ Append(looper, Stop) \in Seq(Runnable)
      /\ \A b \in BOOLEAN : Append(results, b) \in Seq(BOOLEAN)
      /\ \A c \in Command : Append(cmds, c) \in Seq(Command)
  BY Constants, AppendProperties
<1>1. CASE TapFor("start") \/ TapFor("panic")
  <2>1. PICK what \in {"start", "panic"} : TapFor(what)
    BY <1>1
  <2>2. cmds' \in Seq(Command) /\ looper' \in Seq(Runnable)
    BY <2>1, <1>r DEF TapFor, Send, Command
  <2>3. after' \in {"none", "start", "panic"}
    BY <2>1 DEF TapFor
  <2>4. owed' \in BOOLEAN /\ declined' \in BOOLEAN
    BY <2>1 DEF TapFor
  <2> QED  BY <2>1, <2>2, <2>3, <2>4 DEF TapFor, engine, gps, android
<1>2. CASE TapStop \/ TapClear
  <2>1. cmds' \in Seq(Command)
    BY <1>2, <1>r DEF TapStop, TapClear, Send, Command
  <2>2. UNCHANGED <<engine, ui, view, results, looper, gps, android, tunes, seen>>
    BY <1>2 DEF TapStop, TapClear
  <2> QED  BY <2>1, <2>2 DEF engine, view, gps, android, seen
<1>3. CASE EngineStep
  <2>1. Head(cmds) \in Command /\ Tail(cmds) \in Seq(Command)
    BY <1>3, Taken DEF EngineStep
  <2>2. Handle(Head(cmds))
    BY <1>3 DEF EngineStep
  <2>3. PICK s \in Seq(UiEvent) : ui' = ui \o s
    BY <2>1, <2>2, Handles
  <2>4. ui' \in Seq(UiEvent)
    BY <2>3, ConcatProperties
  <2>5. /\ share' \in BOOLEAN /\ alert' \in BOOLEAN
        /\ adaptive' \in Rates /\ overlooked' \in BOOLEAN
    BY <2>1, <2>2, RateAssumption
    DEF Handle, Begin, SetAlert, StopShare, Nothing, engine, Command
  <2> QED  BY <1>3, <2>1, <2>4, <2>5 DEF EngineStep, view, gps, android
<1>4. CASE \E i \in Rates : Retune(i)
  <2>1. PICK i \in Rates : Retune(i)
    BY <1>4
  <2>2. <<Interval(i)>> \in Seq(UiEvent)
    BY Constants, Sentences
  <2>3. ui' \in Seq(UiEvent)
    BY <2>1, <2>2, ConcatProperties DEF Retune, Emit
  <2> QED  BY <2>1, <2>3 DEF Retune, view, gps, android, seen
<1>5. CASE OnUiEvent
  <2>1. Head(ui) \in UiEvent /\ Tail(ui) \in Seq(UiEvent)
    BY <1>5, Taken DEF OnUiEvent
  <2>2. /\ sharing' \in BOOLEAN /\ active' \in BOOLEAN /\ looper' \in Seq(Runnable)
    <3>1. CASE Head(ui).kind = "need"
      <4>1. Head(ui).on \in BOOLEAN
        BY <2>1, <3>1 DEF UiEvent
      <4>2. Append(looper, Start(MinRate)) \in Seq(Runnable)
        BY Constants, AppendProperties
      <4> QED  BY <1>5, <3>1, <4>1, <4>2, <1>r DEF OnUiEvent, NeedLocation
    <3>2. CASE Head(ui).kind = "interval"
      <4>1. Append(looper, Set(Head(ui).rate)) \in Seq(Runnable)
        BY <2>1, <3>2, Constants, AppendProperties DEF UiEvent
      <4> QED  BY <1>5, <3>2, <4>1 DEF OnUiEvent, SetLocationInterval
    <3>3. CASE Head(ui).kind = "snapshot"
      <4>1. Head(ui).on \in BOOLEAN
        BY <2>1, <3>3 DEF UiEvent
      <4> QED  BY <1>5, <3>3, <4>1 DEF OnUiEvent
    <3> QED  BY <2>1, <3>1, <3>2, <3>3 DEF UiEvent
  <2> QED  BY <1>5, <2>1, <2>2 DEF OnUiEvent, engine, gps, android, seen
<1>6. CASE OnPermissionResult
  <2>1. Head(results) \in BOOLEAN /\ Tail(results) \in Seq(BOOLEAN)
    BY <1>6, Taken DEF OnPermissionResult
  <2>2. /\ cmds' \in Seq(Command) /\ owed' \in BOOLEAN
        /\ declined' \in BOOLEAN /\ overlooked' \in BOOLEAN
    BY <1>6, <1>r DEF OnPermissionResult, Refusal, Send, Command
  <2> QED  BY <1>6, <2>1, <2>2 DEF OnPermissionResult, engine, gps, android
<1>7. CASE LooperStep
  <2> DEFINE r == Head(looper)
  <2>1. r \in Runnable /\ Tail(looper) \in Seq(Runnable)
    BY <1>7, Taken DEF LooperStep
  <2>2. ASSUME NEW i \in Paces, NEW got \in BOOLEAN, Subscribe(i, got, Tail(looper))
        PROVE  listener' \in Listener /\ acquired' \in BOOLEAN /\ looper' \in Seq(Runnable)
    BY <2>1, <2>2, Subscribed
  <2>3. r.kind \in {"start", "set", "relax"} => r.rate \in Paces
    BY <2>1 DEF Runnable
  <2> HIDE DEF r
  <2>4. /\ listener' \in Listener /\ acquired' \in BOOLEAN /\ service' \in {"on", "off", "refused"}
        /\ looper' \in Seq(Runnable)
        /\ results' \in Seq(BOOLEAN) /\ overtaken' \in BOOLEAN
    <3>1. CASE r.kind = "ask" /\ RunAsk
      BY <3>1, <2>1, <1>r DEF RunAsk, RequestForeground, RequestBackground, Report, gps
    <3>2. CASE r.kind = "start" /\ RunStart(r.rate)
      BY <3>2, <2>1, <2>2, <2>3, <1>r DEF RunStart, Refuse, Report, gps, Outdated
    <3>3. CASE r.kind = "set" /\ RunSet(r.rate)
      BY <3>3, <2>1, <2>2, <2>3, <1>r DEF RunSet, Refuse, Report, gps, Outdated
    <3>4. CASE r.kind = "relax" /\ RunRelax(r.rate)
      BY <3>4, <2>1, <2>2, <2>3 DEF RunRelax
    <3>5. CASE r.kind = "stop" /\ RunStop
      BY <3>5, <2>1 DEF RunStop, Listener
    <3> QED  BY <1>7, <3>1, <3>2, <3>3, <3>4, <3>5 DEF LooperStep, r
  <2> QED  BY <1>7, <2>4 DEF LooperStep, engine, view
<1>8. CASE OnLocationChanged
  <2>1. listener.interval \in Paces
    BY <1>8 DEF OnLocationChanged, Listener
  <2>2. looper' \in Seq(Runnable) /\ acquired'
    BY <1>8, <2>1, Constants, AppendProperties DEF OnLocationChanged, FirstFix
  <2> QED  BY <1>8, <2>2 DEF OnLocationChanged, FirstFix, engine, view, android, seen
<1>9. CASE AnswerDialog
  <2>1. results' \in Seq(BOOLEAN)
    BY <1>9, <1>r DEF AnswerDialog, AnswerForeground, AnswerBackground, Denied, Report
  <2>2. owed' \in BOOLEAN /\ permission' \in {"none", "foreground", "always"}
    BY <1>9 DEF AnswerDialog, AnswerForeground, AnswerBackground, Denied
  <2> QED  BY <1>9, <2>1, <2>2 DEF AnswerDialog, engine, view, gps
<1>10. CASE UNCHANGED vars
  BY <1>10 DEF vars, engine, view, gps, android, seen
<1> QED  BY <1>1, <1>2, <1>3, <1>4, <1>5, <1>6, <1>7, <1>8, <1>9, <1>10 DEF Next

-----------------------------------------------------------------------------
(* A session runs while the engine wants one *)

(* The last word of a short sentence. *)
LEMMA Said ==
    ASSUME NEW a, NEW b, NEW c, NEW S, NEW X
    PROVE  /\ None(<<>>, S)
           /\ a \notin S => None(<<a>>, S)
           /\ a \in X => Last(<<a>>, S, X)
           /\ a \notin S /\ b \notin S => None(<<a, b>>, S)
           /\ a \in X /\ b \notin S => Last(<<a, b>>, S, X)
           /\ a \in X /\ b \notin S /\ c \notin S => Last(<<a, b, c>>, S, X)
           /\ b \in X /\ c \notin S => Last(<<a, b, c>>, S, X)
<1>1. None(<<>>, S) /\ (a \notin S => None(<<a>>, S)) /\ (a \in X => Last(<<a>>, S, X))
  BY DEF None, Last
<1>2. a \notin S /\ b \notin S => None(<<a, b>>, S)
  BY DEF None
<1>3. a \in X /\ b \notin S => Last(<<a, b>>, S, X)
  <2> DEFINE q == <<a, b>>
  <2>1. DOMAIN q = 1..2 /\ q[1] = a /\ q[2] = b
    OBVIOUS
  <2> HIDE DEF q
  <2>2. a \in X /\ b \notin S => Last(q, S, X)
    BY <2>1 DEF Last
  <2> QED  BY <2>2 DEF q
<1>4. /\ a \in X /\ b \notin S /\ c \notin S => Last(<<a, b, c>>, S, X)
      /\ b \in X /\ c \notin S => Last(<<a, b, c>>, S, X)
  <2> DEFINE q == <<a, b, c>>
  <2>1. DOMAIN q = 1..3 /\ q[1] = a /\ q[2] = b /\ q[3] = c
    OBVIOUS
  <2> HIDE DEF q
  <2>2. a \in X /\ b \notin S /\ c \notin S => Last(q, S, X)
    BY <2>1 DEF Last
  <2>3. b \in X /\ c \notin S => Last(q, S, X)
    BY <2>1 DEF Last
  <2> QED  BY <2>2, <2>3 DEF q
<1> QED  BY <1>1, <1>2, <1>3, <1>4

(* What the words mean to a session. *)
LEMMA Meanings ==
    /\ Need(TRUE) \in NeedOn /\ Need(FALSE) \in NeedOff
    /\ NeedOn \subseteq Needs /\ NeedOff \subseteq Needs
    /\ \A e \in Needs : e \in NeedOn <=> e.on
    /\ \A e \in Needs : e \in NeedOff <=> ~e.on
    /\ \A on \in BOOLEAN : Snapshot(on) \notin Needs
    /\ \A i \in Paces : Interval(i) \notin Needs
    /\ Start(MinRate) \in Starts /\ Start(MinRate) \notin Stops
    /\ Stop \in Stops /\ Stop \notin Starts
    /\ Ask \notin Starts \cup Stops
    /\ \A i \in Paces : Set(i) \notin Starts \cup Stops /\ Relax(i) \notin Starts \cup Stops
<1>1. /\ Need(TRUE) \in NeedOn /\ Need(FALSE) \in NeedOff
      /\ NeedOn \subseteq Needs /\ NeedOff \subseteq Needs
      /\ \A e \in Needs : e \in NeedOn <=> e.on
      /\ \A e \in Needs : e \in NeedOff <=> ~e.on
  BY Constants DEF Need, Needs, NeedOn, NeedOff
<1>2. /\ \A on \in BOOLEAN : Snapshot(on) \notin Needs
      /\ \A i \in Paces : Interval(i) \notin Needs
  BY DEF Needs, Snapshot, Interval
<1>3. /\ Start(MinRate) \in Starts /\ Start(MinRate) \notin Stops
      /\ Stop \in Stops /\ Stop \notin Starts /\ Ask \notin Starts \cup Stops
      /\ \A i \in Paces : Set(i) \notin Starts \cup Stops /\ Relax(i) \notin Starts \cup Stops
  BY Constants DEF Starts, Stops, Start, Stop, Ask, Set, Relax
<1> QED  BY <1>1, <1>2, <1>3

(* Whoever posts neither a start nor a stop leaves the session where it was going. *)
LEMMA Unmoved ==
    ASSUME Typed, UNCHANGED <<ui, listener, service>>,
           \/ looper' = looper
           \/ \E e \in Runnable : e \notin Starts \cup Stops /\ looper' = Append(looper, e)
    PROVE  (OffPath => OffPath') /\ (OnPath => OnPath')
<1>1. CASE looper' = looper
  BY <1>1 DEF OffPath, OnPath, On, Off
<1>2. CASE \E e \in Runnable : e \notin Starts \cup Stops /\ looper' = Append(looper, e)
  BY <1>2, Posted DEF OffPath, OnPath, On, Off, Typed
<1> QED  BY <1>1, <1>2

(* A command: what it tells of the session is what the share now wants. *)
LEMMA SessionsCommand ==
    ASSUME Typed, Sessions, EngineStep
    PROVE  Sessions'
<1>1. /\ cmds # <<>> /\ Head(cmds) \in Command /\ cmds' = Tail(cmds) /\ Handle(Head(cmds))
      /\ UNCHANGED <<looper, listener, service, acquired, permission, results>>
  BY Taken DEF Typed, EngineStep, gps, android
<1>u. ui \in Seq(UiEvent) /\ share \in BOOLEAN
  BY DEF Typed
<1>m. /\ Need(TRUE) \in NeedOn /\ Need(FALSE) \in NeedOff
      /\ Snapshot(TRUE) \notin Needs /\ Snapshot(FALSE) \notin Needs
      /\ Interval(AlertRate) \notin Needs /\ Interval(adaptive) \notin Needs
  BY Meanings, Constants DEF Typed
<1>2. PICK s \in Seq(UiEvent) :
         /\ ui' = ui \o s
         /\ \/ /\ ~share /\ share' /\ Last(s, Needs, NeedOn)
            \/ /\ share /\ share' /\ overlooked' = overlooked
               /\ Head(cmds) \notin {"stop", "unavailable"} /\ None(s, Needs)
            \/ ~share' /\ Last(s, Needs, NeedOff)
            \/ /\ share' = share /\ overlooked' = overlooked
               /\ Head(cmds) \notin {"stop", "unavailable"} /\ None(s, Needs)
  BY <1>1, <1>m, Handles, Said
<1>3. CASE ~share /\ share' /\ Last(s, Needs, NeedOn)
  <2>1. OnPath'
    BY <1>1, <1>2, <1>3, <1>u, Emitted DEF OnPath
  <2> QED  BY <1>1, <1>3, <2>1 DEF Sessions
<1>4. CASE ~share' /\ Last(s, Needs, NeedOff)
  <2>1. OffPath'
    BY <1>1, <1>2, <1>4, <1>u, Emitted DEF OffPath
  <2> QED  BY <1>1, <1>4, <2>1 DEF Sessions
<1>5. CASE /\ share' = share /\ overlooked' = overlooked
           /\ Head(cmds) \notin {"stop", "unavailable"} /\ None(s, Needs)
  <2>1. (OffPath => OffPath') /\ (OnPath => OnPath')
    BY <1>1, <1>2, <1>5, <1>u, Emitted DEF OnPath, OffPath, On, Off
  <2>2. Refused => Refused'
    <3>1. \A k \in DOMAIN cmds : k = 1 \/ (k - 1 \in DOMAIN cmds' /\ cmds[k] = cmds'[k - 1])
      BY <1>1 DEF Typed
    <3>2. cmds[1] = Head(cmds)
      BY <1>1 DEF Typed
    <3> QED  BY <1>1, <1>5, <3>1, <3>2 DEF Refused
  <2> QED  BY <1>1, <1>5, <2>1, <2>2 DEF Sessions
<1> QED  BY <1>2, <1>3, <1>4, <1>5, <1>u

(* The controller passes the word on. *)
LEMMA SessionsEvent ==
    ASSUME Typed, Sessions, OnUiEvent
    PROVE  Sessions'
<1>1. /\ ui # <<>> /\ Head(ui) \in UiEvent /\ ui' = Tail(ui)
      /\ UNCHANGED <<share, cmds, overlooked, results, listener, service, acquired, permission>>
  BY Taken DEF Typed, OnUiEvent, engine, gps, android, seen
<1>u. ui \in Seq(UiEvent) /\ looper \in Seq(Runnable)
  BY DEF Typed
<1>2. CASE Head(ui).kind = "need"
  <2> DEFINE e == IF Head(ui).on THEN Start(MinRate) ELSE Stop
  <2>1. looper' = Append(looper, e)
    BY <1>2 DEF OnUiEvent, NeedLocation
  <2>2. /\ e \in Runnable /\ Head(ui) \in Needs
        /\ Head(ui) \in NeedOff => e \in Stops
        /\ Head(ui) \in NeedOn => e \in Starts
    BY <1>1, <1>2, Meanings, Constants DEF Needs
  <2> HIDE DEF e
  <2>3. OffPath => OffPath'
    BY <1>1, <1>u, <2>1, <2>2, Handed DEF OffPath
  <2>4. OnPath => OnPath'
    BY <1>1, <1>u, <2>1, <2>2, Handed DEF OnPath
  <2> QED  BY <1>1, <2>3, <2>4 DEF Sessions, Refused
<1>3. CASE Head(ui).kind \in {"interval", "snapshot"}
  <2>1. Head(ui) \notin Needs
    BY <1>3 DEF Needs
  <2>2. \/ looper' = looper
        \/ \E e \in Runnable : e \notin Starts \cup Stops /\ looper' = Append(looper, e)
    BY <1>1, <1>3, Constants, Meanings DEF OnUiEvent, SetLocationInterval, UiEvent
  <2>3. ASSUME NEW xu \in {NeedOn, NeedOff}, NEW xr \in {Starts, Stops}
        PROVE  /\ Coming(ui, looper, Needs, xu, Starts \cup Stops, xr) =>
                      Coming(ui', looper', Needs, xu, Starts \cup Stops, xr)
               /\ Done(ui, looper, Needs, Starts \cup Stops) =>
                      Done(ui', looper', Needs, Starts \cup Stops)
    <3>1. /\ Coming(ui, looper, Needs, xu, Starts \cup Stops, xr) =>
                 Coming(ui', looper, Needs, xu, Starts \cup Stops, xr)
          /\ Done(ui, looper, Needs, Starts \cup Stops) =>
                 Done(ui', looper, Needs, Starts \cup Stops)
      BY <1>1, <1>u, <2>1, Passed, Meanings
    <3> QED  BY <1>u, <2>2, <3>1, Posted
  <2>4. (OffPath => OffPath') /\ (OnPath => OnPath')
    BY <1>1, <2>3 DEF OffPath, OnPath, On, Off
  <2> QED  BY <1>1, <2>4 DEF Sessions, Refused
<1> QED  BY <1>1, <1>2, <1>3 DEF UiEvent

(* A refusal ends the share, or comes before the controller knows of one. *)
LEMMA SessionsResult ==
    ASSUME Typed, Sessions, OnPermissionResult
    PROVE  Sessions'
<1>1. /\ results # <<>> /\ Head(results) \in BOOLEAN /\ results' = Tail(results)
      /\ UNCHANGED <<share, ui, looper, listener, service, acquired, permission>>
  BY Taken DEF Typed, OnPermissionResult, engine, gps, android
<1>2. (OffPath => OffPath') /\ (OnPath => OnPath')
  BY <1>1, Unmoved
<1>3. \A c \in Command, k \in DOMAIN cmds :
          k \in DOMAIN Append(cmds, c) /\ Append(cmds, c)[k] = cmds[k]
  BY DEF Typed
<1>4. share /\ Refused => Refused'
  <2>1. SUFFICES ASSUME share, Refused  PROVE Refused'
    OBVIOUS
  <2>2. CASE Head(results)
    <3>1. /\ overlooked' = overlooked
          /\ cmds' = cmds \/ \E c \in Command : cmds' = Append(cmds, c)
      BY <2>2 DEF OnPermissionResult, Send, Typed, Command
    <3>2. \A k \in DOMAIN results : k = 1 \/ (k - 1 \in DOMAIN results' /\ results[k] = results'[k - 1])
      BY <1>1 DEF Typed
    <3>3. Head(results) = results[1]
      BY <1>1 DEF Typed
    <3>4. (\E k \in DOMAIN results : ~results[k]) => \E k \in DOMAIN results' : ~results'[k]
      BY <2>2, <3>2, <3>3
    <3>5. (\E k \in DOMAIN cmds : cmds[k] \in {"stop", "unavailable"}) =>
              \E k \in DOMAIN cmds' : cmds'[k] \in {"stop", "unavailable"}
      BY <1>3, <3>1
    <3> QED  BY <2>1, <3>1, <3>4, <3>5 DEF Refused
  <2>3. CASE ~Head(results) /\ ~sharing
    BY <2>1, <2>3 DEF OnPermissionResult, Refusal, Refused
  <2>4. CASE ~Head(results) /\ sharing
    <3>1. cmds' = Append(cmds, "unavailable")
      BY <2>4 DEF OnPermissionResult, Refusal, Send
    <3>2. Len(cmds) + 1 \in DOMAIN cmds' /\ cmds'[Len(cmds) + 1] = "unavailable"
      BY <3>1 DEF Typed
    <3> QED  BY <3>2 DEF Refused
  <2> QED  BY <2>2, <2>3, <2>4
<1> QED  BY <1>1, <1>2, <1>4 DEF Sessions

(* The looper obeys, unless the permission is missing: then it says so. *)
LEMMA SessionsLooper ==
    ASSUME Typed, Sessions, LooperStep
    PROVE  Sessions'
<1> DEFINE r == Head(looper)
           rest == Tail(looper)
<1>1. /\ looper # <<>> /\ r \in Runnable /\ rest \in Seq(Runnable)
      /\ UNCHANGED <<share, ui, cmds, overlooked, permission>>
  BY Taken DEF Typed, LooperStep, engine, seen
<1>s. /\ acquired \in BOOLEAN /\ looper \in Seq(Runnable)
      /\ \A i \in DOMAIN results : \A b \in BOOLEAN :
             i \in DOMAIN Append(results, b) /\ Append(results, b)[i] = results[i]
      /\ Len(results) + 1 \in DOMAIN Append(results, FALSE)
      /\ ~Append(results, FALSE)[Len(results) + 1]
  BY DEF Typed
<1>2. /\ r.kind = "start" <=> r \in Starts
      /\ r.kind = "stop" <=> r \in Stops
      /\ r.kind \in {"start", "set", "relax"} => r.rate \in Paces
  BY <1>1 DEF Runnable, Starts, Stops
<1>b. /\ r \in Starts => r \notin Stops
      /\ \A xu \in {NeedOn, NeedOff}, xr \in {Starts, Stops} :
             Coming(ui, looper, Needs, xu, Starts \cup Stops, xr) =>
                 \/ Coming(ui, rest, Needs, xu, Starts \cup Stops, xr)
                 \/ r \in xr /\ Done(ui, rest, Needs, Starts \cup Stops)
      /\ Done(ui, looper, Needs, Starts \cup Stops) =>
             r \notin Starts \cup Stops /\ Done(ui, rest, Needs, Starts \cup Stops)
  BY <1>1, <1>s, <1>2, Ran
<1> HIDE DEF r, rest
<1>p. ASSUME looper' = rest \/ \E i \in Paces : looper' = Append(rest, Relax(i))
      PROVE  /\ \A xu \in {NeedOn, NeedOff}, xr \in {Starts, Stops} :
                    Coming(ui, rest, Needs, xu, Starts \cup Stops, xr) =>
                        Coming(ui, looper', Needs, xu, Starts \cup Stops, xr)
             /\ Done(ui, rest, Needs, Starts \cup Stops) =>
                    Done(ui, looper', Needs, Starts \cup Stops)
  <2>1. CASE looper' = rest
    BY <2>1
  <2>2. CASE \E i \in Paces : looper' = Append(rest, Relax(i))
    <3>1. PICK i \in Paces : looper' = Append(rest, Relax(i))
      BY <2>2
    <3>2. Relax(i) \in Runnable /\ Relax(i) \notin Starts \cup Stops
      BY Meanings, Constants
    <3> QED  BY <1>1, <3>1, <3>2, Posted
  <2> QED  BY <1>p, <2>1, <2>2
<1>g. ASSUME NEW i \in Paces, NEW got \in BOOLEAN, Subscribe(i, got, rest)
      PROVE  /\ listener' # NoListener
             /\ looper' = rest \/ \E k \in Paces : looper' = Append(rest, Relax(k))
  BY <1>1, <1>g, Subscribed
<1>f. (results' = results \/ \E b \in BOOLEAN : results' = Append(results, b))
          /\ Refused => Refused'
  BY <1>1, <1>s DEF Refused
<1>3. CASE r.kind = "start" /\ RunStart(r.rate) /\ permission # "always"
  <2>1. looper' = rest /\ results' = Append(results, FALSE) /\ UNCHANGED gps
    BY <1>3 DEF RunStart, Refuse, Report, rest
  <2>2. Refused'
    BY <1>s, <2>1 DEF Refused
  <2>3. OffPath => OffPath'
    BY <1>1, <1>2, <1>3, <1>b, <2>1 DEF OffPath, gps, Off
  <2> QED  BY <1>1, <2>1, <2>2, <2>3 DEF Sessions, gps
<1>4. CASE r.kind = "start" /\ RunStart(r.rate) /\ permission = "always"
  <2>1. service' \in {"on", "refused"} /\ Subscribe(r.rate, FALSE, rest) /\ UNCHANGED results
    BY <1>4 DEF RunStart, rest
  <2>2. listener' # NoListener /\ On'
    BY <1>2, <1>4, <1>g, <2>1 DEF On
  <2>3. OffPath => OffPath'
    BY <1>1, <1>2, <1>4, <1>b, <1>p, <1>g, <2>1 DEF OffPath
  <2>4. OnPath => OnPath'
    BY <1>1, <1>2, <1>4, <1>b, <1>p, <1>g, <2>1, <2>2 DEF OnPath
  <2>5. Refused => Refused'
    BY <1>f, <2>1
  <2> QED  BY <1>1, <1>4, <2>2, <2>3, <2>4, <2>5 DEF Sessions
<1>5. CASE r.kind = "stop" /\ RunStop
  <2>1. looper' = rest /\ Off' /\ ~acquired' /\ UNCHANGED results
    BY <1>5 DEF RunStop, Off, rest
  <2>2. OffPath => OffPath'
    BY <1>1, <1>2, <1>5, <1>b, <2>1 DEF OffPath
  <2>3. OnPath => OnPath'
    BY <1>1, <1>2, <1>5, <1>b, <2>1 DEF OnPath
  <2>4. Refused => Refused'
    BY <1>f, <2>1
  <2> QED  BY <1>1, <2>1, <2>2, <2>3, <2>4 DEF Sessions, Off
<1>6. CASE \/ r.kind = "ask" /\ RunAsk
           \/ r.kind = "set" /\ RunSet(r.rate)
           \/ r.kind = "relax" /\ RunRelax(r.rate)
  <2>1. /\ UNCHANGED service
        /\ listener' # NoListener <=> listener # NoListener
        /\ listener = NoListener => UNCHANGED acquired
        /\ looper' = rest \/ \E i \in Paces : looper' = Append(rest, Relax(i))
        /\ results' = results \/ \E b \in BOOLEAN : results' = Append(results, b)
    <3>1. CASE r.kind = "ask" /\ RunAsk
      BY <3>1 DEF RunAsk, RequestForeground, RequestBackground, Report, gps, rest
    <3>2. CASE r.kind = "set" /\ RunSet(r.rate)
      BY <1>2, <1>s, <1>g, <3>2 DEF RunSet, Tunes, Refuse, Report, gps, rest
    <3>3. CASE r.kind = "relax" /\ RunRelax(r.rate)
      BY <1>2, <1>s, <1>g, <3>3 DEF RunRelax, Relaxes, rest
    <3> QED  BY <1>6, <3>1, <3>2, <3>3
  <2>2. r \notin Starts \cup Stops
    BY <1>2, <1>6
  <2>3. (OffPath => OffPath') /\ (OnPath => OnPath')
    BY <1>1, <1>b, <1>p, <2>1, <2>2 DEF OffPath, OnPath, On, Off
  <2>4. Refused => Refused'
    BY <1>f, <2>1
  <2> QED  BY <1>1, <2>1, <2>3, <2>4 DEF Sessions
<1> QED  BY <1>3, <1>4, <1>5, <1>6 DEF LooperStep, r

LEMMA DialogsStep ==
    ASSUME Dialogs, [Next]_vars  PROVE Dialogs'
<1>1. CASE LooperStep
  BY <1>1 DEF Dialogs, LooperStep, RunAsk, RequestForeground, RequestBackground,
              RunStart, RunSet, RunRelax, RunStop, Refuse
<1>2. CASE AnswerDialog
  BY <1>2 DEF Dialogs, AnswerDialog, AnswerForeground, AnswerBackground, Denied
<1>3. CASE ~LooperStep /\ ~AnswerDialog
  <2>1. UNCHANGED android
    BY <1>3 DEF Next, vars, TapFor, TapStop, TapClear, EngineStep, Retune, OnUiEvent,
                OnPermissionResult, OnLocationChanged, android
  <2> QED  BY <2>1 DEF Dialogs, android
<1> QED  BY <1>1, <1>2, <1>3

(* A longer queue still holds what it held. *)
LEMMA Keeps ==
    ASSUME NEW T, NEW q \in Seq(T), NEW e \in T
    PROVE  \A i \in DOMAIN q : i \in DOMAIN Append(q, e) /\ Append(q, e)[i] = q[i]
OBVIOUS

LEMMA SessionsStep ==
    ASSUME Typed, Dialogs, Sessions, [Next]_vars  PROVE Sessions'
<1>t. cmds \in Seq(Command) /\ results \in Seq(BOOLEAN) /\ ui \in Seq(UiEvent)
  BY DEF Typed
<1>r. ASSUME overlooked' = overlooked,
             cmds' = cmds \/ \E c \in Command : cmds' = Append(cmds, c),
             results' = results \/ \E b \in BOOLEAN : results' = Append(results, b)
      PROVE  Refused => Refused'
  <2>1. \A i \in DOMAIN cmds : i \in DOMAIN cmds' /\ cmds'[i] = cmds[i]
    BY <1>t, <1>r, Keeps
  <2>2. \A i \in DOMAIN results : i \in DOMAIN results' /\ results'[i] = results[i]
    BY <1>t, <1>r, Keeps
  <2> QED  BY <1>r, <2>1, <2>2 DEF Refused
<1>1. CASE TapFor("start") \/ TapFor("panic") \/ TapStop \/ TapClear
  <2>1. /\ UNCHANGED <<share, ui, listener, service, acquired, permission, overlooked, results>>
        /\ cmds' = cmds \/ \E c \in Command : cmds' = Append(cmds, c)
    BY <1>1 DEF TapFor, TapStop, TapClear, Send, engine, gps, android, seen, Command
  <2>2. \/ looper' = looper
        \/ \E e \in Runnable : e \notin Starts \cup Stops /\ looper' = Append(looper, e)
    BY <1>1, Constants, Meanings DEF TapFor, TapStop, TapClear
  <2>3. (OffPath => OffPath') /\ (OnPath => OnPath')
    BY <2>1, <2>2, Unmoved
  <2> QED  BY <2>1, <2>3, <1>r DEF Sessions
<1>2. CASE \E i \in Rates : Retune(i)
  <2>1. PICK i \in Rates : Retune(i)
    BY <1>2
  <2>2. /\ ui' = ui \o <<Interval(i)>>
        /\ UNCHANGED <<share, looper, cmds, listener, service, acquired, permission,
                       overlooked, results>>
    BY <2>1 DEF Retune, Emit, gps, android, seen
  <2>3. <<Interval(i)>> \in Seq(UiEvent) /\ None(<<Interval(i)>>, Needs)
    BY Sentences, Said, Constants, Meanings
  <2>4. (OffPath => OffPath') /\ (OnPath => OnPath')
    BY <1>t, <2>2, <2>3, Emitted DEF OffPath, OnPath, On, Off
  <2> QED  BY <2>2, <2>4 DEF Sessions, Refused
<1>3. CASE OnLocationChanged
  <2>1. /\ UNCHANGED <<share, ui, cmds, listener, service, permission, overlooked, results>>
        /\ listener # NoListener /\ looper' = Append(looper, Relax(listener.interval))
    BY <1>3 DEF OnLocationChanged, FirstFix, engine, android, seen
  <2>2. listener.interval \in Paces
    BY <2>1 DEF Typed, Listener
  <2>3. (OffPath => OffPath') /\ (OnPath => OnPath')
    BY <2>1, <2>2, Constants, Meanings, Unmoved
  <2> QED  BY <2>1, <2>3 DEF Sessions, Refused
<1>4. CASE AnswerDialog
  <2>1. /\ UNCHANGED <<share, ui, looper, cmds, listener, service, acquired, overlooked>>
        /\ results' = results \/ \E b \in BOOLEAN : results' = Append(results, b)
        /\ dialog # "none"
    BY <1>4 DEF AnswerDialog, AnswerForeground, AnswerBackground, Denied, Report,
                engine, gps
  <2>2. (OffPath => OffPath') /\ (OnPath => OnPath')
    BY <2>1, Unmoved
  <2>3. listener = NoListener
    BY <2>1 DEF Dialogs, Sessions
  <2> QED  BY <2>1, <2>2, <2>3, <1>r DEF Sessions
<1>5. CASE UNCHANGED vars
  BY <1>5 DEF vars, engine, gps, android, seen, Sessions, OffPath, OnPath, On, Off, Refused
<1> QED  BY <1>1, <1>2, <1>3, <1>4, <1>5, SessionsCommand, SessionsEvent, SessionsResult,
            SessionsLooper DEF Next

-----------------------------------------------------------------------------
(* A panic that waits *)

LEMMA DeferredStep ==
    ASSUME Typed, Deferred, [Next]_vars  PROVE Deferred'
<1>t. results \in Seq(BOOLEAN) /\ owed \in BOOLEAN /\ declined \in BOOLEAN
  BY DEF Typed
<1>1. CASE TapFor("start") \/ TapFor("panic")
  <2>1. PICK what \in {"start", "panic"} : TapFor(what)
    BY <1>1
  <2>2. UNCHANGED <<results, permission>>
    BY <2>1 DEF TapFor, android
  <2>3. CASE permission = "always"
    <3>1. UNCHANGED <<after, owed, declined>>
      BY <2>1, <2>3 DEF TapFor
    <3> QED  BY <2>2, <3>1 DEF Deferred
  <2>4. CASE permission # "always"
    <3>1. after' = what /\ (owed' <=> what = "panic")
      BY <2>1, <2>4 DEF TapFor
    <3> QED  BY <2>2, <2>4, <3>1 DEF Deferred
  <2> QED  BY <2>3, <2>4
<1>2. CASE OnPermissionResult
  <2>1. results # <<>> /\ results' = Tail(results) /\ permission' = permission
    BY <1>2 DEF OnPermissionResult, android
  <2>2. CASE Head(results)
    <3>1. declined' = declined /\ (owed' => owed /\ after # "panic")
      BY <1>2, <2>2 DEF OnPermissionResult
    <3> QED  BY <3>1 DEF Deferred
  <2>3. CASE ~Head(results)
    <3>1. owed' = owed /\ (declined \/ after = "panic" => declined')
      BY <1>2, <2>3 DEF OnPermissionResult
    <3> QED  BY <3>1 DEF Deferred
  <2> QED  BY <2>2, <2>3
<1>3. CASE LooperStep
  <2>1. UNCHANGED <<owed, declined, after, permission>>
    BY <1>3 DEF LooperStep, view
  <2>2. results' = results \/ \E b \in BOOLEAN : results' = Append(results, b)
    BY <1>3 DEF LooperStep, RunAsk, RequestForeground, RequestBackground, RunStart, RunSet,
                RunRelax, RunStop, Refuse, Report
  <2>3. \A i \in DOMAIN results : i \in DOMAIN results' /\ results'[i] = results[i]
    BY <1>t, <2>2, Keeps
  <2> QED  BY <2>1, <2>3 DEF Deferred
<1>4. CASE AnswerDialog
  <2>1. UNCHANGED <<declined, after>>
    BY <1>4 DEF AnswerDialog, view
  <2>2. /\ owed' => owed
        /\ owed' /\ permission' = "always" => results' = Append(results, TRUE)
    <3>1. CASE Denied
      BY <3>1 DEF Denied
    <3>2. CASE permission' = "foreground" /\ UNCHANGED owed
      BY <3>2
    <3>3. CASE results' = Append(results, TRUE) /\ UNCHANGED owed
      BY <3>3
    <3> QED  BY <1>4, <3>1, <3>2, <3>3
             DEF AnswerDialog, AnswerForeground, AnswerBackground, Report
  <2>3. /\ Len(results) + 1 \in DOMAIN Append(results, TRUE)
        /\ Append(results, TRUE)[Len(results) + 1]
    BY <1>t
  <2>4. owed' /\ permission' = "always" => \E i \in DOMAIN results' : results'[i]
    BY <2>2, <2>3
  <2> QED  BY <2>1, <2>2, <2>4 DEF Deferred
<1>5. CASE TapStop \/ TapClear \/ EngineStep \/ (\E i \in Rates : Retune(i)) \/ OnUiEvent
           \/ OnLocationChanged \/ UNCHANGED vars
  <2>1. UNCHANGED <<results, owed, declined, after, permission>>
    BY <1>5 DEF vars, TapStop, TapClear, EngineStep, Retune, OnUiEvent, OnLocationChanged,
                view, android, seen
  <2> QED  BY <2>1 DEF Deferred
<1> QED  BY <1>1, <1>2, <1>3, <1>4, <1>5 DEF Next

-----------------------------------------------------------------------------
(* The rate *)

(* What the words mean to the rate. *)
LEMMA RateMeanings ==
    ASSUME NEW p \in Paces
    PROVE  /\ Needs \subseteq Pacing /\ PaceOf(p) \subseteq Pacing
           /\ p = MinRate => Need(TRUE) \in PaceOf(p)
           /\ Interval(p) \in PaceOf(p)
           /\ \A on \in BOOLEAN : Snapshot(on) \notin Pacing
           /\ Ask \notin Setting /\ Stop \notin SettingOf(p)
           /\ p = MinRate => Start(MinRate) \in SettingOf(p)
           /\ Set(p) \in SettingOf(p) /\ Relax(p) \notin Setting
           /\ SettingOf(p) \subseteq Setting
<1>1. /\ Needs \subseteq Pacing /\ PaceOf(p) \subseteq Pacing
      /\ p = MinRate => Need(TRUE) \in PaceOf(p)
      /\ Interval(p) \in PaceOf(p)
      /\ \A on \in BOOLEAN : Snapshot(on) \notin Pacing
  BY Constants DEF Needs, Pacing, PaceOf, Need, Interval, Snapshot
<1>2. /\ Ask \notin Setting /\ Stop \notin SettingOf(p)
      /\ p = MinRate => Start(MinRate) \in SettingOf(p)
      /\ Set(p) \in SettingOf(p) /\ Relax(p) \notin Setting
      /\ SettingOf(p) \subseteq Setting
  BY Constants DEF Setting, SettingOf, Ask, Stop, Start, Set, Relax
<1> QED  BY <1>1, <1>2

(* A command or a new cadence has the last word on the rate. *)
LEMMA RatedEngine ==
    ASSUME Typed, Rated, EngineStep \/ \E i \in Rates : Retune(i)
    PROVE  Rated'
<1>u. ui \in Seq(UiEvent) /\ share \in BOOLEAN
  BY DEF Typed
<1>m. /\ Need(TRUE) \in NeedOn /\ Need(TRUE) \in PaceOf(MinRate)
      /\ Snapshot(TRUE) \notin Needs /\ Snapshot(TRUE) \notin Pacing
      /\ \A i \in Paces : Interval(i) \notin Needs /\ Interval(i) \in PaceOf(i)
      /\ MinRate \in Paces /\ AlertRate \in Paces /\ adaptive \in Paces
      /\ \A i \in Rates : i \in Paces
  BY Meanings, RateMeanings, Constants DEF Typed
<1>1. UNCHANGED <<looper, active, listener, acquired, overtaken>>
  BY DEF EngineStep, Retune, view, gps, seen
<1>2. PICK s \in Seq(UiEvent) :
         /\ ui' = ui \o s
         /\ \/ ~share'
            \/ /\ Last(s, Pacing, PaceOf(Effective'))
               /\ Last(s, Needs, NeedOn) \/ (share /\ None(s, Needs))
            \/ s = <<>> /\ share' = share /\ Effective' = Effective
  <2>1. CASE EngineStep
    <3>1. Head(cmds) \in Command /\ Handle(Head(cmds))
      BY <2>1, Taken DEF EngineStep, Typed
    <3>2. PICK s \in Seq(UiEvent) :
             /\ ui' = ui \o s
             /\ \/ /\ adaptive' = MinRate
                   /\ \/ s = <<Need(TRUE), Snapshot(TRUE)>> /\ ~alert'
                      \/ s = <<Need(TRUE), Interval(AlertRate), Snapshot(TRUE)>> /\ alert'
                \/ /\ share /\ share' /\ adaptive' = adaptive
                   /\ \/ s = <<Interval(AlertRate), Snapshot(TRUE)>> /\ alert'
                      \/ s = <<Interval(adaptive), Snapshot(TRUE)>> /\ ~alert'
                \/ ~share'
                \/ UNCHANGED <<share, alert, adaptive>> /\ s = <<>>
      BY <3>1, Handles
    <3>3. CASE s = <<Need(TRUE), Snapshot(TRUE)>> /\ ~alert' /\ adaptive' = MinRate
      <4>1. Effective' = MinRate
        BY <3>3 DEF Effective
      <4>2. Last(s, Pacing, PaceOf(MinRate)) /\ Last(s, Needs, NeedOn)
        BY <3>3, <1>m, Said
      <4> QED  BY <3>2, <4>1, <4>2
    <3>4. CASE /\ s = <<Need(TRUE), Interval(AlertRate), Snapshot(TRUE)>> /\ alert'
               /\ adaptive' = MinRate
      <4>1. Effective' = AlertRate
        BY <3>4 DEF Effective
      <4>2. Last(s, Pacing, PaceOf(AlertRate)) /\ Last(s, Needs, NeedOn)
        BY <3>4, <1>m, Said
      <4> QED  BY <3>2, <4>1, <4>2
    <3>5. CASE share /\ s = <<Interval(AlertRate), Snapshot(TRUE)>> /\ alert'
      <4>1. Effective' = AlertRate
        BY <3>5 DEF Effective
      <4>2. Last(s, Pacing, PaceOf(AlertRate)) /\ None(s, Needs)
        BY <3>5, <1>m, Said
      <4> QED  BY <3>2, <3>5, <4>1, <4>2
    <3>6. CASE /\ share /\ adaptive' = adaptive
               /\ s = <<Interval(adaptive), Snapshot(TRUE)>> /\ ~alert'
      <4>1. Effective' = adaptive
        BY <3>6 DEF Effective
      <4>2. Last(s, Pacing, PaceOf(adaptive)) /\ None(s, Needs)
        BY <3>6, <1>m, Said
      <4> QED  BY <3>2, <3>6, <4>1, <4>2
    <3>7. CASE ~share'
      BY <3>2, <3>7
    <3>8. CASE UNCHANGED <<share, alert, adaptive>> /\ s = <<>>
      <4>1. share' = share /\ Effective' = Effective
        BY <3>8 DEF Effective
      <4> QED  BY <3>2, <3>8, <4>1
    <3> QED  BY <3>2, <3>3, <3>4, <3>5, <3>6, <3>7, <3>8
  <2>2. CASE \E i \in Rates : Retune(i)
    <3>1. PICK i \in Rates : Retune(i)
      BY <2>2
    <3>2. share /\ ui' = ui \o <<Interval(i)>> /\ Effective' = i
      BY <3>1 DEF Retune, Emit, Effective
    <3>3. /\ <<Interval(i)>> \in Seq(UiEvent)
          /\ Last(<<Interval(i)>>, Pacing, PaceOf(i)) /\ None(<<Interval(i)>>, Needs)
      BY <1>m, Said, Sentences, Constants
    <3> QED  BY <3>2, <3>3
  <2> QED  BY <2>1, <2>2
<1>3. acquired' => listener'.rate = listener'.interval \/ Relaxing'
  BY <1>1 DEF Rated, Relaxing
<1>4. CASE ~share'
  BY <1>3, <1>4 DEF Rated
<1>5. CASE /\ Last(s, Pacing, PaceOf(Effective'))
           /\ Last(s, Needs, NeedOn) \/ (share /\ None(s, Needs))
  <2>1. Coming(ui', looper', Pacing, PaceOf(Effective'), Setting, SettingOf(Effective'))
    BY <1>2, <1>5, <1>u, Emitted
  <2>2. Awake'
    BY <1>1, <1>2, <1>5, <1>u, Joined DEF Awake, Rated
  <2> QED  BY <1>3, <2>1, <2>2 DEF Rated, RatePath
<1>6. CASE s = <<>> /\ share' = share /\ Effective' = Effective
  <2>1. ui' = ui
    BY <1>2, <1>6, <1>u
  <2>2. (Awake => Awake') /\ (RatePath(Effective) => RatePath(Effective)')
    BY <1>1, <1>6, <2>1 DEF Awake, RatePath, Paced
  <2> QED  BY <1>3, <1>6, <2>2 DEF Rated
<1> QED  BY <1>2, <1>4, <1>5, <1>6

(* The relaxations in a queue that grows by a runnable. *)
LEMMA Relaxations ==
    ASSUME NEW r \in Seq(Runnable), NEW e \in Runnable, NEW p
    PROVE  /\ (\A i \in DOMAIN r : r[i].kind = "relax" => r[i].rate = p)
                  /\ (e.kind = "relax" => e.rate = p) =>
              \A i \in DOMAIN Append(r, e) :
                  Append(r, e)[i].kind = "relax" => Append(r, e)[i].rate = p
           /\ (\E i \in DOMAIN r : r[i].kind = "relax") \/ e.kind = "relax" =>
              \E i \in DOMAIN Append(r, e) : Append(r, e)[i].kind = "relax"
<1> DEFINE q == Append(r, e)
<1>1. /\ DOMAIN r = 1..Len(r) /\ DOMAIN q = 1..Len(r) + 1 /\ Len(r) \in Nat
      /\ \A i \in 1..Len(r) : q[i] = r[i]
      /\ q[Len(r) + 1] = e
  OBVIOUS
<1> HIDE DEF q
<1>2. (\A i \in DOMAIN r : r[i].kind = "relax" => r[i].rate = p)
          /\ (e.kind = "relax" => e.rate = p) =>
      \A i \in DOMAIN q : q[i].kind = "relax" => q[i].rate = p
  <2>1. \A i \in DOMAIN q : i \in DOMAIN r \/ i = Len(r) + 1
    BY <1>1
  <2> QED  BY <1>1, <2>1
<1>3. (\E i \in DOMAIN r : r[i].kind = "relax") \/ e.kind = "relax" =>
      \E i \in DOMAIN q : q[i].kind = "relax"
  <2>1. Len(r) + 1 \in DOMAIN q /\ \A i \in DOMAIN r : i \in DOMAIN q
    BY <1>1
  <2> QED  BY <1>1, <2>1
<1> QED  BY <1>2, <1>3 DEF q

(* The controller passes the rate on; while it does not, a start is to come. *)
LEMMA RatedEvent ==
    ASSUME Typed, Rated, OnUiEvent
    PROVE  Rated'
<1>p. PICK p \in Paces : p = Effective
  BY Constants DEF Typed, Effective
<1>1. /\ ui # <<>> /\ Head(ui) \in UiEvent /\ ui' = Tail(ui)
      /\ UNCHANGED <<share, listener, acquired, overtaken>> /\ Effective' = p
  BY <1>p, Taken DEF Typed, OnUiEvent, engine, gps, seen, Effective
<1>u. ui \in Seq(UiEvent) /\ looper \in Seq(Runnable)
  BY DEF Typed
<1>m. /\ Needs \subseteq Pacing /\ PaceOf(p) \subseteq Pacing /\ NeedOn \subseteq Needs
      /\ SettingOf(p) \subseteq Setting
  BY <1>u, RateMeanings, Meanings
<1>2. \/ looper' = looper
      \/ \E e \in Runnable : e.kind # "relax" /\ looper' = Append(looper, e)
  BY <1>1, Constants DEF OnUiEvent, NeedLocation, SetLocationInterval, UiEvent,
                         Start, Set, Stop
<1>3. /\ Paced(p) => Paced(p)'
      /\ Relaxing => Relaxing'
  <2>1. CASE looper' = looper
    BY <1>1, <2>1 DEF Paced, Relaxing
  <2>2. CASE \E e \in Runnable : e.kind # "relax" /\ looper' = Append(looper, e)
    <3>1. PICK e \in Runnable : e.kind # "relax" /\ looper' = Append(looper, e)
      BY <2>2
    <3> QED  BY <1>1, <1>u, <3>1, Relaxations DEF Paced, Relaxing
  <2> QED  BY <1>2, <2>1, <2>2
<1>4. Awake => Awake'
  <2>1. SUFFICES ASSUME Awake  PROVE Awake'
    OBVIOUS
  <2>2. CASE Head(ui).kind = "need"
    <3>1. Head(ui) \in Needs /\ active' = Head(ui).on
      BY <1>1, <2>2 DEF Needs, OnUiEvent, NeedLocation
    <3>2. Last(Tail(ui), Needs, NeedOn) \/ (Head(ui) \in NeedOn /\ None(Tail(ui), Needs))
      BY <1>1, <1>u, <2>1, <3>1, Taken DEF Awake
    <3> QED  BY <1>1, <3>1, <3>2 DEF Awake, NeedOn
  <2>3. CASE Head(ui).kind # "need"
    <3>1. Head(ui) \notin Needs /\ active' = active
      BY <1>1, <2>3 DEF Needs, OnUiEvent, SetLocationInterval
    <3>2. \/ Last(Tail(ui), Needs, NeedOn)
          \/ None(Tail(ui), Needs) /\ active
      BY <1>1, <1>u, <1>m, <2>1, <3>1, Taken DEF Awake
    <3> QED  BY <1>1, <3>1, <3>2 DEF Awake
  <2> QED  BY <2>2, <2>3
<1>5. Awake /\ RatePath(p) => RatePath(p)'
  <2>1. SUFFICES ASSUME Awake, RatePath(p)  PROVE RatePath(p)'
    OBVIOUS
  <2>2. CASE Head(ui).kind = "need"
    <3> DEFINE e == IF Head(ui).on THEN Start(MinRate) ELSE Stop
    <3>1. looper' = Append(looper, e)
      BY <2>2 DEF OnUiEvent, NeedLocation
    <3>2. e \in Runnable /\ Head(ui) \in Pacing
      BY <1>1, <2>2, Constants DEF Pacing
    <3>3. Head(ui) \in PaceOf(p) => e \in SettingOf(p)
      BY <1>u, <2>2, RateMeanings DEF PaceOf
    <3> HIDE DEF e
    <3> QED  BY <1>1, <1>u, <2>1, <3>1, <3>2, <3>3, Handed DEF RatePath
  <2>3. CASE Head(ui).kind = "interval" /\ active
    <3> DEFINE e == Set(Head(ui).rate)
    <3>1. looper' = Append(looper, e)
      BY <2>3 DEF OnUiEvent, SetLocationInterval
    <3>2. e \in Runnable /\ Head(ui) \in Pacing
      BY <1>1, <2>3, Constants DEF Pacing, UiEvent
    <3>3. Head(ui) \in PaceOf(p) => e \in SettingOf(p)
      BY <1>u, <2>3, RateMeanings DEF PaceOf
    <3> HIDE DEF e
    <3> QED  BY <1>1, <1>u, <2>1, <3>1, <3>2, <3>3, Handed DEF RatePath
  <2>4. CASE Head(ui).kind = "interval" /\ ~active
    <3>1. Head(ui) \in Pacing /\ Head(ui) \notin Needs
      BY <1>1, <2>4 DEF Pacing, Needs
    <3>2. Last(Tail(ui), Needs, NeedOn)
      BY <1>1, <1>u, <1>m, <2>1, <2>4, <3>1, Taken DEF Awake
    <3>3. ~None(Tail(ui), Pacing)
      BY <1>m, <3>2 DEF Last, None
    <3>4. ~None(ui, Pacing)
      BY <1>1, <1>u, <3>1, Taken
    <3>5. Last(ui, Pacing, PaceOf(p))
      BY <2>1, <3>4 DEF RatePath, Coming, Done
    <3>6. Last(Tail(ui), Pacing, PaceOf(p))
      BY <1>1, <1>u, <3>3, <3>5, Taken
    <3> QED  BY <1>1, <3>6 DEF RatePath, Coming
  <2>5. CASE Head(ui).kind = "snapshot"
    <3>1. Head(ui) \notin Pacing /\ looper' = looper
      BY <2>5 DEF Pacing, OnUiEvent
    <3> QED  BY <1>1, <1>u, <1>m, <1>3, <2>1, <3>1, Passed DEF RatePath
  <2> QED  BY <1>1, <2>2, <2>3, <2>4, <2>5 DEF UiEvent
<1>6. (RatePath(Effective) => RatePath(p)) /\ (RatePath(p)' => RatePath(Effective)')
  BY <1>p, <1>1 DEF RatePath, Paced
<1> QED  BY <1>1, <1>3, <1>4, <1>5, <1>6 DEF Rated

(* The looper obeys: the rate it obeys is the engine's, or another relaxes behind it. *)
LEMMA RatedLooper ==
    ASSUME Typed, Sessions, Rated, LooperStep
    PROVE  Rated'
<1> DEFINE r == Head(looper)
           rest == Tail(looper)
<1>p. PICK p \in Paces : p = Effective
  BY Constants DEF Typed, Effective
<1>1. /\ looper # <<>> /\ r \in Runnable /\ rest \in Seq(Runnable)
      /\ UNCHANGED <<share, ui, active>> /\ Effective' = p
  BY <1>p, Taken DEF Typed, LooperStep, engine, view, Effective
<1>s. /\ looper \in Seq(Runnable) /\ acquired \in BOOLEAN
  BY DEF Typed
<1>q. /\ \A k \in DOMAIN looper : k = 1 \/ (k - 1 \in DOMAIN rest /\ looper[k] = rest[k - 1])
      /\ \A k \in DOMAIN rest : k + 1 \in DOMAIN looper /\ rest[k] = looper[k + 1]
      /\ looper[1] = r
  BY <1>1, <1>s
<1>2. /\ r \in SettingOf(p) <=> r.kind \in {"start", "set"} /\ r.rate = p
      /\ r \in Setting <=> r.kind \in {"start", "set", "stop"}
      /\ r.kind \in {"start", "set", "relax"} => r.rate \in Paces
  BY <1>1 DEF Runnable, Setting, SettingOf
<1>b. /\ Coming(ui, looper, Pacing, PaceOf(p), Setting, SettingOf(p)) =>
             \/ Coming(ui, rest, Pacing, PaceOf(p), Setting, SettingOf(p))
             \/ r \in SettingOf(p) /\ Done(ui, rest, Pacing, Setting)
      /\ Done(ui, looper, Pacing, Setting) => r \notin Setting /\ Done(ui, rest, Pacing, Setting)
  BY <1>1, <1>s, Ran
<1> HIDE DEF r, rest
<1>c. ASSUME looper' = rest \/ \E i \in Paces : looper' = Append(rest, Relax(i))
      PROVE  /\ Coming(ui, rest, Pacing, PaceOf(p), Setting, SettingOf(p)) =>
                    Coming(ui, looper', Pacing, PaceOf(p), Setting, SettingOf(p))
             /\ Done(ui, rest, Pacing, Setting) => Done(ui, looper', Pacing, Setting)
  <2>1. CASE looper' = rest
    BY <2>1
  <2>2. CASE \E i \in Paces : looper' = Append(rest, Relax(i))
    <3>1. PICK i \in Paces : looper' = Append(rest, Relax(i))
      BY <2>2
    <3>2. Relax(i) \in Runnable /\ Relax(i) \notin Setting
      BY RateMeanings, Constants
    <3> QED  BY <1>1, <3>1, <3>2, Posted
  <2> QED  BY <1>c, <2>1, <2>2
<1>d. ASSUME looper' = rest \/ \E i \in Paces : looper' = Append(rest, Relax(i)),
             \/ r \in SettingOf(p) => Paced(p)'
             \/ r \notin SettingOf(p),
             r \notin Setting /\ Paced(p) => Paced(p)'
      PROVE  RatePath(p) => RatePath(p)'
  BY <1>1, <1>b, <1>c, <1>d DEF RatePath
<1>e. (RatePath(Effective) => RatePath(p)) /\ (RatePath(p)' => RatePath(Effective)')
  BY <1>p, <1>1 DEF RatePath, Paced
<1>f. Awake => Awake'
  BY <1>1 DEF Awake
<1>g. ASSUME NEW i \in Paces, NEW got \in BOOLEAN, Subscribe(i, got, rest),
             overtaken' \/ \A k \in DOMAIN rest : rest[k].kind = "relax" => rest[k].rate = i
      PROVE  /\ looper' = rest \/ \E k \in Paces : looper' = Append(rest, Relax(k))
             /\ i = p => Paced(p)'
             /\ acquired' => listener'.rate = listener'.interval \/ Relaxing'
  <2>1. /\ listener'.interval = i
        /\ looper' = rest \/ looper' = Append(rest, Relax(i))
        /\ acquired' => listener'.rate = i \/ looper' = Append(rest, Relax(i))
    BY <1>1, <1>g, Subscribed
  <2>2. Relax(i) \in Runnable /\ Relax(i).kind = "relax" /\ Relax(i).rate = i
    BY Constants DEF Relax
  <2>3. overtaken' \/ \A k \in DOMAIN looper' : looper'[k].kind = "relax" => looper'[k].rate = i
    BY <1>1, <1>g, <2>1, <2>2, Relaxations
  <2>4. acquired' => listener'.rate = i \/ Relaxing'
    BY <1>1, <2>1, <2>2, Relaxations DEF Relaxing
  <2> QED  BY <2>1, <2>3, <2>4 DEF Paced
<1>h. ASSUME looper' = rest, UNCHANGED <<listener, acquired, overtaken>>,
             r.kind # "relax" \/ listener = NoListener
      PROVE  /\ Paced(p) => Paced(p)'
             /\ acquired' => listener'.rate = listener'.interval \/ Relaxing'
  <2>1. Paced(p) => Paced(p)'
    BY <1>q, <1>h DEF Paced
  <2>a. (acquired' <=> acquired) /\ listener' = listener
    BY <1>h
  <2>2. CASE listener = NoListener
    BY <2>a, <2>1, <2>2 DEF Sessions
  <2>3. CASE r.kind # "relax"
    <3>1. Relaxing => Relaxing'
      BY <1>h, <1>q, <2>3 DEF Relaxing
    <3> QED  BY <2>a, <2>1, <3>1 DEF Rated
  <2> QED  BY <1>h, <2>1, <2>2, <2>3
<1>o. ASSUME NEW i \in Paces, Outdated(i, rest)
      PROVE  overtaken' \/ \A k \in DOMAIN rest : rest[k].kind = "relax" => rest[k].rate = i
  BY <1>o DEF Outdated
<1>3. CASE r.kind = "ask" /\ RunAsk
  <2>1. looper' = rest /\ UNCHANGED <<listener, acquired, overtaken>>
    BY <1>3 DEF RunAsk, gps, rest
  <2> QED  BY <1>1, <1>2, <1>3, <1>d, <1>e, <1>f, <1>h, <2>1 DEF Rated
<1>4. CASE r.kind \in {"start", "set"} /\ UNCHANGED <<gps, overtaken>> /\ looper' = rest
           /\ listener = NoListener
  <2>1. UNCHANGED <<listener, acquired, overtaken>> /\ Paced(p)'
    BY <1>4 DEF gps, Paced
  <2> QED  BY <1>1, <1>2, <1>4, <1>d, <1>e, <1>f, <1>h, <2>1 DEF Rated
<1>5. CASE /\ r.kind \in {"start", "set"}
           /\ \E got \in BOOLEAN : Subscribe(r.rate, got, rest)
           /\ Outdated(r.rate, rest)
  <2>1. PICK got \in BOOLEAN : Subscribe(r.rate, got, rest)
    BY <1>5
  <2>2. /\ looper' = rest \/ \E k \in Paces : looper' = Append(rest, Relax(k))
        /\ r.rate = p => Paced(p)'
        /\ acquired' => listener'.rate = listener'.interval \/ Relaxing'
    BY <1>2, <1>5, <1>g, <1>o, <2>1
  <2> QED  BY <1>1, <1>2, <1>5, <1>d, <1>e, <1>f, <2>2 DEF Rated
<1>6. CASE r.kind = "relax" /\ RunRelax(r.rate)
  <2>1. CASE listener = NoListener
    <3>1. looper' = rest /\ UNCHANGED <<listener, acquired, overtaken>>
      BY <1>6, <2>1 DEF RunRelax, Relaxes, rest
    <3> QED  BY <1>1, <1>2, <1>6, <1>d, <1>e, <1>f, <1>h, <2>1, <3>1 DEF Rated
  <2>2. CASE listener # NoListener
    <3>1. Subscribe(r.rate, acquired, rest) /\ overtaken' = overtaken
      BY <1>6, <2>2 DEF RunRelax, Relaxes, rest
    <3>2. /\ looper' = rest \/ looper' = Append(rest, Relax(r.rate))
          /\ listener'.interval = r.rate
          /\ acquired' => listener'.rate = r.rate \/ looper' = Append(rest, Relax(r.rate))
      BY <1>1, <1>2, <1>6, <1>s, <3>1, Subscribed
    <3>3. /\ Relax(r.rate) \in Runnable
          /\ Relax(r.rate).kind = "relax" /\ Relax(r.rate).rate = r.rate
      BY <1>2, <1>6, Constants DEF Relax
    <3>4. Paced(p) => Paced(p)'
      <4>1. SUFFICES ASSUME Paced(p), ~overtaken  PROVE Paced(p)'
        BY <3>1 DEF Paced
      <4>2. /\ r.rate = p
            /\ \A k \in DOMAIN rest : rest[k].kind = "relax" => rest[k].rate = p
        <5>1. \A i \in DOMAIN looper : looper[i].kind = "relax" => looper[i].rate = p
          BY <2>2, <4>1 DEF Paced
        <5>2. 1 \in DOMAIN looper
          BY <1>1, <1>s
        <5> QED  BY <1>6, <1>q, <5>1, <5>2
      <4>3. \A k \in DOMAIN looper' : looper'[k].kind = "relax" => looper'[k].rate = p
        BY <1>1, <3>2, <3>3, <4>2, Relaxations
      <4> QED  BY <3>2, <4>2, <4>3 DEF Paced
    <3>5. acquired' => listener'.rate = listener'.interval \/ Relaxing'
      BY <1>1, <3>2, <3>3, Relaxations DEF Relaxing
    <3> QED  BY <1>1, <1>2, <1>6, <1>d, <1>e, <1>f, <3>2, <3>4, <3>5 DEF Rated
  <2> QED  BY <2>1, <2>2
<1>7. CASE r.kind = "stop" /\ RunStop
  <2>1. looper' = rest /\ ~acquired'
    BY <1>7 DEF RunStop, rest
  <2> QED  BY <1>1, <1>2, <1>7, <1>d, <1>e, <1>f, <2>1 DEF Rated
<1>8. CASE r.kind = "start" /\ RunStart(r.rate)
  <2>1. CASE permission = "always"
    BY <1>5, <1>8, <2>1 DEF RunStart, rest
  <2>2. CASE permission # "always"
    BY <1>4, <1>8, <2>2 DEF RunStart, rest, Refuse, Sessions
  <2> QED  BY <2>1, <2>2
<1>9. CASE r.kind = "set" /\ RunSet(r.rate)
  <2>1. CASE listener = NoListener
    BY <1>4, <1>9, <2>1 DEF RunSet, Tunes, rest
  <2>2. CASE listener # NoListener
    BY <1>5, <1>9, <1>s, <2>2 DEF RunSet, Tunes, rest, Sessions
  <2> QED  BY <2>1, <2>2
<1> QED  BY <1>3, <1>6, <1>7, <1>8, <1>9 DEF LooperStep, r

(* A runnable about something else, or the relaxation of the session as it is. *)
PostsAside(e) ==
    /\ e \notin Setting
    /\ looper' = Append(looper, e)
    /\ e.kind = "relax" => e.rate = listener.interval

LEMMA RatedStep ==
    ASSUME Typed, Sessions, Rated, [Next]_vars  PROVE Rated'
<1>p. PICK p \in Paces : p = Effective
  BY Constants DEF Typed, Effective
<1>s. looper \in Seq(Runnable)
  BY DEF Typed
<1>f. ASSUME UNCHANGED <<share, alert, adaptive, ui, active, listener, overtaken>>,
             looper' = looper \/ \E e \in Runnable : PostsAside(e),
             acquired' => acquired \/ Relaxing'
      PROVE  Rated'
  <2>1. Effective' = p
    BY <1>p, <1>f DEF Effective
  <2>2. CASE looper' = looper
    BY <1>f, <2>2 DEF Rated, RatePath, Awake, Paced, Relaxing, Effective
  <2>3. CASE \E e \in Runnable : PostsAside(e)
    <3>1. PICK e \in Runnable : /\ e \notin Setting
                                /\ looper' = Append(looper, e)
                                /\ e.kind = "relax" => e.rate = listener.interval
      BY <2>3 DEF PostsAside
    <3>2. Paced(p) => Paced(p)'
      BY <1>f, <1>s, <3>1, Relaxations DEF Paced
    <3>3. RatePath(p) => RatePath(p)'
      BY <1>f, <1>s, <3>1, <3>2, Posted DEF RatePath
    <3>4. (RatePath(Effective) => RatePath(p)) /\ (RatePath(p)' => RatePath(Effective)')
      BY <1>p, <2>1 DEF RatePath, Paced
    <3>5. Awake => Awake'
      BY <1>f DEF Awake
    <3>6. Relaxing => Relaxing'
      BY <1>s, <3>1, Relaxations DEF Relaxing
    <3> QED  BY <1>f, <3>3, <3>4, <3>5, <3>6 DEF Rated
  <2> QED  BY <1>f, <2>2, <2>3
<1>1. CASE TapFor("start") \/ TapFor("panic")
  <2>1. /\ UNCHANGED <<share, alert, adaptive, ui, active, listener, overtaken, acquired>>
        /\ looper' = looper \/ looper' = Append(looper, Ask)
    BY <1>1 DEF TapFor, engine, gps
  <2>2. Ask \in Runnable /\ Ask \notin Setting /\ Ask.kind # "relax"
    BY <1>p, Constants, RateMeanings DEF Ask
  <2> QED  BY <1>f, <2>1, <2>2 DEF PostsAside
<1>2. CASE TapStop \/ TapClear \/ OnPermissionResult \/ AnswerDialog \/ UNCHANGED vars
  <2>1. UNCHANGED <<share, alert, adaptive, ui, active, listener, overtaken, acquired, looper>>
    BY <1>2 DEF TapStop, TapClear, OnPermissionResult, AnswerDialog, vars,
                engine, view, gps, seen
  <2> QED  BY <1>f, <2>1
<1>3. CASE OnLocationChanged
  <2> DEFINE e == Relax(listener.interval)
  <2>1. /\ UNCHANGED <<share, alert, adaptive, ui, active, listener, overtaken>>
        /\ listener # NoListener /\ looper' = Append(looper, e)
    BY <1>3 DEF OnLocationChanged, FirstFix, engine, view, seen
  <2>2. listener.interval \in Paces
    BY <2>1 DEF Typed, Listener
  <2>3. e \in Runnable /\ e \notin Setting /\ e.kind = "relax" /\ e.rate = listener.interval
    BY <2>2, Constants, RateMeanings DEF Relax
  <2> HIDE DEF e
  <2>4. Relaxing'
    BY <1>s, <2>1, <2>3, Relaxations DEF Relaxing
  <2> QED  BY <1>f, <2>1, <2>3, <2>4 DEF PostsAside
<1> QED  BY <1>1, <1>2, <1>3, RatedEngine, RatedEvent, RatedLooper DEF Next

-----------------------------------------------------------------------------
(* The invariant and what it gives *)

LEMMA Begins ==
    ASSUME Init  PROVE IInv
<1>1. None(<<>>, Needs) /\ None(<<>>, Starts \cup Stops)
  BY Said
<1>2. Sessions
  BY <1>1 DEF Init, Sessions, OffPath, Done, Off
<1> QED  BY <1>2, TypedInit DEF Init, IInv, Dialogs, Deferred, Rated

(* Nothing a user, the engine, the controller or the bridge does breaks it. *)
LEMMA Inductive == Spec => []IInv
<1>1. IInv /\ [Next]_vars => IInv'
  BY TypedStep, DialogsStep, SessionsStep, DeferredStep, RatedStep DEF IInv
<1> QED  BY <1>1, Begins, PTL DEF Spec

(* An empty queue has no last word. *)
LEMMA Silent ==
    ASSUME Quiet
    PROVE  /\ \A eu, xu, er, xr : ~Coming(ui, looper, eu, xu, er, xr)
           /\ ~Relaxing
           /\ ~\E i \in DOMAIN results : results[i]
           /\ Refused => overlooked
BY DEF Quiet, Coming, Last, Relaxing, Refused

(* Every queue, session and dialog holds what its handlers can read. *)
THEOREM TypeCorrect == Spec => []Typed
BY Inductive, PTL DEF IInv

(***************************************************************************)
(* stopLocation, the relax that looks for a listener: when everything has  *)
(* been handled, no GPS session and no service outlives its share.         *)
(***************************************************************************)
THEOREM NoGpsWithoutShare == Spec => []GpsOnlyForShare
<1>1. IInv => GpsOnlyForShare
  BY Silent DEF IInv, Sessions, OffPath, Off, GpsOnlyForShare
<1> QED  BY <1>1, Inductive, PTL

(***************************************************************************)
(* on_platform_event, startLocation: when everything has been handled, a   *)
(* share has its GPS session or was refused one, and a panic that waited   *)
(* for the permission was raised by the grant or refused.                  *)
(***************************************************************************)
THEOREM EveryTapAnswered == Spec => []TapsAnswered
<1>1. IInv => TapsAnswered
  <2>1. SUFFICES ASSUME IInv, Quiet  PROVE ShareHasGps /\ PanicRaised
    BY DEF TapsAnswered
  <2>2. ShareHasGps
    BY <2>1, Silent DEF IInv, Sessions, OnPath, On, ShareHasGps
  <2>3. PanicRaised
    BY <2>1, Silent DEF IInv, Deferred, PanicRaised
  <2> QED  BY <2>2, <2>3
<1> QED  BY <1>1, Inductive, PTL

(***************************************************************************)
(* set_alert, setLocationInterval: when everything has been handled, the   *)
(* GPS samples at the engine's interval, unless an older relaxation ran    *)
(* behind it.                                                              *)
(***************************************************************************)
THEOREM SamplesAsPublished == Spec => []RateFollows
<1>1. IInv => RateFollows
  <2>1. SUFFICES ASSUME IInv, Quiet, share, acquired, ~overtaken
                 PROVE  listener.rate = Effective
    BY DEF RateFollows
  <2>2. listener.rate = listener.interval /\ listener # NoListener
    BY <2>1, Silent DEF IInv, Rated, Sessions
  <2>3. listener.interval = Effective
    BY <2>1, <2>2, Silent DEF IInv, Rated, RatePath, Paced
  <2> QED  BY <2>2, <2>3
<1> QED  BY <1>1, Inductive, PTL
=============================================================================
