--------------------------- MODULE CadenceProofs ---------------------------
(***************************************************************************)
(* Proofs about module Cadence, for any presets, schemes, places and       *)
(* intervals: the interval keeps to the scheme in force (Interval), and no *)
(* share or alert goes silent (Silence).                                   *)
(***************************************************************************)
EXTENDS Cadence, SequenceTheorems, TLAPS

Window(p) == p.resolution \in Nat /\ p.min \in Nat /\ p.max \in Nat /\ p.min <= p.max

(* Every scheme that can be in force has a window, and a window is not empty. *)
SchemesSound ==
    /\ mode \in DOMAIN Presets
    /\ customs \subseteq Scheme
    /\ \A s \in customs : s.min <= s.max

Age == Nat \cup {Never}

SharesTyped ==
    /\ alerting \in BOOLEAN /\ adaptive \in Nat /\ place \in Places
    /\ since \in Age /\ age \in Age /\ quiet \in Nat /\ longest \in Nat
    /\ published \in BOOLEAN /\ ticked \in BOOLEAN
    /\ stalled \in BOOLEAN /\ parked \in BOOLEAN /\ held \in BOOLEAN

Typed == SchemesSound /\ SharesTyped

(* An alert measures nothing: the interval it suspends stays in its window. *)
Interval ==
    /\ held \/ adaptive \in Params.min .. Params.max
    /\ parked => adaptive = Params.max

(* Once this second's tick has run, nothing that was due is still unpublished. *)
Caught ==
    ticked => /\ alerting /\ age # Never => since < AlertInterval
              /\ ~stalled /\ since # Never =>
                     since < longest \/ published

Silence ==
    /\ since = Never <=> age = Never
    /\ published => since # Never /\ since <= quiet
    /\ Effective <= longest
    /\ NeverSilent
    /\ Caught

IInv == Typed /\ Interval /\ Silence

-----------------------------------------------------------------------------
(* The interval *)

(* Clamping into a window that is not empty ends inside it. *)
LEMMA Clamps ==
    ASSUME NEW n \in Int, NEW low \in Nat, NEW high \in Nat, low <= high
    PROVE  Clamp(n, low, high) \in low .. high
BY DEF Clamp

(* Whatever two fixes say, the interval measured is one of the scheme's. *)
LEMMA Measured ==
    ASSUME NEW elapsed \in Int, NEW from \in Places, NEW to \in Places, NEW p, Window(p)
    PROVE  /\ AdaptiveInterval(elapsed, from, to, p) \in p.min .. p.max
           /\ elapsed > 0 /\ Distance(from, to) <= Noise =>
                  AdaptiveInterval(elapsed, from, to, p) = p.max
<1> DEFINE moved == Distance(from, to) - Noise
<1>1. moved \in Int /\ Distance(from, to) \in Nat /\ Noise \in Nat
  BY CadenceAssumption DEF Distance
<1>2. p.min \in p.min .. p.max /\ p.max \in p.min .. p.max
  BY DEF Window
<1>3. ASSUME elapsed > 0, moved > 0
      PROVE  Clamp((2 * p.resolution * elapsed + moved) \div (2 * moved), p.min, p.max)
                 \in p.min .. p.max
  <2>1. 2 * p.resolution * elapsed + moved \in Int
    BY <1>1 DEF Window
  <2>2. 2 * moved \in Nat \ {0}
    BY <1>1, <1>3
  <2>3. ASSUME NEW a \in Int, NEW b \in Nat \ {0}  PROVE a \div b \in Int
    OBVIOUS
  <2>4. (2 * p.resolution * elapsed + moved) \div (2 * moved) \in Int
    BY <2>1, <2>2, <2>3
  <2> QED  BY <2>4, Clamps DEF Window
<1> QED  BY <1>1, <1>2, <1>3 DEF AdaptiveInterval

(* The parameters in force are a preset's or a scheme's: a window either way. *)
LEMMA InForce ==
    ASSUME SchemesSound  PROVE Window(Params)
<1>1. CASE selected # NoName /\ Named(customs, selected) # {}
  <2> DEFINE s == CHOOSE x \in Named(customs, selected) : TRUE
  <2>1. s \in customs
    BY <1>1 DEF Named
  <2>2. Params = s
    BY <1>1 DEF Params, ActiveParams
  <2> QED  BY <2>1, <2>2 DEF SchemesSound, Window, Scheme
<1>2. CASE ~(selected # NoName /\ Named(customs, selected) # {})
  <2>1. Params = Presets[mode]
    BY <1>2 DEF Params, ActiveParams
  <2>2. Presets[mode] \in [resolution: Nat, min: Nat, max: Nat]
    <3>1. Presets \in Seq([resolution: Nat, min: Nat, max: Nat])
      BY CadenceAssumption
    <3>2. mode \in 1 .. Len(Presets)
      BY <3>1, LenProperties DEF SchemesSound
    <3> QED  BY <3>1, <3>2, ElementOfSeq
  <2> QED  BY <2>1, <2>2, CadenceAssumption DEF SchemesSound, Window
<1> QED  BY <1>1, <1>2

(* What a form, a file or a list of schemes leaves behind is sound. *)
LEMMA Clamping ==
    ASSUME NEW s \in Scheme  PROVE Clamped(s) \in Scheme /\ Clamped(s).min <= Clamped(s).max
<1> DEFINE low == Clamp(s.min, MinSecs, MaxSecs)
           high == Clamp(s.max, low, MaxSecs)
<1>a. /\ MinSecs \in Nat /\ MaxSecs \in Nat /\ MinSecs <= MaxSecs
      /\ s.min \in Int /\ s.max \in Int
  BY CadenceAssumption DEF Scheme
<1>1. low \in MinSecs .. MaxSecs
  BY <1>a, Clamps
<1>2. low \in Nat /\ low <= MaxSecs
  BY <1>a, <1>1
<1>3. high \in low .. MaxSecs
  BY <1>a, <1>2, Clamps
<1>4. Clamped(s) = [s EXCEPT !.min = low, !.max = high]
  BY DEF Clamped, Scheme
<1>5. high \in Nat /\ low <= high
  BY <1>a, <1>2, <1>3
<1> HIDE DEF low, high
<1> QED  BY <1>2, <1>4, <1>5 DEF Scheme

-----------------------------------------------------------------------------
(* Types *)

LEMMA TypedInit ==
    ASSUME Init  PROVE Typed
<1>1. SchemesSound
  <2>1. PICK s \in Stored : mode = s.mode /\ customs = Normalized(s.customs)
    BY DEF Init
  <2>2. ASSUME NEW c \in customs  PROVE c \in Scheme /\ c.min <= c.max
    <3>1. PICK i \in DOMAIN s.customs : c = Clamped(s.customs[i])
      BY <2>1 DEF Normalized
    <3>2. s.customs[i] \in Scheme
      BY <2>1, <3>1, CadenceAssumption
    <3> QED  BY <3>1, <3>2, Clamping
  <2> QED  BY <2>1, <2>2, CadenceAssumption DEF SchemesSound
<1>2. SharesTyped
  BY <1>1, InForce, CadenceAssumption DEF Init, SharesTyped, Age, Window, Effective
<1> QED  BY <1>1, <1>2 DEF Typed

(* Every change of the settings leaves sound schemes. *)
LEMMA Settings ==
    ASSUME Typed, SelectCadence \/ SaveScheme \/ RemoveScheme
    PROVE  SchemesSound' /\ \E m, c, n : Mutate(m, c, n)
<1>1. CASE SelectCadence
  BY <1>1 DEF SelectCadence, Mutate, Typed, SchemesSound
<1>2. CASE SaveScheme
  <2>1. PICK form \in Forms : Valid(form) /\ Mutate(mode, Upserted(form), selected)
    BY <1>2 DEF SaveScheme
  <2>2. form \in Scheme /\ form.min <= form.max
    BY <2>1, CadenceAssumption DEF Valid
  <2>3. Upserted(form) \subseteq customs \cup {form}
    BY DEF Upserted
  <2>4. mode' = mode /\ customs' = Upserted(form)
    BY <2>1 DEF Mutate
  <2> QED  BY <2>1, <2>2, <2>3, <2>4 DEF Typed, SchemesSound
<1>3. CASE RemoveScheme
  BY <1>3 DEF RemoveScheme, Mutate, Typed, SchemesSound
<1> QED  BY <1>1, <1>2, <1>3

(* A changed scheme pulls the interval into its window, unless an alert runs. *)
LEMMA Reclamps ==
    ASSUME Typed, NEW p, Window(p)
    PROVE  Reclamped(p) \in Nat /\ (~alerting => Reclamped(p) \in p.min .. p.max)
<1>1. /\ adaptive \in Nat /\ adaptive \in Int
      /\ p.min \in Nat /\ p.max \in Nat /\ p.min <= p.max
  BY DEF Typed, SharesTyped, Window
<1>2. Clamp(adaptive, p.min, p.max) \in p.min .. p.max
  BY <1>1, Clamps
<1>3. Clamp(adaptive, p.min, p.max) \in Nat
  BY <1>1, <1>2
<1> QED  BY <1>1, <1>2, <1>3 DEF Reclamped

(* Where each variable can be after a step, action by action. *)
LEMMA TypedStep ==
    ASSUME Typed, [Next]_vars  PROVE Typed'
<1> USE DEF Typed
<1>w. Window(Params)
  BY InForce
<1>1. CASE Fix
  <2>1. PICK newPlace \in Places, newAge \in Nat : OnLocation(newAge, newPlace)
    BY <1>1 DEF Fix
  <2>2. SchemesSound'
    BY <2>1 DEF OnLocation, config, SchemesSound
  <2>3. Measurable(newAge) =>
            AdaptiveInterval(age - newAge, place, newPlace, Params) \in Nat
    <3>1. SUFFICES ASSUME age # Never
                   PROVE  AdaptiveInterval(age - newAge, place, newPlace, Params) \in Nat
      BY DEF Measurable
    <3>2. age - newAge \in Int
      BY <3>1 DEF SharesTyped, Age
    <3>3. place \in Places
      BY DEF SharesTyped
    <3> QED  BY <1>w, <3>2, <3>3, Measured DEF Window
  <2>4. adaptive' \in Nat /\ alerting' = alerting
    BY <2>1, <2>3 DEF OnLocation, SharesTyped
  <2>5. Effective' \in Nat
    BY <2>4, CadenceAssumption DEF Effective, SharesTyped
  <2>6. /\ since' \in Age /\ age' \in Age /\ quiet' \in Nat /\ place' \in Places
        /\ published' \in BOOLEAN /\ parked' \in BOOLEAN /\ held' \in BOOLEAN
        /\ ticked' \in BOOLEAN
    BY <2>1 DEF OnLocation, SharesTyped, Age, Due, Measurable
  <2>7. stalled' \in BOOLEAN /\ longest' \in Nat
    BY <2>1, <2>5 DEF OnLocation, SharesTyped, Observe
  <2> QED  BY <2>2, <2>4, <2>6, <2>7 DEF SharesTyped
<1>2. CASE Tick
  <2>1. SchemesSound'
    BY <1>2 DEF Tick, config, SchemesSound
  <2>2. Effective' \in Nat
    BY <1>2, CadenceAssumption DEF Tick, Effective, SharesTyped
  <2> QED  BY <1>2, <2>1, <2>2 DEF Tick, SharesTyped, Observe, Age, Due, CatchesUp
<1>3. CASE Wait
  <2>1. SchemesSound'
    BY <1>3 DEF Wait, config, SchemesSound
  <2>2. since' \in Age /\ age' \in Age /\ quiet' \in Nat
    BY <1>3 DEF Wait, SharesTyped, Age, Older
  <2>3. stalled' \in BOOLEAN
    BY <1>3 DEF Wait, SharesTyped
  <2> QED  BY <1>3, <2>1, <2>2, <2>3 DEF Wait, SharesTyped
<1>4. CASE RaiseOrClear
  <2>1. PICK on \in BOOLEAN : SetAlert(on)
    BY <1>4 DEF RaiseOrClear
  <2>2. SchemesSound'
    BY <2>1 DEF SetAlert, config, SchemesSound
  <2>3. Effective' \in Nat
    BY <2>1, CadenceAssumption DEF SetAlert, Effective, SharesTyped
  <2> QED  BY <2>1, <2>2, <2>3 DEF SetAlert, SharesTyped, Observe, Age
<1>5. CASE SelectCadence \/ SaveScheme \/ RemoveScheme
  <2>1. SchemesSound' /\ \E m, c, n : Mutate(m, c, n)
    BY <1>5, Settings
  <2>2. PICK m, c, n : Mutate(m, c, n)
    BY <2>1
  <2>3. Window(Params')
    <3>1. Window(Params)'
      BY <2>1, InForce, PTL
    <3> QED  BY <3>1 DEF Window
  <2>4. Reclamped(Params') \in Nat
    BY <2>3, Reclamps
  <2>5. adaptive' \in Nat /\ alerting' = alerting
    BY <2>2, <2>4 DEF Mutate
  <2>6. Effective' \in Nat
    BY <2>5, CadenceAssumption DEF Effective, SharesTyped
  <2> QED  BY <2>1, <2>2, <2>5, <2>6 DEF Mutate, SharesTyped, Observe
<1>6. CASE UNCHANGED vars
  BY <1>6 DEF vars, config, share, seen, SchemesSound, SharesTyped
<1> QED  BY <1>1, <1>2, <1>3, <1>4, <1>5, <1>6 DEF Next

-----------------------------------------------------------------------------
(* The interval keeps to its scheme *)

LEMMA IntervalInit ==
    ASSUME Init, Typed  PROVE Interval
BY InForce DEF Init, Typed, Interval, Window

LEMMA IntervalStep ==
    ASSUME Typed, Interval, [Next]_vars  PROVE Interval'
<1>w. Window(Params)
  BY InForce DEF Typed
<1>1. CASE Fix
  <2>1. PICK newPlace \in Places, newAge \in Nat : OnLocation(newAge, newPlace)
    BY <1>1 DEF Fix
  <2>2. Params' = Params
    BY <2>1 DEF OnLocation, config, Params
  <2> DEFINE measured == AdaptiveInterval(age - newAge, place, newPlace, Params)
  <2>3. CASE Measurable(newAge)
    <3>1. age \in Nat /\ newAge < age /\ place \in Places /\ adaptive' = measured
      BY <2>1, <2>3 DEF Measurable, OnLocation, Typed, SharesTyped, Age
    <3>2. age - newAge \in Int /\ age - newAge > 0
      BY <3>1
    <3>3. /\ measured \in Params.min .. Params.max
          /\ Distance(place, newPlace) <= Noise => measured = Params.max
      BY <1>w, <3>1, <3>2, Measured
    <3>4. parked' => Distance(place, newPlace) <= Noise
      BY <2>1 DEF OnLocation
    <3> HIDE DEF measured
    <3> QED  BY <2>2, <3>1, <3>3, <3>4 DEF Interval
  <2>4. CASE ~Measurable(newAge)
    <3>1. adaptive' = adaptive /\ held' = held
      BY <2>1, <2>4 DEF OnLocation, Typed, SharesTyped
    <3>2. parked' => parked
      BY <2>1, <2>4 DEF OnLocation, Measurable
    <3> QED  BY <2>2, <3>1, <3>2 DEF Interval
  <2> QED  BY <2>3, <2>4
<1>2. CASE Tick \/ Wait \/ UNCHANGED vars
  <2>1. UNCHANGED <<mode, customs, selected, adaptive, parked, held>>
    BY <1>2 DEF Tick, Wait, vars, config, share, seen
  <2> QED  BY <2>1 DEF Interval, Params
<1>3. CASE RaiseOrClear
  <2>1. UNCHANGED <<mode, customs, selected, adaptive, held>> /\ ~parked'
    BY <1>3 DEF RaiseOrClear, SetAlert, config
  <2> QED  BY <2>1 DEF Interval, Params
<1>4. CASE SelectCadence \/ SaveScheme \/ RemoveScheme
  <2>1. SchemesSound' /\ \E m, c, n : Mutate(m, c, n)
    BY <1>4, Settings
  <2>2. PICK m, c, n : Mutate(m, c, n)
    BY <2>1
  <2>3. Window(Params')
    <3>1. Window(Params)'
      BY <2>1, InForce, PTL
    <3> QED  BY <3>1 DEF Window
  <2>4. held' = alerting /\ ~parked' /\ adaptive' = Reclamped(Params')
    BY <2>2 DEF Mutate
  <2>5. ~alerting => adaptive' \in Params'.min .. Params'.max
    BY <2>3, <2>4, Reclamps
  <2> QED  BY <2>4, <2>5 DEF Interval
<1> QED  BY <1>1, <1>2, <1>3, <1>4 DEF Next

-----------------------------------------------------------------------------
(* No share or alert goes silent *)

LEMMA SilenceInit ==
    ASSUME Init, Typed  PROVE Silence
<1>1. Effective \in Nat
  BY CadenceAssumption DEF Effective, Typed, SharesTyped
<1> QED  BY <1>1 DEF Init, Silence, NeverSilent, HeartbeatOnTime, SilenceBounded, Caught

(* An interval is never negative, and an alert's is not zero. *)
LEMMA Intervals ==
    ASSUME Typed  PROVE Effective \in Nat /\ (alerting => Effective = AlertInterval)
BY CadenceAssumption DEF Effective, Typed, SharesTyped

(* After a publication nothing is owed; without one the limit only rises. *)
LEMMA SilenceStep ==
    ASSUME Typed, Typed', Silence, [Next]_vars  PROVE Silence'
<1>e. Effective \in Nat /\ Effective' \in Nat /\ longest \in Nat /\ longest' \in Nat
  BY CadenceAssumption DEF Effective, Typed, SharesTyped
<1>a. /\ AlertInterval \in Nat /\ AlertInterval > 0 /\ Never \notin Nat
      /\ alerting => Effective = AlertInterval
      /\ alerting' => Effective' = AlertInterval
  BY CadenceAssumption DEF Effective
<1>t. /\ since \in Age /\ age \in Age /\ quiet \in Nat
      /\ since' \in Age /\ age' \in Age /\ quiet' \in Nat
      /\ published \in BOOLEAN /\ published' \in BOOLEAN
      /\ alerting \in BOOLEAN /\ alerting' \in BOOLEAN
      /\ stalled \in BOOLEAN /\ stalled' \in BOOLEAN
  BY DEF Typed, SharesTyped
<1>p. ASSUME Observe(TRUE), since' = 0, published', age' # Never
      PROVE  Silence'
  BY <1>e, <1>a, <1>t, <1>p DEF Observe, Silence, NeverSilent, HeartbeatOnTime, SilenceBounded, Caught, Age
<1>n. ASSUME Observe(FALSE)
      PROVE  Effective' <= longest' /\ longest <= longest' /\ stalled' = stalled
  BY <1>e, <1>n DEF Observe
<1>1. CASE Fix
  <2>1. PICK newPlace \in Places, newAge \in Nat : OnLocation(newAge, newPlace)
    BY <1>1 DEF Fix
  <2>2. age' # Never /\ alerting' = alerting /\ quiet' = 0 /\ ticked' = ticked
    BY <2>1, <1>a DEF OnLocation
  <2>3. CASE Due(Effective')
    BY <2>1, <2>2, <2>3, <1>p DEF OnLocation
  <2>4. CASE ~Due(Effective')
    <3>1. since # Never /\ since < Effective'
      BY <2>4, <1>e, <1>t DEF Due, Age
    <3>2. since' = since /\ ~published' /\ Observe(FALSE)
      BY <2>1, <2>4 DEF OnLocation, Observe
    <3> QED
      BY <2>2, <3>1, <3>2, <1>n, <1>e, <1>a, <1>t
      DEF Silence, NeverSilent, HeartbeatOnTime, SilenceBounded, Caught, Age
  <2> QED  BY <2>3, <2>4
<1>2. CASE Tick
  <2> DEFINE publishes == age # Never /\ Due(Effective) /\ CatchesUp
  <2>1. /\ UNCHANGED <<alerting, adaptive, age, quiet>>
        /\ since' = IF publishes THEN 0 ELSE since
        /\ published' = (published \/ publishes)
        /\ Observe(publishes)
    BY <1>2 DEF Tick
  <2>2. CASE publishes
    BY <2>1, <2>2, <1>p DEF Observe
  <2>3. CASE ~publishes
    <3>1. since' = since /\ published' = published /\ Observe(FALSE)
      BY <2>1, <2>3, <1>t DEF Observe
    <3>2. Effective' = Effective
      BY <2>1 DEF Effective
    <3>3. age # Never => since < Effective \/ (published /\ ~alerting)
      BY <2>3, <1>e, <1>t DEF Due, CatchesUp, Age, Silence
    <3> QED
      BY <2>1, <3>1, <3>2, <3>3, <1>n, <1>e, <1>a, <1>t
      DEF Silence, NeverSilent, HeartbeatOnTime, SilenceBounded, Caught, Age
  <2> QED  BY <2>2, <2>3
<1>3. CASE Wait
  <2>1. /\ ticked /\ ~ticked' /\ since' = Older(since) /\ age' = Older(age)
        /\ quiet' = quiet + 1 /\ stalled' = (stalled \/ quiet' > Effective)
        /\ UNCHANGED <<alerting, adaptive, published, longest>>
    BY <1>3 DEF Wait
  <2>2. Effective' = Effective
    BY <2>1 DEF Effective
  <2>3. age # Never <=> age' # Never
    BY <2>1, <1>t, <1>a DEF Older, Age
  <2>4. CASE since = Never
    BY <2>1, <2>2, <2>3, <2>4, <1>e, <1>a, <1>t
    DEF Older, Silence, NeverSilent, HeartbeatOnTime, SilenceBounded, Caught, Age
  <2>5. CASE since # Never
    <3>1. since \in Nat /\ since' = since + 1
      BY <2>1, <2>5, <1>t DEF Older, Age
    <3>2. ~stalled' => since' <= longest
      <4>1. SUFFICES ASSUME ~stalled'  PROVE since' <= longest
        OBVIOUS
      <4>2. quiet + 1 <= Effective /\ ~stalled
        <5>1. ~stalled /\ ~(quiet' > Effective)
          BY <2>1, <4>1, <1>t
        <5> QED  BY <2>1, <5>1, <1>t, <1>e
      <4>3. CASE published
        BY <3>1, <4>2, <4>3, <1>t, <1>e DEF Silence
      <4>4. CASE ~published
        BY <2>1, <2>5, <3>1, <4>2, <4>4, <1>t, <1>e DEF Silence, Caught
      <4> QED  BY <4>3, <4>4
    <3>3. alerting => since' <= AlertInterval
      BY <2>1, <2>5, <3>1, <1>a, <1>t DEF Silence, Caught
    <3> QED
      BY <2>1, <2>2, <2>3, <2>5, <3>1, <3>2, <3>3, <1>e, <1>a, <1>t
      DEF Silence, NeverSilent, HeartbeatOnTime, SilenceBounded, Caught, Age
  <2> QED  BY <2>4, <2>5
<1>4. CASE RaiseOrClear
  <2>1. PICK on \in BOOLEAN : SetAlert(on)
    BY <1>4 DEF RaiseOrClear
  <2>2. CASE age # Never
    BY <2>1, <2>2, <1>p DEF SetAlert, Observe
  <2>3. CASE age = Never
    <3>1. Observe(FALSE) /\ UNCHANGED <<since, age, published>>
      BY <2>1, <2>3, <1>t DEF SetAlert, Observe
    <3> QED  BY <2>3, <3>1, <1>n, <1>t DEF Silence, NeverSilent, HeartbeatOnTime, SilenceBounded, Caught, Age
  <2> QED  BY <2>2, <2>3
<1>5. CASE SelectCadence \/ SaveScheme \/ RemoveScheme
  <2>1. PICK m, c, n : Mutate(m, c, n)
    BY <1>5, Settings
  <2>2. /\ UNCHANGED <<alerting, since, age, published, ticked, quiet>>
        /\ Observe(FALSE)
    BY <2>1 DEF Mutate
  <2> QED  BY <2>2, <1>n, <1>e, <1>t DEF Silence, NeverSilent, HeartbeatOnTime, SilenceBounded, Caught, Age
<1>6. CASE UNCHANGED vars
  BY <1>6 DEF vars, config, share, seen, Effective, Silence, NeverSilent, HeartbeatOnTime, SilenceBounded, Caught, Age
<1> QED  BY <1>1, <1>2, <1>3, <1>4, <1>5, <1>6 DEF Next

-----------------------------------------------------------------------------
(* Nothing the engine does breaks what the proofs rest on. *)
LEMMA Inductive == Spec => []IInv
<1>1. Init => IInv
  BY TypedInit, IntervalInit, SilenceInit DEF IInv
<1>2. IInv /\ [Next]_vars => IInv'
  BY TypedStep, IntervalStep, SilenceStep DEF IInv
<1> QED  BY <1>1, <1>2, PTL DEF Spec

(* Every scheme in force has a window that is not empty, and every value its type. *)
THEOREM TypeCorrect == Spec => []Typed
BY Inductive, PTL DEF IInv

(***************************************************************************)
(* on_location, retune_cadence_after_config: whatever fixes arrive and     *)
(* however the schemes change, the interval is one of the scheme in force, *)
(* and its longest once the device was found not to move.                  *)
(***************************************************************************)
THEOREM KeepsToScheme == Spec => []IntervalSound
<1>1. IInv => IntervalSound
  BY DEF IInv, Interval, IntervalSound, InWindow, ParkedRidesCeiling
<1> QED  BY <1>1, Inductive, PTL

(***************************************************************************)
(* on_tick, set_alert: an alert is heard in time, GPS or none, and a share *)
(* that gets its fixes is silent no longer than its longest interval.      *)
(***************************************************************************)
THEOREM HeardInTime == Spec => []NeverSilent
<1>1. IInv => NeverSilent
  BY DEF IInv, Silence
<1> QED  BY <1>1, Inductive, PTL
=============================================================================
