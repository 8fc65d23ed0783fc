------------------------------ MODULE Cadence ------------------------------
(***************************************************************************)
(* How often a share samples and publishes.  The active cadence scheme, a  *)
(* preset or one of the user's own (src/core/src/config.rs), bounds an     *)
(* adaptive interval that the engine measures from the last two fixes; a   *)
(* fix is published when the interval since the last publication is over,  *)
(* on arrival or by the one-second tick (src/core/src/engine.rs).          *)
(*                                                                         *)
(* Time is relative: what is kept is how long ago something happened.      *)
(* Coordinates are points on a line and the combined uncertainty of two    *)
(* fixes is a constant.                                                    *)
(***************************************************************************)
EXTENDS Integers, Sequences, FiniteSets

CONSTANTS
    Presets,       \* CadenceMode::ALL in order: resolution, min, max each
    Names,         \* what a scheme may be called
    Forms,         \* what the user may enter as a scheme: name and the same
    Stored,        \* cadence settings a config file may hold
    MinSecs, MaxSecs, \* MIN_CADENCE_SECS, MAX_CADENCE_SECS
    MaxCustoms,    \* MAX_CUSTOM_CADENCES
    AlertInterval, \* ALERT_INTERVAL_SECS
    Places,        \* where the device can be, in metres
    Noise,         \* the combined uncertainty of two fixes
    NoName, Never,
    MaxEdits,      \* bound: changes of the settings
    MaxAlerts,     \* bound: alerts raised
    MaxSilence     \* bound: how long nothing is delivered or published

Scheme == [name: Names \cup {NoName}, resolution: Nat, min: Nat, max: Nat]

ASSUME CadenceAssumption ==
    /\ Presets \in Seq([resolution: Nat, min: Nat, max: Nat])
    /\ \A i \in DOMAIN Presets : Presets[i].min <= Presets[i].max
    /\ Forms \subseteq Scheme
    /\ \A s \in Stored : s.mode \in DOMAIN Presets /\ s.customs \in Seq(Scheme)
    /\ MinSecs \in Nat /\ MaxSecs \in Nat /\ 0 < MinSecs /\ MinSecs <= MaxSecs
    /\ MaxCustoms \in Nat /\ MaxEdits \in Nat /\ MaxAlerts \in Nat
    /\ AlertInterval \in Nat \ {0} /\ MaxSilence \in Nat
    /\ Places \subseteq Nat /\ Noise \in Nat /\ Never \notin Int

VARIABLES
    mode, customs, selected, \* Config: preset index, schemes, chosen name
    alerting, adaptive,      \* ShareState
    since,                   \* time since last_publish_at, or Never
    age, place,              \* last_sample: age or Never, and where
    published,               \* last_sample_published
    ticked,                  \* this second's tick has run
    edits, alerts,
    (*********************************************************************)
    (* Observation only.                                                 *)
    (*********************************************************************)
    quiet,   \* time since the platform delivered anything
    stalled, \* it has been late since the last publication
    longest, \* the longest interval in force since then
    parked,  \* the device was measured and found not to move
    held     \* the settings changed under an alert and nothing followed

config == <<mode, customs, selected>>
share  == <<alerting, adaptive, since, age, place, published>>
bounds == <<edits, alerts>>
seen   == <<quiet, stalled, longest, parked, held>>
vars   == <<config, share, ticked, bounds, seen>>

-----------------------------------------------------------------------------
(***************************************************************************)
(* Schemes.                                                                *)
(***************************************************************************)
Clamp(n, low, high) == IF n < low THEN low ELSE IF n > high THEN high ELSE n

(* CadenceScheme::new: what it refuses never reaches the engine. *)
Valid(form) ==
    /\ form.name # NoName
    /\ form.min \in MinSecs .. MaxSecs /\ form.max \in MinSecs .. MaxSecs
    /\ form.min <= form.max

(* CadenceScheme::clamp, for a file somebody edited. *)
Clamped(scheme) ==
    LET min == Clamp(scheme.min, MinSecs, MaxSecs)
    IN  [scheme EXCEPT !.min = min, !.max = Clamp(@, min, MaxSecs)]

(* Where a scheme stands in the list matters to the file and the screen only. *)
Named(schemes, name) == {s \in schemes : s.name = name}

(* normalize_cadence: the first scheme of a name, in range. *)
Normalized(list) ==
    {Clamped(list[i]) : i \in {j \in DOMAIN list :
                                  \A k \in 1 .. j - 1 : list[k].name # list[j].name}}

ActiveParams(m, schemes, name) ==
    IF name # NoName /\ Named(schemes, name) # {}
    THEN CHOOSE s \in Named(schemes, name) : TRUE ELSE Presets[m]

Params == ActiveParams(mode, customs, selected)

-----------------------------------------------------------------------------
(***************************************************************************)
(* The interval.                                                           *)
(***************************************************************************)
Distance(a, b) == IF a < b THEN b - a ELSE a - b

(* adaptive_interval_secs, for two fixes elapsed seconds apart. *)
AdaptiveInterval(elapsed, from, to, p) ==
    LET moved == Distance(from, to) - Noise
    IN  IF elapsed <= 0 THEN p.min
        ELSE IF moved <= 0 THEN p.max
        ELSE Clamp((2 * p.resolution * elapsed + moved) \div (2 * moved), p.min, p.max)

Effective == IF alerting THEN AlertInterval ELSE adaptive

(* Mutant: a fix that was delivered before is measured like any other. *)
MeasurableAgain(newAge) == ~alerting /\ age # Never

Measurable(newAge) == ~alerting /\ age # Never /\ newAge < age

(* Elapsed since the last publication, or nothing published yet. *)
Due(interval) == since = Never \/ since >= interval

(* What follows a publication, or its absence, for the observer. *)
Observe(publishes) ==
    /\ stalled' = IF publishes THEN FALSE ELSE stalled
    /\ longest' = IF publishes \/ Effective' > longest THEN Effective' ELSE longest

-----------------------------------------------------------------------------
(***************************************************************************)
(* The engine.                                                             *)
(***************************************************************************)
(* on_location: measure, then decide, then remember the fix. *)
OnLocation(newAge, newPlace) ==
    LET measures  == Measurable(newAge)
        interval  == AdaptiveInterval(age - newAge, place, newPlace, Params)
        publishes == Due(Effective')
    IN  /\ UNCHANGED <<config, alerting, ticked, bounds>>
        /\ adaptive' = IF measures THEN interval ELSE adaptive
        /\ since' = IF publishes THEN 0 ELSE since
        /\ age' = newAge /\ place' = newPlace
        /\ published' = publishes
        /\ quiet' = 0
        /\ parked' = /\ ~alerting /\ age # Never
                     /\ Distance(place, newPlace) <= Noise
                     /\ parked \/ newAge < age
        /\ held' = (held /\ ~measures)
        /\ Observe(publishes)

(* The platform hands over a new fix, its cached one or an older one. *)
Fix ==
    \E newPlace \in Places :
        \/ OnLocation(0, newPlace)
        \/ age \in Nat /\ \E a \in {age, age + 1} :
              a <= MaxSilence /\ OnLocation(a, newPlace)

(* Mutant: a published fix is never sent again. *)
CatchesUpOnce == ~published

CatchesUp == alerting \/ ~published

(* on_tick: a fix that arrived before its time, or the alert's heartbeat. *)
Tick ==
    LET publishes == age # Never /\ Due(Effective) /\ CatchesUp
    IN  /\ ~ticked /\ ticked' = TRUE
        /\ UNCHANGED <<config, alerting, adaptive, age, place, bounds, quiet,
                       parked, held>>
        /\ since' = IF publishes THEN 0 ELSE since
        /\ published' = (published \/ publishes)
        /\ Observe(publishes)

(* A second passes once its tick has run. *)
Older(t) == IF t = Never THEN Never ELSE t + 1

Wait ==
    /\ ticked /\ ticked' = FALSE
    /\ quiet < MaxSilence
    /\ age # Never => age < MaxSilence
    /\ since # Never => since < MaxSilence
    /\ since' = Older(since) /\ age' = Older(age)
    /\ quiet' = quiet + 1
    /\ stalled' = (stalled \/ quiet' > Effective)
    /\ UNCHANGED <<config, alerting, adaptive, place, published, bounds,
                   longest, parked, held>>

(* set_alert: published again at once, marked or without the mark. *)
SetAlert(on) ==
    /\ on # alerting
    /\ alerting' = on
    /\ since' = IF age = Never THEN since ELSE 0
    /\ published' = (published \/ age # Never)
    /\ alerts' = IF on THEN alerts + 1 ELSE alerts
    /\ parked' = FALSE
    /\ UNCHANGED <<config, adaptive, age, place, ticked, edits, quiet, held>>
    /\ Observe(age # Never)

RaiseOrClear == \E on \in BOOLEAN : alerts < MaxAlerts /\ SetAlert(on)

Reclamped(p) == IF alerting THEN adaptive ELSE Clamp(adaptive, p.min, p.max)

(* Mutate, then retune_cadence_after_config. *)
Mutate(newMode, newCustoms, newSelected) ==
    /\ edits < MaxEdits /\ edits' = edits + 1
    /\ mode' = newMode /\ customs' = newCustoms /\ selected' = newSelected
    /\ adaptive' = Reclamped(Params')
    /\ held' = alerting
    /\ parked' = FALSE
    /\ UNCHANGED <<alerting, since, age, place, published, ticked, alerts, quiet>>
    /\ Observe(FALSE)

(* The index is one into the list the user saw; out of range is ignored. *)
SelectCadence ==
    \/ \E preset \in DOMAIN Presets : Mutate(preset, customs, NoName)
    \/ \E s \in customs : Mutate(mode, customs, s.name)
    \/ Mutate(mode, customs, selected)

(* upsert_custom_cadence: edited in place, added, or refused at the cap. *)
Upserted(form) ==
    LET old == Named(customs, form.name)
    IN  IF old # {} \/ Cardinality(customs) < MaxCustoms
        THEN (customs \ old) \cup {form} ELSE customs

SaveScheme == \E form \in Forms : Valid(form) /\ Mutate(mode, Upserted(form), selected)

RemoveScheme ==
    \E s \in customs :
        Mutate(mode, customs \ {s}, IF selected = s.name THEN NoName ELSE selected)

-----------------------------------------------------------------------------
(* begin_share at the floor of the loaded scheme, with or without an alert. *)
Init ==
    /\ \E s \in Stored :
         /\ mode = s.mode /\ customs = Normalized(s.customs)
         /\ selected = IF Named(customs, s.selected) = {} THEN NoName ELSE s.selected
    /\ alerting \in BOOLEAN
    /\ adaptive = Params.min
    /\ since = Never /\ age = Never /\ place \in Places /\ published = FALSE
    /\ ticked = FALSE /\ edits = 0 /\ alerts = 0
    /\ quiet = 0 /\ stalled = FALSE /\ longest = Effective
    /\ parked = FALSE /\ held = FALSE

Next ==
    \/ Fix \/ Tick \/ Wait \/ RaiseOrClear
    \/ SelectCadence \/ SaveScheme \/ RemoveScheme

Spec == Init /\ [][Next]_vars

-----------------------------------------------------------------------------
(* A device that was found not to move rides its scheme's ceiling. *)
ParkedRidesCeiling == parked => adaptive = Params.max

InWindow == alerting \/ held \/ adaptive \in Params.min .. Params.max

(***************************************************************************)
(* The interval lies in the window of the scheme in force, whatever is     *)
(* selected, edited or deleted under a running share, and on its ceiling   *)
(* for a parked device, however often the platform hands the same fix over *)
(* again: a fall to the floor would undo every relaxation.  Settings       *)
(* changed under an alert are the exception: retune_cadence_after_config   *)
(* leaves them alone and set_alert(false) does not catch up.               *)
(***************************************************************************)
IntervalSound == InWindow /\ ParkedRidesCeiling

HeartbeatOnTime == alerting /\ age # Never => since <= AlertInterval

SilenceBounded == ~stalled /\ since # Never => since <= longest

(***************************************************************************)
(* An alert is heard every ALERT_INTERVAL_SECS from the moment a position  *)
(* is known, even if the GPS delivers nothing more.  And while the         *)
(* platform delivers fixes at the rate asked for, a share is silent no     *)
(* longer than the longest interval in force meanwhile: a fix that arrives *)
(* a little early waits for the tick, not for the next fix.  On this rests *)
(* the receivers' SHARE_TIMEOUT_SECS.                                      *)
(***************************************************************************)
NeverSilent == HeartbeatOnTime /\ SilenceBounded
=============================================================================
