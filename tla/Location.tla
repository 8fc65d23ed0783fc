------------------------------ MODULE Location ------------------------------
(***************************************************************************)
(* From a tap to the GPS: the user asks the controller for a share or a    *)
(* panic (src/app/src/controller.rs), which may first need a permission    *)
(* dialog; the engine asks its UI for location and tunes it; the Java      *)
(* bridge (LocationBridge.java) starts, re-tunes and stops the one GPS     *)
(* session on the main looper.                                             *)
(*                                                                         *)
(* Four queues connect them: commands to the engine, UiEvents to the       *)
(* controller, runnables to the looper, permission results back.  One UI   *)
(* session with its activity alive; permissions are only ever granted,     *)
(* since Android ends a process that loses one.                            *)
(***************************************************************************)
EXTENDS Naturals, Sequences

CONSTANTS
    Rates,      \* what the cadence may ask for: intervals in seconds
    MinRate,    \* the active scheme's floor
    AlertRate,  \* ALERT_INTERVAL_SECS
    AcquireRate,\* ACQUIRE_INTERVAL_MS, below every other
    MaxTaps,    \* bound: what the user asks for
    MaxTunes    \* bound: how often the cadence moves

ASSUME RateAssumption ==
    /\ Rates \subseteq Nat /\ MinRate \in Rates
    /\ AlertRate \in Nat /\ AcquireRate \in Nat
    /\ \A i \in Rates \cup {AlertRate} : AcquireRate < i
    /\ MaxTaps \in Nat /\ MaxTunes \in Nat

VARIABLES
    share, alert, adaptive,  \* the engine's running share
    cmds,                    \* EngineCmds
    ui,                      \* UiEvents
    sharing, active, after,  \* ViewState: share, location_active, after_permission
    results,                 \* PlatformEvents: permission results
    looper,                  \* runnables posted to the main looper
    listener, acquired,      \* LocationBridge's statics; rate is its minTime
    service,                 \* the foreground service: on, off, or refused: off,
                             \* because its start for this session failed
    permission, dialog,      \* what Android grants; the dialog on screen
    taps, tunes,
    (*********************************************************************)
    (* Observation only.                                                 *)
    (*********************************************************************)
    owed,       \* a panic waits for the permission, by the user's lights
    declined,   \* a refusal took a panic that waited
    overlooked, \* a refusal came before the controller knew of the share
    overtaken   \* a rate took effect with a relaxation to another behind it

engine  == <<share, alert, adaptive>>
view    == <<sharing, active, after>>
gps     == <<listener, acquired, service>>
android == <<permission, dialog>>
bounds  == <<taps, tunes>>
seen    == <<owed, declined, overlooked, overtaken>>
vars    == <<engine, cmds, ui, view, results, looper, gps, android, bounds, seen>>

NoListener == [interval |-> 0, rate |-> 0]

Need(on)     == [kind |-> "need", on |-> on]
Interval(i)  == [kind |-> "interval", rate |-> i]
Snapshot(on) == [kind |-> "snapshot", on |-> on]

Ask          == [kind |-> "ask"]
Start(i)     == [kind |-> "start", rate |-> i]
Set(i)       == [kind |-> "set", rate |-> i]
Stop         == [kind |-> "stop"]
Relax(i)     == [kind |-> "relax", rate |-> i]

-----------------------------------------------------------------------------
(* The user *)

Tap == taps < MaxTaps /\ taps' = taps + 1

Send(c) == cmds' = Append(cmds, c)

\* start_share, trigger_panic: at once, or when the permission is there.
TapFor(what) ==
    /\ Tap
    /\ \/ /\ permission = "always"
          /\ Send(what)
          /\ UNCHANGED <<looper, after, owed, declined>>
       \/ /\ permission # "always"
          /\ after' = what
          /\ looper' = Append(looper, Ask)
          /\ owed' = (what = "panic")
          /\ declined' = FALSE
          /\ UNCHANGED cmds
    /\ UNCHANGED <<engine, ui, sharing, active, results, gps, android, tunes,
                   overlooked, overtaken>>

TapStop ==
    /\ Tap /\ sharing
    /\ Send("stop")
    /\ UNCHANGED <<engine, ui, view, results, looper, gps, android, tunes, seen>>

TapClear ==
    /\ Tap /\ sharing
    /\ Send("clear")
    /\ UNCHANGED <<engine, ui, view, results, looper, gps, android, tunes, seen>>

-----------------------------------------------------------------------------
(* The engine: what of its commands concerns the GPS *)

Emit(s) == ui' = ui \o s

\* effective_interval_secs.
Effective == IF alert THEN AlertRate ELSE adaptive

\* begin_share, with or without the alert.
Begin(alerting) ==
    /\ share' = TRUE /\ alert' = alerting /\ adaptive' = MinRate
    /\ Emit(IF alerting THEN <<Need(TRUE), Interval(AlertRate), Snapshot(TRUE)>>
                        ELSE <<Need(TRUE), Snapshot(TRUE)>>)
    /\ overlooked' = FALSE

\* set_alert on a running share, in the other state.
SetAlert(on) ==
    /\ alert' = on
    /\ Emit(<<Interval(IF on THEN AlertRate ELSE adaptive), Snapshot(TRUE)>>)
    /\ UNCHANGED <<share, adaptive, overlooked>>

\* stop_share; also LocationUnavailable, with or without a share.
StopShare ==
    /\ share' = FALSE /\ alert' = FALSE
    /\ Emit(<<Need(FALSE), Snapshot(FALSE)>>)
    /\ UNCHANGED <<adaptive, overlooked>>

Nothing == UNCHANGED <<engine, ui, overlooked>>

Handle(c) ==
    \/ c = "start" /\ IF share THEN Nothing ELSE Begin(FALSE)
    \/ c = "panic" /\ IF ~share THEN Begin(TRUE)
                      ELSE IF alert THEN Nothing ELSE SetAlert(TRUE)
    \/ c = "clear" /\ IF share /\ alert THEN SetAlert(FALSE) ELSE Nothing
    \/ c \in {"stop", "unavailable"} /\ StopShare

EngineStep ==
    /\ cmds # <<>>
    /\ cmds' = Tail(cmds)
    /\ Handle(Head(cmds))
    /\ UNCHANGED <<view, results, looper, gps, android, bounds, owed, declined,
                   overtaken>>

\* A fix, or a new scheme, moves the adaptive interval; not while alerting.
Retune(i) ==
    /\ tunes < MaxTunes /\ tunes' = tunes + 1
    /\ share /\ ~alert /\ i # adaptive
    /\ adaptive' = i
    /\ Emit(<<Interval(i)>>)
    /\ UNCHANGED <<share, alert, cmds, view, results, looper, gps, android, taps, seen>>

-----------------------------------------------------------------------------
(* The controller's two loops *)

NeedLocation(ev) ==
    /\ active' = ev.on
    /\ looper' = Append(looper, IF ev.on THEN Start(MinRate) ELSE Stop)
    /\ UNCHANGED sharing

SetLocationInterval(ev) ==
    /\ looper' = IF active THEN Append(looper, Set(ev.rate)) ELSE looper
    /\ UNCHANGED <<sharing, active>>

OnUiEvent ==
    /\ ui # <<>>
    /\ ui' = Tail(ui)
    /\ LET ev == Head(ui) IN
       \/ ev.kind = "need" /\ NeedLocation(ev)
       \/ ev.kind = "interval" /\ SetLocationInterval(ev)
       \/ ev.kind = "snapshot" /\ sharing' = ev.on /\ UNCHANGED <<active, looper>>
    /\ UNCHANGED <<engine, cmds, after, results, gps, android, bounds, seen>>

\* Mutant: a refusal is only shown.
RefusalShown == UNCHANGED <<cmds, overlooked>>

\* Refused: a share the controller knows of is given up.
Refusal ==
    IF sharing
    THEN Send("unavailable") /\ UNCHANGED overlooked
    ELSE overlooked' = share /\ UNCHANGED cmds

\* Any result takes what was waiting; only a grant carries it out.
OnPermissionResult ==
    /\ results # <<>>
    /\ results' = Tail(results)
    /\ after' = "none"
    /\ IF Head(results)
       THEN /\ IF after = "none" THEN UNCHANGED cmds ELSE Send(after)
            /\ owed' = (owed /\ after # "panic")
            /\ UNCHANGED <<declined, overlooked>>
       ELSE /\ Refusal
            /\ declined' = (declined \/ after = "panic")
            /\ UNCHANGED owed
    /\ UNCHANGED <<engine, ui, sharing, active, looper, gps, android, bounds, overtaken>>

-----------------------------------------------------------------------------
(* LocationBridge, on the main looper *)

Report(granted) == results' = Append(results, granted)

\* requestBackground; Android refuses a second dialog at once.
RequestBackground ==
    \/ permission = "always" /\ Report(TRUE) /\ UNCHANGED dialog
    \/ permission # "always" /\ dialog = "none" /\ dialog' = "background"
       /\ UNCHANGED results
    \/ permission # "always" /\ dialog # "none" /\ Report(FALSE) /\ UNCHANGED dialog

RequestForeground ==
    \/ dialog = "none" /\ dialog' = "foreground" /\ UNCHANGED results
    \/ dialog # "none" /\ Report(FALSE) /\ UNCHANGED dialog

RunAsk ==
    /\ IF permission = "none" THEN RequestForeground ELSE RequestBackground
    /\ looper' = Tail(looper)
    /\ UNCHANGED <<gps, permission, overtaken>>

Refuse == Report(FALSE) /\ UNCHANGED <<gps, dialog>>

\* The first fix posts a second subscription, at the session's own interval.
FirstFix(i, rest) ==
    /\ acquired' = TRUE
    /\ looper' = Append(rest, Relax(i))

\* subscribe: not acquired, the OS may have a fresh fix in its cache.
Subscribe(i, got, rest) ==
    /\ listener' = [interval |-> i, rate |-> IF got THEN i ELSE AcquireRate]
    /\ \/ ~got /\ FirstFix(i, rest)
       \/ acquired' = got /\ looper' = rest

\* A relaxation to another rate is still behind the one now taking effect.
Outdated(i, rest) ==
    overtaken' = \E k \in DOMAIN rest : rest[k].kind = "relax" /\ rest[k].rate # i

\* Android may refuse to start the service (not from the background) or to
\* let it go to the foreground; that is logged, and the session starts anyway.
RunStart(i) ==
    \/ permission # "always" /\ Refuse /\ looper' = Tail(looper) /\ UNCHANGED overtaken
    \/ /\ permission = "always"
       /\ service' \in {"on", "refused"}
       /\ Subscribe(i, FALSE, Tail(looper))
       /\ Outdated(i, Tail(looper))
       /\ UNCHANGED <<results, dialog>>

\* Mutant: a set before the first fix waits for that fix.
TunesAcquired == listener # NoListener /\ acquired

Tunes == listener # NoListener

RunSet(i) ==
    \/ /\ ~Tunes
       /\ looper' = Tail(looper)
       /\ UNCHANGED <<gps, results, dialog, overtaken>>
    \/ Tunes /\ permission # "always" /\ Refuse /\ looper' = Tail(looper)
       /\ UNCHANGED overtaken
    \/ /\ Tunes /\ permission = "always"
       /\ Subscribe(i, acquired, Tail(looper))
       /\ Outdated(i, Tail(looper))
       /\ UNCHANGED <<service, results, dialog>>

\* Mutant: the second subscription does not look whether a session is left.
RelaxesAlways == TRUE

Relaxes == listener # NoListener

RunRelax(i) ==
    /\ IF Relaxes THEN Subscribe(i, acquired, Tail(looper))
       ELSE looper' = Tail(looper) /\ UNCHANGED <<listener, acquired>>
    /\ UNCHANGED <<service, results, dialog, overtaken>>

RunStop ==
    /\ listener' = NoListener /\ acquired' = FALSE /\ service' = "off"
    /\ looper' = Tail(looper)
    /\ UNCHANGED <<results, dialog, overtaken>>

LooperStep ==
    /\ looper # <<>>
    /\ LET r == Head(looper) IN
       \/ r.kind = "ask" /\ RunAsk
       \/ r.kind = "start" /\ RunStart(r.rate)
       \/ r.kind = "set" /\ RunSet(r.rate)
       \/ r.kind = "relax" /\ RunRelax(r.rate)
       \/ r.kind = "stop" /\ RunStop
    /\ UNCHANGED <<engine, cmds, ui, view, permission, bounds, owed, declined,
                   overlooked>>

\* The first fix of a session; later ones leave the session as it is.
OnLocationChanged ==
    /\ listener # NoListener /\ ~acquired
    /\ FirstFix(listener.interval, looper)
    /\ UNCHANGED <<engine, cmds, ui, view, results, listener, service, android, bounds,
                   seen>>

-----------------------------------------------------------------------------
(* The permission dialogs *)

Denied == Report(FALSE) /\ owed' = FALSE /\ dialog' = "none" /\ UNCHANGED permission

\* Before Android 10 the first dialog is all there is.
AnswerForeground ==
    /\ dialog = "foreground"
    /\ \/ Denied
       \/ /\ permission' = "foreground" /\ dialog' = "background"
          /\ UNCHANGED <<results, owed>>
       \/ /\ permission' = "always" /\ dialog' = "none" /\ Report(TRUE)
          /\ UNCHANGED owed

AnswerBackground ==
    /\ dialog = "background"
    /\ \/ Denied
       \/ /\ permission' = "always" /\ dialog' = "none" /\ Report(TRUE)
          /\ UNCHANGED owed

AnswerDialog ==
    /\ AnswerForeground \/ AnswerBackground
    /\ UNCHANGED <<engine, cmds, ui, view, looper, gps, bounds, declined, overlooked,
                   overtaken>>

-----------------------------------------------------------------------------

\* At its start the engine resumes a share, an alert, or nothing.
Init ==
    /\ share = FALSE /\ alert = FALSE /\ adaptive = MinRate
    /\ cmds \in {<<>>, <<"start">>, <<"panic">>} /\ ui = <<>>
    /\ sharing = FALSE /\ active = FALSE /\ after = "none"
    /\ results = <<>> /\ looper = <<>>
    /\ listener = NoListener /\ acquired = FALSE /\ service = "off"
    /\ permission \in {"none", "foreground", "always"} /\ dialog = "none"
    /\ taps = 0 /\ tunes = 0
    /\ owed = FALSE /\ declined = FALSE /\ overlooked = FALSE /\ overtaken = FALSE

Next ==
    \/ TapFor("start") \/ TapFor("panic") \/ TapStop \/ TapClear
    \/ EngineStep \/ (\E i \in Rates : Retune(i))
    \/ OnUiEvent \/ OnPermissionResult
    \/ LooperStep \/ OnLocationChanged \/ AnswerDialog

Spec == Init /\ [][Next]_vars
-----------------------------------------------------------------------------
(* Properties *)

Quiet ==
    cmds = <<>> /\ ui = <<>> /\ results = <<>> /\ looper = <<>> /\ dialog = "none"

(***************************************************************************)
(* When everything has been handled, a GPS session or its foreground       *)
(* service runs only for a share, whatever was still posted to the looper  *)
(* when the share ended.  (LocationBridge.java: stopLocation, the relax    *)
(* that looks for a listener; controller.rs: location_active.)             *)
(***************************************************************************)
GpsOnlyForShare == Quiet /\ ~share => listener = NoListener /\ service = "off"

ShareHasGps == share => overlooked \/ (listener # NoListener /\ service # "off")

PanicRaised == owed => permission # "always" \/ declined

(***************************************************************************)
(* When everything has been handled, what was tapped has its effect or was *)
(* refused.  A share has its GPS session, or was given up for want of a    *)
(* permission; the one way out is a refusal that came before the           *)
(* controller knew of the share.  The session has the service that keeps   *)
(* it alive, unless Android refused that one: no stop of an earlier        *)
(* session takes it away.  A panic deferred until the permission is        *)
(* granted is raised by the grant; the one way out is a refusal, be it of  *)
(* another request, that emptied after_permission.                         *)
(* (controller.rs: on_platform_event; LocationBridge.java: startLocation.) *)
(***************************************************************************)
TapsAnswered == Quiet => ShareHasGps /\ PanicRaised

(***************************************************************************)
(* Once the session has its first fix and everything has been handled, the *)
(* GPS samples at the rate the engine publishes at, unless a relaxation    *)
(* that a first fix posted ran behind a newer rate.                        *)
(* (engine.rs: effective_interval_secs, set_alert; setLocationInterval.)   *)
(***************************************************************************)
RateFollows ==
    Quiet /\ share /\ acquired => overtaken \/ listener.rate = Effective
=============================================================================
