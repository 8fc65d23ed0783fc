----------------------------- MODULE Ownership -----------------------------
(***************************************************************************)
(* Who owns the engine inside one Android process (src/app/src/headless.rs *)
(* and its callers).  The UI thread claims the engine, runs its own and    *)
(* hands over when it closes; the Java main thread starts and stops a      *)
(* headless engine with the LocationService.  Ownership is decided under   *)
(* the HOST lock, but engines are shut down outside of it.                 *)
(*                                                                         *)
(* Engines are numbered as they are built; 0 is none.  An engine that was  *)
(* sent Shutdown is "stopping": it still handles what came before.         *)
(***************************************************************************)
EXTENDS Naturals

CONSTANTS
    MaxEngines, \* bound: engines built in the life of the process
    Timely      \* every engine ends within the grace its host waits for

ASSUME OwnershipAssumption == MaxEngines \in Nat \ {0} /\ Timely \in BOOLEAN

VARIABLES
    ui,             \* where android_main stands
    uiEngine,       \* the engine of the UI's runtime
    uiActive,       \* UI_ACTIVE
    slot,           \* the engine in HOST
    victim,         \* per thread: the host it took and is shutting down
    engine,         \* state of every engine
    built,          \* engines built so far
    sink,           \* the engine PLATFORM_TX feeds
    armed,          \* resume.flag on disk
    service,        \* LocationService
    headlessStarted \* LocationService.headlessStarted

vars == <<ui, uiEngine, uiActive, slot, victim, engine, built, sink, armed,
          service, headlessStarted>>

Engines == 1..MaxEngines
Threads == {"ui", "main"}

\* "claimed": UI_ACTIVE is set; "bound": events flow to the engine to come.
UiPhases ==
    {"gone", "claimed", "bound", "running", "closing", "closed", "released", "handing"}

\* "ending": it was asked to stop, onDestroy is still to come.
ServiceStates == {"down", "up", "ending"}

Alive(e) == engine[e] \in {"running", "stopping"}

MainIdle == victim["main"] = 0
-----------------------------------------------------------------------------
(* headless.rs *)

\* Mutant: the slot is not looked at.
FreeOfUi == ~uiActive

\* start() goes on: the UI does not own the engine and no host is running.
Free == ~uiActive /\ slot = 0

\* Mutant: the event stream is bound first, to a channel nobody reads then.
RefusedUnbound == sink' = 0 /\ UNCHANGED <<slot, engine, built>>

\* Mutant: the same, to an engine that is never built.
RefusedBound == sink' = built + 1 /\ UNCHANGED <<slot, engine, built>>

\* start() returns early: the caller's channel is dropped.
Refused == UNCHANGED <<slot, engine, built, sink>>

Start ==
    IF Free
    THEN /\ built < MaxEngines
         /\ built' = built + 1
         /\ engine' = [engine EXCEPT ![built + 1] = "running"]
         /\ slot' = built + 1 /\ sink' = built + 1
    ELSE Refused

\* shutdown_host: Shutdown is sent, then the location session is stopped,
\* and with it the service.
Signal(t) ==
    /\ victim[t] # 0 /\ engine[victim[t]] = "running"
    /\ engine' = [engine EXCEPT ![victim[t]] = "stopping"]
    /\ service' = IF service = "up" THEN "ending" ELSE service
    /\ UNCHANGED <<ui, uiEngine, uiActive, slot, victim, built, sink, armed,
                   headlessStarted>>

\* shutdown_timeout returns: the engine has ended, or the grace is over.
Drained(t) ==
    /\ victim[t] # 0
    /\ engine[victim[t]] = "dead" \/ (~Timely /\ engine[victim[t]] = "stopping")
    /\ victim' = [victim EXCEPT ![t] = 0]
    /\ UNCHANGED <<ui, uiEngine, uiActive, slot, engine, built, sink, armed,
                   service, headlessStarted>>
-----------------------------------------------------------------------------
(* The UI thread: android_main *)

\* claim_for_ui, under the lock: set the flag and take the host.
Claim ==
    /\ ui = "gone"
    /\ ui' = "claimed" /\ uiActive' = TRUE
    /\ slot' = 0 /\ victim' = [victim EXCEPT !["ui"] = slot]
    /\ UNCHANGED <<uiEngine, engine, built, sink, armed, service, headlessStarted>>

\* AndroidPlatform::new, after the taken host is shut down.
BindUi ==
    /\ ui = "claimed" /\ victim["ui"] = 0 /\ built < MaxEngines
    /\ ui' = "bound"
    /\ built' = built + 1 /\ sink' = built + 1
    /\ UNCHANGED <<uiEngine, uiActive, slot, victim, engine, armed, service,
                   headlessStarted>>

\* It fails: android_main returns without a handoff.
PlatformFails ==
    /\ ui = "claimed" /\ victim["ui"] = 0
    /\ ui' = "gone"
    /\ UNCHANGED <<uiEngine, uiActive, slot, victim, engine, built, sink, armed,
                   service, headlessStarted>>

RunUi ==
    /\ ui = "bound"
    /\ ui' = "running" /\ uiEngine' = sink
    /\ engine' = [engine EXCEPT ![sink] = "running"]
    /\ UNCHANGED <<uiActive, slot, victim, built, sink, armed, service,
                   headlessStarted>>

\* Controller::shutdown sends Shutdown ...
CloseUi ==
    /\ ui = "running"
    /\ ui' = "closing"
    /\ engine' = [engine EXCEPT ![uiEngine] = "stopping"]
    /\ UNCHANGED <<uiEngine, uiActive, slot, victim, built, sink, armed, service,
                   headlessStarted>>

\* ... and sleeps; the runtime is then shut down in the background.
Closed ==
    /\ ui = "closing"
    /\ Timely => engine[uiEngine] = "dead"
    /\ ui' = "closed" /\ uiEngine' = 0
    /\ UNCHANGED <<uiActive, slot, victim, engine, built, sink, armed, service,
                   headlessStarted>>

\* Mutant: the handoff forgets that the UI still counts as the owner.
KeepsClaim ==
    /\ ui = "closed"
    /\ ui' = "released"
    /\ UNCHANGED <<uiEngine, uiActive, slot, victim, engine, built, sink, armed,
                   service, headlessStarted>>

\* handoff_from_ui: the flag is cleared without the lock,
Release ==
    /\ ui = "closed"
    /\ ui' = "released" /\ uiActive' = FALSE
    /\ UNCHANGED <<uiEngine, slot, victim, engine, built, sink, armed, service,
                   headlessStarted>>

\* the sentinel is read,
CheckFlag ==
    /\ ui = "released"
    /\ ui' = IF armed THEN "handing" ELSE "gone"
    /\ UNCHANGED <<uiEngine, uiActive, slot, victim, engine, built, sink, armed,
                   service, headlessStarted>>

\* and start() is called.
HandOff ==
    /\ ui = "handing"
    /\ ui' = "gone"
    /\ Start
    /\ UNCHANGED <<uiEngine, uiActive, victim, armed, service, headlessStarted>>
-----------------------------------------------------------------------------
(* The Java main thread: LocationService *)

\* Boot, or a sticky restart; startForeground may fail.
OnStartCommand ==
    /\ MainIdle /\ service # "ending"
    /\ \/ /\ service' = "up" /\ headlessStarted' = TRUE
          /\ IF headlessStarted THEN Refused ELSE Start
       \/ /\ service' = "ending"
          /\ UNCHANGED <<slot, engine, built, sink, headlessStarted>>
    /\ UNCHANGED <<ui, uiEngine, uiActive, victim, armed>>

\* The UI's engine asks for location: the service is its keep-alive shell.
OnUiStartCommand ==
    /\ MainIdle /\ service # "ending"
    /\ uiEngine # 0 /\ Alive(uiEngine) /\ armed
    /\ service' \in {"up", "ending"}
    /\ UNCHANGED <<ui, uiEngine, uiActive, slot, victim, engine, built, sink, armed,
                   headlessStarted>>

\* Mutant: only an engine this service started is stopped with it.
TakesOwnHost ==
    IF headlessStarted
    THEN victim' = [victim EXCEPT !["main"] = slot] /\ slot' = 0
    ELSE UNCHANGED <<victim, slot>>

\* stop(): whatever host there is, taken under the lock.
TakesHost == victim' = [victim EXCEPT !["main"] = slot] /\ slot' = 0

OnDestroy ==
    /\ MainIdle /\ service = "ending"
    /\ TakesHost
    /\ service' = "down" /\ headlessStarted' = FALSE
    /\ UNCHANGED <<ui, uiEngine, uiActive, engine, built, sink, armed>>
-----------------------------------------------------------------------------
(* The engines *)

\* A share begins or goes on: the sentinel is written.
Arm(e) ==
    /\ Alive(e) /\ ~armed
    /\ armed' = TRUE
    /\ UNCHANGED <<ui, uiEngine, uiActive, slot, victim, engine, built, sink,
                   service, headlessStarted>>

\* A share ends, or there was none to resume: the sentinel goes, if it is
\* there, then NeedLocation(false) stops the service.
Disarm(e) ==
    /\ Alive(e) /\ (armed \/ service = "up")
    /\ armed' = FALSE
    /\ service' = IF service = "up" THEN "ending" ELSE service
    /\ UNCHANGED <<ui, uiEngine, uiActive, slot, victim, engine, built, sink,
                   headlessStarted>>

\* run() returns after Shutdown, or its runtime aborts it.
Ends(e) ==
    /\ engine[e] = "stopping"
    /\ engine' = [engine EXCEPT ![e] = "dead"]
    /\ UNCHANGED <<ui, uiEngine, uiActive, slot, victim, built, sink, armed,
                   service, headlessStarted>>
-----------------------------------------------------------------------------

Init ==
    /\ ui = "gone" /\ uiEngine = 0 /\ uiActive = FALSE
    /\ slot = 0 /\ victim = [t \in Threads |-> 0]
    /\ engine = [e \in Engines |-> "none"] /\ built = 0 /\ sink = 0
    /\ armed \in BOOLEAN
    /\ service = "down" /\ headlessStarted = FALSE

\* What android_main does by itself once it is started, or told to close.
UiStep ==
    \/ Signal("ui") \/ Drained("ui") \/ BindUi \/ PlatformFails \/ RunUi
    \/ Closed \/ Release \/ CheckFlag \/ HandOff

MainStep == Signal("main") \/ Drained("main") \/ OnDestroy

Next ==
    \/ Claim \/ CloseUi \/ UiStep
    \/ OnStartCommand \/ OnUiStartCommand \/ MainStep
    \/ \E e \in Engines : Arm(e) \/ Disarm(e) \/ Ends(e)

Spec == Init /\ [][Next]_vars

(***************************************************************************)
(* Threads are scheduled, the lock is never held while waiting, and both   *)
(* waits are bounded by the clock.                                         *)
(***************************************************************************)
Fairness ==
    /\ WF_vars(UiStep) /\ WF_vars(MainStep)
    /\ \A e \in Engines : WF_vars(Ends(e))

FairSpec == Spec /\ Fairness
-----------------------------------------------------------------------------
(* Properties *)

\* Every variable has its type; threads and slot never name an unbuilt engine.
TypeOK ==
    /\ ui \in UiPhases /\ uiActive \in BOOLEAN
    /\ built \in 0..MaxEngines
    /\ uiEngine \in 0..built /\ slot \in 0..built /\ sink \in 0..built
    /\ victim \in [Threads -> 0..built]
    /\ engine \in [Engines -> {"none", "running", "stopping", "dead"}]
    /\ armed \in BOOLEAN /\ headlessStarted \in BOOLEAN
    /\ service \in ServiceStates

(***************************************************************************)
(* The UI and a headless host never own the engine together, and an engine *)
(* that was not told to stop belongs to its owner or to the thread that is *)
(* about to stop it: none is left running out of everyone's reach.         *)
(* (headless.rs: start, stop and claim_for_ui racing under the HOST lock.) *)
(***************************************************************************)
SoleOwner ==
    /\ slot # 0 => ~uiActive /\ uiEngine = 0
    /\ \A e \in Engines :
           engine[e] = "running" =>
               e \in {slot, uiEngine} \cup {victim[t] : t \in Threads}

(***************************************************************************)
(* Location fixes reach the owner: a service start that loses to the UI,   *)
(* or to a host already running, does not take its events away.            *)
(* (headless.rs: bind_events inside the critical section.)                 *)
(***************************************************************************)
StreamFollowsOwner ==
    /\ slot # 0 => sink = slot
    /\ ui = "running" => sink = uiEngine

(***************************************************************************)
(* A service that ends takes the headless engine with it, also one that a  *)
(* closing UI handed over and the service never started itself.            *)
(* (LocationService.onDestroy; headless.rs: stop.)                         *)
(***************************************************************************)
NoStranded ==
    \A e \in Engines :
        (service = "ending" /\ slot = e) ~> engine[e] \in {"stopping", "dead"}

(***************************************************************************)
(* A UI that closes with a share armed leaves it to a headless engine,     *)
(* unless the share ends, or the process has no engine left to build.      *)
(* (headless.rs: handoff_from_ui.)                                         *)
(***************************************************************************)
HandedOver ==
    (ui = "closed" /\ armed) ~> (slot # 0 \/ ~armed \/ built = MaxEngines)

(***************************************************************************)
(* "Exactly one engine may own the persisted config and publish at a       *)
(* time": no two engines are alive together.  (headless.rs:21)             *)
(***************************************************************************)
OneEngineAlive == \A d, e \in Engines : Alive(d) /\ Alive(e) => d = e
=============================================================================
