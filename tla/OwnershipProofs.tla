-------------------------- MODULE OwnershipProofs --------------------------
(***************************************************************************)
(* Proofs about Ownership, for any number of engines and whether or not    *)
(* they end within their grace.  SoleOwner is not inductive: it needs to   *)
(* know at which phases of android_main the flag is set, that the flag     *)
(* empties the slot, and that an engine a thread no longer waits for was   *)
(* told to stop.                                                           *)
(***************************************************************************)
EXTENDS Ownership, TLAPS

\* Where the UI thread stands, and what it holds there.
UiHolds ==
    /\ uiEngine # 0 <=> ui \in {"running", "closing"}
    /\ ui \in {"claimed", "bound", "running", "closing", "closed"} => uiActive
    /\ ui = "bound" => sink = built /\ sink # 0 /\ engine[sink] = "none"
    /\ ui = "closing" => engine[uiEngine] # "running"
    /\ victim["ui"] # 0 => ui = "claimed"

\* The UI's claim empties the slot and keeps it empty.
ClaimEmpties == uiActive => slot = 0

\* Nothing is known of an engine before it is built.
Unbuilt == \A e \in Engines : e > built => engine[e] = "none"

\* An engine that was not told to stop has an owner, or a thread about to stop it.
Reached ==
    \A e \in Engines :
        engine[e] = "running" =>
            e = slot \/ e = uiEngine \/ e = victim["ui"] \/ e = victim["main"]

IInv ==
    /\ TypeOK
    /\ UiHolds /\ ClaimEmpties /\ Unbuilt /\ Reached
    /\ StreamFollowsOwner

-----------------------------------------------------------------------------
(* Starting a headless engine *)

\* A start that is refused changes nothing; one that goes on builds an engine
\* that owns the slot and the event stream.
LEMMA StartKeeps ==
    ASSUME IInv, Start, ui' = ui \/ (ui = "handing" /\ ui' = "gone"),
           UNCHANGED <<uiEngine, uiActive, victim, armed>>,
           headlessStarted' \in BOOLEAN, service' \in ServiceStates
    PROVE  IInv'
<1>. USE OwnershipAssumption DEF IInv, Engines, Threads
<1>1. CASE Free /\ Start
  <2>1. /\ built < MaxEngines /\ built' = built + 1
        /\ engine' = [engine EXCEPT ![built + 1] = "running"]
        /\ slot' = built + 1 /\ sink' = built + 1
        /\ ~uiActive /\ slot = 0
    BY <1>1 DEF Start, Free
  <2>2. TypeOK'
    BY <2>1 DEF TypeOK, UiPhases
  <2>3. UiHolds'
    BY <2>1 DEF UiHolds, TypeOK
  <2>4. ClaimEmpties' /\ Unbuilt'
    BY <2>1 DEF ClaimEmpties, Unbuilt, TypeOK
  <2>5. Reached' /\ StreamFollowsOwner'
    BY <2>1 DEF Reached, StreamFollowsOwner, UiHolds, TypeOK
  <2>. QED
    BY <2>2, <2>3, <2>4, <2>5
<1>2. CASE ~Free /\ Start
  <2>1. UNCHANGED <<slot, engine, built, sink>>
    BY <1>2 DEF Start, Refused
  <2>2. TypeOK'
    BY <2>1 DEF TypeOK, UiPhases
  <2>3. UiHolds' /\ ClaimEmpties' /\ Unbuilt' /\ Reached' /\ StreamFollowsOwner'
    BY <2>1 DEF UiHolds, ClaimEmpties, Unbuilt, Reached, StreamFollowsOwner, TypeOK
  <2>. QED
    BY <2>2, <2>3
<1>. QED
  BY <1>1, <1>2

-----------------------------------------------------------------------------
(* Every step preserves the invariant *)

\* One step per action: none takes the invariant away.
LEMMA InvStep == ASSUME IInv, [Next]_vars PROVE IInv'
<1>. USE OwnershipAssumption DEF IInv, Engines, Threads
<1>. USE DEF TypeOK, UiHolds, ClaimEmpties, Unbuilt, Reached, StreamFollowsOwner
<1>1. CASE Signal("ui")
  BY <1>1 DEF Signal, UiPhases, ServiceStates
<1>2. CASE Signal("main")
  BY <1>2 DEF Signal, UiPhases, ServiceStates
<1>3. CASE Drained("ui")
  BY <1>3 DEF Drained, UiPhases, ServiceStates
<1>4. CASE Drained("main")
  BY <1>4 DEF Drained, UiPhases, ServiceStates
<1>5. CASE Claim
  BY <1>5 DEF Claim, UiPhases, ServiceStates
<1>6. CASE BindUi
  BY <1>6 DEF BindUi, UiPhases, ServiceStates
<1>7. CASE PlatformFails
  BY <1>7 DEF PlatformFails, UiPhases, ServiceStates
<1>8. CASE RunUi
  BY <1>8 DEF RunUi, UiPhases, ServiceStates
<1>9. CASE CloseUi
  BY <1>9 DEF CloseUi, UiPhases, ServiceStates
<1>10. CASE Closed
  BY <1>10 DEF Closed, UiPhases, ServiceStates
<1>11. CASE Release
  BY <1>11 DEF Release, UiPhases, ServiceStates
<1>12. CASE CheckFlag
  BY <1>12 DEF CheckFlag, UiPhases, ServiceStates
<1>13. CASE HandOff
  BY <1>13, StartKeeps DEF HandOff, ServiceStates
<1>14. CASE OnStartCommand
  <2>1. CASE /\ Start /\ service' = "up" /\ headlessStarted' = TRUE
             /\ UNCHANGED <<ui, uiEngine, uiActive, victim, armed>>
    BY <2>1, StartKeeps DEF ServiceStates
  <2>2. CASE /\ UNCHANGED <<ui, uiEngine, uiActive, slot, victim, engine, built,
                            sink, armed>>
             /\ service' \in ServiceStates /\ headlessStarted' \in BOOLEAN
    BY <2>2
  <2>. QED
    BY <1>14, <2>1, <2>2 DEF OnStartCommand, Refused, ServiceStates
<1>15. CASE OnUiStartCommand
  BY <1>15 DEF OnUiStartCommand, ServiceStates
<1>16. CASE OnDestroy
  BY <1>16 DEF OnDestroy, TakesHost, MainIdle, ServiceStates
<1>17. ASSUME NEW e \in Engines, Arm(e) PROVE IInv'
  BY <1>17 DEF Arm, ServiceStates
<1>18. ASSUME NEW e \in Engines, Disarm(e) PROVE IInv'
  BY <1>18 DEF Disarm, ServiceStates
<1>19. ASSUME NEW e \in Engines, Ends(e) PROVE IInv'
  BY <1>19 DEF Ends, ServiceStates
<1>20. CASE UNCHANGED vars
  BY <1>20 DEF vars
<1>. QED
  BY <1>1, <1>2, <1>3, <1>4, <1>5, <1>6, <1>7, <1>8, <1>9, <1>10,
     <1>11, <1>12, <1>13, <1>14, <1>15, <1>16, <1>17, <1>18, <1>19,
     <1>20
  DEF Next, UiStep, MainStep

\* The initial states satisfy the invariant.
LEMMA InitInv == ASSUME Init PROVE IInv
<1>. USE OwnershipAssumption DEF Init, Engines, Threads
<1>1. engine \in [Engines -> {"none", "running", "stopping", "dead"}]
  OBVIOUS
<1>2. victim \in [Threads -> 0..built]
  <2>1. built = 0 /\ 0 \in 0..built
    OBVIOUS
  <2>2. victim = [t \in Threads |-> 0]
    OBVIOUS
  <2>. QED
    BY <2>1, <2>2
<1>3. /\ built \in 0..MaxEngines
      /\ uiEngine \in 0..built /\ slot \in 0..built /\ sink \in 0..built
  OBVIOUS
<1>4. ui \in UiPhases /\ service \in ServiceStates
  BY DEF UiPhases, ServiceStates
<1>5. uiActive \in BOOLEAN /\ armed \in BOOLEAN /\ headlessStarted \in BOOLEAN
  OBVIOUS
<1>6. TypeOK
  BY <1>1, <1>2, <1>3, <1>4, <1>5 DEF TypeOK
<1>7. UiHolds /\ ClaimEmpties
  BY DEF UiHolds, ClaimEmpties
<1>8. Unbuilt /\ Reached /\ StreamFollowsOwner
  BY DEF Unbuilt, Reached, StreamFollowsOwner
<1>. QED
  BY <1>6, <1>7, <1>8 DEF IInv

\* The invariant holds in every reachable state.
LEMMA Invariance == Spec => []IInv
<1>1. Init => IInv
  BY InitInv
<1>2. IInv /\ [Next]_vars => IInv'
  BY InvStep
<1>. QED
  BY <1>1, <1>2, PTL DEF Spec

-----------------------------------------------------------------------------
(* The theorems *)

\* Every reachable state has the types the code declares; no thread and no
\* slot names an engine that was never built.
THEOREM TypeCorrect == Spec => []TypeOK
<1>1. IInv => TypeOK
  BY DEF IInv
<1>. QED
  BY <1>1, Invariance, PTL

\* The UI and a headless host never own the engine together, and none is left
\* running out of reach (headless.rs: start, stop, claim_for_ui).
THEOREM OneOwner == Spec => []SoleOwner
<1>1. ASSUME IInv PROVE SoleOwner
  <2>1. ASSUME slot # 0 PROVE ~uiActive /\ uiEngine = 0
    BY <1>1, <2>1 DEF IInv, ClaimEmpties, UiHolds
  <2>2. ASSUME NEW e \in Engines, engine[e] = "running"
        PROVE  e \in {slot, uiEngine} \cup {victim[t] : t \in Threads}
    BY <1>1, <2>2 DEF IInv, Reached, Threads
  <2>. QED
    BY <2>1, <2>2 DEF SoleOwner
<1>2. IInv => SoleOwner
  BY <1>1
<1>. QED
  BY <1>2, Invariance, PTL

\* Location fixes reach the owner (headless.rs: bind_events inside the
\* critical section; lib.rs: AndroidPlatform::new after the claim).
THEOREM FixesReachOwner == Spec => []StreamFollowsOwner
<1>1. IInv => StreamFollowsOwner
  BY DEF IInv
<1>. QED
  BY <1>1, Invariance, PTL
=============================================================================
