---------------------------- MODULE ShareEngine ----------------------------
(***************************************************************************)
(* The sending half of the engine (src/core/src/engine.rs): the live share *)
(* and its duress alert, the check-in (dead-man's switch), what of both is *)
(* written to disk, and the engine's successive hosts (the UI, or the      *)
(* foreground service).                                                    *)
(*                                                                         *)
(* One engine task runs one command handler at a time; a handler's memory  *)
(* changes are one step, but every file it writes is a step of its own,    *)
(* because the process can die between any two of them: persist() saves    *)
(* config.json and only then mirrors resume.flag, and the check-in paths   *)
(* write checkin.flag after that.  "pc" and "job" say which write of which *)
(* handler is next.                                                        *)
(*                                                                         *)
(* Times are kept as the whole time units left: a deadline d is stored as  *)
(* d - now, and 0 stands for every deadline that has passed.               *)
(***************************************************************************)
EXTENDS Naturals

CONSTANTS
    Groups,       \* group keys a user may hold
    Periods,      \* what the user may pass to ArmCheckin
    Grace,        \* STARTUP_GRACE_SECS
    LeadDivisor,  \* CHECKIN_REMINDER_LEAD_DIVISOR
    NoDeadline    \* Config::checkin_deadline = None

ASSUME ConstantsAssumption ==
    /\ Periods \subseteq Nat
    /\ Grace \in Nat \ {0}
    /\ LeadDivisor \in Nat \ {0}
    /\ NoDeadline \notin Nat

VARIABLES
    host,         \* who runs the engine task
    service,      \* the Android foreground service (location session) is up
    loaded,       \* cfg came from config.json, or has been saved to it
    resuming,     \* ResumeShareIfArmed is still in the command queue
    cfg,          \* Engine::config
    share,        \* Engine::share
    checkin,      \* Engine::checkin
    pc, job,      \* the file write a handler has reached, and which handler
    disk,         \* config.json
    resumeFlag,   \* resume.flag exists
    checkinFlag,  \* checkin.flag exists
    (*********************************************************************)
    (* Observation only: what the user and the groups have been told.    *)
    (*********************************************************************)
    raised,       \* the groups were told of an alert nobody has taken back
    stopped,      \* an explicit stop was broadcast, no share asked for since
    owed,         \* a missed check-in was cleared on disk, its alert is not there
    graceLeft     \* grace still due for a check-in that lapsed while down

memory   == <<cfg, share, checkin, resuming, loaded>>
files    == <<disk, resumeFlag, checkinFlag>>
observed == <<raised, stopped, owed, graceLeft>>
vars     == <<host, service, memory, pc, job, files, observed>>

-----------------------------------------------------------------------------
(* Types *)

Config == [groups: SUBSET Groups, selected: SUBSET Groups, keyOk: BOOLEAN,
           resume: BOOLEAN, alert: BOOLEAN,
           deadline: Nat \cup {NoDeadline}, period: Nat]

Share == [live: BOOLEAN, to: SUBSET Groups, alert: BOOLEAN, fix: BOOLEAN]

Checkin == [kind: {"none", "armed", "grace"}, left: Nat, period: Nat,
            reminded: BOOLEAN]

\* Config::default(): no group, nothing armed; a sender key is made on demand.
DefaultConfig == [groups |-> {}, selected |-> {}, keyOk |-> TRUE,
                  resume |-> FALSE, alert |-> FALSE,
                  deadline |-> NoDeadline, period |-> 0]

NoShare == [live |-> FALSE, to |-> {}, alert |-> FALSE, fix |-> FALSE]

NoCheckin == [kind |-> "none", left |-> 0, period |-> 0, reminded |-> FALSE]

Armed(left, period) ==
    [kind |-> "armed", left |-> left, period |-> period, reminded |-> FALSE]

StartupGrace ==
    [kind |-> "grace", left |-> Grace, period |-> 0, reminded |-> FALSE]

(* What the handlers make of a configuration, a share and a check-in *)

ArmedForResume(c, alert) == [c EXCEPT !.resume = TRUE, !.alert = alert]

\* Mutant: disarming forgets the alert bit.
DisarmedResumeOnly(c) == [c EXCEPT !.resume = FALSE]

Disarmed(c) == [c EXCEPT !.resume = FALSE, !.alert = FALSE]

WithAlert(c, on) == [c EXCEPT !.alert = on]

WithCheckin(c, deadline, period) ==
    [c EXCEPT !.deadline = deadline, !.period = period]

WithGroups(c, groups, selected) ==
    [c EXCEPT !.groups = groups, !.selected = selected]

WithNewKey(c) == [c EXCEPT !.keyOk = TRUE]

StartedShare(recipients, alert) ==
    [live |-> TRUE, to |-> recipients, alert |-> alert, fix |-> FALSE]

ShareWithAlert(s, on) == [s EXCEPT !.alert = on]

ShareWithFix(s) == [s EXCEPT !.fix = TRUE]

Reminded(k) == [k EXCEPT !.reminded = TRUE]

\* Mutant: a countdown runs on below its deadline.
LessForever(n) == IF n \in Nat THEN n - 1 ELSE n

\* One time unit less to a deadline, if there is one and it has not passed.
Less(n) == IF n \in Nat /\ n > 0 THEN n - 1 ELSE n

AgedConfig(c) == [c EXCEPT !.deadline = Less(@)]

AgedCheckin(k) == [k EXCEPT !.left = Less(@)]

-----------------------------------------------------------------------------
(* Helpers of the handlers *)

Up     == host \in {"ui", "headless"}
Idle   == Up /\ pc = "idle"
\* Commands of the user come from the UI, which queues ResumeShareIfArmed first.
UserCmd == Idle /\ host = "ui" /\ ~resuming

AtLeastOne(n) == IF n = 0 THEN 1 ELSE n

\* A handler that has changed the configuration enters persist().
Persist(handler) == pc' = "save" /\ job' = handler

SelectedRecipients == cfg.selected

EmergencyRecipients == IF cfg.selected # {} THEN cfg.selected ELSE cfg.groups

BeginShare(recipients, alert) ==
    /\ cfg' = ArmedForResume(cfg, alert)
    /\ share' = StartedShare(recipients, alert)
    /\ Persist("begin")

\* Mutant: the alert goes out without persist().
ChangeAlertUnsaved(on) ==
    /\ share' = ShareWithAlert(share, on)
    /\ cfg' = WithAlert(cfg, on)
    /\ pc' = "tail" /\ job' = "alert"

ChangeAlert(on) ==
    /\ share' = ShareWithAlert(share, on)
    /\ cfg' = WithAlert(cfg, on)
    /\ Persist("alert")

\* The two ways trigger_panic changes anything.
TriggerPanic ==
    \/ share.live /\ ~share.alert /\ ChangeAlert(TRUE)
    \/ /\ ~share.live /\ EmergencyRecipients # {} /\ cfg.keyOk
       /\ BeginShare(EmergencyRecipients, TRUE)

PanicIsNoOp ==
    \/ share.live /\ share.alert
    \/ ~share.live /\ (EmergencyRecipients = {} \/ ~cfg.keyOk)

\* publish_stop, then NeedLocation(false).
ReleaseShare ==
    /\ share' = NoShare
    /\ service' = FALSE
    /\ stopped' = (stopped \/ share.live)

\* Mutant: a re-arm moves the deadline in memory only.
InstallCheckinInMemory(secs) ==
    /\ checkin' = Armed(AtLeastOne(secs), AtLeastOne(secs))
    /\ cfg' = WithCheckin(cfg, cfg.deadline, AtLeastOne(secs))
    /\ Persist("arm")

InstallCheckin(secs) ==
    /\ checkin' = Armed(AtLeastOne(secs), AtLeastOne(secs))
    /\ cfg' = WithCheckin(cfg, AtLeastOne(secs), AtLeastOne(secs))
    /\ Persist("arm")

ClearCheckin(handler) ==
    /\ checkin' = NoCheckin
    /\ cfg' = WithCheckin(cfg, NoDeadline, 0)
    /\ Persist(handler)

-----------------------------------------------------------------------------
(* persist(): config.json, then resume.flag; then the handler's own tail *)

\* Saving a configuration that was never read overwrites what the file said of
\* an alert: "raised" forgets it.
SaveConfig ==
    /\ Up /\ pc = "save"
    /\ disk' = cfg
    /\ loaded' = TRUE
    /\ pc' = "flag"
    /\ owed' = ((owed \/ job = "escalate") /\ ~cfg.alert)
    /\ raised' = (raised /\ loaded)
    /\ UNCHANGED <<host, service, cfg, share, checkin, resuming, job, resumeFlag,
                   checkinFlag, stopped, graceLeft>>

WriteResumeFlag ==
    /\ Up /\ pc = "flag"
    /\ resumeFlag' = cfg.resume
    /\ pc' = IF job \in {"mutate", "flush"} THEN "idle" ELSE "tail"
    /\ UNCHANGED <<host, service, memory, job, disk, checkinFlag, observed>>

Tail(handler) == Up /\ pc = "tail" /\ job = handler

\* begin_share ends with NeedLocation(true).
FinishBegin ==
    /\ Tail("begin")
    /\ service' = TRUE
    /\ pc' = "idle"
    /\ UNCHANGED <<host, memory, job, files, observed>>

\* set_alert re-broadcasts the last fix at once.
FinishAlert ==
    /\ Tail("alert")
    /\ raised' = (raised \/ (share.fix /\ share.alert))
    /\ pc' = "idle"
    /\ UNCHANGED <<host, service, memory, job, files, stopped, owed, graceLeft>>

FinishStop ==
    /\ Tail("stop")
    /\ ReleaseShare
    /\ pc' = "idle"
    /\ UNCHANGED <<host, cfg, checkin, resuming, loaded, job, files, raised, owed,
                   graceLeft>>

\* Mutant: location is released without a look at the check-in.
ReleaseDespiteCheckin ==
    /\ service' = (service /\ share.live)
    /\ resumeFlag' = FALSE

\* NeedLocation(false) unless a check-in needs the service; then the sentinel.
ReleaseUnused ==
    /\ service' = (service /\ (share.live \/ checkin.kind # "none"))
    /\ resumeFlag' = FALSE

FinishDecline ==
    /\ Tail("decline")
    /\ ReleaseUnused
    /\ pc' = "idle"
    /\ UNCHANGED <<host, memory, job, disk, checkinFlag, observed>>

FinishArm ==
    /\ Tail("arm")
    /\ checkinFlag' = TRUE
    /\ pc' = "idle"
    /\ UNCHANGED <<host, service, memory, job, disk, resumeFlag, observed>>

FinishDisarm ==
    /\ Tail("disarm")
    /\ checkinFlag' = FALSE
    /\ pc' = "idle"
    /\ UNCHANGED <<host, service, memory, job, disk, resumeFlag, observed>>

\* disarm_checkin has run; the notification goes out and the panic follows.
FinishEscalationDisarm ==
    /\ Tail("escalate")
    /\ checkinFlag' = FALSE
    /\ pc' = "panic"
    /\ UNCHANGED <<host, service, memory, job, disk, resumeFlag, observed>>

EscalatePanic ==
    /\ Up /\ pc = "panic"
    /\ \/ TriggerPanic /\ stopped' = FALSE
       \/ /\ PanicIsNoOp
          /\ pc' = "idle"
          /\ UNCHANGED <<cfg, share, job, stopped>>
    /\ UNCHANGED <<host, service, checkin, resuming, loaded, files, raised, owed,
                   graceLeft>>

-----------------------------------------------------------------------------
(* Commands *)

StartShare ==
    /\ UserCmd /\ ~share.live /\ SelectedRecipients # {} /\ cfg.keyOk
    /\ BeginShare(SelectedRecipients, FALSE)
    /\ stopped' = FALSE
    /\ UNCHANGED <<host, service, checkin, resuming, loaded, files, raised, owed,
                   graceLeft>>

Panic ==
    /\ UserCmd
    /\ TriggerPanic
    /\ stopped' = FALSE
    /\ UNCHANGED <<host, service, checkin, resuming, loaded, files, raised, owed,
                   graceLeft>>

SetAlert(on) ==
    /\ UserCmd /\ share.live /\ share.alert # on
    /\ ChangeAlert(on)
    /\ raised' = (raised /\ on)
    /\ UNCHANGED <<host, service, checkin, resuming, loaded, files, stopped, owed,
                   graceLeft>>

\* Mutant: STOP goes out before resume is disarmed on disk.
StopThenDisarm ==
    /\ raised' = FALSE
    /\ owed' = FALSE
    /\ ReleaseShare
    /\ cfg' = Disarmed(cfg)
    /\ Persist("mutate")

\* disarm_resume, which persists only what is armed, then stop_share.
DisarmAndStop ==
    /\ raised' = FALSE
    /\ owed' = FALSE
    /\ \/ /\ cfg.resume \/ cfg.alert
          /\ cfg' = Disarmed(cfg)
          /\ Persist("stop")
          /\ UNCHANGED <<service, share, stopped>>
       \/ /\ ~cfg.resume /\ ~cfg.alert
          /\ ReleaseShare
          /\ UNCHANGED <<cfg, pc, job>>

StopShare ==
    /\ UserCmd
    /\ DisarmAndStop
    /\ UNCHANGED <<host, checkin, resuming, loaded, files, graceLeft>>

LocationUnavailable ==
    /\ UserCmd
    /\ \/ share.live /\ DisarmAndStop
       \/ /\ ~share.live
          /\ service' = FALSE
          /\ UNCHANGED <<cfg, share, pc, job, raised, stopped, owed>>
    /\ UNCHANGED <<host, checkin, resuming, loaded, files, graceLeft>>

\* Mutant: an alert resumes to the selected groups only.
ResumeRecipientsSelected == SelectedRecipients

ResumeRecipients ==
    IF cfg.alert THEN EmergencyRecipients ELSE SelectedRecipients

\* Mutant: the sentinel is re-synced by persisting the configuration.
ResyncByPersist ==
    /\ Persist("decline")
    /\ UNCHANGED <<service, cfg, resumeFlag>>

\* Nothing to resume: only the sentinel is re-synced, never the config file.
Resync ==
    /\ ReleaseUnused
    /\ UNCHANGED <<cfg, pc, job>>

ResumeShareIfArmed ==
    /\ Idle /\ resuming
    /\ resuming' = FALSE
    /\ \/ /\ cfg.resume /\ ~share.live /\ ResumeRecipients # {} /\ cfg.keyOk
          /\ BeginShare(ResumeRecipients, cfg.alert)
          /\ UNCHANGED <<service, resumeFlag, raised, owed>>
       \/ /\ cfg.resume /\ ~share.live /\ (ResumeRecipients = {} \/ ~cfg.keyOk)
          /\ cfg' = Disarmed(cfg)
          /\ Persist("decline")
          /\ raised' = (raised /\ EmergencyRecipients # {} /\ cfg.keyOk)
          /\ owed' = FALSE
          /\ UNCHANGED <<service, share, resumeFlag>>
       \/ /\ cfg.resume /\ share.live
          /\ UNCHANGED <<service, cfg, share, pc, job, resumeFlag, raised, owed>>
       \/ /\ ~cfg.resume
          /\ Resync
          /\ UNCHANGED <<share, raised, owed>>
    /\ UNCHANGED <<host, checkin, loaded, disk, checkinFlag, stopped, graceLeft>>

\* Whether the fix goes out at once is the cadence's business: either may be.
Location(publishes) ==
    /\ Idle /\ share.live
    /\ share' = ShareWithFix(share)
    /\ raised' = (raised \/ (publishes /\ share.alert))
    /\ UNCHANGED <<host, service, cfg, checkin, resuming, loaded, pc, job, files,
                   stopped, owed, graceLeft>>

ArmCheckin(secs) ==
    /\ UserCmd
    /\ InstallCheckin(secs)
    /\ graceLeft' = 0
    /\ UNCHANGED <<host, service, share, resuming, loaded, files, raised, stopped,
                   owed>>

\* The period a confirmation re-arms: the running one, or out of the grace
\* window the persisted one.
ConfirmPeriod == IF checkin.kind = "armed" THEN checkin.period ELSE cfg.period

ConfirmCheckin ==
    /\ UserCmd /\ checkin.kind # "none"
    /\ \/ ConfirmPeriod > 0 /\ InstallCheckin(ConfirmPeriod)
       \/ ConfirmPeriod = 0 /\ ClearCheckin("disarm")
    /\ graceLeft' = 0
    /\ UNCHANGED <<host, service, share, resuming, loaded, files, raised, stopped,
                   owed>>

DisarmCheckin ==
    /\ UserCmd
    /\ checkin.kind # "none" \/ cfg.deadline # NoDeadline \/ cfg.period > 0
    /\ ClearCheckin("disarm")
    /\ graceLeft' = 0
    /\ UNCHANGED <<host, service, share, resuming, loaded, files, raised, stopped,
                   owed>>

-----------------------------------------------------------------------------
(* The one-second tick: catch up a due fix, then drive the check-in *)

ReminderDue ==
    /\ checkin.kind = "armed" /\ ~checkin.reminded /\ checkin.left > 0
    /\ checkin.period \div LeadDivisor > 0
    /\ checkin.left <= checkin.period \div LeadDivisor

\* Mutant: only the armed countdown escalates, not the grace window.
LapsedCountdown == checkin.kind = "armed" /\ checkin.left = 0

Lapsed == checkin.kind # "none" /\ checkin.left = 0

TickCheckin ==
    \/ /\ Lapsed
       /\ ClearCheckin("escalate")
    \/ /\ ReminderDue
       /\ checkin' = Reminded(checkin)
       /\ UNCHANGED <<cfg, pc, job>>
    \/ /\ ~Lapsed /\ ~ReminderDue
       /\ UNCHANGED <<cfg, checkin, pc, job>>

Tick(publishes) ==
    /\ Idle
    /\ publishes => share.live /\ share.fix
    /\ raised' = (raised \/ (publishes /\ share.alert))
    /\ TickCheckin
    /\ UNCHANGED <<host, service, share, resuming, loaded, files, stopped, owed,
                   graceLeft>>

-----------------------------------------------------------------------------
(* Commands that change the groups: they persist, a running share keeps its *)
(* recipients                                                               *)

ChangeGroups(groups, selected) ==
    /\ UserCmd
    /\ cfg' = WithGroups(cfg, groups, selected)
    /\ Persist("mutate")
    /\ UNCHANGED <<host, service, share, checkin, resuming, loaded, files, observed>>

AddGroup(g) ==
    /\ g \notin cfg.groups
    /\ ChangeGroups(cfg.groups \cup {g}, cfg.selected \cup {g})

RemoveGroup(g) ==
    /\ g \in cfg.groups
    /\ ChangeGroups(cfg.groups \ {g}, cfg.selected \ {g})

ToggleGroup(g) ==
    /\ g \in cfg.groups
    /\ ChangeGroups(cfg.groups, IF g \in cfg.selected THEN cfg.selected \ {g}
                                                      ELSE cfg.selected \cup {g})

RotateGroup(g, new) ==
    /\ g \in cfg.groups /\ new \notin cfg.groups
    /\ ChangeGroups((cfg.groups \ {g}) \cup {new},
                    IF g \in cfg.selected THEN (cfg.selected \ {g}) \cup {new}
                                          ELSE cfg.selected)

\* A Mutate that sets a fresh sender key.
RotateSender ==
    /\ UserCmd
    /\ cfg' = WithNewKey(cfg)
    /\ Persist("mutate")
    /\ UNCHANGED <<host, service, share, checkin, resuming, loaded, files, observed>>

\* The 60-second flush of the processed event ids persists the whole
\* configuration.  Ids come only from events some group's key decrypts.
FlushSeen ==
    /\ Idle /\ cfg.groups # {}
    /\ Persist("flush")
    /\ UNCHANGED <<host, service, memory, files, observed>>

-----------------------------------------------------------------------------
(* Hosts: starting, handing over, and losing the engine *)

\* Mutant: a lapsed deadline is resumed like any other.
EvaluatedWithoutGrace(c) ==
    IF c.deadline = NoDeadline THEN NoCheckin ELSE Armed(c.deadline, c.period)

\* evaluate_checkin_on_start
EvaluatedCheckin(c) ==
    IF c.deadline = NoDeadline THEN NoCheckin
    ELSE IF c.deadline > 0 THEN Armed(c.deadline, c.period)
    ELSE StartupGrace

\* Engine::new and the head of run(); readable = FALSE: store.load() failed.
StartEngine(newHost, readable) ==
    LET c == IF readable THEN disk ELSE DefaultConfig IN
    /\ host' = newHost
    /\ cfg' = c
    /\ loaded' = readable
    /\ share' = NoShare
    /\ checkin' = EvaluatedCheckin(c)
    /\ resuming' = TRUE
    /\ pc' = "idle" /\ job' = "none"
    /\ graceLeft' = IF readable /\ disk.deadline = 0 THEN Grace ELSE 0
    /\ UNCHANGED <<files, raised, stopped, owed>>

\* The engine's memory is gone.
NoEngine(newHost) ==
    /\ host' = newHost
    /\ cfg' = DefaultConfig /\ loaded' = FALSE
    /\ share' = NoShare /\ checkin' = NoCheckin
    /\ resuming' = FALSE
    /\ pc' = "idle" /\ job' = "none"
    /\ graceLeft' = 0
    /\ UNCHANGED <<files, raised, stopped, owed>>

\* Boot, or a sticky restart: both need one of the sentinels.
Boot(readable) ==
    /\ host = "none" /\ (resumeFlag \/ checkinFlag)
    /\ StartEngine("headless", readable)
    /\ service' = TRUE

OpenApp(readable) ==
    /\ host = "none"
    /\ StartEngine("ui", readable)
    /\ UNCHANGED service

\* Shutdown is a command like any other: the queued resume is handled first.
\* claim_for_ui: Shutdown to the headless engine, stop_location.
ClaimForUi ==
    /\ Idle /\ host = "headless" /\ ~resuming
    /\ NoEngine("none")
    /\ service' = FALSE

\* The UI ends: Shutdown, which leaves resume armed and the service running.
CloseApp ==
    /\ Idle /\ host = "ui" /\ ~resuming
    /\ NoEngine("handoff")
    /\ UNCHANGED service

HandoffFromUi(readable) ==
    /\ host = "handoff"
    /\ \/ resumeFlag /\ StartEngine("headless", readable)
       \/ ~resumeFlag /\ NoEngine("none")
    /\ UNCHANGED service

\* LocationService.onDestroy -> headless::stop.
ServiceDestroyed ==
    /\ Idle /\ host = "headless" /\ ~service /\ ~resuming
    /\ NoEngine("none")
    /\ UNCHANGED service

\* The process dies, between any two file writes; its service dies with it.
Crash ==
    /\ host # "none"
    /\ NoEngine("none")
    /\ service' = FALSE

\* One time unit passes.  Handlers are instantaneous on this scale.
Elapse ==
    /\ pc = "idle"
    /\ checkin' = AgedCheckin(checkin)
    /\ cfg' = AgedConfig(cfg)
    /\ disk' = AgedConfig(disk)
    /\ graceLeft' = Less(graceLeft)
    /\ UNCHANGED <<host, service, share, resuming, loaded, pc, job, resumeFlag,
                   checkinFlag, raised, stopped, owed>>

-----------------------------------------------------------------------------

\* A first launch, or a config file with groups whose sender key may be corrupt.
Init ==
    /\ disk \in [groups: SUBSET Groups, selected: SUBSET Groups, keyOk: BOOLEAN,
                 resume: {FALSE}, alert: {FALSE}, deadline: {NoDeadline},
                 period: {0}]
    /\ disk.selected \subseteq disk.groups
    /\ host = "none" /\ service = FALSE
    /\ cfg = DefaultConfig /\ loaded = FALSE
    /\ share = NoShare /\ checkin = NoCheckin /\ resuming = FALSE
    /\ pc = "idle" /\ job = "none"
    /\ resumeFlag = FALSE /\ checkinFlag = FALSE
    /\ raised = FALSE /\ stopped = FALSE /\ owed = FALSE /\ graceLeft = 0

Files == SaveConfig \/ WriteResumeFlag

Tails ==
    \/ FinishBegin \/ FinishAlert \/ FinishStop \/ FinishDecline
    \/ FinishArm \/ FinishDisarm \/ FinishEscalationDisarm \/ EscalatePanic

UserCommands ==
    \/ StartShare \/ Panic \/ StopShare \/ LocationUnavailable
    \/ \E on \in BOOLEAN : SetAlert(on)
    \/ \E secs \in Periods : ArmCheckin(secs)
    \/ ConfirmCheckin \/ DisarmCheckin
    \/ \E g \in Groups : AddGroup(g) \/ RemoveGroup(g) \/ ToggleGroup(g)
    \/ \E g, new \in Groups : RotateGroup(g, new)
    \/ RotateSender

Hosting ==
    \/ \E readable \in BOOLEAN :
           Boot(readable) \/ OpenApp(readable) \/ HandoffFromUi(readable)
    \/ ClaimForUi \/ CloseApp \/ ServiceDestroyed \/ Crash

Next ==
    \/ Files \/ Tails \/ UserCommands \/ Hosting
    \/ ResumeShareIfArmed \/ FlushSeen
    \/ \E publishes \in BOOLEAN : Location(publishes) \/ Tick(publishes)
    \/ Elapse

Spec == Init /\ [][Next]_vars

(***************************************************************************)
(* A handler runs to its end (it never awaits); ready branches of          *)
(* tokio::select! are picked at random, so neither the tick nor the queued *)
(* resume starves behind other commands; time does not stop.               *)
(***************************************************************************)
Fairness ==
    /\ WF_vars(Files \/ Tails)
    /\ SF_vars(ResumeShareIfArmed)
    /\ SF_vars(\E publishes \in BOOLEAN : Tick(publishes))
    /\ SF_vars(Elapse)

FairSpec == Spec /\ Fairness
-----------------------------------------------------------------------------
(* Properties *)

\* Every variable holds a value the code's types allow.
TypeOK ==
    /\ host \in {"none", "ui", "headless", "handoff"}
    /\ service \in BOOLEAN /\ loaded \in BOOLEAN /\ resuming \in BOOLEAN
    /\ cfg \in Config /\ disk \in Config
    /\ share \in Share /\ checkin \in Checkin
    /\ pc \in {"idle", "save", "flag", "tail", "panic"}
    /\ job \in {"none", "begin", "alert", "stop", "decline", "arm", "disarm",
                "escalate", "mutate", "flush"}
    /\ resumeFlag \in BOOLEAN /\ checkinFlag \in BOOLEAN
    /\ raised \in BOOLEAN /\ stopped \in BOOLEAN /\ owed \in BOOLEAN
    /\ graceLeft \in Nat

(***************************************************************************)
(* Between handlers, config.json holds what the engine would resume from:  *)
(* every handler that changes the configuration has persisted it.          *)
(* (engine.rs: persist, and every caller of it.)                           *)
(***************************************************************************)
DiskFollowsMemory == Idle /\ loaded => disk = cfg

(***************************************************************************)
(* Once the queued resume has been handled, resume is armed, in memory and *)
(* in the sentinel, exactly while a share runs, and the alert bit is the   *)
(* share's: a dead share never leaves an armed flag that would flap the    *)
(* boot service or revive a broadcast weeks later.  A running share has    *)
(* recipients, or it would publish nothing in silence.                     *)
(* (engine.rs: begin_share, disarm_resume, ResumeShareIfArmed.)            *)
(***************************************************************************)
ResumeMatchesShare ==
    Idle /\ ~resuming =>
        /\ cfg.resume = share.live
        /\ resumeFlag = share.live
        /\ cfg.alert = share.alert
        /\ share.live => share.to # {}

(***************************************************************************)
(* Between handlers the check-in in memory is the persisted one, so that a *)
(* restart at any time continues the same countdown; in the grace window   *)
(* the lapsed deadline is still there, so that a second kill re-grants it. *)
(* The period a confirmation re-arms always exists.                        *)
(* (engine.rs: install_checkin, disarm_checkin, evaluate_checkin_on_start, *)
(* confirm_checkin's "shouldn't happen" branch.)                           *)
(***************************************************************************)
CheckinMatchesConfig ==
    Idle =>
        /\ checkin.kind = "none"  <=> cfg.deadline = NoDeadline
        /\ checkin.kind = "armed"  => cfg.deadline = checkin.left
        /\ checkin.kind = "grace"  => cfg.deadline = 0
        /\ checkin.kind # "none"   => cfg.period > 0

(***************************************************************************)
(* Once an explicit stop has been broadcast, no crash, reboot or handover  *)
(* at any point brings the share back before somebody asks for one.        *)
(* (engine.rs: StopShare disarms on disk before it publishes STOP.)        *)
(***************************************************************************)
NoRevival == stopped => ~share.live

(***************************************************************************)
(* Once the groups have been told of an alert, and until the user takes it *)
(* back, no audience is left, or a command overwrites a configuration that *)
(* could not be read, the alert survives on disk whatever                  *)
(* happens to the process, and every engine that read the file and handled *)
(* the resume runs an alerting share.                                      *)
(* (engine.rs: set_alert and begin_share persist before they publish;      *)
(* ResumeShareIfArmed restores the alert.)                                 *)
(***************************************************************************)
AlertSurvives ==
    raised =>
        /\ disk.alert /\ disk.resume
        /\ Idle /\ loaded /\ ~resuming => share.live /\ share.alert

(***************************************************************************)
(* An engine whose config file could not be read never writes it on its    *)
(* own: only a command of the user can overwrite it with the defaults.     *)
(* (engine.rs: Engine::new, ResumeShareIfArmed touches only the sentinel,  *)
(* flush_seen has nothing to flush.)                                       *)
(***************************************************************************)
UnreadConfigKept ==
    pc = "save" /\ ~loaded =>
        host = "ui" /\ job \notin {"decline", "escalate", "flush"}

(***************************************************************************)
(* A headless engine that shares or runs a countdown keeps the foreground  *)
(* service that hosts it, through boots, handovers, declined resumes and   *)
(* escalations; and the service runs on only with a consumer: a share, a   *)
(* countdown, or a resume still to be decided.  The exception is a missed  *)
(* check-in whose panic found no audience (owed).                          *)
(* (engine.rs: ResumeShareIfArmed releases location "never while a         *)
(* check-in is armed", stop_share; headless.rs: stop, claim_for_ui,        *)
(* handoff_from_ui.)                                                       *)
(***************************************************************************)
ServiceWhileNeeded ==
    /\ host = "headless" /\ (share.live \/ checkin.kind # "none") => service
    /\ service /\ pc = "idle" /\ ~owed =>
           share.live \/ checkin.kind # "none" \/ resuming \/ host = "handoff"

(***************************************************************************)
(* A check-in that had lapsed before the engine started never escalates    *)
(* before the whole grace window has passed in that engine.                *)
(* (engine.rs: evaluate_checkin_on_start, tick_checkin.)                   *)
(***************************************************************************)
GraceBeforeAlarm ==
    [][job # "escalate" /\ job' = "escalate" => graceLeft = 0]_vars

(***************************************************************************)
(* If an engine that could read its configuration finally stays up, every  *)
(* lapsed check-in is acted on: it escalates, or the user re-arms or       *)
(* disarms it.  (engine.rs: on_tick, tick_checkin.)                        *)
(***************************************************************************)
LapsedCheckinResolves ==
    <>[](Up /\ loaded) => (disk.deadline = 0 ~> disk.deadline # 0)

(***************************************************************************)
(* A missed check-in leads to an alert that is at least on disk, "even     *)
(* across a reboot" (README.md:31), if there is a group to alert.          *)
(***************************************************************************)
EscalationSurvivesCrash ==
    owed /\ pc = "idle" /\ disk.groups # {} /\ disk.keyOk => disk.alert
=============================================================================
