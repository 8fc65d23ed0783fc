-------------------------- MODULE ShareEngineProofs --------------------------
(***************************************************************************)
(* Proofs about ShareEngine, for every set of groups, every set of periods *)
(* and every grace window.  NoRevival, AlertSurvives and the agreement of  *)
(* memory and disk are not inductive on their own: what makes them so is   *)
(* where, inside a handler, memory and the two files may differ.  The      *)
(* check-in, the unread configuration and the service each have an         *)
(* invariant of their own on top of that one.                              *)
(***************************************************************************)
EXTENDS ShareEngine, TLAPS

\* Past SaveConfig the file is the memory; past WriteResumeFlag the sentinel
\* is too.  Between handlers both agree, if the file was ever read.
Synced ==
    /\ pc \in {"flag", "tail", "panic"} => disk = cfg /\ loaded
    /\ pc \in {"tail", "panic"} => resumeFlag = cfg.resume
    /\ Idle /\ loaded => disk = cfg
    /\ Idle /\ ~resuming => resumeFlag = cfg.resume

\* A handler runs only in an engine; without one nothing is in memory.
Hosted ==
    /\ pc # "idle" => Up
    /\ loaded => Up
    /\ ~Up => cfg = DefaultConfig /\ share = NoShare
    /\ pc = "panic" => job = "escalate"

Stopping == pc # "idle" /\ job = "stop"

\* A live share is armed for resume, with its alert, until its stop begins;
\* and what is armed is either running or waiting for the queued resume.
Shared ==
    /\ ~share.live => share = NoShare
    /\ share.live => share.to # {}
    /\ share.live /\ ~Stopping => cfg.resume /\ cfg.alert = share.alert
    /\ share.live /\ pc = "idle" => loaded /\ resumeFlag
    /\ cfg.resume => share.live \/ resuming
    /\ cfg.alert => cfg.resume
    /\ disk.alert => disk.resume
    /\ pc # "idle" /\ job \in {"stop", "decline"} => ~cfg.resume

StoppedOnDisk == stopped => ~share.live /\ ~disk.resume /\ ~cfg.resume

RaisedOnDisk ==
    /\ raised => disk.alert /\ disk.resume
    /\ raised /\ loaded => cfg.alert /\ cfg.resume

Synchrony == Synced /\ Hosted /\ Shared /\ StoppedOnDisk /\ RaisedOnDisk

IInv == TypeOK /\ Synchrony

-----------------------------------------------------------------------------
(* Types *)

\* A countdown that loses a unit is still a countdown, or still none.
LEMMA LessType ==
    /\ \A n \in Nat : Less(n) \in Nat
    /\ Less(NoDeadline) = NoDeadline
BY ConstantsAssumption DEF Less

\* The records the handlers build and update are configurations, shares and
\* check-ins.
LEMMA FieldTypes ==
    /\ \A c \in Config :
          /\ c.groups \in SUBSET Groups /\ c.selected \in SUBSET Groups
          /\ c.keyOk \in BOOLEAN /\ c.resume \in BOOLEAN /\ c.alert \in BOOLEAN
          /\ c.deadline \in Nat \cup {NoDeadline} /\ c.period \in Nat
    /\ \A s \in Share :
          /\ s.live \in BOOLEAN /\ s.to \in SUBSET Groups
          /\ s.alert \in BOOLEAN /\ s.fix \in BOOLEAN
    /\ \A k \in Checkin :
          /\ k.kind \in {"none", "armed", "grace"} /\ k.left \in Nat
          /\ k.period \in Nat /\ k.reminded \in BOOLEAN
BY DEF Config, Share, Checkin

LEMMA ConfigTypes ==
    /\ DefaultConfig \in Config
    /\ \A c \in Config :
          /\ \A b \in BOOLEAN : ArmedForResume(c, b) \in Config
          /\ \A b \in BOOLEAN : WithAlert(c, b) \in Config
          /\ Disarmed(c) \in Config
          /\ \A d \in Nat \cup {NoDeadline}, p \in Nat : WithCheckin(c, d, p) \in Config
          /\ \A g, h \in SUBSET Groups : WithGroups(c, g, h) \in Config
          /\ WithNewKey(c) \in Config
          /\ AgedConfig(c) \in Config
BY LessType DEF Config, DefaultConfig, Disarmed, ArmedForResume, WithAlert,
                WithCheckin, WithGroups, WithNewKey, AgedConfig

LEMMA ShareTypes ==
    /\ NoShare \in Share
    /\ \A g \in SUBSET Groups, b \in BOOLEAN : StartedShare(g, b) \in Share
    /\ \A s \in Share :
          /\ \A b \in BOOLEAN : ShareWithAlert(s, b) \in Share
          /\ ShareWithFix(s) \in Share
BY DEF Share, NoShare, StartedShare, ShareWithAlert, ShareWithFix

LEMMA CheckinTypes ==
    /\ NoCheckin \in Checkin /\ StartupGrace \in Checkin
    /\ \A left, period \in Nat : Armed(left, period) \in Checkin
    /\ \A c \in Config : EvaluatedCheckin(c) \in Checkin
    /\ \A k \in Checkin : Reminded(k) \in Checkin /\ AgedCheckin(k) \in Checkin
<1>1. NoCheckin \in Checkin /\ StartupGrace \in Checkin
  BY ConstantsAssumption DEF Checkin, NoCheckin, StartupGrace
<1>2. \A left, period \in Nat : Armed(left, period) \in Checkin
  BY DEF Checkin, Armed
<1>3. ASSUME NEW c \in Config PROVE EvaluatedCheckin(c) \in Checkin
  <2>1. c.deadline \in Nat \cup {NoDeadline} /\ c.period \in Nat
    BY FieldTypes
  <2>. QED
    BY <1>1, <1>2, <2>1 DEF EvaluatedCheckin
<1>4. ASSUME NEW k \in Checkin
     PROVE  Reminded(k) \in Checkin /\ AgedCheckin(k) \in Checkin
  BY LessType DEF Checkin, Reminded, AgedCheckin
<1>. QED
  BY <1>1, <1>2, <1>3, <1>4

\* What a panic makes of the state is of its type.
LEMMA PanicTypes ==
    ASSUME TypeOK, TriggerPanic
    PROVE  /\ cfg' \in Config /\ share' \in Share
           /\ pc' = "save" /\ job' \in {"begin", "alert"}
<1>. USE FieldTypes, ConfigTypes, ShareTypes DEF TypeOK
<1>1. CASE ChangeAlert(TRUE)
  BY <1>1 DEF ChangeAlert, Persist
<1>2. CASE BeginShare(EmergencyRecipients, TRUE)
  <2>1. EmergencyRecipients \in SUBSET Groups
    BY DEF EmergencyRecipients
  <2>. QED
    BY <1>2, <2>1 DEF BeginShare, Persist
<1>. QED
  BY <1>1, <1>2 DEF TriggerPanic

\* What a stop makes of the state is of its type, whatever was running.
LEMMA StopTypes ==
    ASSUME TypeOK, DisarmAndStop
    PROVE  /\ cfg' \in Config /\ share' \in Share /\ service' \in BOOLEAN
           /\ stopped' \in BOOLEAN /\ raised' = FALSE /\ owed' = FALSE
           /\ pc' \in {"save", pc} /\ (job' = "stop" \/ job' = job)
<1>. USE FieldTypes, ConfigTypes, ShareTypes DEF TypeOK
<1>1. CASE ReleaseShare /\ UNCHANGED <<cfg, pc, job>>
  BY <1>1 DEF DisarmAndStop, ReleaseShare
<1>2. CASE cfg' = Disarmed(cfg) /\ Persist("stop") /\ UNCHANGED <<service, share, stopped>>
  BY <1>2 DEF DisarmAndStop, Persist
<1>. QED
  BY <1>1, <1>2 DEF DisarmAndStop

\* A step that disarms and stops, and leaves the rest alone, keeps the types.
LEMMA StopPreservesTypes ==
    ASSUME TypeOK, DisarmAndStop,
           UNCHANGED <<host, checkin, resuming, loaded, files, graceLeft>>
    PROVE  TypeOK'
<1>1. /\ host' \in {"none", "ui", "headless", "handoff"}
      /\ service' \in BOOLEAN /\ loaded' \in BOOLEAN /\ resuming' \in BOOLEAN
      /\ cfg' \in Config /\ disk' \in Config
      /\ share' \in Share /\ checkin' \in Checkin
  BY StopTypes DEF TypeOK, files
<1>2. pc' \in {"idle", "save", "flag", "tail", "panic"}
  BY StopTypes DEF TypeOK
<1>3. job' \in {"none", "begin", "alert", "stop", "decline", "arm", "disarm",
                 "escalate", "mutate", "flush"}
  BY StopTypes DEF TypeOK
<1>4. /\ resumeFlag' \in BOOLEAN /\ checkinFlag' \in BOOLEAN
      /\ raised' \in BOOLEAN /\ stopped' \in BOOLEAN /\ owed' \in BOOLEAN
      /\ graceLeft' \in Nat
  BY StopTypes DEF TypeOK, files
<1>. QED
  BY <1>1, <1>2, <1>3, <1>4 DEF TypeOK

\* Every action preserves the type invariant.
LEMMA TypeStep == ASSUME TypeOK, [Next]_vars PROVE TypeOK'
<1>. USE ConstantsAssumption, LessType, FieldTypes, ConfigTypes, ShareTypes,
         CheckinTypes DEF TypeOK, memory, files, observed
<1>1. ASSUME SaveConfig
     PROVE  TypeOK'
  BY <1>1 DEF SaveConfig
<1>2. ASSUME WriteResumeFlag
     PROVE  TypeOK'
  BY <1>2 DEF WriteResumeFlag
<1>3. ASSUME FinishBegin
     PROVE  TypeOK'
  BY <1>3 DEF FinishBegin, Tail
<1>4. ASSUME FinishAlert
     PROVE  TypeOK'
  BY <1>4 DEF FinishAlert, Tail
<1>5. ASSUME FinishStop
     PROVE  TypeOK'
  BY <1>5 DEF FinishStop, Tail, ReleaseShare
<1>6. ASSUME FinishDecline
     PROVE  TypeOK'
  BY <1>6 DEF FinishDecline, Tail, ReleaseUnused
<1>7. ASSUME FinishArm
     PROVE  TypeOK'
  BY <1>7 DEF FinishArm, Tail
<1>8. ASSUME FinishDisarm
     PROVE  TypeOK'
  BY <1>8 DEF FinishDisarm, Tail
<1>9. ASSUME FinishEscalationDisarm
     PROVE  TypeOK'
  BY <1>9 DEF FinishEscalationDisarm, Tail
<1>10. ASSUME EscalatePanic
     PROVE  TypeOK'
  <2>1. CASE TriggerPanic
    BY <1>10, <2>1, PanicTypes DEF EscalatePanic
  <2>2. CASE PanicIsNoOp /\ UNCHANGED <<cfg, share, job, stopped>> /\ pc' = "idle"
    BY <1>10, <2>2 DEF EscalatePanic
  <2>. QED
    BY <1>10, <2>1, <2>2 DEF EscalatePanic
<1>11. ASSUME StartShare
     PROVE  TypeOK'
  BY <1>11 DEF StartShare, BeginShare, Persist, SelectedRecipients
<1>12. ASSUME Panic
     PROVE  TypeOK'
  BY <1>12, PanicTypes DEF Panic
<1>13. ASSUME StopShare
     PROVE  TypeOK'
  <2>1. DisarmAndStop /\ UNCHANGED <<host, checkin, resuming, loaded, files, graceLeft>>
    BY <1>13 DEF StopShare
  <2>. QED
    BY <2>1, StopPreservesTypes
<1>14. ASSUME LocationUnavailable
     PROVE  TypeOK'
  <2>1. UNCHANGED <<host, checkin, resuming, loaded, files, graceLeft>>
    BY <1>14 DEF LocationUnavailable
  <2>2. CASE DisarmAndStop
    BY <2>1, <2>2, StopPreservesTypes
  <2>3. CASE service' = FALSE /\ UNCHANGED <<cfg, share, pc, job, raised, stopped, owed>>
    <3>1. /\ host' \in {"none", "ui", "headless", "handoff"}
          /\ service' \in BOOLEAN /\ loaded' \in BOOLEAN /\ resuming' \in BOOLEAN
          /\ cfg' \in Config /\ disk' \in Config
          /\ share' \in Share /\ checkin' \in Checkin
      BY <2>1, <2>3
    <3>2. UNCHANGED <<pc, job, resumeFlag, checkinFlag, raised, stopped, owed, graceLeft>>
      BY <2>1, <2>3
    <3>. QED
      BY <3>1, <3>2
  <2>. QED
    BY <1>14, <2>2, <2>3 DEF LocationUnavailable
<1>15. ASSUME NEW on \in BOOLEAN, SetAlert(on)
     PROVE  TypeOK'
  BY <1>15 DEF SetAlert, ChangeAlert, Persist
<1>16. ASSUME NEW secs \in Periods, ArmCheckin(secs)
     PROVE  TypeOK'
  BY <1>16 DEF ArmCheckin, InstallCheckin, AtLeastOne, Persist
<1>17. ASSUME ConfirmCheckin
     PROVE  TypeOK'
  <2>1. ConfirmPeriod \in Nat
    BY DEF ConfirmPeriod
  <2>2. CASE ConfirmPeriod > 0 /\ InstallCheckin(ConfirmPeriod)
    <3>1. AtLeastOne(ConfirmPeriod) \in Nat
      BY <2>1 DEF AtLeastOne
    <3>. QED
      BY <1>17, <2>2, <3>1 DEF ConfirmCheckin, InstallCheckin, Persist
  <2>3. CASE ConfirmPeriod = 0 /\ ClearCheckin("disarm")
    BY <1>17, <2>3 DEF ConfirmCheckin, ClearCheckin, Persist
  <2>. QED
    BY <1>17, <2>2, <2>3 DEF ConfirmCheckin
<1>18. ASSUME DisarmCheckin
     PROVE  TypeOK'
  BY <1>18 DEF DisarmCheckin, ClearCheckin, Persist
<1>19. ASSUME NEW g \in Groups, AddGroup(g)
     PROVE  TypeOK'
  BY <1>19 DEF AddGroup, ChangeGroups, Persist
<1>20. ASSUME NEW g \in Groups, RemoveGroup(g)
     PROVE  TypeOK'
  BY <1>20 DEF RemoveGroup, ChangeGroups, Persist
<1>21. ASSUME NEW g \in Groups, ToggleGroup(g)
     PROVE  TypeOK'
  BY <1>21 DEF ToggleGroup, ChangeGroups, Persist
<1>22. ASSUME NEW g \in Groups, NEW new \in Groups, RotateGroup(g, new)
     PROVE  TypeOK'
  BY <1>22 DEF RotateGroup, ChangeGroups, Persist
<1>23. ASSUME RotateSender
     PROVE  TypeOK'
  BY <1>23 DEF RotateSender, Persist
<1>24. ASSUME NEW readable \in BOOLEAN, Boot(readable)
     PROVE  TypeOK'
  BY <1>24 DEF Boot, StartEngine
<1>25. ASSUME NEW readable \in BOOLEAN, OpenApp(readable)
     PROVE  TypeOK'
  BY <1>25 DEF OpenApp, StartEngine
<1>26. ASSUME NEW readable \in BOOLEAN, HandoffFromUi(readable)
     PROVE  TypeOK'
  <2>1. CASE StartEngine("headless", readable)
    BY <1>26, <2>1 DEF HandoffFromUi, StartEngine
  <2>2. CASE NoEngine("none")
    BY <1>26, <2>2 DEF HandoffFromUi, NoEngine
  <2>. QED
    BY <1>26, <2>1, <2>2 DEF HandoffFromUi
<1>27. ASSUME ClaimForUi
     PROVE  TypeOK'
  BY <1>27 DEF ClaimForUi, NoEngine
<1>28. ASSUME CloseApp
     PROVE  TypeOK'
  BY <1>28 DEF CloseApp, NoEngine
<1>29. ASSUME ServiceDestroyed
     PROVE  TypeOK'
  BY <1>29 DEF ServiceDestroyed, NoEngine
<1>30. ASSUME Crash
     PROVE  TypeOK'
  BY <1>30 DEF Crash, NoEngine
<1>31. ASSUME ResumeShareIfArmed
     PROVE  TypeOK'
  <2>1. /\ ResumeRecipients \in SUBSET Groups
        /\ cfg.alert \in BOOLEAN
    BY DEF ResumeRecipients, SelectedRecipients, EmergencyRecipients
  <2>2. CASE BeginShare(ResumeRecipients, cfg.alert)
             /\ UNCHANGED <<service, resumeFlag, raised, owed>>
    BY <1>31, <2>1, <2>2 DEF ResumeShareIfArmed, BeginShare, Persist
  <2>3. CASE /\ cfg' = Disarmed(cfg)
             /\ Persist("decline")
             /\ raised' = (raised /\ EmergencyRecipients # {} /\ cfg.keyOk)
             /\ owed' = FALSE
             /\ UNCHANGED <<service, share, resumeFlag>>
    BY <1>31, <2>3 DEF ResumeShareIfArmed, Persist
  <2>4. CASE UNCHANGED <<service, cfg, share, pc, job, resumeFlag, raised, owed>>
    <3>1. /\ resuming' = FALSE
          /\ UNCHANGED <<host, checkin, loaded, disk, checkinFlag, stopped, graceLeft>>
      BY <1>31 DEF ResumeShareIfArmed
    <3>2. /\ host' \in {"none", "ui", "headless", "handoff"}
          /\ service' \in BOOLEAN /\ loaded' \in BOOLEAN /\ resuming' \in BOOLEAN
          /\ cfg' \in Config /\ disk' \in Config
          /\ share' \in Share /\ checkin' \in Checkin
      BY <2>4, <3>1
    <3>3. UNCHANGED <<pc, job, resumeFlag, checkinFlag, raised, stopped, owed, graceLeft>>
      BY <2>4, <3>1
    <3>. QED
      BY <3>2, <3>3
  <2>5. CASE Resync /\ UNCHANGED <<share, raised, owed>>
    <3>1. /\ resuming' = FALSE
          /\ UNCHANGED <<host, checkin, loaded, disk, checkinFlag, stopped, graceLeft>>
      BY <1>31 DEF ResumeShareIfArmed
    <3>2. /\ service' \in BOOLEAN /\ resumeFlag' = FALSE
          /\ UNCHANGED <<share, raised, owed, cfg, pc, job>>
      BY ONLY <2>5 DEF Resync, ReleaseUnused
    <3>3. /\ host' \in {"none", "ui", "headless", "handoff"}
          /\ service' \in BOOLEAN /\ loaded' \in BOOLEAN /\ resuming' \in BOOLEAN
          /\ cfg' \in Config /\ disk' \in Config
          /\ share' \in Share /\ checkin' \in Checkin
      BY <3>1, <3>2
    <3>4. UNCHANGED <<pc, job, checkinFlag, raised, stopped, owed, graceLeft>>
      BY <3>1, <3>2
    <3>. QED
      BY <3>2, <3>3, <3>4
  <2>. QED
    BY <1>31, <2>2, <2>3, <2>4, <2>5 DEF ResumeShareIfArmed
<1>32. ASSUME NEW publishes \in BOOLEAN, Location(publishes)
     PROVE  TypeOK'
  BY <1>32 DEF Location
<1>33. ASSUME NEW publishes \in BOOLEAN, Tick(publishes)
     PROVE  TypeOK'
  <2>1. /\ TickCheckin
        /\ raised' \in BOOLEAN
        /\ UNCHANGED <<host, service, share, resuming, loaded, files, stopped, owed,
                       graceLeft>>
    BY <1>33 DEF Tick
  <2>2. CASE ClearCheckin("escalate")
    <3>1. cfg' \in Config /\ checkin' \in Checkin /\ pc' = "save" /\ job' = "escalate"
      BY <2>2 DEF ClearCheckin, Persist
    <3>. QED
      BY <2>1, <3>1
  <2>3. CASE checkin' = Reminded(checkin) /\ UNCHANGED <<cfg, pc, job>>
    BY <2>1, <2>3
  <2>4. CASE UNCHANGED <<cfg, checkin, pc, job>>
    BY <2>1, <2>4
  <2>. QED
    BY <2>1, <2>2, <2>3, <2>4 DEF TickCheckin
<1>34. ASSUME Elapse
     PROVE  TypeOK'
  BY <1>34 DEF Elapse
<1>35. ASSUME FlushSeen
       PROVE  TypeOK'
  BY <1>35 DEF FlushSeen, Persist
<1>36. CASE UNCHANGED vars
  BY <1>36 DEF vars
<1>. QED
  BY <1>1, <1>2, <1>3, <1>4, <1>5, <1>6, <1>7, <1>8, <1>9, <1>10, <1>11,
       <1>12, <1>13, <1>14, <1>15, <1>16, <1>17, <1>18, <1>19, <1>20, <1>21,
       <1>22, <1>23, <1>24, <1>25, <1>26, <1>27, <1>28, <1>29, <1>30, <1>31,
       <1>32, <1>33, <1>34, <1>35, <1>36 DEF Next, Files, Tails, UserCommands,
       Hosting

-----------------------------------------------------------------------------
(* The inductive invariant *)

\* What the handlers change of resume and alert, and what they leave alone.
LEMMA ResumeFields ==
    /\ ~DefaultConfig.resume /\ ~DefaultConfig.alert
    /\ \A c \in Config :
          /\ \A b \in BOOLEAN :
                /\ ArmedForResume(c, b).resume
                /\ ArmedForResume(c, b).alert = b
                /\ WithAlert(c, b).resume = c.resume
                /\ WithAlert(c, b).alert = b
          /\ ~Disarmed(c).resume /\ ~Disarmed(c).alert
          /\ \A d \in Nat \cup {NoDeadline}, p \in Nat :
                /\ WithCheckin(c, d, p).resume = c.resume
                /\ WithCheckin(c, d, p).alert = c.alert
          /\ \A g, h \in SUBSET Groups :
                /\ WithGroups(c, g, h).resume = c.resume
                /\ WithGroups(c, g, h).alert = c.alert
          /\ WithNewKey(c).resume = c.resume /\ WithNewKey(c).alert = c.alert
          /\ AgedConfig(c).resume = c.resume /\ AgedConfig(c).alert = c.alert
BY DEF Config, DefaultConfig, Disarmed, ArmedForResume, WithAlert, WithCheckin,
       WithGroups, WithNewKey, AgedConfig

\* Two configurations are armed alike.
SameArming(c, d) == c.resume = d.resume /\ c.alert = d.alert

LEMMA ArmingKept ==
    \A c \in Config :
       /\ \A d \in Nat \cup {NoDeadline}, p \in Nat : SameArming(WithCheckin(c, d, p), c)
       /\ \A g, h \in SUBSET Groups : SameArming(WithGroups(c, g, h), c)
       /\ SameArming(WithNewKey(c), c)
BY ResumeFields DEF SameArming

\* A configuration that was never read does not age.
LEMMA DefaultAges == AgedConfig(DefaultConfig) = DefaultConfig
<1>1. \A c \in Config : c.deadline = NoDeadline => AgedConfig(c) = c
  BY LessType DEF AgedConfig, Config
<1>2. DefaultConfig.deadline = NoDeadline
  BY DEF DefaultConfig
<1>. QED
  BY <1>1, <1>2, ConfigTypes

\* Time takes from the deadlines, and nothing else.
LEMMA ElapseKeeps ==
    ASSUME IInv, Elapse  PROVE Synchrony'
<1>1. /\ cfg \in Config /\ disk \in Config
      /\ Synced /\ Hosted /\ Shared /\ StoppedOnDisk /\ RaisedOnDisk
  BY DEF IInv, TypeOK, Synchrony
<1>2. /\ cfg' = AgedConfig(cfg) /\ disk' = AgedConfig(disk)
      /\ UNCHANGED <<host, service, share, resuming, loaded, pc, job, resumeFlag,
                     checkinFlag, raised, stopped, owed>>
  BY DEF Elapse
<1>3. /\ cfg'.resume = cfg.resume /\ cfg'.alert = cfg.alert
      /\ disk'.resume = disk.resume /\ disk'.alert = disk.alert
  BY <1>1, <1>2, ResumeFields
<1>4. /\ cfg = DefaultConfig => cfg' = DefaultConfig
      /\ disk = cfg => disk' = cfg'
  BY <1>2, DefaultAges
<1>5. Synced'
  BY <1>1, <1>2, <1>3, <1>4 DEF Synced, Idle, Up
<1>6. Hosted'
  BY <1>1, <1>2, <1>4 DEF Hosted, Up
<1>7. Shared'
  BY <1>1, <1>2, <1>3 DEF Shared, Stopping
<1>8. StoppedOnDisk' /\ RaisedOnDisk'
  BY <1>1, <1>2, <1>3 DEF StoppedOnDisk, RaisedOnDisk
<1>. QED
  BY <1>5, <1>6, <1>7, <1>8 DEF Synchrony

LEMMA ShareFields ==
    /\ ~NoShare.live /\ ~NoShare.alert
    /\ \A g \in SUBSET Groups, b \in BOOLEAN :
          /\ StartedShare(g, b).live
          /\ StartedShare(g, b).to = g
          /\ StartedShare(g, b).alert = b
    /\ \A s \in Share :
          /\ \A b \in BOOLEAN :
                /\ ShareWithAlert(s, b).live = s.live
                /\ ShareWithAlert(s, b).to = s.to
                /\ ShareWithAlert(s, b).alert = b
          /\ ShareWithFix(s).live = s.live
          /\ ShareWithFix(s).to = s.to
          /\ ShareWithFix(s).alert = s.alert
BY DEF Share, NoShare, StartedShare, ShareWithAlert, ShareWithFix

\* The configuration is persisted with resume and alert as they were, and the
\* share goes on as it is: check-in, group and key commands.
LEMMA PersistKeeps ==
    ASSUME IInv, Idle, pc' = "save",
           job' \in {"arm", "disarm", "escalate", "mutate", "flush"},
           SameArming(cfg', cfg),
           UNCHANGED <<host, share, resuming, loaded, disk, resumeFlag, stopped>>,
           raised' => raised \/ (share.live /\ share.alert)
    PROVE  Synchrony'
<1>. USE ConstantsAssumption, FieldTypes, ConfigTypes, ShareTypes, ResumeFields,
         ShareFields
     DEF IInv, TypeOK, Synchrony, Synced, Hosted, Shared, StoppedOnDisk,
         RaisedOnDisk, Stopping, Idle, Up, memory, files, observed, SameArming
<1>1. Synced'
  OBVIOUS
<1>2. Hosted'
  OBVIOUS
<1>3. Shared'
  OBVIOUS
<1>4. StoppedOnDisk'
  OBVIOUS
<1>5. RaisedOnDisk'
  OBVIOUS
<1>. QED
  BY <1>1, <1>2, <1>3, <1>4, <1>5

\* A share begins: nothing was running, and nothing stopped is revived.
LEMMA ShareBegins ==
    ASSUME IInv, Up, pc \in {"idle", "panic"}, ~share.live,
           NEW recipients \in SUBSET Groups, recipients # {},
           NEW alert \in BOOLEAN, BeginShare(recipients, alert),
           raised /\ loaded => alert,
           UNCHANGED <<host, loaded, disk, resumeFlag, raised>>,
           resuming' \in BOOLEAN, ~stopped'
    PROVE  Synchrony'
<1>1. cfg \in Config /\ alert \in BOOLEAN
  BY DEF IInv, TypeOK
<1>2. cfg'.resume /\ cfg'.alert = alert
  BY <1>1, ResumeFields DEF BeginShare
<1>3. share'.live /\ share'.to = recipients /\ share'.alert = alert
  BY <1>1, ShareFields DEF BeginShare
<1>4. pc' = "save" /\ job' = "begin"
  BY DEF BeginShare, Persist
<1>. USE ConstantsAssumption, FieldTypes, ConfigTypes, ShareTypes, ResumeFields,
         ShareFields
     DEF IInv, TypeOK, Synchrony, Synced, Hosted, Shared, StoppedOnDisk,
         RaisedOnDisk, Stopping, Idle, Up, memory, files, observed
<1>5. Synced'
  BY <1>2, <1>3, <1>4
<1>6. Hosted'
  BY <1>2, <1>3, <1>4
<1>7. Shared'
  BY <1>2, <1>3, <1>4
<1>8. StoppedOnDisk'
  BY <1>2, <1>3, <1>4
<1>9. RaisedOnDisk'
  BY <1>2, <1>3, <1>4
<1>. QED
  BY <1>5, <1>6, <1>7, <1>8, <1>9

\* A running share's alert changes.
LEMMA AlertChanges ==
    ASSUME IInv, Up, pc \in {"idle", "panic"}, share.live,
           NEW on \in BOOLEAN, ChangeAlert(on),
           raised' = (raised /\ on), stopped' => stopped,
           UNCHANGED <<host, resuming, loaded, disk, resumeFlag>>
    PROVE  Synchrony'
<1>1. cfg \in Config /\ share \in Share /\ on \in BOOLEAN
  BY DEF IInv, TypeOK
<1>2. cfg'.resume = cfg.resume /\ cfg'.alert = on
  BY <1>1, ResumeFields DEF ChangeAlert
<1>3. share'.live = share.live /\ share'.to = share.to /\ share'.alert = on
  <2>1. share' = ShareWithAlert(share, on)
    BY DEF ChangeAlert
  <2>2. ShareWithAlert(share, on).live = share.live
    BY <1>1, ShareFields
  <2>3. ShareWithAlert(share, on).to = share.to
    BY <1>1, ShareFields
  <2>4. ShareWithAlert(share, on).alert = on
    BY <1>1, ShareFields
  <2>. QED
    BY <2>1, <2>2, <2>3, <2>4
<1>4. pc' = "save" /\ job' = "alert"
  BY DEF ChangeAlert, Persist
<1>. USE ConstantsAssumption, FieldTypes, ConfigTypes, ShareTypes, ResumeFields,
         ShareFields
     DEF IInv, TypeOK, Synchrony, Synced, Hosted, Shared, StoppedOnDisk,
         RaisedOnDisk, Stopping, Idle, Up, memory, files, observed
<1>5. cfg.resume /\ share.to # {}
  OBVIOUS
<1>6. Synced'
  BY <1>2, <1>3, <1>4, <1>5
<1>7. Hosted'
  BY <1>2, <1>3, <1>4, <1>5
<1>8. Shared'
  BY <1>2, <1>3, <1>4, <1>5
<1>9. StoppedOnDisk'
  BY <1>2, <1>3, <1>4, <1>5
<1>10. RaisedOnDisk'
  BY <1>2, <1>3, <1>4, <1>5
<1>. QED
  BY <1>6, <1>7, <1>8, <1>9, <1>10

\* A stop begins: resume is disarmed before the STOP, at once if it was not armed.
LEMMA StopBegins ==
    ASSUME IInv, Idle, DisarmAndStop, 
           UNCHANGED <<host, resuming, loaded, disk, resumeFlag>>
    PROVE  Synchrony'
<1>. USE ConstantsAssumption, FieldTypes, ConfigTypes, ShareTypes, ResumeFields,
         ShareFields
     DEF IInv, TypeOK, Synchrony, Synced, Hosted, Shared, StoppedOnDisk,
         RaisedOnDisk, Stopping, Idle, Up, memory, files, observed
<1>1. CASE ~cfg.resume /\ ~cfg.alert /\ ReleaseShare /\ raised' = FALSE
           /\ UNCHANGED <<cfg, pc, job>>
  <2>1. Synced'
    BY <1>1 DEF ReleaseShare
  <2>2. Hosted'
    BY <1>1 DEF ReleaseShare
  <2>3. Shared'
    BY <1>1 DEF ReleaseShare
  <2>4. StoppedOnDisk'
    BY <1>1 DEF ReleaseShare
  <2>5. RaisedOnDisk'
    BY <1>1 DEF ReleaseShare
  <2>. QED
    BY <2>1, <2>2, <2>3, <2>4, <2>5
<1>2. CASE cfg' = Disarmed(cfg) /\ Persist("stop") /\ raised' = FALSE
           /\ UNCHANGED <<share, stopped>>
  <2>1. Synced'
    BY <1>2 DEF Persist
  <2>2. Hosted'
    BY <1>2 DEF Persist
  <2>3. Shared'
    BY <1>2 DEF Persist
  <2>4. StoppedOnDisk'
    BY <1>2 DEF Persist
  <2>5. RaisedOnDisk'
    BY <1>2 DEF Persist
  <2>. QED
    BY <2>1, <2>2, <2>3, <2>4, <2>5
<1>. QED
  BY <1>1, <1>2 DEF DisarmAndStop

\* Installing and clearing a check-in leave the arming alone.
LEMMA CheckinKeepsArming ==
    ASSUME cfg \in Config
    PROVE  /\ \A secs \in Nat : InstallCheckin(secs) => SameArming(cfg', cfg)
           /\ \A handler : ClearCheckin(handler) => SameArming(cfg', cfg)
<1>1. ASSUME NEW secs \in Nat, InstallCheckin(secs)
      PROVE  SameArming(cfg', cfg)
  <2>1. AtLeastOne(secs) \in Nat
    BY DEF AtLeastOne
  <2>. QED
    BY <1>1, <2>1, ArmingKept DEF InstallCheckin
<1>2. ASSUME NEW handler, ClearCheckin(handler)
      PROVE  SameArming(cfg', cfg)
  BY <1>2, ArmingKept DEF ClearCheckin
<1>. QED
  BY <1>1, <1>2

\* So does every command on the groups.
LEMMA GroupsChange ==
    ASSUME IInv, NEW G \in SUBSET Groups, NEW S \in SUBSET Groups, ChangeGroups(G, S)
    PROVE  Synchrony'
<1>1. SameArming(cfg', cfg)
  BY ArmingKept DEF ChangeGroups, IInv, TypeOK
<1>. QED
  BY <1>1, PersistKeeps DEF ChangeGroups, Persist, UserCmd, files, observed

\* Every action keeps memory and files in step.
LEMMA SynchronyStep == ASSUME IInv, [Next]_vars PROVE Synchrony'
<1>. USE ConstantsAssumption, FieldTypes, ConfigTypes, ShareTypes, ResumeFields,
         ShareFields, DefaultAges
     DEF IInv, TypeOK, Synchrony, Synced, Hosted, Shared, StoppedOnDisk,
         RaisedOnDisk, Stopping, Idle, Up, memory, files, observed
<1>1. ASSUME SaveConfig
     PROVE  Synchrony'
  <2>1. Synced'
    BY <1>1 DEF SaveConfig
  <2>2. Hosted'
    BY <1>1 DEF SaveConfig
  <2>3. Shared'
    BY <1>1 DEF SaveConfig
  <2>4. StoppedOnDisk'
    BY <1>1 DEF SaveConfig
  <2>5. RaisedOnDisk'
    BY <1>1 DEF SaveConfig
  <2>. QED
    BY <2>1, <2>2, <2>3, <2>4, <2>5
<1>2. ASSUME WriteResumeFlag
     PROVE  Synchrony'
  <2>1. Synced'
    BY <1>2 DEF WriteResumeFlag
  <2>2. Hosted'
    BY <1>2 DEF WriteResumeFlag
  <2>3. Shared'
    BY <1>2 DEF WriteResumeFlag
  <2>4. StoppedOnDisk'
    BY <1>2 DEF WriteResumeFlag
  <2>5. RaisedOnDisk'
    BY <1>2 DEF WriteResumeFlag
  <2>. QED
    BY <2>1, <2>2, <2>3, <2>4, <2>5
<1>3. ASSUME FinishBegin
     PROVE  Synchrony'
  <2>1. Synced'
    BY <1>3 DEF FinishBegin, Tail
  <2>2. Hosted'
    BY <1>3 DEF FinishBegin, Tail
  <2>3. Shared'
    BY <1>3 DEF FinishBegin, Tail
  <2>4. StoppedOnDisk'
    BY <1>3 DEF FinishBegin, Tail
  <2>5. RaisedOnDisk'
    BY <1>3 DEF FinishBegin, Tail
  <2>. QED
    BY <2>1, <2>2, <2>3, <2>4, <2>5
<1>4. ASSUME FinishAlert
     PROVE  Synchrony'
  <2>1. Synced'
    BY <1>4 DEF FinishAlert, Tail
  <2>2. Hosted'
    BY <1>4 DEF FinishAlert, Tail
  <2>3. Shared'
    BY <1>4 DEF FinishAlert, Tail
  <2>4. StoppedOnDisk'
    BY <1>4 DEF FinishAlert, Tail
  <2>5. RaisedOnDisk'
    <3>1. ~share.live => ~share.alert
      BY ONLY IInv, ShareFields DEF IInv, Synchrony, Shared
    <3>2. share.alert => cfg.alert /\ cfg.resume /\ disk = cfg
      BY <1>4, <3>1 DEF FinishAlert, Tail
    <3>. QED
      BY <1>4, <3>2 DEF FinishAlert, Tail
  <2>. QED
    BY <2>1, <2>2, <2>3, <2>4, <2>5
<1>5. ASSUME FinishStop
     PROVE  Synchrony'
  <2>1. Synced'
    BY <1>5 DEF FinishStop, Tail, ReleaseShare
  <2>2. Hosted'
    BY <1>5 DEF FinishStop, Tail, ReleaseShare
  <2>3. Shared'
    BY <1>5 DEF FinishStop, Tail, ReleaseShare
  <2>4. StoppedOnDisk'
    BY <1>5 DEF FinishStop, Tail, ReleaseShare
  <2>5. RaisedOnDisk'
    BY <1>5 DEF FinishStop, Tail, ReleaseShare
  <2>. QED
    BY <2>1, <2>2, <2>3, <2>4, <2>5
<1>6. ASSUME FinishDecline
     PROVE  Synchrony'
  <2>1. Synced'
    BY <1>6 DEF FinishDecline, Tail, ReleaseUnused
  <2>2. Hosted'
    BY <1>6 DEF FinishDecline, Tail, ReleaseUnused
  <2>3. Shared'
    BY <1>6 DEF FinishDecline, Tail, ReleaseUnused
  <2>4. StoppedOnDisk'
    BY <1>6 DEF FinishDecline, Tail, ReleaseUnused
  <2>5. RaisedOnDisk'
    BY <1>6 DEF FinishDecline, Tail, ReleaseUnused
  <2>. QED
    BY <2>1, <2>2, <2>3, <2>4, <2>5
<1>7. ASSUME FinishArm
     PROVE  Synchrony'
  <2>1. Synced'
    BY <1>7 DEF FinishArm, Tail
  <2>2. Hosted'
    BY <1>7 DEF FinishArm, Tail
  <2>3. Shared'
    BY <1>7 DEF FinishArm, Tail
  <2>4. StoppedOnDisk'
    BY <1>7 DEF FinishArm, Tail
  <2>5. RaisedOnDisk'
    BY <1>7 DEF FinishArm, Tail
  <2>. QED
    BY <2>1, <2>2, <2>3, <2>4, <2>5
<1>8. ASSUME FinishDisarm
     PROVE  Synchrony'
  <2>1. Synced'
    BY <1>8 DEF FinishDisarm, Tail
  <2>2. Hosted'
    BY <1>8 DEF FinishDisarm, Tail
  <2>3. Shared'
    BY <1>8 DEF FinishDisarm, Tail
  <2>4. StoppedOnDisk'
    BY <1>8 DEF FinishDisarm, Tail
  <2>5. RaisedOnDisk'
    BY <1>8 DEF FinishDisarm, Tail
  <2>. QED
    BY <2>1, <2>2, <2>3, <2>4, <2>5
<1>9. ASSUME FinishEscalationDisarm
     PROVE  Synchrony'
  <2>1. Synced'
    BY <1>9 DEF FinishEscalationDisarm, Tail
  <2>2. Hosted'
    BY <1>9 DEF FinishEscalationDisarm, Tail
  <2>3. Shared'
    BY <1>9 DEF FinishEscalationDisarm, Tail
  <2>4. StoppedOnDisk'
    BY <1>9 DEF FinishEscalationDisarm, Tail
  <2>5. RaisedOnDisk'
    BY <1>9 DEF FinishEscalationDisarm, Tail
  <2>. QED
    BY <2>1, <2>2, <2>3, <2>4, <2>5
<1>10. ASSUME EscalatePanic
     PROVE  Synchrony'
  <2>1. UNCHANGED <<host, resuming, loaded, files, raised>> /\ Up /\ pc = "panic"
    BY <1>10 DEF EscalatePanic
  <2>2. CASE /\ ~share.live /\ EmergencyRecipients # {}
             /\ BeginShare(EmergencyRecipients, TRUE) /\ stopped' = FALSE
    <3>1. EmergencyRecipients \in SUBSET Groups
      BY DEF EmergencyRecipients
    <3>. QED
      BY <2>1, <2>2, <3>1, ShareBegins
  <2>3. CASE share.live /\ ChangeAlert(TRUE) /\ stopped' = FALSE
    BY <2>1, <2>3, AlertChanges
  <2>4. CASE pc' = "idle" /\ UNCHANGED <<cfg, share, job, stopped>>
    BY <2>1, <2>4
  <2>. QED
    BY <1>10, <2>2, <2>3, <2>4 DEF EscalatePanic, TriggerPanic
<1>11. ASSUME StartShare
     PROVE  Synchrony'
  <2>1. SelectedRecipients \in SUBSET Groups
    BY DEF SelectedRecipients
  <2>2. ~(raised /\ loaded)
    BY <1>11 DEF StartShare, UserCmd
  <2>. QED
    BY <1>11, <2>1, <2>2, ShareBegins DEF StartShare, UserCmd
<1>12. ASSUME Panic
     PROVE  Synchrony'
  <2>1. /\ UNCHANGED <<host, resuming, loaded, files, raised>>
        /\ Up /\ pc = "idle" /\ stopped' = FALSE
    BY <1>12 DEF Panic, UserCmd
  <2>2. CASE /\ ~share.live /\ EmergencyRecipients # {}
             /\ BeginShare(EmergencyRecipients, TRUE)
    <3>1. EmergencyRecipients \in SUBSET Groups
      BY DEF EmergencyRecipients
    <3>. QED
      BY <2>1, <2>2, <3>1, ShareBegins
  <2>3. CASE share.live /\ ChangeAlert(TRUE)
    BY <2>1, <2>3, AlertChanges
  <2>. QED
    BY <1>12, <2>2, <2>3 DEF Panic, TriggerPanic
<1>13. ASSUME StopShare
     PROVE  Synchrony'
  BY <1>13, StopBegins DEF StopShare, UserCmd
<1>14. ASSUME LocationUnavailable
     PROVE  Synchrony'
  <2>1. Idle /\ UNCHANGED <<host, checkin, resuming, loaded, files, graceLeft>>
    BY <1>14 DEF LocationUnavailable, UserCmd
  <2>2. CASE DisarmAndStop
    BY <2>1, <2>2, StopBegins
  <2>3. CASE UNCHANGED <<cfg, share, pc, job, raised, stopped, owed>>
    BY <2>1, <2>3
  <2>. QED
    BY <1>14, <2>2, <2>3 DEF LocationUnavailable
<1>15. ASSUME NEW on \in BOOLEAN, SetAlert(on)
     PROVE  Synchrony'
  <2>1. /\ Up /\ pc = "idle" /\ share.live /\ ChangeAlert(on)
        /\ raised' = (raised /\ on)
        /\ UNCHANGED <<host, resuming, loaded, disk, resumeFlag, stopped>>
    BY <1>15 DEF SetAlert, UserCmd
  <2>. QED
    BY ONLY IInv, on \in BOOLEAN, <2>1, AlertChanges
<1>16. ASSUME NEW secs \in Periods, ArmCheckin(secs)
     PROVE  Synchrony'
  <2>1. SameArming(cfg', cfg)
    BY <1>16, CheckinKeepsArming DEF ArmCheckin
  <2>. QED
    BY <1>16, <2>1, PersistKeeps DEF ArmCheckin, InstallCheckin, Persist, UserCmd
<1>17. ASSUME ConfirmCheckin
     PROVE  Synchrony'
  <2>1. ConfirmPeriod \in Nat
    BY DEF ConfirmPeriod
  <2>2. SameArming(cfg', cfg)
    BY <1>17, <2>1, CheckinKeepsArming DEF ConfirmCheckin
  <2>. QED
    BY <1>17, <2>2, PersistKeeps DEF ConfirmCheckin, InstallCheckin, ClearCheckin,
       Persist, UserCmd
<1>18. ASSUME DisarmCheckin
     PROVE  Synchrony'
  <2>1. SameArming(cfg', cfg)
    BY <1>18, CheckinKeepsArming DEF DisarmCheckin
  <2>. QED
    BY <1>18, <2>1, PersistKeeps DEF DisarmCheckin, ClearCheckin, Persist, UserCmd
<1>19. ASSUME NEW g \in Groups, AddGroup(g)
     PROVE  Synchrony'
  <2>. DEFINE G == cfg.groups \cup {g}
              S == cfg.selected \cup {g}
  <2>1. cfg.groups \in SUBSET Groups /\ cfg.selected \in SUBSET Groups
    OBVIOUS
  <2>2. G \in SUBSET Groups /\ S \in SUBSET Groups
    BY ONLY g \in Groups, <2>1
  <2>3. ChangeGroups(G, S)
    BY <1>19 DEF AddGroup
  <2>. HIDE DEF G, S
  <2>. QED
    BY ONLY IInv, <2>2, <2>3, GroupsChange
<1>20. ASSUME NEW g \in Groups, RemoveGroup(g)
     PROVE  Synchrony'
  <2>. DEFINE G == cfg.groups \ {g}
              S == cfg.selected \ {g}
  <2>1. cfg.groups \in SUBSET Groups /\ cfg.selected \in SUBSET Groups
    OBVIOUS
  <2>2. G \in SUBSET Groups /\ S \in SUBSET Groups
    BY <2>1
  <2>3. ChangeGroups(G, S)
    BY <1>20 DEF RemoveGroup
  <2>. HIDE DEF G, S
  <2>. QED
    BY ONLY IInv, <2>2, <2>3, GroupsChange
<1>21. ASSUME NEW g \in Groups, ToggleGroup(g)
     PROVE  Synchrony'
  <2>. DEFINE G == cfg.groups
              S == IF g \in cfg.selected THEN cfg.selected \ {g}
                                             ELSE cfg.selected \cup {g}
  <2>1. cfg.groups \in SUBSET Groups /\ cfg.selected \in SUBSET Groups
    OBVIOUS
  <2>2. G \in SUBSET Groups /\ S \in SUBSET Groups
    BY ONLY g \in Groups, <2>1
  <2>3. ChangeGroups(G, S)
    BY <1>21 DEF ToggleGroup
  <2>. HIDE DEF G, S
  <2>. QED
    BY ONLY IInv, <2>2, <2>3, GroupsChange
<1>22. ASSUME NEW g \in Groups, NEW new \in Groups, RotateGroup(g, new)
     PROVE  Synchrony'
  <2>. DEFINE G == (cfg.groups \ {g}) \cup {new}
              S == IF g \in cfg.selected THEN (cfg.selected \ {g}) \cup {new}
                                             ELSE cfg.selected
  <2>1. cfg.groups \in SUBSET Groups /\ cfg.selected \in SUBSET Groups
    OBVIOUS
  <2>2. G \in SUBSET Groups /\ S \in SUBSET Groups
    BY ONLY new \in Groups, <2>1
  <2>3. ChangeGroups(G, S)
    BY <1>22 DEF RotateGroup
  <2>. HIDE DEF G, S
  <2>. QED
    BY ONLY IInv, <2>2, <2>3, GroupsChange
<1>23. ASSUME RotateSender
     PROVE  Synchrony'
  <2>1. SameArming(cfg', cfg)
    BY <1>23, ArmingKept DEF RotateSender
  <2>. QED
    BY <1>23, <2>1, PersistKeeps DEF RotateSender, Persist, UserCmd
<1>24. ASSUME NEW readable \in BOOLEAN, Boot(readable)
     PROVE  Synchrony'
  <2>1. Synced'
    BY <1>24 DEF Boot, StartEngine
  <2>2. Hosted'
    BY <1>24 DEF Boot, StartEngine
  <2>3. Shared'
    BY <1>24 DEF Boot, StartEngine
  <2>4. StoppedOnDisk'
    BY <1>24 DEF Boot, StartEngine
  <2>5. RaisedOnDisk'
    BY <1>24 DEF Boot, StartEngine
  <2>. QED
    BY <2>1, <2>2, <2>3, <2>4, <2>5
<1>25. ASSUME NEW readable \in BOOLEAN, OpenApp(readable)
     PROVE  Synchrony'
  <2>1. Synced'
    BY <1>25 DEF OpenApp, StartEngine
  <2>2. Hosted'
    BY <1>25 DEF OpenApp, StartEngine
  <2>3. Shared'
    BY <1>25 DEF OpenApp, StartEngine
  <2>4. StoppedOnDisk'
    BY <1>25 DEF OpenApp, StartEngine
  <2>5. RaisedOnDisk'
    BY <1>25 DEF OpenApp, StartEngine
  <2>. QED
    BY <2>1, <2>2, <2>3, <2>4, <2>5
<1>26. ASSUME NEW readable \in BOOLEAN, HandoffFromUi(readable)
     PROVE  Synchrony'
  <2>1. ~Up
    BY <1>26 DEF HandoffFromUi
  <2>2. CASE StartEngine("headless", readable)
    <3>1. Synced'
      BY <1>26, <2>1, <2>2 DEF StartEngine
    <3>2. Hosted'
      BY <1>26, <2>1, <2>2 DEF StartEngine
    <3>3. Shared'
      BY <1>26, <2>1, <2>2 DEF StartEngine
    <3>4. StoppedOnDisk'
      BY <1>26, <2>1, <2>2 DEF StartEngine
    <3>5. RaisedOnDisk'
      BY <1>26, <2>1, <2>2 DEF StartEngine
    <3>. QED
      BY <3>1, <3>2, <3>3, <3>4, <3>5
  <2>3. CASE NoEngine("none")
    <3>1. Synced'
      BY <1>26, <2>1, <2>3 DEF NoEngine
    <3>2. Hosted'
      BY <1>26, <2>1, <2>3 DEF NoEngine
    <3>3. Shared'
      BY <1>26, <2>1, <2>3 DEF NoEngine
    <3>4. StoppedOnDisk'
      BY <1>26, <2>1, <2>3 DEF NoEngine
    <3>5. RaisedOnDisk'
      BY <1>26, <2>1, <2>3 DEF NoEngine
    <3>. QED
      BY <3>1, <3>2, <3>3, <3>4, <3>5
  <2>. QED
    BY <1>26, <2>2, <2>3 DEF HandoffFromUi
<1>27. ASSUME ClaimForUi
     PROVE  Synchrony'
  <2>1. Synced'
    BY <1>27 DEF ClaimForUi, NoEngine
  <2>2. Hosted'
    BY <1>27 DEF ClaimForUi, NoEngine
  <2>3. Shared'
    BY <1>27 DEF ClaimForUi, NoEngine
  <2>4. StoppedOnDisk'
    BY <1>27 DEF ClaimForUi, NoEngine
  <2>5. RaisedOnDisk'
    BY <1>27 DEF ClaimForUi, NoEngine
  <2>. QED
    BY <2>1, <2>2, <2>3, <2>4, <2>5
<1>28. ASSUME CloseApp
     PROVE  Synchrony'
  <2>1. Synced'
    BY <1>28 DEF CloseApp, NoEngine
  <2>2. Hosted'
    BY <1>28 DEF CloseApp, NoEngine
  <2>3. Shared'
    BY <1>28 DEF CloseApp, NoEngine
  <2>4. StoppedOnDisk'
    BY <1>28 DEF CloseApp, NoEngine
  <2>5. RaisedOnDisk'
    BY <1>28 DEF CloseApp, NoEngine
  <2>. QED
    BY <2>1, <2>2, <2>3, <2>4, <2>5
<1>29. ASSUME ServiceDestroyed
     PROVE  Synchrony'
  <2>1. Synced'
    BY <1>29 DEF ServiceDestroyed, NoEngine
  <2>2. Hosted'
    BY <1>29 DEF ServiceDestroyed, NoEngine
  <2>3. Shared'
    BY <1>29 DEF ServiceDestroyed, NoEngine
  <2>4. StoppedOnDisk'
    BY <1>29 DEF ServiceDestroyed, NoEngine
  <2>5. RaisedOnDisk'
    BY <1>29 DEF ServiceDestroyed, NoEngine
  <2>. QED
    BY <2>1, <2>2, <2>3, <2>4, <2>5
<1>30. ASSUME Crash
     PROVE  Synchrony'
  <2>1. Synced'
    BY <1>30 DEF Crash, NoEngine
  <2>2. Hosted'
    BY <1>30 DEF Crash, NoEngine
  <2>3. Shared'
    BY <1>30 DEF Crash, NoEngine
  <2>4. StoppedOnDisk'
    BY <1>30 DEF Crash, NoEngine
  <2>5. RaisedOnDisk'
    BY <1>30 DEF Crash, NoEngine
  <2>. QED
    BY <2>1, <2>2, <2>3, <2>4, <2>5
<1>31. ASSUME ResumeShareIfArmed
     PROVE  Synchrony'
  <2>1. /\ Idle /\ resuming /\ resuming' = FALSE
        /\ UNCHANGED <<host, checkin, loaded, disk, checkinFlag, stopped, graceLeft>>
    BY <1>31 DEF ResumeShareIfArmed
  <2>2. CASE /\ cfg.resume /\ ~share.live /\ ResumeRecipients # {}
             /\ BeginShare(ResumeRecipients, cfg.alert)
             /\ UNCHANGED <<resumeFlag, raised>>
    <3>1. ResumeRecipients \in SUBSET Groups
      BY DEF ResumeRecipients, SelectedRecipients, EmergencyRecipients
    <3>2. (raised /\ loaded => cfg.alert) /\ cfg.alert \in BOOLEAN /\ ~stopped'
      BY <2>1, <2>2
    <3>3. Up /\ pc = "idle" /\ resuming' \in BOOLEAN
          /\ UNCHANGED <<host, loaded, disk, resumeFlag, raised>>
      BY <2>1, <2>2
    <3>. QED
      BY ONLY IInv, <2>2, <3>1, <3>2, <3>3, ShareBegins
  <2>3. CASE /\ cfg.resume /\ ~share.live
             /\ ResumeRecipients = {} \/ ~cfg.keyOk
             /\ cfg' = Disarmed(cfg) /\ Persist("decline")
             /\ raised' = (raised /\ EmergencyRecipients # {} /\ cfg.keyOk)
             /\ UNCHANGED <<share, resumeFlag>>
    <3>1. Synced'
      BY <2>1, <2>3 DEF Persist, ResumeRecipients
    <3>2. Hosted'
      BY <2>1, <2>3 DEF Persist, ResumeRecipients
    <3>3. Shared'
      BY <2>1, <2>3 DEF Persist, ResumeRecipients
    <3>4. StoppedOnDisk'
      BY <2>1, <2>3 DEF Persist, ResumeRecipients
    <3>5. RaisedOnDisk'
      BY <2>1, <2>3 DEF Persist, ResumeRecipients
    <3>. QED
      BY <3>1, <3>2, <3>3, <3>4, <3>5
  <2>4. CASE /\ cfg.resume /\ share.live
             /\ UNCHANGED <<cfg, share, pc, job, resumeFlag, raised>>
    BY <2>1, <2>4
  <2>5. CASE ~cfg.resume /\ Resync /\ UNCHANGED <<share, raised>>
    <3>1. resumeFlag' = FALSE /\ UNCHANGED <<cfg, pc, job, share, raised>>
      BY <2>5 DEF Resync, ReleaseUnused
    <3>2. cfg.resume = FALSE /\ ~share.live
      <4>1. cfg.resume = FALSE
        BY ONLY cfg \in Config, <2>5, FieldTypes
      <4>2. ~share.live
        BY ONLY IInv, <2>1, <4>1 DEF IInv, Synchrony, Shared, Stopping, Idle
      <4>. QED
        BY <4>1, <4>2
    <3>3. Synced'
      BY <2>1, <3>1, <3>2
    <3>4. Hosted'
      BY <2>1, <3>1, <3>2
    <3>5. Shared'
      BY <2>1, <3>1, <3>2
    <3>6. StoppedOnDisk'
      BY <2>1, <3>1, <3>2
    <3>7. RaisedOnDisk'
      BY <2>1, <3>1, <3>2
    <3>. QED
      BY <3>3, <3>4, <3>5, <3>6, <3>7
  <2>. QED
    BY <1>31, <2>2, <2>3, <2>4, <2>5 DEF ResumeShareIfArmed
<1>32. ASSUME NEW publishes \in BOOLEAN, Location(publishes)
     PROVE  Synchrony'
  <2>1. Synced'
    BY <1>32 DEF Location
  <2>2. Hosted'
    BY <1>32 DEF Location
  <2>3. Shared'
    BY <1>32 DEF Location
  <2>4. StoppedOnDisk'
    BY <1>32 DEF Location
  <2>5. RaisedOnDisk'
    BY <1>32 DEF Location
  <2>. QED
    BY <2>1, <2>2, <2>3, <2>4, <2>5
<1>33. ASSUME NEW publishes \in BOOLEAN, Tick(publishes)
     PROVE  Synchrony'
  <2>1. /\ Idle /\ TickCheckin
        /\ raised' => raised \/ (share.live /\ share.alert)
        /\ UNCHANGED <<host, service, share, resuming, loaded, files, stopped>>
    BY <1>33 DEF Tick
  <2>2. CASE ClearCheckin("escalate")
    <3>1. SameArming(cfg', cfg)
      BY <2>2, CheckinKeepsArming
    <3>. QED
      BY <2>1, <2>2, <3>1, PersistKeeps DEF ClearCheckin, Persist
  <2>3. CASE UNCHANGED <<cfg, pc, job>>
    <3>1. Synced'
      BY <2>1, <2>3
    <3>2. Hosted'
      BY <2>1, <2>3
    <3>3. Shared'
      BY <2>1, <2>3
    <3>4. StoppedOnDisk'
      BY <2>1, <2>3
    <3>5. RaisedOnDisk'
      BY <2>1, <2>3
    <3>. QED
      BY <3>1, <3>2, <3>3, <3>4, <3>5
  <2>. QED
    BY <2>1, <2>2, <2>3 DEF TickCheckin
<1>34. ASSUME Elapse
     PROVE  Synchrony'
  BY ONLY IInv, <1>34, ElapseKeeps
<1>35. ASSUME FlushSeen
       PROVE  Synchrony'
  <2>1. SameArming(cfg', cfg)
    BY <1>35 DEF FlushSeen, SameArming
  <2>. QED
    BY <1>35, <2>1, PersistKeeps DEF FlushSeen, Persist
<1>36. CASE UNCHANGED vars
  BY <1>36 DEF vars
<1>. QED
  BY ONLY [Next]_vars, <1>1, <1>2, <1>3, <1>4, <1>5, <1>6, <1>7, <1>8, <1>9,
       <1>10, <1>11, <1>12, <1>13, <1>14, <1>15, <1>16, <1>17, <1>18, <1>19,
       <1>20, <1>21, <1>22, <1>23, <1>24, <1>25, <1>26, <1>27, <1>28, <1>29,
       <1>30, <1>31, <1>32, <1>33, <1>34, <1>35, <1>36
       DEF Next, Files, Tails,
       UserCommands, Hosting

\* The initial states satisfy the invariant.
LEMMA InitInv == ASSUME Init PROVE IInv
<1>1. TypeOK
  <2>1. disk \in Config
    <3>1. disk \in [groups: SUBSET Groups, selected: SUBSET Groups,
                    keyOk: BOOLEAN, resume: {FALSE}, alert: {FALSE},
                    deadline: {NoDeadline}, period: {0}]
      BY DEF Init
    <3>2. PICK groups \in SUBSET Groups, selected \in SUBSET Groups, ok \in BOOLEAN :
               disk = [groups |-> groups, selected |-> selected, keyOk |-> ok,
                       resume |-> FALSE, alert |-> FALSE,
                       deadline |-> NoDeadline, period |-> 0]
      BY <3>1
    <3>. QED
      BY <3>2 DEF Config
  <2>. QED
    BY <2>1, ConfigTypes, ShareTypes, CheckinTypes DEF Init, TypeOK
<1>2. ~disk.resume /\ ~disk.alert
  BY DEF Init
<1>3. Synchrony
  BY <1>2, ResumeFields, ShareFields
     DEF Init, Synchrony, Synced, Hosted, Shared, StoppedOnDisk, RaisedOnDisk,
         Stopping, Idle, Up
<1>. QED
  BY <1>1, <1>3 DEF IInv

\* Every step preserves the invariant.
LEMMA InvStep == ASSUME IInv, [Next]_vars PROVE IInv'
BY TypeStep, SynchronyStep DEF IInv

\* The invariant holds in every reachable state.
LEMMA Invariance == Spec => []IInv
<1>1. Init => IInv
  BY InitInv
<1>2. IInv /\ [Next]_vars => IInv'
  BY InvStep
<1>. QED
  BY <1>1, <1>2, PTL DEF Spec

\* Where the resume is not in the queue any more, what is armed is running.
LEMMA ArmedWhenIdle ==
    ASSUME IInv, Idle, ~resuming
    PROVE  /\ cfg.resume = share.live
           /\ resumeFlag = share.live
           /\ cfg.alert = share.alert
           /\ share.live => share.to # {}
<1>. USE DEF IInv, Synchrony, Shared, Stopping
<1>1. /\ cfg.resume \in BOOLEAN /\ cfg.alert \in BOOLEAN
      /\ share.live \in BOOLEAN /\ share.alert \in BOOLEAN
  BY FieldTypes DEF TypeOK
<1>2. pc = "idle" /\ resumeFlag = cfg.resume
  BY DEF Idle, Synced
<1>3. CASE share.live
  BY <1>1, <1>2, <1>3
<1>4. CASE ~share.live
  <2>1. share.alert = FALSE
    BY <1>1, <1>4, ShareFields
  <2>2. cfg.resume = FALSE /\ cfg.alert = FALSE
    BY <1>1, <1>4
  <2>. QED
    BY <1>1, <1>2, <1>4, <2>1, <2>2
<1>. QED
  BY <1>3, <1>4

-----------------------------------------------------------------------------
(* The theorems *)

\* Every reachable state has the types the code declares.
THEOREM TypeCorrect == Spec => []TypeOK
<1>1. IInv => TypeOK
  BY DEF IInv
<1>. QED
  BY <1>1, Invariance, PTL

\* What was explicitly stopped is never revived by a crash, a reboot or a
\* handover (engine.rs: StopShare disarms on disk before it publishes STOP).
THEOREM NeverRevived == Spec => []NoRevival
<1>1. IInv => NoRevival
  BY DEF IInv, Synchrony, StoppedOnDisk, NoRevival
<1>. QED
  BY <1>1, Invariance, PTL

\* Between handlers config.json is the configuration in memory (engine.rs:
\* persist and its callers).
THEOREM DiskIsMemory == Spec => []DiskFollowsMemory
<1>1. IInv => DiskFollowsMemory
  BY DEF IInv, Synchrony, Synced, DiskFollowsMemory
<1>. QED
  BY <1>1, Invariance, PTL

\* Between handlers a share is armed for resume exactly while it runs
\* (engine.rs: begin_share, disarm_resume, ResumeShareIfArmed).
THEOREM ArmedIsShared == Spec => []ResumeMatchesShare
<1>1. IInv => ResumeMatchesShare
  BY ArmedWhenIdle DEF ResumeMatchesShare
<1>. QED
  BY <1>1, Invariance, PTL

\* An alert the groups were told of survives on disk, and every engine that
\* read the file and handled the resume runs it (engine.rs: set_alert and
\* begin_share persist before they publish; ResumeShareIfArmed).
THEOREM AlertKept == Spec => []AlertSurvives
<1>1. ASSUME IInv, raised
      PROVE  disk.alert /\ disk.resume
  BY <1>1 DEF IInv, Synchrony, RaisedOnDisk
<1>2. ASSUME IInv, raised, Idle, loaded, ~resuming
      PROVE  share.live /\ share.alert
  <2>1. cfg.alert /\ cfg.resume /\ pc = "idle"
    BY <1>2 DEF IInv, Synchrony, RaisedOnDisk, Idle
  <2>2. share.live
    BY <1>2, <2>1 DEF IInv, Synchrony, Shared
  <2>. QED
    BY <1>2, <2>1, <2>2 DEF IInv, Synchrony, Shared, Stopping
<1>3. IInv => AlertSurvives
  BY <1>1, <1>2 DEF AlertSurvives
<1>. QED
  BY <1>3, Invariance, PTL

-----------------------------------------------------------------------------
(* The check-in, the unread configuration, and the foreground service *)

\* The check-in is the persisted one throughout, also inside handlers; on disk a
\* deadline has a period; and a grace window still due is the running one.
Countdown ==
    /\ Up => /\ checkin.kind = "none"  <=> cfg.deadline = NoDeadline
             /\ checkin.kind = "armed"  => cfg.deadline = checkin.left
             /\ checkin.kind = "grace"  => cfg.deadline = 0
             /\ checkin.kind # "none"   => cfg.period > 0
    /\ disk.deadline # NoDeadline => disk.period > 0
    /\ graceLeft > 0 => checkin.kind = "grace" /\ checkin.left = graceLeft

\* Nothing but a command of the user makes an engine that could not read its
\* configuration write one: until then it has the defaults, and no check-in.
Unread ==
    ~loaded =>
        /\ pc = "idle" => cfg = DefaultConfig /\ checkin.kind = "none"
        /\ pc # "idle" =>
               pc = "save" /\ host = "ui" /\ job \notin {"decline", "escalate", "flush"}

Within(handler) == pc # "idle" /\ job = handler

\* Whom the foreground service runs for, by host.
Serving ==
    /\ host = "none" => ~service
    /\ host = "handoff" => (service <=> resumeFlag)
    /\ host = "ui" => Within("begin") \/ (service <=> share.live)
    /\ host = "headless" =>
          /\ share.live \/ checkin.kind # "none" \/ resuming \/ Within("escalate") => service
          /\ service => \/ share.live \/ checkin.kind # "none" \/ resuming \/ owed
                        \/ Within("decline") \/ (pc = "save" /\ job = "escalate")
    /\ Within("begin") => share.live
    /\ Within("stop") => host = "ui"
    /\ Within("decline") => ~resuming

CheckinInv == Countdown /\ Unread /\ Serving

\* Two configurations have the same check-in.
SameCountdown(c, d) == c.deadline = d.deadline /\ c.period = d.period

LEMMA CountdownFields ==
    /\ DefaultConfig.deadline = NoDeadline
    /\ \A c \in Config :
          /\ \A b \in BOOLEAN : SameCountdown(ArmedForResume(c, b), c)
          /\ \A b \in BOOLEAN : SameCountdown(WithAlert(c, b), c)
          /\ SameCountdown(Disarmed(c), c)
          /\ \A g, h \in SUBSET Groups : SameCountdown(WithGroups(c, g, h), c)
          /\ SameCountdown(WithNewKey(c), c)
          /\ \A d, p : WithCheckin(c, d, p).deadline = d /\ WithCheckin(c, d, p).period = p
          /\ AgedConfig(c).deadline = Less(c.deadline) /\ AgedConfig(c).period = c.period
BY DEF Config, DefaultConfig, Disarmed, ArmedForResume, WithAlert, WithCheckin, WithGroups,
       WithNewKey, AgedConfig, SameCountdown

LEMMA CheckinFields ==
    /\ NoCheckin.kind = "none"
    /\ StartupGrace.kind = "grace" /\ StartupGrace.left = Grace
    /\ \A l, p : Armed(l, p).kind = "armed" /\ Armed(l, p).left = l
    /\ \A k \in Checkin :
          /\ Reminded(k).kind = k.kind /\ Reminded(k).left = k.left
          /\ AgedCheckin(k).kind = k.kind /\ AgedCheckin(k).left = Less(k.left)
BY DEF Checkin, NoCheckin, StartupGrace, Armed, Reminded, AgedCheckin

\* What becomes of a countdown with one unit less.
LEMMA LessIs ==
    /\ Less(0) = 0 /\ Less(NoDeadline) = NoDeadline
    /\ \A n \in Nat : n > 0 => Less(n) = n - 1
BY ConstantsAssumption DEF Less

\* A step that leaves the check-in alone, in memory, or saves it.
LEMMA CountdownKept ==
    ASSUME TypeOK, Countdown, SameCountdown(cfg', cfg), Up' => Up,
           disk' = disk \/ (Up /\ disk' = cfg),
           checkin'.kind = checkin.kind, checkin'.left = checkin.left, graceLeft' = graceLeft
    PROVE  Countdown'
BY DEF Countdown, SameCountdown, Up

\* An engine has installed a check-in, or cleared it.
LEMMA CountdownSet ==
    ASSUME TypeOK, Countdown, disk' = disk, graceLeft' = 0,
           \/ \E secs \in Nat : InstallCheckin(secs)
           \/ \E handler : ClearCheckin(handler)
    PROVE  Countdown'
<1>1. cfg \in Config
  BY DEF TypeOK
<1>2. CASE \E secs \in Nat : InstallCheckin(secs)
  <2>1. PICK n \in Nat : n > 0 /\ checkin' = Armed(n, n) /\ cfg' = WithCheckin(cfg, n, n)
    BY <1>2 DEF InstallCheckin, AtLeastOne
  <2>. QED
    BY <1>1, <2>1, CountdownFields, CheckinFields, ConstantsAssumption DEF Countdown
<1>3. CASE \E handler : ClearCheckin(handler)
  <2>1. checkin' = NoCheckin /\ cfg' = WithCheckin(cfg, NoDeadline, 0)
    BY <1>3 DEF ClearCheckin
  <2>. QED
    BY <1>1, <2>1, CountdownFields, CheckinFields, ConstantsAssumption DEF Countdown
<1>. QED
  BY <1>2, <1>3

\* An engine starts from the file, or from the defaults.
LEMMA CountdownStarts ==
    ASSUME TypeOK, Countdown, NEW h, NEW readable \in BOOLEAN, StartEngine(h, readable)
    PROVE  Countdown'
<1>1. DefaultConfig \in Config /\ disk \in Config
  BY ConfigTypes DEF TypeOK
<1>2. PICK c \in Config : c = IF readable THEN disk ELSE DefaultConfig
  BY <1>1
<1>3. /\ cfg' = c /\ checkin' = EvaluatedCheckin(c) /\ disk' = disk
      /\ graceLeft' = IF readable /\ disk.deadline = 0 THEN Grace ELSE 0
  BY <1>2 DEF StartEngine, files
<1>4. c.deadline # NoDeadline => c.period > 0 /\ c.deadline \in Nat /\ c = disk /\ readable
  BY <1>2, CountdownFields, FieldTypes DEF Countdown
<1>5. CASE c.deadline = NoDeadline
  <2>1. checkin'.kind = "none" /\ graceLeft' = 0
    BY <1>2, <1>3, <1>5, CheckinFields, ConstantsAssumption DEF EvaluatedCheckin
  <2>. QED
    BY <1>3, <1>5, <2>1 DEF Countdown
<1>6. CASE c.deadline # NoDeadline /\ c.deadline > 0
  <2>1. checkin'.kind = "armed" /\ checkin'.left = c.deadline /\ graceLeft' = 0
    BY <1>3, <1>4, <1>6, CheckinFields DEF EvaluatedCheckin
  <2>. QED
    BY <1>3, <1>4, <1>6, <2>1 DEF Countdown
<1>7. CASE c.deadline # NoDeadline /\ ~(c.deadline > 0)
  <2>1. c.deadline = 0
    BY <1>4, <1>7
  <2>2. checkin'.kind = "grace" /\ checkin'.left = Grace /\ graceLeft' = Grace
    BY <1>3, <1>4, <1>7, <2>1, CheckinFields DEF EvaluatedCheckin
  <2>. QED
    BY <1>3, <1>4, <1>7, <2>1, <2>2 DEF Countdown
<1>. QED
  BY <1>5, <1>6, <1>7

\* One unit less for the check-in, the configuration and the file.
LEMMA CountdownAges == ASSUME TypeOK, Countdown, Elapse PROVE Countdown'
<1>1. /\ cfg' = AgedConfig(cfg) /\ disk' = AgedConfig(disk) /\ checkin' = AgedCheckin(checkin)
      /\ graceLeft' = Less(graceLeft) /\ host' = host
      /\ cfg \in Config /\ disk \in Config /\ checkin \in Checkin /\ graceLeft \in Nat
  BY DEF Elapse, TypeOK
<1>2. /\ cfg'.deadline = Less(cfg.deadline) /\ cfg'.period = cfg.period
      /\ disk'.deadline = Less(disk.deadline) /\ disk'.period = disk.period
      /\ checkin'.kind = checkin.kind /\ checkin'.left = Less(checkin.left)
  BY <1>1, CountdownFields, CheckinFields
<1>3. /\ cfg.deadline \in Nat \cup {NoDeadline} /\ disk.deadline \in Nat \cup {NoDeadline}
      /\ checkin.left \in Nat
  BY <1>1, FieldTypes
<1>4. \A n \in Nat \cup {NoDeadline} : (Less(n) = NoDeadline <=> n = NoDeadline) /\ (n = 0 => Less(n) = 0)
  BY ConstantsAssumption DEF Less
<1>5. Less(graceLeft) > 0 => graceLeft > 0
  BY <1>1, LessIs
<1>. QED
  BY <1>1, <1>2, <1>3, <1>4, <1>5 DEF Countdown, Up

\* The share's handlers leave the check-in alone.
LEMMA SharesKeepCountdown ==
    ASSUME TypeOK,
           \/ \E to : \E b \in BOOLEAN : BeginShare(to, b)
           \/ \E on \in BOOLEAN : ChangeAlert(on)
           \/ DisarmAndStop
           \/ cfg' = Disarmed(cfg)
           \/ UNCHANGED cfg
    PROVE  SameCountdown(cfg', cfg)
<1>1. cfg \in Config
  BY DEF TypeOK
<1>2. CASE \E to : \E b \in BOOLEAN : BeginShare(to, b)
  BY <1>1, <1>2, CountdownFields DEF BeginShare
<1>3. CASE \E on \in BOOLEAN : ChangeAlert(on)
  BY <1>1, <1>3, CountdownFields DEF ChangeAlert
<1>4. CASE DisarmAndStop
  BY <1>1, <1>4, CountdownFields DEF DisarmAndStop, SameCountdown
<1>5. CASE cfg' = Disarmed(cfg)
  BY <1>1, <1>5, CountdownFields
<1>6. CASE UNCHANGED cfg
  BY <1>6 DEF SameCountdown
<1>. QED
  BY <1>2, <1>3, <1>4, <1>5, <1>6

\* One step per group of actions that treat the check-in alike.
LEMMA CountdownStep == ASSUME TypeOK, Countdown, [Next]_vars PROVE Countdown'
<1>1. cfg \in Config /\ disk \in Config /\ share \in Share /\ checkin \in Checkin /\ graceLeft \in Nat
  BY DEF TypeOK
<1>2. CASE Files
  BY <1>1, <1>2, CountdownKept
     DEF Files, SaveConfig, WriteResumeFlag, Up, memory, observed, SameCountdown
<1>3. ASSUME TriggerPanic PROVE SameCountdown(cfg', cfg)
  BY <1>3, SharesKeepCountdown DEF TriggerPanic
<1>4. CASE Tails
  <2>1. SameCountdown(cfg', cfg)
    BY <1>3, <1>4 DEF Tails, FinishBegin, FinishAlert, FinishStop, FinishDecline, FinishArm,
       FinishDisarm, FinishEscalationDisarm, EscalatePanic, memory, SameCountdown
  <2>2. UNCHANGED <<host, disk, checkin, graceLeft>>
    BY <1>4 DEF Tails, FinishBegin, FinishAlert, FinishStop, FinishDecline, FinishArm,
       FinishDisarm, FinishEscalationDisarm, EscalatePanic, memory, files, observed
  <2>. QED
    BY <2>1, <2>2, CountdownKept DEF Up
<1>5. CASE StartShare \/ Panic \/ StopShare \/ LocationUnavailable \/ \E on \in BOOLEAN : SetAlert(on)
  <2>1. SameCountdown(cfg', cfg)
    BY <1>3, <1>5, SharesKeepCountdown
       DEF StartShare, Panic, StopShare, LocationUnavailable, SetAlert
  <2>2. UNCHANGED <<host, disk, checkin, graceLeft>>
    BY <1>5 DEF StartShare, Panic, StopShare, LocationUnavailable, SetAlert, files
  <2>. QED
    BY <2>1, <2>2, CountdownKept DEF Up
<1>6. ASSUME NEW secs \in Periods, ArmCheckin(secs) PROVE Countdown'
  <2>1. secs \in Nat
    BY ConstantsAssumption
  <2>. QED
    BY <1>6, <2>1, CountdownSet DEF ArmCheckin, files
<1>7. CASE ConfirmCheckin
  <2>1. ConfirmPeriod \in Nat
    BY <1>1, FieldTypes DEF ConfirmPeriod
  <2>. QED
    BY <1>7, <2>1, CountdownSet DEF ConfirmCheckin, files
<1>8. CASE DisarmCheckin
  BY <1>8, CountdownSet DEF DisarmCheckin, files
<1>9. ASSUME NEW g, NEW h, g \in SUBSET Groups, h \in SUBSET Groups, ChangeGroups(g, h)
      PROVE  Countdown'
  BY <1>1, <1>9, CountdownKept, CountdownFields DEF ChangeGroups, Up, files, observed
<1>10. CASE \E g \in Groups : AddGroup(g) \/ RemoveGroup(g) \/ ToggleGroup(g)
  BY <1>1, <1>9, <1>10, FieldTypes DEF AddGroup, RemoveGroup, ToggleGroup
<1>11. CASE \E g, new \in Groups : RotateGroup(g, new)
  BY <1>1, <1>9, <1>11, FieldTypes DEF RotateGroup
<1>12. CASE RotateSender
  BY <1>1, <1>12, CountdownKept, CountdownFields DEF RotateSender, Up, files, observed
<1>13. CASE \E readable \in BOOLEAN : Boot(readable) \/ OpenApp(readable) \/ HandoffFromUi(readable)
  <2>1. CASE \E readable \in BOOLEAN : \E h : StartEngine(h, readable)
    BY <2>1, CountdownStarts
  <2>2. CASE NoEngine("none")
    BY <2>2 DEF NoEngine, Countdown, Up, files
  <2>. QED
    BY <1>13, <2>1, <2>2 DEF Boot, OpenApp, HandoffFromUi
<1>14. CASE ClaimForUi \/ CloseApp \/ ServiceDestroyed \/ Crash
  BY <1>14 DEF ClaimForUi, CloseApp, ServiceDestroyed, Crash, NoEngine, Countdown, Up, files
<1>15. CASE ResumeShareIfArmed
  <2>1. SameCountdown(cfg', cfg)
    <3>1. cfg.alert \in BOOLEAN
      BY <1>1, FieldTypes
    <3>. QED
      BY <1>15, <3>1, SharesKeepCountdown DEF ResumeShareIfArmed, Resync
  <2>. QED
    BY <1>15, <2>1, CountdownKept DEF ResumeShareIfArmed, Up
<1>16. CASE FlushSeen
  BY <1>16, CountdownKept DEF FlushSeen, Up, memory, files, observed, SameCountdown
<1>17. CASE \E publishes \in BOOLEAN : Location(publishes)
  BY <1>17, CountdownKept DEF Location, Up, files, SameCountdown
<1>18. CASE \E publishes \in BOOLEAN : Tick(publishes)
  <2>1. TickCheckin /\ UNCHANGED <<host, disk, graceLeft>> /\ Up
    BY <1>18 DEF Tick, files, Idle
  <2>2. CASE Lapsed /\ ClearCheckin("escalate")
    <3>1. graceLeft' = 0
      BY <1>1, <2>1, <2>2 DEF Lapsed, Countdown
    <3>. QED
      BY <2>1, <2>2, <3>1, CountdownSet
  <2>3. CASE checkin' = Reminded(checkin) /\ UNCHANGED <<cfg, pc, job>>
    BY <1>1, <2>1, <2>3, CheckinFields, CountdownKept DEF Up, SameCountdown
  <2>4. CASE UNCHANGED <<cfg, checkin, pc, job>>
    BY <2>1, <2>4, CountdownKept DEF Up, SameCountdown
  <2>. QED
    BY <2>1, <2>2, <2>3, <2>4 DEF TickCheckin
<1>19. CASE Elapse
  BY <1>19, CountdownAges
<1>20. CASE UNCHANGED vars
  BY <1>20, CountdownKept DEF vars, memory, files, observed, Up, SameCountdown
<1>. QED
  BY <1>2, <1>4, <1>5, <1>6, <1>7, <1>8, <1>10, <1>11, <1>12, <1>13, <1>14, <1>15, <1>16,
     <1>17, <1>18, <1>19, <1>20 DEF Next, UserCommands, Hosting

-----------------------------------------------------------------------------
(* The configuration that could not be read *)

\* Only the actions that begin a handler can take Unread away.
LEMMA UnreadStep == ASSUME IInv, Unread, [Next]_vars PROVE Unread'
<1>1. /\ cfg \in Config /\ ~DefaultConfig.resume /\ DefaultConfig.groups = {}
      /\ NoCheckin.kind = "none" /\ DefaultConfig.deadline = NoDeadline
      /\ AgedConfig(DefaultConfig) = DefaultConfig /\ checkin \in Checkin
      /\ pc \in {"flag", "tail", "panic"} => loaded
      /\ loaded \in BOOLEAN
  BY ResumeFields, CountdownFields, CheckinFields, DefaultAges
     DEF IInv, TypeOK, Synchrony, Synced, DefaultConfig
<1>2. CASE Files
  BY <1>1, <1>2 DEF Files, SaveConfig, WriteResumeFlag, Unread, memory
<1>3. CASE Tails
  BY <1>1, <1>3 DEF Tails, FinishBegin, FinishAlert, FinishStop, FinishDecline, FinishArm,
     FinishDisarm, FinishEscalationDisarm, EscalatePanic, Tail, Unread, memory
<1>4. CASE UserCommands
  <2>1. UserCmd /\ UNCHANGED <<host, loaded>>
    BY <1>4 DEF UserCommands, StartShare, Panic, StopShare, LocationUnavailable, SetAlert,
       ArmCheckin, ConfirmCheckin, DisarmCheckin, AddGroup, RemoveGroup, ToggleGroup, RotateGroup,
       ChangeGroups, RotateSender
  <2>2. \/ pc' = "save" /\ job' \in {"begin", "alert", "stop", "arm", "disarm", "mutate"}
        \/ UNCHANGED <<pc, cfg, checkin>>
    BY <1>4 DEF UserCommands, StartShare, Panic, StopShare, LocationUnavailable, SetAlert,
       ArmCheckin, ConfirmCheckin, DisarmCheckin, AddGroup, RemoveGroup, ToggleGroup, RotateGroup,
       ChangeGroups, RotateSender, TriggerPanic, BeginShare, ChangeAlert, DisarmAndStop,
       InstallCheckin, ClearCheckin, Persist
  <2>. QED
    BY <2>1, <2>2 DEF Unread, UserCmd, Idle
<1>5. ASSUME NEW h, NEW readable \in BOOLEAN, StartEngine(h, readable) PROVE Unread'
  BY <1>1, <1>5 DEF StartEngine, Unread, EvaluatedCheckin
<1>6. ASSUME NEW h, NoEngine(h) PROVE Unread'
  BY <1>1, <1>6 DEF NoEngine, Unread
<1>7. CASE Hosting
  BY <1>5, <1>6, <1>7 DEF Hosting, Boot, OpenApp, HandoffFromUi, ClaimForUi, CloseApp,
     ServiceDestroyed, Crash
<1>8. CASE ResumeShareIfArmed
  BY <1>1, <1>8 DEF ResumeShareIfArmed, Resync, Unread, Idle
<1>9. CASE FlushSeen
  BY <1>1, <1>9 DEF FlushSeen, Unread, Idle, memory
<1>10. CASE \E publishes \in BOOLEAN : Location(publishes)
  BY <1>10 DEF Location, Unread
<1>11. CASE \E publishes \in BOOLEAN : Tick(publishes)
  BY <1>1, <1>11, CheckinFields DEF Tick, TickCheckin, Lapsed, ReminderDue, Unread, Idle
<1>12. CASE Elapse
  BY <1>1, <1>12, CheckinFields DEF Elapse, Unread
<1>13. CASE UNCHANGED vars
  BY <1>13 DEF vars, memory, Unread
<1>. QED
  BY <1>2, <1>3, <1>4, <1>7, <1>8, <1>9, <1>10, <1>11, <1>12, <1>13 DEF Next

-----------------------------------------------------------------------------
(* The foreground service *)

\* A panic leaves the service as it is, and a share that it begins alive.
LEMMA PanicServes ==
    ASSUME IInv, TriggerPanic
    PROVE  /\ share'.live /\ pc' = "save" /\ job' \in {"begin", "alert"}
           /\ job' = "alert" => share.live
<1>1. share \in Share
  BY DEF IInv, TypeOK
<1>2. CASE share.live /\ ChangeAlert(TRUE)
  BY <1>1, <1>2, ShareFields DEF ChangeAlert, Persist
<1>3. CASE BeginShare(EmergencyRecipients, TRUE)
  <2>1. EmergencyRecipients \in SUBSET Groups
    BY FieldTypes DEF IInv, TypeOK, EmergencyRecipients
  <2>. QED
    BY <1>3, <2>1, ShareFields DEF BeginShare, Persist
<1>. QED
  BY <1>2, <1>3 DEF TriggerPanic

\* In memory, and inside the handlers that end a share, resume is off.
LEMMA ServingFacts ==
    ASSUME IInv
    PROVE  /\ cfg \in Config /\ share \in Share /\ checkin \in Checkin
           /\ service \in BOOLEAN /\ share.live \in BOOLEAN /\ resumeFlag \in BOOLEAN
           /\ owed \in BOOLEAN /\ resuming \in BOOLEAN
           /\ ~NoShare.live /\ NoCheckin.kind = "none"
           /\ ~Up => ~share.live
           /\ pc # "idle" => Up
           /\ cfg.alert => share.live \/ resuming
           /\ Within("decline") => ~cfg.resume
           /\ ~cfg.resume /\ ~cfg.alert /\ Idle => ~share.live
           /\ pc = "panic" => job = "escalate"
<1>1. /\ cfg \in Config /\ share \in Share /\ checkin \in Checkin
      /\ service \in BOOLEAN /\ resumeFlag \in BOOLEAN /\ owed \in BOOLEAN /\ resuming \in BOOLEAN
  BY DEF IInv, TypeOK
<1>2. share.live \in BOOLEAN /\ ~NoShare.live /\ NoCheckin.kind = "none"
  BY <1>1, FieldTypes, ShareFields, CheckinFields
<1>3. /\ ~Up => ~share.live
      /\ pc # "idle" => Up
      /\ cfg.alert => share.live \/ resuming
      /\ Within("decline") => ~cfg.resume
      /\ ~cfg.resume /\ ~cfg.alert /\ Idle => ~share.live
      /\ pc = "panic" => job = "escalate"
  BY <1>2 DEF IInv, Synchrony, Hosted, Shared, Stopping, Within, Idle
<1>. QED
  BY <1>1, <1>2, <1>3

LEMMA ServingStep == ASSUME IInv, Serving, [Next]_vars PROVE Serving'
<1>1. /\ cfg \in Config /\ share \in Share /\ checkin \in Checkin
      /\ service \in BOOLEAN /\ share.live \in BOOLEAN /\ resumeFlag \in BOOLEAN
      /\ owed \in BOOLEAN /\ resuming \in BOOLEAN
      /\ ~NoShare.live /\ NoCheckin.kind = "none"
      /\ ~Up => ~share.live
      /\ pc # "idle" => Up
      /\ cfg.alert => share.live \/ resuming
      /\ Within("decline") => ~cfg.resume
      /\ ~cfg.resume /\ ~cfg.alert /\ Idle => ~share.live
      /\ pc = "panic" => job = "escalate"
  BY ServingFacts
<1>2. CASE SaveConfig
  BY <1>1, <1>2 DEF SaveConfig, Serving, Within, Up
<1>3. CASE WriteResumeFlag
  BY <1>1, <1>3 DEF WriteResumeFlag, Serving, Within, Up, memory, observed
<1>4. CASE FinishBegin
  BY <1>1, <1>4 DEF FinishBegin, Tail, Serving, Within, Up, memory, files, observed
<1>5. CASE FinishAlert \/ FinishArm \/ FinishDisarm \/ FinishEscalationDisarm
  BY <1>1, <1>5 DEF FinishAlert, FinishArm, FinishDisarm, FinishEscalationDisarm, Tail, Serving,
     Within, Up, memory, files, observed
<1>6. CASE FinishStop
  BY <1>1, <1>6 DEF FinishStop, ReleaseShare, Tail, Serving, Within, Up, files
<1>7. CASE FinishDecline
  <2>1. /\ Up /\ pc = "tail" /\ job = "decline" /\ pc' = "idle"
        /\ UNCHANGED <<host, share, checkin, resuming, owed, job>>
    BY <1>7 DEF FinishDecline, Tail, memory, observed
  <2>2. service' <=> service /\ (share.live \/ checkin.kind # "none")
    BY <1>1, <1>7 DEF FinishDecline, ReleaseUnused
  <2>. QED
    BY <1>1, <2>1, <2>2 DEF Serving, Within, Up
<1>8. CASE EscalatePanic
  <2>1. CASE TriggerPanic
    BY <1>1, <1>8, <2>1, PanicServes DEF EscalatePanic, Serving, Within, Up, files
  <2>2. CASE PanicIsNoOp /\ pc' = "idle" /\ UNCHANGED <<cfg, share, job, stopped>>
    BY <1>1, <1>8, <2>2 DEF EscalatePanic, Serving, Within, Up, files
  <2>. QED
    BY <1>8, <2>1, <2>2 DEF EscalatePanic
<1>9. CASE StartShare
  <2>1. share'.live
    BY <1>1, <1>9, FieldTypes, ShareFields DEF StartShare, BeginShare, SelectedRecipients
  <2>. QED
    BY <1>1, <1>9, <2>1 DEF StartShare, BeginShare, Persist, Serving, Within, UserCmd, Idle
<1>10. CASE Panic
  BY <1>1, <1>10, PanicServes DEF Panic, Serving, Within, UserCmd, Idle
<1>11. ASSUME UserCmd, DisarmAndStop, UNCHANGED <<host, checkin, resuming, files>>
       PROVE  Serving'
  <2>1. CASE Persist("stop") /\ UNCHANGED <<service, share>>
    BY <1>1, <1>11, <2>1 DEF Persist, Serving, Within, UserCmd, Idle
  <2>2. CASE ReleaseShare /\ UNCHANGED <<cfg, pc, job>>
    BY <1>1, <1>11, <2>2 DEF ReleaseShare, Serving, Within, UserCmd, Idle
  <2>. QED
    BY <1>11, <2>1, <2>2 DEF DisarmAndStop
<1>12. CASE StopShare
  BY <1>11, <1>12 DEF StopShare
<1>13. CASE LocationUnavailable
  <2>1. CASE ~share.live /\ service' = FALSE /\ UNCHANGED <<share, pc, job>>
    BY <1>1, <1>13, <2>1 DEF LocationUnavailable, Serving, Within, UserCmd, Idle
  <2>. QED
    BY <1>11, <1>13, <2>1 DEF LocationUnavailable
<1>14. ASSUME NEW on \in BOOLEAN, SetAlert(on) PROVE Serving'
  BY <1>1, <1>14, ShareFields DEF SetAlert, ChangeAlert, Persist, Serving, Within, UserCmd, Idle
<1>15. ASSUME UserCmd, pc' = "save", job' \in {"arm", "disarm", "mutate"},
              UNCHANGED <<host, service, share>>
       PROVE  Serving'
  BY <1>1, <1>15 DEF Serving, Within, UserCmd, Idle
<1>16. CASE \/ \E secs \in Periods : ArmCheckin(secs)
            \/ ConfirmCheckin \/ DisarmCheckin
            \/ \E g \in Groups : AddGroup(g) \/ RemoveGroup(g) \/ ToggleGroup(g)
            \/ \E g, new \in Groups : RotateGroup(g, new)
            \/ RotateSender
  BY <1>15, <1>16 DEF ArmCheckin, ConfirmCheckin, DisarmCheckin, InstallCheckin, ClearCheckin,
     AddGroup, RemoveGroup, ToggleGroup, RotateGroup, ChangeGroups, RotateSender, Persist
<1>17. ASSUME NEW readable \in BOOLEAN, Boot(readable) PROVE Serving'
  BY <1>1, <1>17 DEF Boot, StartEngine, Serving, Within
<1>18. ASSUME NEW readable \in BOOLEAN, OpenApp(readable) PROVE Serving'
  BY <1>1, <1>18 DEF OpenApp, StartEngine, Serving, Within
<1>19. ASSUME NEW readable \in BOOLEAN, HandoffFromUi(readable) PROVE Serving'
  BY <1>1, <1>19 DEF HandoffFromUi, StartEngine, NoEngine, Serving, Within
<1>20. CASE CloseApp
  <2>1. resumeFlag = share.live
    BY <1>20, ArmedWhenIdle DEF CloseApp
  <2>. QED
    BY <1>1, <1>20, <2>1 DEF CloseApp, NoEngine, Serving, Within, Idle, files
<1>21. CASE ClaimForUi \/ ServiceDestroyed \/ Crash
  BY <1>1, <1>21 DEF ClaimForUi, ServiceDestroyed, Crash, NoEngine, Serving, Within
<1>22. CASE ResumeShareIfArmed
  <2>1. CASE ~share.live /\ BeginShare(ResumeRecipients, cfg.alert) /\ UNCHANGED <<service, owed>>
    <3>1. ResumeRecipients \in SUBSET Groups /\ cfg.alert \in BOOLEAN
      BY <1>1, FieldTypes DEF ResumeRecipients, EmergencyRecipients, SelectedRecipients
    <3>2. share'.live
      BY <2>1, <3>1, ShareFields DEF BeginShare
    <3>. QED
      BY <1>1, <1>22, <2>1, <3>2 DEF ResumeShareIfArmed, BeginShare, Persist, Serving, Within, Idle, Up
  <2>2. CASE Persist("decline") /\ UNCHANGED <<service, share>> /\ ~share.live
    BY <1>1, <1>22, <2>2 DEF ResumeShareIfArmed, Persist, Serving, Within, Idle, Up
  <2>3. CASE share.live /\ UNCHANGED <<service, share, pc, job, owed>>
    BY <1>1, <1>22, <2>3 DEF ResumeShareIfArmed, Serving, Within, Idle, Up
  <2>4. CASE ~cfg.resume /\ Resync /\ UNCHANGED <<share, owed>>
    BY <1>1, <1>22, <2>4 DEF ResumeShareIfArmed, Resync, ReleaseUnused, Serving, Within, Idle, Up
  <2>. QED
    BY <1>22, <2>1, <2>2, <2>3, <2>4 DEF ResumeShareIfArmed
<1>23. CASE FlushSeen
  BY <1>1, <1>23 DEF FlushSeen, Persist, Serving, Within, Idle, Up, memory, files, observed
<1>24. CASE \E publishes \in BOOLEAN : Location(publishes)
  BY <1>1, <1>24, ShareFields DEF Location, Serving, Within, Idle, Up, files
<1>25. CASE \E publishes \in BOOLEAN : Tick(publishes)
  <2>1. TickCheckin /\ Idle /\ UNCHANGED <<host, service, share, resuming, files, owed>>
    BY <1>25 DEF Tick
  <2>2. CASE Lapsed /\ ClearCheckin("escalate")
    BY <1>1, <2>1, <2>2 DEF Lapsed, ClearCheckin, Persist, Serving, Within, Idle, Up, files
  <2>3. CASE checkin' = Reminded(checkin) /\ UNCHANGED <<pc, job>>
    BY <1>1, <2>1, <2>3, CheckinFields DEF Serving, Within, Idle, Up, files
  <2>4. CASE UNCHANGED <<checkin, pc, job>>
    BY <1>1, <2>1, <2>4 DEF Serving, Within, Idle, Up, files
  <2>. QED
    BY <2>1, <2>2, <2>3, <2>4 DEF TickCheckin
<1>26. CASE Elapse
  BY <1>1, <1>26, CheckinFields DEF Elapse, Serving, Within
<1>27. CASE UNCHANGED vars
  BY <1>27 DEF vars, memory, files, observed, Serving, Within
<1>. QED
  BY <1>2, <1>3, <1>4, <1>5, <1>6, <1>7, <1>8, <1>9, <1>10, <1>12, <1>13, <1>14, <1>16, <1>17,
     <1>18, <1>19, <1>20, <1>21, <1>22, <1>23, <1>24, <1>25, <1>26, <1>27
     DEF Next, Files, Tails, UserCommands, Hosting

-----------------------------------------------------------------------------
(* What follows of the three *)

LEMMA CheckinInit == ASSUME Init PROVE CheckinInv
<1>1. DefaultConfig.deadline = NoDeadline /\ NoCheckin.kind = "none" /\ ~NoShare.live
  BY CountdownFields, CheckinFields, ShareFields
<1>2. disk.deadline = NoDeadline
  BY DEF Init
<1>. QED
  BY <1>1, <1>2 DEF Init, CheckinInv, Countdown, Unread, Serving, Within, Up

LEMMA CheckinInvariance == Spec => []CheckinInv
<1>1. Init => CheckinInv
  BY CheckinInit
<1>2. IInv /\ CheckinInv /\ [Next]_vars => CheckinInv'
  BY CountdownStep, UnreadStep, ServingStep DEF IInv, CheckinInv
<1>. QED
  BY <1>1, <1>2, Invariance, PTL DEF Spec

\* Between handlers the running check-in is the persisted one (engine.rs:
\* install_checkin, disarm_checkin, evaluate_checkin_on_start).
THEOREM CheckinPersisted == Spec => []CheckinMatchesConfig
<1>1. CheckinInv => CheckinMatchesConfig
  BY DEF CheckinInv, Countdown, CheckinMatchesConfig, Idle
<1>. QED
  BY <1>1, CheckinInvariance, PTL

\* An engine that could not read its configuration writes one only for the user
\* (engine.rs: Engine::new, ResumeShareIfArmed, flush_seen).
THEOREM UnreadKept == Spec => []UnreadConfigKept
<1>1. CheckinInv => UnreadConfigKept
  BY DEF CheckinInv, Unread, UnreadConfigKept
<1>. QED
  BY <1>1, CheckinInvariance, PTL

\* A headless share or countdown keeps its service, and the service its consumer
\* (engine.rs: ResumeShareIfArmed, stop_share; headless.rs).
THEOREM ServedWhileNeeded == Spec => []ServiceWhileNeeded
<1>1. IInv /\ CheckinInv => ServiceWhileNeeded
  <2>1. ASSUME IInv, CheckinInv, service, pc = "idle", ~owed
        PROVE  share.live \/ checkin.kind # "none" \/ resuming \/ host = "handoff"
    <3>1. host \in {"none", "ui", "headless", "handoff"}
      BY <2>1 DEF IInv, TypeOK
    <3>. QED
      BY <2>1, <3>1 DEF CheckinInv, Serving, Within
  <2>. QED
    BY <2>1 DEF CheckinInv, Serving, ServiceWhileNeeded
<1>. QED
  BY <1>1, CheckinInvariance, Invariance, PTL

\* Only the tick that finds a countdown at its end escalates, and then no grace
\* is due any more.
LEMMA EscalatesAfterGrace ==
    ASSUME IInv, CheckinInv, [Next]_vars, job # "escalate", job' = "escalate"
    PROVE  graceLeft = 0
<1>1. checkin \in Checkin /\ graceLeft \in Nat
  BY DEF IInv, TypeOK
<1>2. CASE Lapsed
  BY <1>1, <1>2 DEF Lapsed, CheckinInv, Countdown
<1>3. CASE ~Lapsed
  <2>1. ~Files /\ ~Tails
    BY PanicTypes DEF Files, SaveConfig, WriteResumeFlag, Tails, FinishBegin, FinishAlert, FinishStop,
       FinishDecline, FinishArm, FinishDisarm, FinishEscalationDisarm, EscalatePanic, IInv, memory
  <2>2. ~UserCommands
    BY DEF UserCommands, StartShare, Panic, StopShare, LocationUnavailable, SetAlert,
       ArmCheckin, ConfirmCheckin, DisarmCheckin, AddGroup, RemoveGroup, ToggleGroup, RotateGroup,
       ChangeGroups, RotateSender, TriggerPanic, BeginShare, ChangeAlert, DisarmAndStop,
       InstallCheckin, ClearCheckin, Persist
  <2>3. ~Hosting
    BY DEF Hosting, Boot, OpenApp, HandoffFromUi, ClaimForUi, CloseApp, ServiceDestroyed, Crash,
       StartEngine, NoEngine
  <2>4. ~ResumeShareIfArmed /\ ~FlushSeen
    BY DEF ResumeShareIfArmed, Resync, BeginShare, FlushSeen, Persist
  <2>5. \A publishes \in BOOLEAN : ~Location(publishes) /\ ~Tick(publishes)
    BY <1>3 DEF Location, Tick, TickCheckin
  <2>6. ~Elapse /\ ~UNCHANGED vars
    BY DEF Elapse, vars
  <2>. QED
    BY <2>1, <2>2, <2>3, <2>4, <2>5, <2>6 DEF Next
<1>. QED
  BY <1>2, <1>3

\* A check-in that lapsed while no engine ran escalates only when the whole
\* grace window has passed (engine.rs: evaluate_checkin_on_start, tick_checkin).
THEOREM GraceComesFirst == Spec => GraceBeforeAlarm
<1>1. IInv /\ CheckinInv /\ [Next]_vars =>
          [job # "escalate" /\ job' = "escalate" => graceLeft = 0]_vars
  BY EscalatesAfterGrace
<1>. QED
  BY <1>1, CheckinInvariance, Invariance, PTL DEF Spec, GraceBeforeAlarm
=============================================================================
