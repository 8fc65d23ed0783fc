------------------------------- MODULE Groups -------------------------------
(***************************************************************************)
(* Groups and their relays.  The user imports groups from invites, rotates *)
(* and deletes them, and edits the relay list by hand                      *)
(* (src/app/src/controller.rs); the engine (src/core/src/engine.rs)        *)
(* applies each as one command to its Config (src/core/src/config.rs),     *)
(* saves it and sends a snapshot back.                                     *)
(*                                                                         *)
(* What the controller decides, it decides on the last snapshot it got, so *)
(* commands and snapshots travel through queues of their own, and so does  *)
(* the text a scan puts in the import form.  Names, labels and messages    *)
(* are left out; saves succeed and nothing crashes (ShareEngine has that). *)
(***************************************************************************)
EXTENDS Naturals, Sequences, FiniteSets, SequencesExt, Lists

CONSTANTS
    Stored,          \* configs an older version may have left on disk
    DefaultRelays,   \* default_relays(): a sequence
    Texts,           \* what can be scanned, pasted or typed
    Canonical,       \* normalize_relay_url: URL -> relay, or NoRelay
    Minted,          \* fresh pseudonym keys
    MinRelays,       \* MIN_RELAYS
    MaxInviteRelays, \* MAX_INVITE_RELAYS
    NoRelay, NoKey, Nothing,
    MaxCommands,     \* bound: commands sent
    MaxOffers        \* bound: texts scanned, pasted or typed

Relays == {Canonical[u] : u \in DOMAIN Canonical} \ {NoRelay}

Urls   == DOMAIN Canonical

(* Public keys that are in use, in invites or on disk, or will be. *)
Publics ==
    Minted \cup {t.key.public : t \in Texts}
        \cup UNION {{g.public : g \in ToSet(c.groups)} : c \in Stored}

Key == [public: Publics, secret: BOOLEAN]

ASSUME GroupsAssumption ==
    /\ \A r \in Relays : r \in Urls /\ Canonical[r] = r
    /\ Texts \subseteq [key: Key, urls: Seq(Urls)]
    /\ Stored \subseteq
           [relays: Seq(Urls), auto: SUBSET Urls,
            groups: Seq([public: Publics, secret: BOOLEAN, selected: BOOLEAN,
                         relays: Seq(Urls)])]
    /\ DefaultRelays \in Seq(Relays)
    /\ NoKey.public \notin Minted
    /\ MinRelays \in Nat /\ MaxInviteRelays \in Nat
    /\ MaxCommands \in Nat /\ MaxOffers \in Nat
    /\ Cardinality(Minted) >= MaxCommands

VARIABLES
    config,    \* the engine's Config: relays, auto_relays, groups
    share,     \* ShareState::recipients; {} without a share
    cmds,      \* EngineCmds on their way
    snapshots, \* UiEvent::Configs on their way
    view,      \* ViewState::config
    pending,   \* ViewState::pending_invite
    confirm,   \* ViewState::confirm, shown as a dialog
    field,     \* the import form's key field
    fills,     \* closures that will fill it
    sent, offers, minted,
    (*********************************************************************)
    (* Observation only.                                                 *)
    (*********************************************************************)
    typed,     \* relays the user added and has not removed
    dropped,   \* relays the user removed and nothing brought back
    retired,   \* keys rotated away
    heard      \* keys broadcast to since the last rotation

engine     == <<config, share>>
controller == <<view, pending, confirm>>
form       == <<field, fills>>
bounds     == <<sent, offers, minted>>
seen       == <<typed, dropped, retired, heard>>
vars == <<engine, cmds, snapshots, controller, form, bounds, seen>>

-----------------------------------------------------------------------------
(***************************************************************************)
(* Relay URLs and invites.                                                 *)
(***************************************************************************)
First(s, n) == SubSeq(s, 1, IF Len(s) < n THEN Len(s) ELSE n)

(* Of each relay its first spelling counts; what is no URL is dropped. *)
NormalizeOne(kept, url) ==
    IF Canonical[url] = NoRelay \/ Contains(kept, Canonical[url]) THEN kept
    ELSE Append(kept, Canonical[url])

NormalizeDedup(urls) ==
    LET kept[n \in 0..Len(urls)] ==
            IF n = 0 THEN <<>> ELSE NormalizeOne(kept[n - 1], urls[n])
    IN  kept[Len(urls)]

InviteRelays(urls) == First(NormalizeDedup(urls), MaxInviteRelays)

(* A text is an invite, whose key is looked at only on import, or a bare   *)
(* key (no urls); anything else is refused.                                *)
ParseShared(text) ==
    IF text.key = NoKey /\ text.urls = <<>> THEN Nothing
    ELSE [key |-> text.key, relays |-> InviteRelays(text.urls)]

-----------------------------------------------------------------------------
(***************************************************************************)
(* Config.                                                                 *)
(***************************************************************************)
IndexOf(groups, public) == SelectInSeq(groups, LAMBDA g : g.public = public)

(* Mutant: the list itself is taken as it is on disk. *)
RelaysAsStored(c) ==
    [relays |-> c.relays,
     auto   |-> {Canonical[u] : u \in c.auto} \cap ToSet(c.relays),
     groups |-> [i \in DOMAIN c.groups |->
                    [c.groups[i] EXCEPT !.relays = NormalizeDedup(@)]]]

NormalizeRelays(c) ==
    LET relays == NormalizeDedup(c.relays)
    IN  [relays |-> relays,
         auto   |-> {Canonical[u] : u \in c.auto} \cap ToSet(relays),
         groups |-> [i \in DOMAIN c.groups |->
                        [c.groups[i] EXCEPT !.relays = NormalizeDedup(@)]]]

AbsorbRelays(c, relays) ==
    LET new == Without(relays, ToSet(c.relays))
    IN  [c EXCEPT !.relays = @ \o new, !.auto = @ \cup ToSet(new)]

AddImportedGroup(c, key, urls) ==
    LET relays == InviteRelays(urls)
        group  == [public |-> key.public, secret |-> key.secret,
                   selected |-> TRUE, relays |-> relays]
    IN  [AbsorbRelays(c, relays) EXCEPT !.groups = Append(@, group)]

MergeGroupRelays(c, public, urls) ==
    LET at     == IndexOf(c.groups, public)
        relays == InviteRelays(urls)
        union(own) == own \o Without(relays, ToSet(own))
    IN  IF at = 0 THEN c
        ELSE [AbsorbRelays(c, relays) EXCEPT !.groups[at].relays = union(@)]

(* Mutant: relays of the groups that stay are pruned too. *)
OrphanedAnyway(c, r) == r \in c.auto

Orphaned(c, r) ==
    /\ r \in c.auto
    /\ \A i \in DOMAIN c.groups : ~Contains(c.groups[i].relays, r)

(* One candidate; the groups stay as they are, and with them what is used. *)
PruneOne(c, r) ==
    IF Len(c.relays) <= MinRelays \/ ~Orphaned(c, r) THEN c
    ELSE [c EXCEPT !.relays = Without(@, {r}), !.auto = @ \ {r}]

PruneAutoRelays(c, candidates) ==
    LET pruned[n \in 0..Len(candidates)] ==
            IF n = 0 THEN c ELSE PruneOne(pruned[n - 1], candidates[n])
    IN  pruned[Len(candidates)]

RemoveGroup(c, public) ==
    LET at == IndexOf(c.groups, public)
    IN  IF at = 0 THEN c
        ELSE PruneAutoRelays([c EXCEPT !.groups = RemoveAt(@, at)],
                             c.groups[at].relays)

(* Mutant: a relay the user adds by hand stays on the automatic list. *)
AddRelayStillAuto(c, r) ==
    [c EXCEPT !.relays = IF Contains(@, r) THEN @ ELSE Append(@, r)]

AddRelay(c, r) ==
    [c EXCEPT !.relays = IF Contains(@, r) THEN @ ELSE Append(@, r),
              !.auto = @ \ {r}]

RemoveRelay(c, r) ==
    [c EXCEPT !.relays = Without(@, {r}), !.auto = @ \ {r}]

-----------------------------------------------------------------------------
(***************************************************************************)
(* The engine: one command, the saved Config, one snapshot.                *)
(***************************************************************************)
NewMember(public) ==
    [public |-> public, secret |-> TRUE, selected |-> TRUE, relays |-> <<>>]

(* One is as good as another, and there are enough: see GroupsAssumption. *)
Fresh == CHOOSE k \in Minted \ minted : TRUE

(* Group::rotate: a fresh key pair under the same name, selection, relays. *)
Rotated(c, at, public) ==
    [c EXCEPT !.groups[at].public = public, !.groups[at].secret = TRUE]

Toggled(c, public, on) ==
    LET at == IndexOf(c.groups, public)
    IN  IF at = 0 THEN c ELSE [c EXCEPT !.groups[at].selected = on]

Mutated(c, cmd) ==
    CASE cmd.op = "create"      -> [c EXCEPT !.groups = Append(@, NewMember(cmd.key))]
      [] cmd.op = "import"      -> AddImportedGroup(c, cmd.key, cmd.relays)
      [] cmd.op = "merge"       -> MergeGroupRelays(c, cmd.key, cmd.relays)
      [] cmd.op = "toggle"      -> Toggled(c, cmd.key, cmd.on)
      [] cmd.op = "delete"      -> RemoveGroup(c, cmd.key)
      [] cmd.op = "add_relay"   -> AddRelay(c, cmd.relay)
      [] cmd.op = "remove_relay" -> RemoveRelay(c, cmd.relay)

(* What the user did to the relay list by hand, and what imports undid. *)
Observe(cmd) ==
    /\ typed' = CASE cmd.op = "add_relay"    -> typed \cup {cmd.relay}
                  [] cmd.op = "remove_relay" -> typed \ {cmd.relay}
                  [] OTHER -> typed
    /\ dropped' = (IF cmd.op = "remove_relay" THEN dropped \cup {cmd.relay} ELSE dropped)
                    \ ToSet(config'.relays)
    /\ retired' = IF cmd.op = "import" THEN retired \ {cmd.key.public} ELSE retired
    /\ UNCHANGED heard

(* One Config event, with all that the controller decides on. *)
EmitConfig == snapshots' = Append(snapshots, config')

Mutate ==
    /\ cmds # <<>> /\ Head(cmds).op \notin {"rotate", "start", "stop"}
    /\ config' = Mutated(config, Head(cmds))
    /\ cmds' = Tail(cmds)
    /\ EmitConfig
    /\ Observe(Head(cmds))
    /\ UNCHANGED <<share, controller, form, bounds>>

(* The running share is not touched: it keeps the recipients it has. *)
RotateGroup ==
    /\ cmds # <<>> /\ Head(cmds).op = "rotate"
    /\ cmds' = Tail(cmds)
    /\ LET old == Head(cmds).key
           at  == IndexOf(config.groups, old)
       IN  IF at = 0 THEN UNCHANGED <<config, snapshots, minted, retired, heard>>
           ELSE /\ minted # Minted
                /\ config' = Rotated(config, at, Fresh)
                /\ EmitConfig
                /\ minted' = minted \cup {Fresh}
                /\ retired' = retired \cup {old}
                /\ heard' = {}
    /\ UNCHANGED <<share, controller, form, sent, offers, typed, dropped>>

(* RequestGroupShare, asked for by a tap and by every create and rotation; *)
(* it changes nothing.  The invite tells the oldest relays of the sharer.  *)
InviteRelaysOf(c) == First(c.relays, MaxInviteRelays)

GroupShare(c, g) == [public |-> g.public, secret |-> g.secret, relays |-> InviteRelaysOf(c)]

(* Members pass on the secret, a send-only group has the public key only. *)
SharedKey(gs) == [public |-> gs.public, secret |-> gs.secret]

BuildInvite(gs) ==
    [key |-> SharedKey(gs), urls |-> First(gs.relays, MaxInviteRelays)]

SelectedRecipients ==
    {g.public : g \in {h \in ToSet(config.groups) : h.selected}}

StartShare ==
    /\ cmds # <<>> /\ Head(cmds).op = "start"
    /\ cmds' = Tail(cmds)
    /\ share' = IF share = {} THEN SelectedRecipients ELSE share
    /\ UNCHANGED <<config, snapshots, controller, form, bounds, seen>>

StopShare ==
    /\ cmds # <<>> /\ Head(cmds).op = "stop"
    /\ cmds' = Tail(cmds)
    /\ share' = {}
    /\ UNCHANGED <<config, snapshots, controller, form, bounds, seen>>

PublishActive ==
    /\ share # {}
    /\ heard' = heard \cup share
    /\ UNCHANGED <<engine, cmds, snapshots, controller, form, bounds,
                   typed, dropped, retired>>

-----------------------------------------------------------------------------
(***************************************************************************)
(* The controller.                                                         *)
(***************************************************************************)
OnConfig ==
    /\ snapshots # <<>>
    /\ view' = Head(snapshots)
    /\ snapshots' = Tail(snapshots)
    /\ UNCHANGED <<engine, cmds, pending, confirm, form, bounds, seen>>

Fill ==
    /\ fills # <<>>
    /\ field' = Head(fills)
    /\ fills' = Tail(fills)
    /\ UNCHANGED <<engine, cmds, snapshots, controller, bounds, seen>>

Offer == offers < MaxOffers /\ offers' = offers + 1

Bare(key) == [key |-> key, urls |-> <<>>]

(* A scan or a tapped link: the relays go to the stash, the bare key will  *)
(* go to the form.  Anything but an invite or a key is refused.            *)
OnIncomingInvite(text) ==
    /\ Offer
    /\ ParseShared(text) # Nothing
    /\ pending' = ParseShared(text)
    /\ fills' = Append(fills, Bare(text.key))
    /\ UNCHANGED <<engine, cmds, snapshots, view, confirm, field, sent, minted, seen>>

(* Pasting: the same, but junk is shown in the form as it is. *)
PasteInvite(text) ==
    /\ Offer
    /\ pending' = IF ParseShared(text) = Nothing THEN pending ELSE ParseShared(text)
    /\ fills' = Append(fills, Bare(text.key))
    /\ UNCHANGED <<engine, cmds, snapshots, view, confirm, field, sent, minted, seen>>

(* The user edits the field, with a whole invite if he likes. *)
Type(text) ==
    /\ Offer
    /\ field' = text
    /\ UNCHANGED <<engine, cmds, snapshots, controller, fills, sent, minted, seen>>

Send(cmd) ==
    /\ sent < MaxCommands
    /\ sent' = sent + 1
    /\ cmds' = Append(cmds, cmd)

ViewRelays == IF view = Nothing THEN DefaultRelays ELSE view.relays
ViewGroups == IF view = Nothing THEN {} ELSE ToSet(view.groups)

CountNewRelays(urls) ==
    Len(Without(InviteRelays(urls), ToSet(ViewRelays)))

(* Mutant: the stashed relays are used whatever key is imported. *)
StashedForAnyKey(key) == IF pending = Nothing THEN <<>> ELSE pending.relays

StashedFor(key) ==
    IF pending # Nothing /\ pending.key = key THEN pending.relays ELSE <<>>

ImportGroup ==
    /\ field # Nothing /\ sent < MaxCommands
    /\ pending' = Nothing
    /\ LET key    == field.key
           relays == InviteRelays(field.urls) \o StashedFor(key)
           held   == \E g \in ViewGroups : g.public = key.public
       IN  CASE key = NoKey -> UNCHANGED <<cmds, sent>>
             [] key # NoKey /\ ~held ->
                    Send([op |-> "import", key |-> key, relays |-> relays])
             [] key # NoKey /\ held /\ CountNewRelays(relays) > 0 ->
                    Send([op |-> "merge", key |-> key.public, relays |-> relays])
             [] OTHER -> UNCHANGED <<cmds, sent>>
    /\ UNCHANGED <<engine, snapshots, view, confirm, form, offers, minted, seen>>

CreateGroup ==
    /\ sent < MaxCommands
    /\ minted # Minted
    /\ minted' = minted \cup {Fresh}
    /\ Send([op |-> "create", key |-> Fresh])
    /\ UNCHANGED <<engine, snapshots, controller, form, offers, seen>>

(* Rotating and deleting ask first, about a group on screen. *)
AskConfirm ==
    /\ \E g \in ViewGroups, op \in {"rotate", "delete"} :
           confirm' = [op |-> op, key |-> g.public]
    /\ UNCHANGED <<engine, cmds, snapshots, view, pending, form, bounds, seen>>

ConfirmAccepted ==
    /\ confirm # Nothing
    /\ confirm' = Nothing
    /\ Send(confirm)
    /\ UNCHANGED <<engine, snapshots, view, pending, form, offers, minted, seen>>

ToggleGroup ==
    \E g \in ViewGroups :
        Send([op |-> "toggle", key |-> g.public, on |-> ~g.selected])

EditRelays ==
    \/ \E r \in Relays : Send([op |-> "add_relay", relay |-> r])
    \/ \E r \in ToSet(ViewRelays) : Send([op |-> "remove_relay", relay |-> r])

(* The engine checks again what the controller checks on its snapshot. *)
TapShare ==
    \/ (\E g \in ViewGroups : g.selected) /\ Send([op |-> "start"])
    \/ Send([op |-> "stop"])

Tap ==
    /\ ToggleGroup \/ EditRelays \/ TapShare
    /\ UNCHANGED <<engine, snapshots, controller, form, offers, minted, seen>>

-----------------------------------------------------------------------------
(* The relays the invites for a key carry. *)
Carried(public) ==
    UNION {ToSet(NormalizeDedup(t.urls)) : t \in {u \in Texts : u.key.public = public}}

(* What is on disk was imported, from invites and with a key. *)
ASSUME StoredAssumption ==
    \A c \in Stored : \A g \in ToSet(c.groups) :
        /\ [public |-> g.public, secret |-> g.secret] # NoKey
        /\ ToSet(NormalizeDedup(g.relays)) \subseteq Carried(g.public)

Init ==
    /\ \E stored \in Stored : config = NormalizeRelays(stored)
    /\ share = {}
    /\ cmds = <<>> /\ snapshots = <<config>>
    /\ view = Nothing /\ pending = Nothing /\ confirm = Nothing
    /\ field = Nothing /\ fills = <<>>
    /\ sent = 0 /\ offers = 0 /\ minted = {}
    /\ typed = {} /\ retired = {} /\ heard = {}
    /\ dropped = (UNION {ToSet(g.relays) : g \in ToSet(config.groups)})
                    \ ToSet(config.relays)

Next ==
    \/ Mutate \/ RotateGroup \/ StartShare \/ StopShare \/ PublishActive
    \/ OnConfig \/ Fill
    \/ \E text \in Texts : OnIncomingInvite(text) \/ PasteInvite(text) \/ Type(text)
    \/ ImportGroup \/ CreateGroup \/ AskConfirm \/ ConfirmAccepted \/ Tap

Spec == Init /\ [][Next]_vars

-----------------------------------------------------------------------------
(***************************************************************************)
(* A relay the user added by hand stays until the user removes it, even if *)
(* an invite brought it first and the group of that invite is deleted:     *)
(* add_relay takes it off the automatic list.                              *)
(***************************************************************************)
ManualKept == typed \subseteq ToSet(config.relays)

(***************************************************************************)
(* A group on the device can be reached: every relay its invites carried   *)
(* is in the relay list, unless the user removed it.  Deleting another     *)
(* group that shares a relay must not prune it, in whatever order the two  *)
(* came, were merged or rotated.                                           *)
(***************************************************************************)
ReachesItsRelays ==
    \A i \in DOMAIN config.groups :
        ToSet(config.groups[i].relays) \subseteq ToSet(config.relays) \cup dropped

(***************************************************************************)
(* A group's relays come from invites for its own key.  The relays of a    *)
(* scan wait in pending_invite for the user to tap Import, and the form    *)
(* may hold another group's key by then.                                   *)
(***************************************************************************)
ProvenanceHonest ==
    \A i \in DOMAIN config.groups : LET g == config.groups[i] IN
        g.public \notin Minted => ToSet(g.relays) \subseteq Carried(g.public)

(***************************************************************************)
(* Who imports an invite made here listens where this device sends: every  *)
(* relay in it is one of ours and survives the parsing, in the same order, *)
(* whatever was on disk or came with other invites.                        *)
(***************************************************************************)
InviteRoundTrips ==
    \A i \in DOMAIN config.groups :
        LET made == BuildInvite(GroupShare(config, config.groups[i]))
            read == ParseShared(made)
        IN  /\ read = [key |-> made.key, relays |-> InviteRelaysOf(config)]
            /\ AddImportedGroup([relays |-> <<>>, auto |-> {}, groups |-> <<>>],
                                read.key, read.relays).relays = InviteRelaysOf(config)

(***************************************************************************)
(* What the rotation dialog says (src/app/src/controller.rs:876): a new    *)
(* key is generated and "the old one stops working for new broadcasts".    *)
(***************************************************************************)
RotationRetires == heard \cap retired = {}
=============================================================================
