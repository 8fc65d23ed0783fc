------------------------- MODULE TrackExportProofs -------------------------
(***************************************************************************)
(* Proofs about module TrackExport, for any relays and any broadcasts they *)
(* keep.                                                                   *)
(*                                                                         *)
(* The request of one export to one relay is at one place at a time: in    *)
(* the channel, open at the relay, ended in the inbox, or answered.  What  *)
(* the relay owes moves ahead of it.                                       *)
(***************************************************************************)
EXTENDS TrackExport, SequenceTheorems, FiniteSetTheorems, TLAPS

-----------------------------------------------------------------------------
(* Channels *)

LEMMA Shorter ==
    ASSUME NEW S, NEW q \in Seq(S), q # <<>>
    PROVE  /\ Len(q) \in Nat \ {0} /\ DOMAIN q = 1..Len(q)
           /\ Head(q) = q[1] /\ Head(q) \in S /\ 1 \in DOMAIN q
           /\ Tail(q) \in Seq(S) /\ Len(Tail(q)) = Len(q) - 1
           /\ DOMAIN Tail(q) = 1 .. (Len(q) - 1)
           /\ \A i \in DOMAIN Tail(q) : i + 1 \in DOMAIN q /\ Tail(q)[i] = q[i + 1]
<1>1. Len(q) \in Nat \ {0} /\ DOMAIN q = 1..Len(q) /\ Tail(q) \in Seq(S)
      /\ Len(Tail(q)) = Len(q) - 1 /\ Head(q) = q[1]
  OBVIOUS
<1>2. DOMAIN Tail(q) = 1 .. (Len(q) - 1)
  BY <1>1
<1>3. 1 \in DOMAIN q /\ q[1] \in S
  BY <1>1
<1>4. \A i \in 1 .. (Len(q) - 1) : i + 1 \in DOMAIN q /\ Tail(q)[i] = q[i + 1]
  BY <1>1
<1> QED  BY <1>1, <1>2, <1>3, <1>4

LEMMA Longer ==
    ASSUME NEW S, NEW q \in Seq(S), NEW x \in S
    PROVE  /\ Len(q) \in Nat /\ DOMAIN q = 1..Len(q)
           /\ Append(q, x) \in Seq(S) /\ Len(Append(q, x)) = Len(q) + 1
           /\ DOMAIN Append(q, x) = 1 .. (Len(q) + 1)
           /\ Append(q, x)[Len(q) + 1] = x
           /\ \A i \in DOMAIN q : i \in DOMAIN Append(q, x) /\ Append(q, x)[i] = q[i]
           /\ \A i \in DOMAIN Append(q, x) : i = Len(q) + 1 \/ i \in DOMAIN q
<1>1. /\ Len(q) \in Nat /\ DOMAIN q = 1..Len(q)
      /\ Append(q, x) \in Seq(S) /\ Len(Append(q, x)) = Len(q) + 1
      /\ DOMAIN Append(q, x) = 1 .. (Len(q) + 1)
      /\ Append(q, x)[Len(q) + 1] = x
  OBVIOUS
<1>2. \A i \in 1 .. Len(q) : i \in 1 .. (Len(q) + 1) /\ Append(q, x)[i] = q[i]
  BY <1>1
<1>3. \A i \in 1 .. (Len(q) + 1) : i = Len(q) + 1 \/ i \in 1 .. Len(q)
  BY <1>1
<1> QED  BY <1>1, <1>2, <1>3

-----------------------------------------------------------------------------
(* Requests and their answers *)

(* The request of export c has not been answered by relay r, and may yet be. *)
Unanswered(c, r) == c \in 1..exports /\ r \in reached[c] \ answered[c]

(* The requests in a relay's channel, each once, and not sent yet. *)
Queued(r) ==
    /\ \A i \in DOMAIN cmds[r] :
           Unanswered(cmds[r][i], r) /\ cmds[r][i] \notin DOMAIN asked[r]
    /\ \A i, j \in DOMAIN cmds[r] : cmds[r][i] = cmds[r][j] => i = j

(* The requests a relay is answering. *)
Open(r) ==
    \A c \in DOMAIN asked[r] : Unanswered(c, r) /\ asked[r][c] \subseteq Stored[r]

(* An answer ends once, and only one that was asked for. *)
EndsOnce(i) ==
    inbox[i].kind = "eose" =>
        LET c == inbox[i].corr
            r == inbox[i].relay
        IN  /\ r \in Relays /\ Unanswered(c, r)
            /\ c \notin DOMAIN asked[r] /\ c \notin Range(cmds[r])
            /\ \A j \in DOMAIN inbox :
                   /\ inbox[j].kind = "eose" /\ inbox[j].corr = c /\ inbox[j].relay = r
                   => j = i

(* What arrives is stored at a relay that was asked for it. *)
FromReached(i) ==
    inbox[i].kind = "event" =>
        /\ inbox[i].corr \in 1..exports
        /\ \E r \in reached[inbox[i].corr] : inbox[i].event \in Stored[r]

Requests ==
    /\ \A r \in Relays : Queued(r) /\ Open(r)
    /\ \A i \in DOMAIN inbox : EndsOnce(i) /\ FromReached(i)

(* An export is open, and waits, or it has shipped its track. *)
CountOf(c) ==
    /\ c \in DOMAIN pending =>
           /\ c \in 1..exports /\ files[c] = <<>> /\ pending[c].of = target[c]
           /\ pending[c].left = Cardinality(reached[c] \ answered[c])
           /\ reached[c] \ answered[c] # {}
    /\ c \in 1..exports /\ c \notin DOMAIN pending => Len(files[c]) = 1
    /\ c \notin 1..exports => files[c] = <<>> /\ answered[c] = {}

Counts == \A c \in Exports : CountOf(c)

-----------------------------------------------------------------------------
(* What an answer brings *)

Owes(r, g) == {e \in Stored[r] : Matches(e, g) /\ HasPoint(e)}

(* If it is still of use, e is collected or arrives before the n-th frame. *)
Covered(c, e, n) ==
    target[c].group \in held /\ c \in DOMAIN pending =>
        \/ e \in pending[c].points
        \/ \E j \in DOMAIN inbox : j < n /\ inbox[j] = Found(c, e)

(* A relay has sent what it no longer has to send. *)
BringsOpen(r, c) ==
    c \in DOMAIN asked[r] =>
        \A e \in Owes(r, target[c]) \ asked[r][c] : Covered(c, e, Len(inbox) + 1)

(* An answer ends after all it brings. *)
BringsEnd(i) ==
    inbox[i].kind = "eose" =>
        \A e \in Owes(inbox[i].relay, target[inbox[i].corr]) :
            Covered(inbox[i].corr, e, i)

Brings ==
    /\ \A r \in Relays : \A c \in Exports : BringsOpen(r, c)
    /\ \A i \in DOMAIN inbox : BringsEnd(i)

Most(c)   == history[target[c]] \cup Points(reached[c], target[c])
OwedTo(c) == history[target[c]] \cup Points(answered[c], target[c])

(* An open export has collected what belongs to it, and all it was answered. *)
CollectedOf(c) ==
    c \in DOMAIN pending =>
        /\ pending[c].points \subseteq Most(c)
        /\ target[c].group \in held => OwedTo(c) \subseteq pending[c].points

(* And a track that was shipped still does: see Whole. *)
WholeOf(c) ==
    c \in Shipped =>
        /\ files[c][1] \subseteq Most(c)
        /\ target[c].group \in held =>
               \E S \in SUBSET Most(c) : OwedTo(c) \subseteq S /\ files[c][1] = Track(S)

Collected == \A c \in Exports : CollectedOf(c) /\ WholeOf(c)

-----------------------------------------------------------------------------
(* Types *)

LEMMA FewRelays ==
    ASSUME NEW R \in SUBSET Relays
    PROVE  /\ IsFiniteSet(R) /\ Cardinality(R) \in 0..Cardinality(Relays)
           /\ Cardinality(R) = 0 <=> R = {}
<1>1. IsFiniteSet(Relays)
  BY LogAssumption
<1>2. IsFiniteSet(R) /\ Cardinality(R) <= Cardinality(Relays)
  BY <1>1, FS_Subset
<1>3. Cardinality(R) \in Nat /\ Cardinality(Relays) \in Nat
  BY <1>1, <1>2, FS_CardinalityType
<1> QED  BY <1>2, <1>3, FS_EmptySet

(* A frame that the engine handles found something, or ended an answer. *)
LEMMA Handles ==
    ASSUME TypeOK, OnPoolEvent
    PROVE  /\ inbox \in Seq(Inbox) /\ inbox # <<>> /\ inbox' = Tail(inbox)
           /\ UNCHANGED <<held, history, connected, cmds, asked, exports, target, reached>>
           /\ \/ \E c \in Exports, e \in Events :
                    /\ inbox[1] = Found(c, e) /\ FetchEvent(c, e)
              \/ \E c \in Exports, r \in Relays :
                    /\ inbox[1] = Ended(c, r) /\ FetchEose(c, r)
<1>1. inbox \in Seq(Inbox) /\ inbox # <<>> /\ inbox' = Tail(inbox)
  BY DEF TypeOK, OnPoolEvent
<1>2. Head(inbox) = inbox[1] /\ Head(inbox) \in Inbox
  BY <1>1, Shorter
<1>3. UNCHANGED <<held, history, connected, cmds, asked, exports, target, reached>>
  BY DEF OnPoolEvent, links
<1>4. CASE inbox[1].kind = "event" /\ FetchEvent(inbox[1].corr, inbox[1].event)
  <2>1. inbox[1] \in [kind: {"event"}, corr: Exports, event: Events]
    BY <1>2, <1>4 DEF Inbox
  <2> QED  BY <1>1, <1>3, <1>4, <2>1 DEF Found
<1>5. CASE inbox[1].kind = "eose" /\ FetchEose(inbox[1].corr, inbox[1].relay)
  <2>1. inbox[1] \in [kind: {"eose"}, corr: Exports, relay: Relays]
    BY <1>2, <1>5 DEF Inbox
  <2> QED  BY <1>1, <1>3, <1>5, <2>1 DEF Ended
<1> QED  BY <1>2, <1>4, <1>5 DEF OnPoolEvent

LEMMA TypedInit ==
    ASSUME Init  PROVE TypeOK
<1>1. (CHOOSE g \in Targets : TRUE) \in Targets
  BY LogAssumption
<1>2. cmds \in [Relays -> Seq(Exports)] /\ files \in [Exports -> Seq(SUBSET Events)]
      /\ inbox \in Seq(Inbox)
  BY DEF Init
<1>3. target \in [Exports -> Targets]
  BY <1>1 DEF Init
<1>4. exports \in 0..MaxExports
  BY LogAssumption DEF Init
<1>5. /\ DOMAIN asked = Relays /\ \A r \in Relays : DOMAIN asked[r] = {}
      /\ DOMAIN pending = {}
  BY DEF Init, NoRequest
<1> QED  BY <1>2, <1>3, <1>4, <1>5 DEF Init, TypeOK

(* The tracks S of open exports are shipped. *)
LEMMA FinishTyped ==
    ASSUME TypeOK, NEW S \in SUBSET DOMAIN pending, Finish(S)
    PROVE  /\ files' \in [Exports -> Seq(SUBSET Events)]
           /\ \A c \in Exports \ S : files'[c] = files[c]
           /\ \A c \in S : files'[c] = Append(files[c], Track(pending[c].points))
<1>1. files \in [Exports -> Seq(SUBSET Events)] /\ DOMAIN pending \subseteq Exports
  BY LogAssumption DEF TypeOK, Exports
<1>2. \A c \in DOMAIN pending : Track(pending[c].points) \in SUBSET Events
  BY DEF TypeOK, Track, Pending
<1>3. \A c \in S : Append(files[c], Track(pending[c].points)) \in Seq(SUBSET Events)
  BY <1>1, <1>2, AppendProperties
<1> QED  BY <1>1, <1>3 DEF Finish

LEMMA ExportTyped ==
    ASSUME TypeOK, NEW g \in Targets, ExportTrack(g)  PROVE TypeOK'
<1> DEFINE c == exports + 1
<1>1. c \in Exports /\ c = exports' /\ c \in 0..MaxExports /\ exports \in Nat
  BY LogAssumption DEF ExportTrack, TypeOK, Exports
<1>2. \A x \in 1..exports : x \in 1..exports'
  BY <1>1 DEF TypeOK
<1>3. cmds' \in [Relays -> Seq(Exports)]
  BY <1>1, AppendProperties DEF ExportTrack, TypeOK
<1>4. Reachable \in SUBSET Relays /\ Awaited \in 0..Cardinality(Relays)
  BY FewRelays DEF Reachable, Awaited
<1>5. target' \in [Exports -> Targets] /\ reached' \in [Exports -> SUBSET Relays]
  BY <1>1, <1>4 DEF ExportTrack, TypeOK
<1>6. history[g] \in SUBSET Events
  BY DEF TypeOK
<1>7. files' \in [Exports -> Seq(SUBSET Events)]
  <2>1. Track(history[g]) \in SUBSET Events
    BY <1>6 DEF Track
  <2>2. <<Track(history[g])>> \in Seq(SUBSET Events)
    BY <2>1
  <2> QED  BY <2>2 DEF ExportTrack, TypeOK
<1>8. \A x \in DOMAIN pending' : x \in 1..exports' /\ pending'[x] \in Pending
  <2>1. CASE pending' = pending
    BY <1>2, <2>1 DEF TypeOK
  <2>2. CASE /\ Awaited > 0
             /\ pending' = [x \in DOMAIN pending \cup {c} |->
                    IF x = c THEN [of |-> g, left |-> Awaited, points |-> history[g]]
                             ELSE pending[x]]
    <3>1. Awaited \in 1..Cardinality(Relays)
      BY <1>4, <2>2
    <3>2. [of |-> g, left |-> Awaited, points |-> history[g]] \in Pending
      BY <1>6, <3>1 DEF Pending
    <3>3. c \in 1..exports'
      BY <1>1
    <3> HIDE DEF c
    <3> QED  BY <1>2, <2>2, <3>2, <3>3 DEF TypeOK
  <2> QED  BY <2>1, <2>2 DEF ExportTrack
<1>9. UNCHANGED <<held, history, connected, asked, inbox, answered>>
  BY DEF ExportTrack
<1> HIDE DEF c
<1> QED  BY <1>1, <1>2, <1>3, <1>5, <1>7, <1>8, <1>9 DEF TypeOK

LEMMA HandlesTyped ==
    ASSUME TypeOK, OnPoolEvent  PROVE TypeOK'
<1>1. /\ inbox \in Seq(Inbox) /\ inbox # <<>> /\ inbox' = Tail(inbox)
      /\ UNCHANGED <<held, history, connected, cmds, asked, exports, target, reached>>
  BY Handles
<1>2. inbox' \in Seq(Inbox)
  BY <1>1, Shorter
<1>3. \A c \in DOMAIN pending : c \in 1..exports /\ pending[c] \in Pending
  BY DEF TypeOK
<1>4. ASSUME NEW c \in Exports, NEW e \in Events, FetchEvent(c, e)
      PROVE  /\ answered' = answered /\ files' = files
             /\ \A x \in DOMAIN pending' : x \in 1..exports /\ pending'[x] \in Pending
  BY <1>3, <1>4 DEF FetchEvent, Pending
<1>5. ASSUME NEW c \in Exports, NEW r \in Relays, FetchEose(c, r)
      PROVE  /\ answered' \in [Exports -> SUBSET Relays]
             /\ files' \in [Exports -> Seq(SUBSET Events)]
             /\ \A x \in DOMAIN pending' : x \in 1..exports /\ pending'[x] \in Pending
  <2>1. CASE c \notin DOMAIN pending /\ UNCHANGED <<pending, answered, files>>
    BY <2>1 DEF TypeOK
  <2>2. CASE c \in DOMAIN pending /\ answered' = [answered EXCEPT ![c] = @ \cup {r}]
    <3>1. answered' \in [Exports -> SUBSET Relays]
      BY <2>2 DEF TypeOK
    <3>2. CASE Finish({c}) /\ Removed({c})
      BY <1>3, <2>2, <3>1, <3>2, FinishTyped DEF Removed, Without
    <3>3. CASE /\ ~Completes(c) /\ pending' = [pending EXCEPT ![c].left = @ - 1]
               /\ files' = files
      <4>1. pending[c].left \in 1..Cardinality(Relays) /\ Cardinality(Relays) \in Nat
        BY <1>3, <2>2, FewRelays DEF Pending
      <4>2. pending[c].left - 1 \in 1..Cardinality(Relays)
        BY <3>3, <4>1 DEF Completes
      <4>3. \A x \in DOMAIN pending' : x \in 1..exports /\ pending'[x] \in Pending
        BY <1>3, <2>2, <3>3, <4>2 DEF Pending
      <4> QED  BY <3>1, <3>3, <4>3 DEF TypeOK
    <3> QED  BY <1>5, <2>2, <3>2, <3>3 DEF FetchEose
  <2> QED  BY <1>5, <2>1, <2>2 DEF FetchEose
<1>6. /\ answered' \in [Exports -> SUBSET Relays]
      /\ files' \in [Exports -> Seq(SUBSET Events)]
      /\ \A x \in DOMAIN pending' : x \in 1..exports /\ pending'[x] \in Pending
  BY <1>4, <1>5, Handles DEF TypeOK
<1> QED  BY <1>1, <1>2, <1>6 DEF TypeOK

(* A relay's requests and what it sends leave the rest as it is. *)
LEMMA LinksTyped ==
    ASSUME TypeOK, NEW r \in Relays, UNCHANGED engine,
           connected' \in [Relays -> BOOLEAN], cmds' \in [Relays -> Seq(Exports)],
           inbox' \in Seq(Inbox), DOMAIN asked' = Relays,
           \A x \in Relays \ {r} : asked'[x] = asked[x],
           \A c \in DOMAIN asked'[r] : c \in 1..exports /\ asked'[r][c] \subseteq Events
    PROVE  TypeOK'
BY DEF TypeOK, engine, noted

LEMMA TypedStep ==
    ASSUME TypeOK, Requests, [Next]_vars  PROVE TypeOK'
<1>t. /\ connected \in [Relays -> BOOLEAN] /\ cmds \in [Relays -> Seq(Exports)]
      /\ inbox \in Seq(Inbox) /\ DOMAIN asked = Relays
      /\ \A r \in Relays : \A c \in DOMAIN asked[r] :
             c \in 1..exports /\ asked[r][c] \subseteq Events
  BY DEF TypeOK
<1>1. ASSUME NEW g \in Targets, ExportTrack(g)  PROVE TypeOK'
  BY <1>1, ExportTyped
<1>2. CASE OnPoolEvent
  BY <1>2, HandlesTyped
<1>3. ASSUME NEW c \in Exports, Tick(c)  PROVE TypeOK'
  <2>1. Overdue(c) \in SUBSET DOMAIN pending /\ Finish(Overdue(c)) /\ Removed(Overdue(c))
    BY <1>3 DEF Tick, Overdue
  <2>2. files' \in [Exports -> Seq(SUBSET Events)]
    BY <2>1, FinishTyped
  <2> QED  BY <1>3, <2>1, <2>2 DEF Tick, Removed, Without, TypeOK, links, noted
<1>4. ASSUME NEW g \in Groups, RemoveGroup(g)  PROVE TypeOK'
  BY <1>4 DEF RemoveGroup, TypeOK, links, noted
<1>5. ASSUME NEW r \in Relays, Connect(r)  PROVE TypeOK'
  <2>1. /\ connected' \in [Relays -> BOOLEAN] /\ UNCHANGED engine
        /\ UNCHANGED <<cmds, asked, inbox>>
    BY <1>t, <1>5 DEF Connect
  <2> QED  BY <1>t, <2>1, LinksTyped
<1>6. ASSUME NEW r \in Relays, Disconnect(r)  PROVE TypeOK'
  <2>1. /\ connected' \in [Relays -> BOOLEAN] /\ UNCHANGED engine
        /\ UNCHANGED <<cmds, inbox>> /\ DOMAIN asked' = Relays /\ DOMAIN asked'[r] = {}
        /\ \A x \in Relays \ {r} : asked'[x] = asked[x]
    BY <1>t, <1>6 DEF Disconnect, Drops, NoRequest
  <2> QED  BY <1>t, <2>1, LinksTyped
<1>7. ASSUME NEW r \in Relays, OfflineFetch(r)  PROVE TypeOK'
  <2>1. UNCHANGED engine /\ UNCHANGED <<connected, asked, inbox>> /\ cmds' \in [Relays -> Seq(Exports)]
    BY <1>t, <1>7, Shorter DEF OfflineFetch
  <2> QED  BY <1>t, <2>1, LinksTyped
<1>8. ASSUME NEW r \in Relays, LiveFetch(r)  PROVE TypeOK'
  <2> DEFINE c == Head(cmds[r])
             found == {e \in Stored[r] : Matches(e, target[c])}
  <2>1. UNCHANGED engine /\ inbox' = inbox
    BY <1>8 DEF LiveFetch
  <2>2. cmds' \in [Relays -> Seq(Exports)]
    BY <1>t, <1>8, Shorter DEF LiveFetch
  <2>3. CASE Drops(r)
    <3>1. /\ connected' \in [Relays -> BOOLEAN]
          /\ DOMAIN asked' = Relays /\ DOMAIN asked'[r] = {}
          /\ \A x \in Relays \ {r} : asked'[x] = asked[x]
      BY <1>t, <2>3 DEF Drops, NoRequest
    <3> QED  BY <1>t, <2>1, <2>2, <3>1, LinksTyped
  <2>4. CASE /\ \E extra \in SUBSET (Stored[r] \ found) :
                   asked' = [asked EXCEPT ![r] = [x \in DOMAIN @ \cup {c} |->
                       IF x = c THEN found \cup extra ELSE @[x]]]
             /\ connected' = connected
    <3>1. PICK answer \in SUBSET Stored[r] :
              asked' = [asked EXCEPT ![r] = [x \in DOMAIN asked[r] \cup {c} |->
                  IF x = c THEN answer ELSE asked[r][x]]]
      BY <1>t, <2>4
    <3>2. answer \subseteq Events
      BY <3>1, LogAssumption
    <3>3. c \in 1..exports
      <4>1. 1 \in DOMAIN cmds[r] /\ c = cmds[r][1]
        BY <1>t, <1>8, Shorter DEF LiveFetch
      <4> QED  BY <4>1 DEF Requests, Queued, Unanswered
    <3> HIDE DEF c, found
    <3>4. /\ DOMAIN asked' = Relays /\ \A x \in Relays \ {r} : asked'[x] = asked[x]
          /\ asked'[r] = [x \in DOMAIN asked[r] \cup {c} |->
                 IF x = c THEN answer ELSE asked[r][x]]
      BY <1>t, <3>1
    <3>5. \A x \in DOMAIN asked'[r] : x \in 1..exports /\ asked'[r][x] \subseteq Events
      BY <1>t, <3>2, <3>3, <3>4
    <3> QED  BY <1>t, <2>1, <2>2, <2>4, <3>4, <3>5, LinksTyped
  <2> QED  BY <1>8, <2>3, <2>4 DEF LiveFetch
<1>9. ASSUME NEW r \in Relays, NEW c \in Exports, NEW e \in Events, RelaySends(r, c, e)
      PROVE  TypeOK'
  <2>1. UNCHANGED engine /\ UNCHANGED <<connected, cmds>> /\ c \in DOMAIN asked[r]
        /\ asked' = [asked EXCEPT ![r][c] = @ \ {e}]
    BY <1>9 DEF RelaySends
  <2>2. Found(c, e) \in Inbox
    BY DEF Found, Inbox
  <2>3. inbox' \in Seq(Inbox)
    BY <1>t, <1>9, <2>2, Longer DEF RelaySends
  <2>4. /\ DOMAIN asked' = Relays /\ \A x \in Relays \ {r} : asked'[x] = asked[x]
        /\ \A x \in DOMAIN asked'[r] : x \in 1..exports /\ asked'[r][x] \subseteq Events
    BY <1>t, <2>1
  <2> QED  BY <1>t, <2>1, <2>3, <2>4, LinksTyped
<1>10. ASSUME NEW r \in Relays, NEW c \in Exports, RelayEnds(r, c)  PROVE TypeOK'
  <2>1. UNCHANGED engine /\ UNCHANGED <<connected, cmds>>
        /\ asked' = [asked EXCEPT ![r] = [x \in DOMAIN asked[r] \ {c} |-> asked[r][x]]]
    BY <1>t, <1>10 DEF RelayEnds
  <2>2. Ended(c, r) \in Inbox
    BY DEF Ended, Inbox
  <2>3. inbox' \in Seq(Inbox)
    BY <1>t, <1>10, <2>2, Longer DEF RelayEnds
  <2>4. /\ DOMAIN asked' = Relays /\ \A x \in Relays \ {r} : asked'[x] = asked[x]
        /\ \A x \in DOMAIN asked'[r] : x \in 1..exports /\ asked'[r][x] \subseteq Events
    BY <1>t, <2>1
  <2> QED  BY <1>t, <2>1, <2>3, <2>4, LinksTyped
<1>11. CASE UNCHANGED vars
  BY <1>11 DEF vars, links, noted, TypeOK
<1> QED
  BY <1>1, <1>2, <1>3, <1>4, <1>5, <1>6, <1>7, <1>8, <1>9, <1>10, <1>11 DEF Next

-----------------------------------------------------------------------------
(* Each request is at one place *)

(* The next command in a relay's channel is like no other. *)
LEMMA Taken ==
    ASSUME TypeOK, NEW r \in Relays, Queued(r), cmds[r] # <<>>
    PROVE  LET c    == Head(cmds[r])
               rest == Tail(cmds[r])
           IN
           /\ c \in 1..exports /\ c \in Exports /\ Unanswered(c, r)
           /\ c \notin DOMAIN asked[r] /\ c \in Range(cmds[r])
           /\ rest \in Seq(Exports) /\ Range(rest) \subseteq Range(cmds[r]) \ {c}
           /\ \A i \in DOMAIN rest : Unanswered(rest[i], r) /\ rest[i] \notin DOMAIN asked[r] \cup {c}
           /\ \A i, j \in DOMAIN rest : rest[i] = rest[j] => i = j
<1>0. PICK c, rest : c = Head(cmds[r]) /\ rest = Tail(cmds[r])
  OBVIOUS
<1>1. /\ cmds[r] \in Seq(Exports) /\ c = cmds[r][1] /\ 1 \in DOMAIN cmds[r] /\ c \in Exports
      /\ rest \in Seq(Exports)
      /\ \A i \in DOMAIN rest : i + 1 \in DOMAIN cmds[r] /\ rest[i] = cmds[r][i + 1]
      /\ DOMAIN rest \subseteq Nat \ {0}
  BY <1>0, Shorter DEF TypeOK
<1>2. \A i \in DOMAIN rest : rest[i] # c
  <2>1. SUFFICES ASSUME NEW i \in DOMAIN rest, rest[i] = c  PROVE FALSE
    OBVIOUS
  <2>2. i + 1 = 1
    BY <1>1, <2>1 DEF Queued
  <2> QED  BY <1>1, <2>2
<1>3. \A i, j \in DOMAIN rest : rest[i] = rest[j] => i = j
  <2>1. SUFFICES ASSUME NEW i \in DOMAIN rest, NEW j \in DOMAIN rest, rest[i] = rest[j]
                 PROVE  i = j
    OBVIOUS
  <2>2. i + 1 = j + 1
    BY <1>1, <2>1 DEF Queued
  <2> QED  BY <1>1, <2>2
<1>4. \A i \in DOMAIN rest : Unanswered(rest[i], r) /\ rest[i] \notin DOMAIN asked[r]
  BY <1>1 DEF Queued
<1>5. c \in 1..exports /\ Unanswered(c, r) /\ c \notin DOMAIN asked[r]
  BY <1>1 DEF Queued, Unanswered
<1>6. c \in Range(cmds[r]) /\ Range(rest) \subseteq Range(cmds[r]) \ {c}
  BY <1>1, <1>2 DEF Range
<1> QED  BY <1>0, <1>1, <1>2, <1>3, <1>4, <1>5, <1>6

LEMMA ExportRequests ==
    ASSUME TypeOK, Requests, Counts, NEW g \in Targets, ExportTrack(g)  PROVE Requests'
<1>0. PICK c : c = exports + 1
  OBVIOUS
<1>1. c \in Exports /\ c = exports' /\ exports \in Nat /\ c \notin 1..exports
  BY <1>0, LogAssumption DEF ExportTrack, TypeOK, Exports
<1>2. answered[c] = {}
  BY <1>1 DEF Counts, CountOf
<1>3. /\ cmds' = [r \in Relays |-> IF connected[r] THEN Append(cmds[r], c) ELSE cmds[r]]
      /\ reached' = [reached EXCEPT ![c] = Reachable]
      /\ UNCHANGED <<asked, inbox, answered>>
  BY <1>0 DEF ExportTrack
<1>4. reached'[c] = Reachable /\ \A x \in 1..exports : reached'[x] = reached[x]
  BY <1>1, <1>3 DEF TypeOK, Exports
<1>5. \A x \in 1..exports : x \in 1..exports' /\ x # c
  BY <1>0, <1>1
<1>6. \A x, r : Unanswered(x, r) => Unanswered(x, r)' /\ x # c
  BY <1>3, <1>4, <1>5 DEF Unanswered
<1>7. \A r \in Reachable : Unanswered(c, r)'
  BY <1>0, <1>1, <1>2, <1>3, <1>4 DEF Unanswered
<1>8. ASSUME NEW r \in Relays  PROVE Queued(r)' /\ Open(r)' /\ Range(cmds'[r]) \subseteq Range(cmds[r]) \cup {c}
  <2>1. Queued(r) /\ Open(r) /\ cmds[r] \in Seq(Exports)
    BY DEF Requests, TypeOK
  <2>2. Open(r)'
    BY <1>3, <1>6, <2>1 DEF Open
  <2>3. CASE ~connected[r]
    <3>1. cmds'[r] = cmds[r] /\ asked' = asked
      BY <1>3, <2>3
    <3>2. Queued(r)'
      BY <1>6, <2>1, <3>1 DEF Queued, Unanswered
    <3> QED  BY <2>2, <3>1, <3>2
  <2>4. CASE connected[r]
    <3>1. cmds'[r] = Append(cmds[r], c) /\ r \in Reachable
      BY <1>3, <2>4 DEF Reachable
    <3>q. PICK q, p : q = cmds[r] /\ p = Append(q, c)
      OBVIOUS
    <3>2. /\ p[Len(q) + 1] = c
          /\ \A i \in DOMAIN q : p[i] = q[i]
          /\ \A i \in DOMAIN p : i = Len(q) + 1 \/ i \in DOMAIN q
      BY <1>1, <2>1, <3>q, Longer
    <3>3. c \notin DOMAIN asked[r]
      BY <1>1, <2>1 DEF Open, Unanswered
    <3>4. \A i \in DOMAIN q : q[i] # c
      BY <1>6, <2>1, <3>q DEF Queued
    <3>p. cmds'[r] = p
      BY <3>1, <3>q
    <3>5. \A i \in DOMAIN p : Unanswered(p[i], r)' /\ p[i] \notin DOMAIN asked'[r]
      <4>1. \A i \in DOMAIN q : Unanswered(q[i], r) /\ q[i] \notin DOMAIN asked[r]
        BY <2>1, <3>q DEF Queued
      <4>2. \A x : Unanswered(x, r) => Unanswered(x, r)'
        BY <1>6
      <4>3. Unanswered(c, r)'
        BY <1>7, <3>1
      <4> QED  BY <1>3, <3>2, <3>3, <4>1, <4>2, <4>3 DEF Unanswered
    <3>6. \A i, j \in DOMAIN p : p[i] = p[j] => i = j
      BY <2>1, <3>2, <3>4, <3>q DEF Queued
    <3>7. Range(p) \subseteq Range(cmds[r]) \cup {c}
      BY <3>2, <3>q DEF Range
    <3> QED  BY <2>2, <3>p, <3>5, <3>6, <3>7 DEF Queued, Unanswered
  <2> QED  BY <2>3, <2>4
<1>9. ASSUME NEW i \in DOMAIN inbox  PROVE EndsOnce(i)' /\ FromReached(i)'
  <2>1. EndsOnce(i) /\ FromReached(i)
    BY DEF Requests
  <2>2. EndsOnce(i)'
    BY <1>3, <1>6, <1>8, <2>1 DEF EndsOnce, Unanswered
  <2>3. FromReached(i)'
    BY <1>3, <1>4, <1>5, <2>1 DEF FromReached
  <2> QED  BY <2>2, <2>3
<1> QED  BY <1>3, <1>8, <1>9 DEF Requests

LEMMA HandlesRequests ==
    ASSUME TypeOK, Requests, OnPoolEvent  PROVE Requests'
<1>1. /\ inbox \in Seq(Inbox) /\ inbox # <<>> /\ inbox' = Tail(inbox)
      /\ UNCHANGED <<held, history, connected, cmds, asked, exports, target, reached>>
      /\ answered \in [Exports -> SUBSET Relays]
  BY Handles DEF TypeOK
<1>2. /\ 1 \in DOMAIN inbox /\ DOMAIN inbox' \subseteq Nat \ {0}
      /\ \A i \in DOMAIN inbox' : i + 1 \in DOMAIN inbox /\ inbox'[i] = inbox[i + 1]
  BY <1>1, Shorter
<1>3. \A i \in DOMAIN inbox : EndsOnce(i) /\ FromReached(i)
  BY DEF Requests
<1>4. \/ answered' = answered
      \/ \E c \in Exports, r \in Relays :
             /\ inbox[1] = Ended(c, r)
             /\ answered' = [answered EXCEPT ![c] = @ \cup {r}]
  <2>1. CASE \E c \in Exports, e \in Events : FetchEvent(c, e)
    BY <2>1 DEF FetchEvent
  <2>2. ASSUME NEW c \in Exports, NEW r \in Relays, inbox[1] = Ended(c, r), FetchEose(c, r)
        PROVE  answered' = answered \/ answered' = [answered EXCEPT ![c] = @ \cup {r}]
    BY <2>2 DEF FetchEose
  <2> QED  BY <2>1, <2>2, Handles
\* What becomes of a request that is not the one just answered.
<1>5. ASSUME NEW x, NEW z, Unanswered(x, z), inbox[1] # Ended(x, z)
      PROVE  Unanswered(x, z)'
  <2>1. x \in Exports
    BY <1>5, LogAssumption DEF Unanswered, TypeOK, Exports
  <2>2. CASE answered' = answered
    BY <1>1, <1>5, <2>2 DEF Unanswered
  <2>3. ASSUME NEW c \in Exports, NEW r \in Relays, inbox[1] = Ended(c, r),
               answered' = [answered EXCEPT ![c] = @ \cup {r}]
        PROVE  Unanswered(x, z)'
    <3>1. x # c \/ z # r
      BY <1>5, <2>3
    <3>2. z \notin answered'[x]
      BY <1>1, <1>5, <2>1, <2>3, <3>1 DEF Unanswered
    <3> QED  BY <1>1, <1>5, <3>2 DEF Unanswered
  <2> QED  BY <1>4, <2>2, <2>3
<1>6. ASSUME NEW x, NEW z, inbox[1] = Ended(x, z)
      PROVE  /\ z \in Relays /\ x \notin DOMAIN asked[z] /\ x \notin Range(cmds[z])
             /\ \A j \in DOMAIN inbox : inbox[j].kind = "eose" /\ inbox[j].corr = x
                                        /\ inbox[j].relay = z => j = 1
  BY <1>2, <1>3, <1>6 DEF EndsOnce, Ended
<1>7. ASSUME NEW r \in Relays  PROVE Queued(r)' /\ Open(r)'
  <2>1. Queued(r) /\ Open(r)
    BY DEF Requests
  <2>2. Open(r)'
    BY <1>1, <1>5, <1>6, <2>1 DEF Open
  <2>3. \A i \in DOMAIN cmds[r] : cmds[r][i] \in Range(cmds[r])
    BY DEF Range
  <2>4. Queued(r)'
    BY <1>1, <1>5, <1>6, <2>1, <2>3 DEF Queued
  <2> QED  BY <2>2, <2>4
<1>8. ASSUME NEW i \in DOMAIN inbox'  PROVE EndsOnce(i)' /\ FromReached(i)'
  <2>1. i + 1 \in DOMAIN inbox /\ inbox'[i] = inbox[i + 1] /\ i + 1 # 1 /\ i \in Nat
    BY <1>2
  <2>2. EndsOnce(i + 1) /\ FromReached(i + 1)
    BY <1>3, <2>1
  <2>3. ASSUME inbox'[i].kind = "eose"  PROVE EndsOnce(i)'
    <3>0. PICK c, r : c = inbox[i + 1].corr /\ r = inbox[i + 1].relay
      OBVIOUS
    <3>1. /\ r \in Relays /\ Unanswered(c, r)
          /\ c \notin DOMAIN asked[r] /\ c \notin Range(cmds[r])
          /\ \A j \in DOMAIN inbox :
                 inbox[j].kind = "eose" /\ inbox[j].corr = c /\ inbox[j].relay = r => j = i + 1
      BY <2>1, <2>2, <2>3, <3>0 DEF EndsOnce
    <3>2. inbox[1] # Ended(c, r)
      BY <1>6, <2>1, <2>3, <3>0
    <3>3. Unanswered(c, r)'
      BY <1>5, <3>1, <3>2
    <3>4. \A j \in DOMAIN inbox' :
              inbox'[j].kind = "eose" /\ inbox'[j].corr = c /\ inbox'[j].relay = r => j = i
      <4>1. SUFFICES ASSUME NEW j \in DOMAIN inbox', inbox'[j].kind = "eose",
                            inbox'[j].corr = c, inbox'[j].relay = r
                     PROVE  j = i
        OBVIOUS
      <4>2. j + 1 = i + 1 /\ j \in Nat
        BY <1>2, <3>1, <4>1
      <4> QED  BY <2>1, <4>2
    <3> QED  BY <1>1, <2>1, <3>0, <3>1, <3>3, <3>4 DEF EndsOnce, Unanswered
  <2>4. FromReached(i)'
    BY <1>1, <2>1, <2>2 DEF FromReached
  <2> QED  BY <2>3, <2>4 DEF EndsOnce
<1> QED  BY <1>7, <1>8 DEF Requests

(* Where requests do not move, but for those of relay r. *)
LEMMA LinkRequests ==
    ASSUME TypeOK, Requests, NEW r \in Relays,
           UNCHANGED <<exports, reached, answered, inbox>>,
           \A z \in Relays \ {r} : asked'[z] = asked[z] /\ cmds'[z] = cmds[z],
           Queued(r)', Open(r)',
           DOMAIN asked'[r] \cup Range(cmds'[r]) \subseteq DOMAIN asked[r] \cup Range(cmds[r])
    PROVE  Requests'
<1>1. ASSUME NEW z \in Relays, z # r  PROVE Queued(z)' /\ Open(z)'
  <2>1. Queued(z) /\ Open(z) /\ asked'[z] = asked[z] /\ cmds'[z] = cmds[z]
    BY <1>1 DEF Requests
  <2> QED  BY <2>1 DEF Queued, Open, Unanswered
<1>2. ASSUME NEW i \in DOMAIN inbox  PROVE EndsOnce(i)' /\ FromReached(i)'
  <2>1. EndsOnce(i) /\ FromReached(i)
    BY DEF Requests
  <2>2. FromReached(i)'
    BY <2>1 DEF FromReached
  <2>3. \A z \in Relays : DOMAIN asked'[z] \cup Range(cmds'[z]) \subseteq DOMAIN asked[z] \cup Range(cmds[z])
    OBVIOUS
  <2>4. EndsOnce(i)'
    BY <2>1, <2>3 DEF EndsOnce, Unanswered
  <2> QED  BY <2>2, <2>4
<1> QED  BY <1>1, <1>2 DEF Requests

(* What a relay answers with is in its request's time. *)
LEMMA LiveRequests ==
    ASSUME TypeOK, Requests, NEW r \in Relays, LiveFetch(r)  PROVE Requests'
<1>0. PICK c, rest : c = Head(cmds[r]) /\ rest = Tail(cmds[r])
  OBVIOUS
<1>1. /\ cmds[r] # <<>> /\ cmds' = [cmds EXCEPT ![r] = rest] /\ inbox' = inbox
      /\ UNCHANGED <<exports, reached, answered>>
      /\ cmds \in [Relays -> Seq(Exports)] /\ DOMAIN asked = Relays
  BY <1>0 DEF LiveFetch, engine, noted, TypeOK
<1>2. Queued(r) /\ Open(r)
  BY DEF Requests
<1>3. /\ Unanswered(c, r) /\ c \in Range(cmds[r])
      /\ Range(rest) \subseteq Range(cmds[r])
      /\ \A i \in DOMAIN rest : Unanswered(rest[i], r) /\ rest[i] \notin DOMAIN asked[r] \cup {c}
      /\ \A i, j \in DOMAIN rest : rest[i] = rest[j] => i = j
  BY <1>0, <1>1, <1>2, Taken
<1>4. cmds'[r] = rest /\ \A z \in Relays \ {r} : cmds'[z] = cmds[z]
  BY <1>1
<1>5. \A x : Unanswered(x, r) => Unanswered(x, r)'
  BY <1>1 DEF Unanswered
<1>6. CASE Drops(r)
  <2>1. DOMAIN asked'[r] = {} /\ \A z \in Relays \ {r} : asked'[z] = asked[z]
    BY <1>1, <1>6 DEF Drops, NoRequest
  <2>2. Queued(r)' /\ Open(r)'
    BY <1>3, <1>4, <1>5, <2>1 DEF Queued, Open, Unanswered
  <2> QED  BY <1>1, <1>3, <1>4, <2>1, <2>2, LinkRequests
<1>7. CASE \E answer \in SUBSET Stored[r] :
               asked' = [asked EXCEPT ![r] = [x \in DOMAIN asked[r] \cup {c} |->
                   IF x = c THEN answer ELSE asked[r][x]]]
  <2>1. PICK answer \in SUBSET Stored[r] :
            asked' = [asked EXCEPT ![r] = [x \in DOMAIN asked[r] \cup {c} |->
                IF x = c THEN answer ELSE asked[r][x]]]
    BY <1>7
  <2>2. /\ \A z \in Relays \ {r} : asked'[z] = asked[z]
        /\ asked'[r] = [x \in DOMAIN asked[r] \cup {c} |->
               IF x = c THEN answer ELSE asked[r][x]]
    BY <1>1, <2>1
  <2>3. Queued(r)'
    BY <1>3, <1>4, <1>5, <2>2 DEF Queued, Unanswered
  <2>4. Open(r)'
    BY <1>2, <1>3, <1>5, <2>1, <2>2 DEF Open, Unanswered
  <2>5. DOMAIN asked'[r] \cup Range(cmds'[r]) \subseteq DOMAIN asked[r] \cup Range(cmds[r])
    BY <1>3, <1>4, <2>2
  <2> QED  BY <1>1, <1>4, <2>2, <2>3, <2>4, <2>5, LinkRequests
<1>8. ASSUME ~Drops(r)
      PROVE  \E answer \in SUBSET Stored[r] :
                 asked' = [asked EXCEPT ![r] = [x \in DOMAIN asked[r] \cup {c} |->
                     IF x = c THEN answer ELSE asked[r][x]]]
  <2> DEFINE found == {e \in Stored[r] : Matches(e, target[Head(cmds[r])])}
  <2>1. PICK extra \in SUBSET (Stored[r] \ found) :
            asked' = [asked EXCEPT ![r] = [x \in DOMAIN @ \cup {Head(cmds[r])} |->
                IF x = Head(cmds[r]) THEN found \cup extra ELSE @[x]]]
    BY <1>8 DEF LiveFetch
  <2>2. found \cup extra \in SUBSET Stored[r]
    OBVIOUS
  <2> HIDE DEF found
  <2> QED  BY <1>0, <2>1, <2>2
<1> QED  BY <1>6, <1>7, <1>8

(* A stored broadcast arrives for a request that is open. *)
LEMMA SendsRequests ==
    ASSUME TypeOK, Requests, NEW r \in Relays, NEW c \in Exports, NEW e \in Events,
           RelaySends(r, c, e)
    PROVE  Requests'
<1>1. /\ c \in DOMAIN asked[r] /\ e \in asked[r][c]
      /\ asked' = [asked EXCEPT ![r][c] = @ \ {e}] /\ inbox' = Append(inbox, Found(c, e))
      /\ UNCHANGED <<exports, reached, answered, cmds>>
      /\ inbox \in Seq(Inbox) /\ DOMAIN asked = Relays
  BY DEF RelaySends, engine, noted, TypeOK
<1>2. Found(c, e) \in Inbox
  BY DEF Found, Inbox
<1>3. /\ inbox'[Len(inbox) + 1] = Found(c, e)
      /\ \A i \in DOMAIN inbox : i \in DOMAIN inbox' /\ inbox'[i] = inbox[i]
      /\ \A i \in DOMAIN inbox' : i = Len(inbox) + 1 \/ i \in DOMAIN inbox
  BY <1>1, <1>2, Longer
<1>4. /\ \A z \in Relays : DOMAIN asked'[z] = DOMAIN asked[z]
      /\ \A z \in Relays : \A x \in DOMAIN asked[z] : asked'[z][x] \subseteq asked[z][x]
  BY <1>1
<1>5. \A z \in Relays : Queued(z)' /\ Open(z)'
  BY <1>1, <1>4 DEF Requests, Queued, Open, Unanswered
<1>6. ASSUME NEW i \in DOMAIN inbox'  PROVE EndsOnce(i)' /\ FromReached(i)'
  <2>1. CASE i \in DOMAIN inbox
    <3>1. EndsOnce(i) /\ FromReached(i) /\ inbox'[i] = inbox[i]
      BY <1>3, <2>1 DEF Requests
    <3>2. FromReached(i)'
      BY <1>1, <3>1 DEF FromReached
    <3>3. EndsOnce(i)'
      BY <1>1, <1>3, <1>4, <3>1 DEF EndsOnce, Unanswered, Found
    <3> QED  BY <3>2, <3>3
  <2>2. CASE i = Len(inbox) + 1
    <3>1. inbox'[i] = Found(c, e)
      BY <1>3, <2>2
    <3>2. c \in 1..exports /\ r \in reached[c] /\ e \in Stored[r]
      BY <1>1 DEF Requests, Open, Unanswered
    <3>3. inbox'[i].kind = "event" /\ inbox'[i].corr = c /\ inbox'[i].event = e
      BY <3>1 DEF Found
    <3>4. EndsOnce(i)'
      BY <3>3 DEF EndsOnce
    <3>5. FromReached(i)'
      BY <1>1, <3>2, <3>3 DEF FromReached
    <3> QED  BY <3>4, <3>5
  <2> QED  BY <1>3, <2>1, <2>2
<1> QED  BY <1>5, <1>6 DEF Requests

(* The end of an answer closes its request. *)
LEMMA EndsRequests ==
    ASSUME TypeOK, Requests, NEW r \in Relays, NEW c \in Exports, RelayEnds(r, c)
    PROVE  Requests'
<1>1. /\ c \in DOMAIN asked[r]
      /\ asked' = [asked EXCEPT ![r] = [x \in DOMAIN asked[r] \ {c} |-> asked[r][x]]]
      /\ inbox' = Append(inbox, Ended(c, r))
      /\ UNCHANGED <<exports, reached, answered, cmds>>
      /\ inbox \in Seq(Inbox) /\ DOMAIN asked = Relays
  BY DEF RelayEnds, engine, noted, TypeOK
<1>2. Ended(c, r) \in Inbox
  BY DEF Ended, Inbox
<1>3. /\ inbox'[Len(inbox) + 1] = Ended(c, r)
      /\ \A i \in DOMAIN inbox : i \in DOMAIN inbox' /\ inbox'[i] = inbox[i]
      /\ \A i \in DOMAIN inbox' : i = Len(inbox) + 1 \/ i \in DOMAIN inbox
  BY <1>1, <1>2, Longer
<1>4. /\ \A z \in Relays : DOMAIN asked'[z] \subseteq DOMAIN asked[z]
      /\ \A z \in Relays : \A x \in DOMAIN asked'[z] : asked'[z][x] = asked[z][x]
      /\ c \notin DOMAIN asked'[r]
  BY <1>1
<1>5. \A z \in Relays : Queued(z)' /\ Open(z)'
  BY <1>1, <1>4 DEF Requests, Queued, Open, Unanswered
<1>6. Unanswered(c, r) /\ c \notin Range(cmds[r])
  BY <1>1 DEF Requests, Open, Queued, Range
<1>7. \A i \in DOMAIN inbox : ~(inbox[i].kind = "eose" /\ inbox[i].corr = c /\ inbox[i].relay = r)
  BY <1>1 DEF Requests, EndsOnce
<1>8. ASSUME NEW i \in DOMAIN inbox'  PROVE EndsOnce(i)' /\ FromReached(i)'
  <2>1. CASE i \in DOMAIN inbox
    <3>1. EndsOnce(i) /\ FromReached(i) /\ inbox'[i] = inbox[i]
      BY <1>3, <2>1 DEF Requests
    <3>2. FromReached(i)'
      BY <1>1, <3>1 DEF FromReached
    <3>3. EndsOnce(i)'
      BY <1>1, <1>3, <1>4, <1>7, <2>1, <3>1 DEF EndsOnce, Unanswered, Ended
    <3> QED  BY <3>2, <3>3
  <2>2. CASE i = Len(inbox) + 1
    <3>1. inbox'[i] = Ended(c, r)
      BY <1>3, <2>2
    <3>2. \A j \in DOMAIN inbox' :
              inbox'[j].kind = "eose" /\ inbox'[j].corr = c /\ inbox'[j].relay = r => j = i
      BY <1>3, <1>7, <2>2
    <3> QED  BY <1>1, <1>4, <1>6, <3>1, <3>2 DEF EndsOnce, FromReached, Ended, Unanswered
  <2> QED  BY <1>3, <2>1, <2>2
<1> QED  BY <1>5, <1>8 DEF Requests

LEMMA RequestsStep ==
    ASSUME TypeOK, Requests, Counts, [Next]_vars  PROVE Requests'
<1>t. cmds \in [Relays -> Seq(Exports)] /\ DOMAIN asked = Relays
  BY DEF TypeOK
<1>1. ASSUME UNCHANGED <<exports, reached, answered, cmds, asked, inbox>>  PROVE Requests'
  BY <1>1 DEF Requests, Queued, Open, EndsOnce, FromReached, Unanswered
<1>2. ASSUME NEW g \in Targets, ExportTrack(g)  PROVE Requests'
  BY <1>2, ExportRequests
<1>3. CASE OnPoolEvent
  BY <1>3, HandlesRequests
<1>4. ASSUME NEW c \in Exports, Tick(c)  PROVE Requests'
  BY <1>1, <1>4 DEF Tick, links, noted
<1>5. ASSUME NEW g \in Groups, RemoveGroup(g)  PROVE Requests'
  BY <1>1, <1>5 DEF RemoveGroup, links, noted
<1>6. ASSUME NEW r \in Relays, Connect(r)  PROVE Requests'
  BY <1>1, <1>6 DEF Connect, engine, noted
<1>7. ASSUME NEW r \in Relays, Disconnect(r)  PROVE Requests'
  <2>1. /\ UNCHANGED <<exports, reached, answered, inbox, cmds>> /\ DOMAIN asked'[r] = {}
        /\ \A z \in Relays \ {r} : asked'[z] = asked[z]
    BY <1>t, <1>7 DEF Disconnect, Drops, NoRequest, engine, noted
  <2>2. Queued(r)' /\ Open(r)'
    BY <2>1 DEF Requests, Queued, Open, Unanswered
  <2> QED  BY <2>1, <2>2, LinkRequests
<1>8. ASSUME NEW r \in Relays, OfflineFetch(r)  PROVE Requests'
  <2>1. PICK rest, c : rest = Tail(cmds[r]) /\ c = Head(cmds[r])
    OBVIOUS
  <2>2. /\ UNCHANGED <<exports, reached, answered, inbox, asked>> /\ cmds[r] # <<>>
        /\ cmds'[r] = rest /\ \A z \in Relays \ {r} : cmds'[z] = cmds[z]
    BY <1>t, <1>8, <2>1 DEF OfflineFetch, engine, noted
  <2>3. /\ Range(rest) \subseteq Range(cmds[r])
        /\ \A i \in DOMAIN rest : Unanswered(rest[i], r) /\ rest[i] \notin DOMAIN asked[r]
        /\ \A i, j \in DOMAIN rest : rest[i] = rest[j] => i = j
    BY <2>1, <2>2, Taken DEF Requests
  <2>4. Queued(r)' /\ Open(r)'
    BY <2>2, <2>3 DEF Requests, Queued, Open, Unanswered
  <2> QED  BY <2>2, <2>3, <2>4, LinkRequests
<1>9. ASSUME NEW r \in Relays, LiveFetch(r)  PROVE Requests'
  BY <1>9, LiveRequests
<1>10. ASSUME NEW r \in Relays, NEW c \in Exports, NEW e \in Events, RelaySends(r, c, e)
       PROVE  Requests'
  BY <1>10, SendsRequests
<1>11. ASSUME NEW r \in Relays, NEW c \in Exports, RelayEnds(r, c)  PROVE Requests'
  BY <1>11, EndsRequests
<1>12. CASE UNCHANGED vars
  BY <1>1, <1>12 DEF vars, links, noted
<1> QED
  BY <1>2, <1>3, <1>4, <1>5, <1>6, <1>7, <1>8, <1>9, <1>10, <1>11, <1>12 DEF Next

-----------------------------------------------------------------------------
(* What an export waits for *)

(* The open exports S are shipped, once, and no other. *)
LEMMA FinishCounts ==
    ASSUME TypeOK, Counts, NEW S \in SUBSET DOMAIN pending, Finish(S), Removed(S),
           UNCHANGED <<exports, target, reached>>,
           answered' \in [Exports -> SUBSET Relays],
           \A c \in Exports \ S : answered'[c] = answered[c]
    PROVE  Counts'
<1>1. DOMAIN pending' = DOMAIN pending \ S /\ \A c \in DOMAIN pending' : pending'[c] = pending[c]
  BY DEF Removed, Without
<1>2. \A c \in Exports \ S : files'[c] = files[c]
  BY FinishTyped
<1>3. ASSUME NEW c \in S, c \in Exports
      PROVE  Len(files'[c]) = 1 /\ c \in 1..exports /\ c \notin DOMAIN pending'
  <2>1. files'[c] = Append(files[c], Track(pending[c].points)) /\ files[c] = <<>> /\ c \in 1..exports
    BY <1>3, FinishTyped DEF Counts, CountOf
  <2>2. files'[c] = <<Track(pending[c].points)>>
    BY <2>1
  <2> QED  BY <1>1, <2>1, <2>2
<1>4. ASSUME NEW c \in Exports  PROVE CountOf(c)'
  <2>1. CountOf(c)
    BY DEF Counts
  <2>2. CASE c \in S
    BY <1>3, <2>2 DEF CountOf
  <2>3. CASE c \notin S
    BY <1>1, <1>2, <2>1, <2>3 DEF CountOf
  <2> QED  BY <2>2, <2>3
<1> QED  BY <1>4 DEF Counts

LEMMA ExportCounts ==
    ASSUME TypeOK, Counts, NEW g \in Targets, ExportTrack(g)  PROVE Counts'
<1>0. PICK c : c = exports + 1
  OBVIOUS
<1>1. c \in Exports /\ c = exports' /\ exports \in Nat /\ c \notin 1..exports
  BY <1>0, LogAssumption DEF ExportTrack, TypeOK, Exports
<1>2. answered[c] = {} /\ files[c] = <<>> /\ c \notin DOMAIN pending /\ c \in 1..exports'
  <2>1. CountOf(c)
    BY <1>1 DEF Counts
  <2>2. c \in 1..exports'
    BY <1>0, <1>1
  <2> QED  BY <1>1, <2>1, <2>2 DEF CountOf
<1>3. /\ target' = [target EXCEPT ![c] = g]
      /\ reached' = [reached EXCEPT ![c] = Reachable]
      /\ answered' = answered
      /\ target \in [Exports -> Targets] /\ reached \in [Exports -> SUBSET Relays]
      /\ files \in [Exports -> Seq(SUBSET Events)]
  BY <1>0 DEF ExportTrack, TypeOK
<1>4. Reachable \in SUBSET Relays /\ (Awaited = 0 <=> Reachable = {}) /\ Awaited = Cardinality(Reachable)
  BY FewRelays DEF Reachable, Awaited
<1>5. ASSUME NEW x \in Exports, x # c, CountOf(x), pending' = pending \/
             /\ DOMAIN pending' = DOMAIN pending \cup {c}
             /\ \A y \in DOMAIN pending : y # c => pending'[y] = pending[y],
             files'[x] = files[x]
      PROVE  CountOf(x)'
  <2>1. x \in 1..exports <=> x \in 1..exports'
    BY <1>0, <1>1, <1>5
  <2>2. target'[x] = target[x] /\ reached'[x] = reached[x] /\ answered'[x] = answered[x]
    BY <1>3, <1>5
  <2>3. (x \in DOMAIN pending <=> x \in DOMAIN pending') /\ (x \in DOMAIN pending => pending'[x] = pending[x])
    BY <1>5
  <2> QED  BY <1>5, <2>1, <2>2, <2>3 DEF CountOf
<1>6. CASE /\ Awaited = 0
           /\ files' = [files EXCEPT ![c] = <<Track(history[g])>>]
           /\ pending' = pending
  <2>1. Len(files'[c]) = 1
    BY <1>1, <1>3, <1>6
  <2>2. CountOf(c)'
    BY <1>2, <1>6, <2>1 DEF CountOf
  <2>3. \A x \in Exports \ {c} : files'[x] = files[x]
    BY <1>3, <1>6
  <2> QED  BY <1>5, <1>6, <2>2, <2>3 DEF Counts
<1>7. CASE /\ Awaited > 0
           /\ pending' = [x \in DOMAIN pending \cup {c} |->
                  IF x = c THEN [of |-> g, left |-> Awaited, points |-> history[g]]
                           ELSE pending[x]]
           /\ files' = files
  <2>1. /\ DOMAIN pending' = DOMAIN pending \cup {c}
        /\ \A y \in DOMAIN pending : y # c => pending'[y] = pending[y]
        /\ pending'[c] = [of |-> g, left |-> Awaited, points |-> history[g]]
    BY <1>7
  <2>2. reached'[c] = Reachable /\ target'[c] = g /\ answered'[c] = {}
    BY <1>1, <1>2, <1>3
  <2>3. Reachable # {} /\ reached'[c] \ answered'[c] = Reachable
    BY <1>4, <1>7, <2>2
  <2>4. CountOf(c)'
    BY <1>2, <1>4, <1>7, <2>1, <2>2, <2>3 DEF CountOf
  <2> QED  BY <1>5, <1>7, <2>1, <2>4 DEF Counts
<1> QED  BY <1>0, <1>6, <1>7 DEF ExportTrack

LEMMA HandlesCounts ==
    ASSUME TypeOK, Requests, Counts, OnPoolEvent  PROVE Counts'
<1>1. /\ UNCHANGED <<exports, target, reached>> /\ inbox \in Seq(Inbox) /\ inbox # <<>>
      /\ answered \in [Exports -> SUBSET Relays] /\ reached \in [Exports -> SUBSET Relays]
      /\ 1 \in DOMAIN inbox
  BY Handles, Shorter DEF TypeOK
<1>2. ASSUME NEW c \in Exports, NEW e \in Events, FetchEvent(c, e)  PROVE Counts'
  <2>1. UNCHANGED <<answered, files>>
    BY <1>2 DEF FetchEvent
  <2>2. /\ DOMAIN pending' = DOMAIN pending
        /\ \A x \in DOMAIN pending : pending'[x].of = pending[x].of /\ pending'[x].left = pending[x].left
    BY <1>2 DEF FetchEvent, TypeOK, Pending
  <2> QED  BY <1>1, <2>1, <2>2 DEF Counts, CountOf
<1>3. ASSUME NEW c \in Exports, NEW r \in Relays, inbox[1] = Ended(c, r), FetchEose(c, r)
      PROVE  Counts'
  <2>1. CASE UNCHANGED <<pending, answered, files>>
    BY <1>1, <2>1 DEF Counts, CountOf
  <2>2. CASE c \in DOMAIN pending /\ answered' = [answered EXCEPT ![c] = @ \cup {r}]
    <3> DEFINE W == reached[c] \ answered[c]
    <3>1. r \in W
      BY <1>1, <1>3 DEF Requests, EndsOnce, Unanswered, Ended
    <3>2. /\ answered' \in [Exports -> SUBSET Relays] /\ answered'[c] = answered[c] \cup {r}
          /\ \A x \in Exports \ {c} : answered'[x] = answered[x]
      BY <1>1, <2>2
    <3>3. /\ W \in SUBSET Relays /\ W \ {r} \in SUBSET Relays
          /\ reached'[c] \ answered'[c] = W \ {r}
      BY <1>1, <3>2
    <3>4. /\ CountOf(c) /\ c \in 1..exports /\ files[c] = <<>> /\ pending[c].of = target[c]
          /\ pending[c].left = Cardinality(W)
      BY <2>2 DEF Counts, CountOf
    <3> HIDE DEF W
    <3>5. /\ Cardinality(W) \in Nat /\ Cardinality(W \ {r}) = Cardinality(W) - 1
          /\ Cardinality(W \ {r}) = 0 <=> W \ {r} = {}
      <4>1. IsFiniteSet(W) /\ Cardinality(W) \in Nat
        BY <3>3, FewRelays
      <4>2. Cardinality(W \ {r}) = Cardinality(W) - 1
        BY <3>1, <4>1, FS_RemoveElement
      <4>3. Cardinality(W \ {r}) = 0 <=> W \ {r} = {}
        BY <3>3, FewRelays
      <4> QED  BY <4>1, <4>2, <4>3
    <3>6. CASE Finish({c}) /\ Removed({c})
      BY <1>1, <2>2, <3>2, <3>6, FinishCounts
    <3>7. CASE /\ ~Completes(c) /\ files' = files
               /\ pending' = [pending EXCEPT ![c].left = @ - 1]
      <4>1. pending[c] \in Pending
        BY <2>2 DEF TypeOK
      <4>2. /\ DOMAIN pending' = DOMAIN pending
            /\ \A x \in DOMAIN pending : x # c => pending'[x] = pending[x]
            /\ pending'[c].of = pending[c].of /\ pending'[c].left = pending[c].left - 1
        BY <2>2, <3>7, <4>1 DEF Pending
      <4>3. W \ {r} # {}
        BY <3>4, <3>5, <3>7 DEF Completes
      <4>4. CountOf(c)'
        BY <1>1, <2>2, <3>3, <3>4, <3>5, <3>7, <4>2, <4>3 DEF CountOf
      <4>5. ASSUME NEW x \in Exports, x # c  PROVE CountOf(x)'
        <5>1. CountOf(x)
          BY DEF Counts
        <5> QED  BY <1>1, <3>2, <3>7, <4>2, <4>5, <5>1 DEF CountOf
      <4> QED  BY <4>4, <4>5 DEF Counts
    <3> QED  BY <1>3, <2>2, <3>6, <3>7 DEF FetchEose
  <2> QED  BY <1>3, <2>1, <2>2 DEF FetchEose
<1> QED  BY <1>2, <1>3, Handles

LEMMA CountsStep ==
    ASSUME TypeOK, Requests, Counts, [Next]_vars  PROVE Counts'
<1>1. ASSUME UNCHANGED <<exports, pending, target, reached, answered, files>>  PROVE Counts'
  BY <1>1 DEF Counts, CountOf
<1>2. ASSUME NEW g \in Targets, ExportTrack(g)  PROVE Counts'
  BY <1>2, ExportCounts
<1>3. CASE OnPoolEvent
  BY <1>3, HandlesCounts
<1>4. ASSUME NEW c \in Exports, Tick(c)  PROVE Counts'
  <2>1. /\ Overdue(c) \in SUBSET DOMAIN pending /\ Finish(Overdue(c)) /\ Removed(Overdue(c))
        /\ UNCHANGED <<exports, target, reached, answered>>
        /\ answered \in [Exports -> SUBSET Relays]
    BY <1>4 DEF Tick, Overdue, noted, TypeOK
  <2> QED  BY <2>1, FinishCounts
<1>5. ASSUME NEW g \in Groups, RemoveGroup(g)  PROVE Counts'
  BY <1>1, <1>5 DEF RemoveGroup, noted
<1>6. ASSUME NEW r \in Relays,
             \/ Connect(r) \/ Disconnect(r) \/ OfflineFetch(r) \/ LiveFetch(r)
             \/ \E c \in Exports : RelayEnds(r, c) \/ \E e \in Events : RelaySends(r, c, e)
      PROVE  Counts'
  <2>1. UNCHANGED engine
    BY <1>6 DEF Connect, Disconnect, OfflineFetch, LiveFetch, RelayEnds, RelaySends
  <2> QED  BY <1>1, <2>1 DEF engine, noted
<1>7. CASE UNCHANGED vars
  BY <1>1, <1>7 DEF vars, noted
<1> QED  BY <1>2, <1>3, <1>4, <1>5, <1>6, <1>7 DEF Next

-----------------------------------------------------------------------------
(* What answers bring *)

(* What covers an event stays, whatever else arrives. *)
LEMMA Covers ==
    ASSUME NEW c, NEW e, NEW n \in Nat, NEW m \in Nat, n <= m, Covered(c, e, n),
           target'[c] = target[c], held' \subseteq held,
           c \in DOMAIN pending' =>
               c \in DOMAIN pending /\ pending[c].points \subseteq pending'[c].points,
           DOMAIN inbox \subseteq Nat,
           \A i \in DOMAIN inbox : i \in DOMAIN inbox' /\ inbox'[i] = inbox[i]
    PROVE  Covered(c, e, m)'
<1>1. SUFFICES ASSUME target'[c].group \in held', c \in DOMAIN pending',
                      e \notin pending'[c].points
               PROVE  \E j \in DOMAIN inbox' : j < m /\ inbox'[j] = Found(c, e)
  BY DEF Covered, Found
<1>2. PICK j \in DOMAIN inbox : j < n /\ inbox[j] = Found(c, e)
  BY <1>1 DEF Covered
<1> QED  BY <1>2

LEMMA BringsKept ==
    ASSUME TypeOK, Brings, UNCHANGED <<asked, inbox, target>>, held' \subseteq held,
           \A c \in DOMAIN pending' :
               c \in DOMAIN pending /\ pending[c].points \subseteq pending'[c].points
    PROVE  Brings'
<1>1. /\ inbox \in Seq(Inbox) /\ Len(inbox) + 1 \in Nat /\ DOMAIN inbox \subseteq Nat
      /\ \A i \in DOMAIN inbox : i \in DOMAIN inbox' /\ inbox'[i] = inbox[i]
  BY DEF TypeOK
<1>2. \A c, e, n : n \in Nat /\ Covered(c, e, n) => Covered(c, e, n)'
  BY <1>1, Covers
<1>3. ASSUME NEW r \in Relays, NEW c \in Exports  PROVE BringsOpen(r, c)'
  BY <1>1, <1>2 DEF Brings, BringsOpen, Owes
<1>4. ASSUME NEW i \in DOMAIN inbox  PROVE BringsEnd(i)'
  BY <1>1, <1>2 DEF Brings, BringsEnd, Owes
<1> QED  BY <1>3, <1>4 DEF Brings

LEMMA ExportBrings ==
    ASSUME TypeOK, Requests, Brings, NEW g \in Targets, ExportTrack(g)  PROVE Brings'
<1>0. PICK c : c = exports + 1
  OBVIOUS
<1>1. /\ UNCHANGED <<held, asked, inbox>> /\ exports \in Nat
      /\ target' = [target EXCEPT ![c] = g] /\ target \in [Exports -> Targets]
      /\ \A x \in DOMAIN pending : x \in 1..exports
      /\ inbox \in Seq(Inbox) /\ Len(inbox) + 1 \in Nat /\ DOMAIN inbox \subseteq Nat
  BY <1>0 DEF ExportTrack, TypeOK
<1>2. \A x \in 1..exports : x # c /\ x \in Exports
  BY <1>0, <1>1, LogAssumption DEF TypeOK, Exports
<1>3. \A x \in 1..exports :
          /\ target'[x] = target[x]
          /\ x \in DOMAIN pending' =>
                 x \in DOMAIN pending /\ pending[x].points \subseteq pending'[x].points
  BY <1>0, <1>1, <1>2 DEF ExportTrack
<1>4. ASSUME NEW x \in 1..exports, NEW e, NEW n \in Nat, Covered(x, e, n)
      PROVE  Covered(x, e, n)'
  BY <1>1, <1>3, <1>4, Covers
<1>5. ASSUME NEW r \in Relays, NEW x \in Exports  PROVE BringsOpen(r, x)'
  <2>1. BringsOpen(r, x) /\ (x \in DOMAIN asked[r] => x \in 1..exports)
    BY DEF Brings, TypeOK
  <2> QED  BY <1>1, <1>3, <1>4, <2>1 DEF BringsOpen, Owes
<1>6. ASSUME NEW i \in DOMAIN inbox  PROVE BringsEnd(i)'
  <2>1. BringsEnd(i) /\ (inbox[i].kind = "eose" => inbox[i].corr \in 1..exports)
    BY DEF Brings, Requests, EndsOnce, Unanswered
  <2> QED  BY <1>1, <1>3, <1>4, <2>1 DEF BringsEnd, Owes
<1> QED  BY <1>1, <1>5, <1>6 DEF Brings

(* What is handled is collected, if it is of use. *)
LEMMA HandlesBrings ==
    ASSUME TypeOK, Counts, Brings, OnPoolEvent  PROVE Brings'
<1>1. /\ inbox \in Seq(Inbox) /\ inbox # <<>> /\ inbox' = Tail(inbox)
      /\ UNCHANGED <<held, history, connected, cmds, asked, exports, target, reached>>
  BY Handles
<1>2. /\ 1 \in DOMAIN inbox /\ DOMAIN inbox \subseteq Nat \ {0} /\ DOMAIN inbox' \subseteq Nat \ {0}
      /\ \A i \in DOMAIN inbox' : i + 1 \in DOMAIN inbox /\ inbox'[i] = inbox[i + 1]
      /\ \A i \in DOMAIN inbox : i # 1 => i - 1 \in DOMAIN inbox' /\ inbox'[i - 1] = inbox[i]
      /\ Len(inbox) \in Nat /\ Len(inbox') + 1 = Len(inbox)
  BY <1>1, Shorter
\* The table of exports only shrinks, but what is open there grows.
<1>3. \A x \in DOMAIN pending' :
          x \in DOMAIN pending /\ pending[x].points \subseteq pending'[x].points
  <2>1. ASSUME NEW c \in Exports, NEW e \in Events, FetchEvent(c, e), NEW x \in DOMAIN pending'
        PROVE  x \in DOMAIN pending /\ pending[x].points \subseteq pending'[x].points
    <3>1. CASE pending' = pending
      BY <2>1, <3>1
    <3>2. CASE c \in DOMAIN pending /\ pending' = [pending EXCEPT ![c].points = @ \cup {e}]
      <4>1. pending[c] \in Pending
        BY <3>2 DEF TypeOK
      <4> QED  BY <2>1, <3>2, <4>1 DEF Pending
    <3> QED  BY <2>1, <3>1, <3>2 DEF FetchEvent
  <2>2. ASSUME NEW c \in Exports, NEW r \in Relays, FetchEose(c, r), NEW x \in DOMAIN pending'
        PROVE  x \in DOMAIN pending /\ pending[x].points \subseteq pending'[x].points
    <3>1. CASE pending' = pending
      BY <2>2, <3>1
    <3>2. CASE Removed({c})
      BY <2>2, <3>2 DEF Removed, Without
    <3>3. CASE pending' = [pending EXCEPT ![c].left = @ - 1]
      BY <2>2, <3>3 DEF TypeOK, Pending
    <3> QED  BY <2>2, <3>1, <3>2, <3>3 DEF FetchEose
  <2> QED  BY <2>1, <2>2, Handles
<1>4. ASSUME NEW c, NEW r, NEW e \in Owes(r, target[c]), inbox[1] = Found(c, e),
             target[c].group \in held, c \in DOMAIN pending'
      PROVE  e \in pending'[c].points
  <2>1. PICK x \in Exports, f \in Events : inbox[1] = Found(x, f) /\ FetchEvent(x, f)
    <3>1. inbox[1].kind = "event"
      BY <1>4 DEF Found
    <3>2. \A x, z : inbox[1] # Ended(x, z)
      BY <3>1 DEF Ended
    <3> QED  BY <3>2, Handles
  <2>2. x = c /\ f = e /\ FetchEvent(c, e)
    BY <1>4, <2>1 DEF Found
  <2>3. c \in DOMAIN pending /\ pending[c].of = target[c] /\ pending[c] \in Pending
    BY <1>3, <1>4, <2>1, <2>2 DEF Counts, CountOf, TypeOK
  <2>4. Accepts(e, pending[c].of)
    BY <1>4, <2>3 DEF Accepts, Opens, Owes, Matches
  <2> QED  BY <2>2, <2>3, <2>4 DEF FetchEvent, Pending
<1>5. ASSUME NEW c, NEW r, NEW e \in Owes(r, target[c]), NEW n \in Nat, Covered(c, e, n + 1)
      PROVE  Covered(c, e, n)'
  <2>1. SUFFICES ASSUME target[c].group \in held, c \in DOMAIN pending', e \notin pending'[c].points
                 PROVE  \E j \in DOMAIN inbox' : j < n /\ inbox'[j] = Found(c, e)
    BY <1>1 DEF Covered, Found
  <2>2. c \in DOMAIN pending /\ e \notin pending[c].points
    BY <1>3, <2>1
  <2>3. PICK j \in DOMAIN inbox : j < n + 1 /\ inbox[j] = Found(c, e)
    BY <1>5, <2>1, <2>2 DEF Covered
  <2>4. j # 1
    BY <1>4, <2>1, <2>3
  <2>5. j - 1 \in DOMAIN inbox' /\ j - 1 < n /\ inbox'[j - 1] = Found(c, e)
    BY <1>2, <2>3, <2>4
  <2> QED  BY <2>5
<1>6. ASSUME NEW r \in Relays, NEW c \in Exports  PROVE BringsOpen(r, c)'
  <2>0. PICK n \in Nat : n = Len(inbox)
    BY <1>2
  <2>1. BringsOpen(r, c)
    BY DEF Brings
  <2>2. \A e \in Owes(r, target[c]) : Covered(c, e, n + 1) => Covered(c, e, n)'
    BY <1>5
  <2>3. Len(inbox') + 1 = n
    BY <1>2, <2>0
  <2> QED  BY <1>1, <2>0, <2>1, <2>2, <2>3 DEF BringsOpen, Owes
<1>7. ASSUME NEW i \in DOMAIN inbox'  PROVE BringsEnd(i)'
  <2>0. PICK c, r : c = inbox[i + 1].corr /\ r = inbox[i + 1].relay
    OBVIOUS
  <2>1. /\ BringsEnd(i + 1) /\ inbox'[i] = inbox[i + 1] /\ i \in Nat
    BY <1>2 DEF Brings
  <2>2. \A e \in Owes(r, target[c]) : Covered(c, e, i + 1) => Covered(c, e, i)'
    BY <1>5, <2>1
  <2> QED  BY <1>1, <2>0, <2>1, <2>2 DEF BringsEnd, Owes
<1> QED  BY <1>6, <1>7 DEF Brings

(* A relay's step: for the others nothing changes, and frames are added. *)
LEMMA LinkBrings ==
    ASSUME TypeOK, Brings, NEW r \in Relays, UNCHANGED <<held, pending, target>>,
           \A z \in Relays \ {r} : asked'[z] = asked[z],
           inbox' \in Seq(Inbox), Len(inbox) <= Len(inbox'),
           \A i \in DOMAIN inbox : i \in DOMAIN inbox' /\ inbox'[i] = inbox[i],
           \A c \in Exports : BringsOpen(r, c)',
           \A i \in DOMAIN inbox' \ DOMAIN inbox : BringsEnd(i)'
    PROVE  Brings'
<1>1. /\ inbox \in Seq(Inbox) /\ Len(inbox) + 1 \in Nat /\ Len(inbox') + 1 \in Nat
      /\ DOMAIN inbox \subseteq Nat /\ Len(inbox) + 1 <= Len(inbox') + 1
  BY DEF TypeOK
<1>2. ASSUME NEW c, NEW e, NEW n \in Nat, NEW m \in Nat, n <= m, Covered(c, e, n)
      PROVE  Covered(c, e, m)'
  BY <1>1, <1>2, Covers
<1>3. ASSUME NEW z \in Relays, z # r, NEW c \in Exports  PROVE BringsOpen(z, c)'
  <2>0. PICK n, m \in Nat : n = Len(inbox) + 1 /\ m = Len(inbox') + 1
    BY <1>1
  <2>1. BringsOpen(z, c) /\ asked'[z] = asked[z]
    BY <1>3 DEF Brings
  <2>2. \A e : Covered(c, e, n) => Covered(c, e, m)'
    BY <1>1, <1>2, <2>0
  <2> QED  BY <2>0, <2>1, <2>2 DEF BringsOpen, Owes
<1>4. ASSUME NEW i \in DOMAIN inbox  PROVE BringsEnd(i)'
  <2>0. PICK c, z : c = inbox[i].corr /\ z = inbox[i].relay
    OBVIOUS
  <2>1. BringsEnd(i) /\ inbox'[i] = inbox[i] /\ i \in Nat
    BY <1>1 DEF Brings
  <2>2. \A e : Covered(c, e, i) => Covered(c, e, i)'
    BY <1>2, <2>1
  <2> QED  BY <2>0, <2>1, <2>2 DEF BringsEnd, Owes
<1> QED  BY <1>3, <1>4 DEF Brings

LEMMA LiveBrings ==
    ASSUME TypeOK, Brings, NEW r \in Relays, LiveFetch(r)  PROVE Brings'
<1>0. PICK c : c = Head(cmds[r])
  OBVIOUS
<1>1. /\ UNCHANGED <<held, pending, target, inbox>> /\ DOMAIN asked = Relays
      /\ inbox' \in Seq(Inbox) /\ Len(inbox) <= Len(inbox')
      /\ Len(inbox) + 1 \in Nat /\ DOMAIN inbox \subseteq Nat
  BY DEF LiveFetch, engine, noted, TypeOK
<1>2. ASSUME Drops(r)  PROVE Brings'
  <2>1. DOMAIN asked'[r] = {} /\ \A z \in Relays \ {r} : asked'[z] = asked[z]
    BY <1>1, <1>2 DEF Drops, NoRequest
  <2>2. \A x \in Exports : BringsOpen(r, x)'
    BY <2>1 DEF BringsOpen
  <2> QED  BY <1>1, <2>1, <2>2, LinkBrings
<1>3. ASSUME ~Drops(r)  PROVE Brings'
  <2> DEFINE found == {e \in Stored[r] : Matches(e, target[Head(cmds[r])])}
  <2>1. PICK extra \in SUBSET (Stored[r] \ found) :
            asked' = [asked EXCEPT ![r] = [x \in DOMAIN @ \cup {Head(cmds[r])} |->
                IF x = Head(cmds[r]) THEN found \cup extra ELSE @[x]]]
    BY <1>3 DEF LiveFetch
  <2>2. Owes(r, target[c]) \subseteq found \cup extra
    BY <1>0 DEF Owes
  <2> HIDE DEF found
  <2>3. /\ \A z \in Relays \ {r} : asked'[z] = asked[z]
        /\ asked'[r] = [x \in DOMAIN asked[r] \cup {c} |->
               IF x = c THEN found \cup extra ELSE asked[r][x]]
    BY <1>0, <1>1, <2>1
  <2>4. ASSUME NEW x \in Exports  PROVE BringsOpen(r, x)'
    <3>1. CASE x = c
      BY <1>1, <2>2, <2>3, <3>1 DEF BringsOpen, Owes
    <3>2. CASE x # c
      <4>0. PICK n \in Nat : n = Len(inbox) + 1
        BY <1>1
      <4>1. BringsOpen(r, x)
        BY DEF Brings
      <4>2. \A e : Covered(x, e, n) => Covered(x, e, n)'
        BY <1>1 DEF Covered, Found
      <4> QED  BY <1>1, <2>3, <3>2, <4>0, <4>1, <4>2 DEF BringsOpen, Owes
    <3> QED  BY <3>1, <3>2
  <2> QED  BY <1>1, <2>3, <2>4, LinkBrings
<1> QED  BY <1>2, <1>3

LEMMA SendsBrings ==
    ASSUME TypeOK, Brings, NEW r \in Relays, NEW c \in Exports, NEW e \in Events,
           RelaySends(r, c, e)
    PROVE  Brings'
<1>1. /\ c \in DOMAIN asked[r] /\ e \in asked[r][c]
      /\ asked' = [asked EXCEPT ![r][c] = @ \ {e}] /\ inbox' = Append(inbox, Found(c, e))
      /\ UNCHANGED <<held, pending, target>>
      /\ inbox \in Seq(Inbox) /\ DOMAIN asked = Relays
  BY DEF RelaySends, engine, noted, TypeOK
<1>2. Found(c, e) \in Inbox
  BY DEF Found, Inbox
<1>3. /\ inbox'[Len(inbox) + 1] = Found(c, e) /\ inbox' \in Seq(Inbox)
      /\ Len(inbox') = Len(inbox) + 1 /\ Len(inbox) \in Nat /\ DOMAIN inbox \subseteq Nat
      /\ Len(inbox) + 1 \in DOMAIN inbox' /\ DOMAIN inbox' \subseteq Nat
      /\ \A i \in DOMAIN inbox : i \in DOMAIN inbox' /\ inbox'[i] = inbox[i]
      /\ \A i \in DOMAIN inbox' : i = Len(inbox) + 1 \/ i \in DOMAIN inbox
  BY <1>1, <1>2, Longer
<1>4. /\ \A z \in Relays \ {r} : asked'[z] = asked[z]
      /\ DOMAIN asked'[r] = DOMAIN asked[r] /\ asked'[r][c] = asked[r][c] \ {e}
      /\ \A x \in DOMAIN asked[r] : x # c => asked'[r][x] = asked[r][x]
  BY <1>1
<1>5. PICK n, m \in Nat : n = Len(inbox) + 1 /\ m = Len(inbox') + 1 /\ n < m
  BY <1>3
<1>6. ASSUME NEW x, NEW f, Covered(x, f, n)  PROVE Covered(x, f, m)'
  BY <1>1, <1>3, <1>5, <1>6, Covers
<1>7. Covered(c, e, m)'
  BY <1>3, <1>5 DEF Covered, Found
<1>8. ASSUME NEW x \in Exports  PROVE BringsOpen(r, x)'
  <2>1. BringsOpen(r, x)
    BY DEF Brings
  <2>2. CASE x = c
    <3>1. \A f \in Owes(r, target[c]) \ asked[r][c] : Covered(c, f, m)'
      BY <1>1, <1>5, <1>6, <2>1, <2>2 DEF BringsOpen
    <3> QED  BY <1>1, <1>4, <1>5, <1>7, <2>2, <3>1 DEF BringsOpen, Owes
  <2>3. CASE x # c
    BY <1>1, <1>4, <1>5, <1>6, <2>1, <2>3 DEF BringsOpen, Owes
  <2> QED  BY <2>2, <2>3
<1>9. \A i \in DOMAIN inbox' \ DOMAIN inbox : BringsEnd(i)'
  BY <1>3 DEF BringsEnd, Found
<1>10. Len(inbox) <= Len(inbox')
  BY <1>3
<1> QED  BY <1>1, <1>3, <1>4, <1>8, <1>9, <1>10, LinkBrings

LEMMA EndsBrings ==
    ASSUME TypeOK, Brings, NEW r \in Relays, NEW c \in Exports, RelayEnds(r, c)
    PROVE  Brings'
<1>1. /\ c \in DOMAIN asked[r] /\ asked[r][c] = {}
      /\ asked' = [asked EXCEPT ![r] = [x \in DOMAIN asked[r] \ {c} |-> asked[r][x]]]
      /\ inbox' = Append(inbox, Ended(c, r))
      /\ UNCHANGED <<held, pending, target>>
      /\ inbox \in Seq(Inbox) /\ DOMAIN asked = Relays
  BY DEF RelayEnds, engine, noted, TypeOK
<1>2. Ended(c, r) \in Inbox
  BY DEF Ended, Inbox
<1>3. /\ inbox'[Len(inbox) + 1] = Ended(c, r) /\ inbox' \in Seq(Inbox)
      /\ Len(inbox') = Len(inbox) + 1 /\ Len(inbox) \in Nat /\ DOMAIN inbox \subseteq Nat
      /\ Len(inbox) + 1 \in DOMAIN inbox' /\ DOMAIN inbox' \subseteq Nat
      /\ \A i \in DOMAIN inbox : i \in DOMAIN inbox' /\ inbox'[i] = inbox[i]
      /\ \A i \in DOMAIN inbox' : i = Len(inbox) + 1 \/ i \in DOMAIN inbox
  BY <1>1, <1>2, Longer
<1>4. /\ \A z \in Relays \ {r} : asked'[z] = asked[z]
      /\ DOMAIN asked'[r] = DOMAIN asked[r] \ {c}
      /\ \A x \in DOMAIN asked'[r] : asked'[r][x] = asked[r][x]
  BY <1>1
<1>5. PICK n, m \in Nat : n = Len(inbox) + 1 /\ m = Len(inbox') + 1 /\ n < m
  BY <1>3
<1>6. ASSUME NEW x, NEW f, Covered(x, f, n)  PROVE Covered(x, f, m)' /\ Covered(x, f, n)'
  BY <1>1, <1>3, <1>5, <1>6, Covers
<1>7. ASSUME NEW x \in Exports  PROVE BringsOpen(r, x)'
  <2>1. BringsOpen(r, x)
    BY DEF Brings
  <2> QED  BY <1>1, <1>4, <1>5, <1>6, <2>1 DEF BringsOpen, Owes
<1>8. BringsEnd(n)'
  <2>1. BringsOpen(r, c)
    BY DEF Brings
  <2>2. \A f \in Owes(r, target[c]) : Covered(c, f, n)'
    BY <1>1, <1>5, <1>6, <2>1 DEF BringsOpen
  <2>3. inbox'[n].corr = c /\ inbox'[n].relay = r
    BY <1>3, <1>5 DEF Ended
  <2> QED  BY <1>1, <2>2, <2>3 DEF BringsEnd, Owes
<1>9. \A i \in DOMAIN inbox' \ DOMAIN inbox : BringsEnd(i)'
  BY <1>3, <1>5, <1>8
<1>10. Len(inbox) <= Len(inbox')
  BY <1>3
<1> QED  BY <1>1, <1>3, <1>4, <1>7, <1>9, <1>10, LinkBrings

LEMMA BringsStep ==
    ASSUME TypeOK, Requests, Counts, Brings, [Next]_vars  PROVE Brings'
<1>t. DOMAIN asked = Relays /\ inbox \in Seq(Inbox) /\ Len(inbox) \in Nat
  BY DEF TypeOK
<1>1. ASSUME UNCHANGED <<asked, inbox, target, held, pending>>  PROVE Brings'
  BY <1>1, BringsKept
<1>2. ASSUME NEW g \in Targets, ExportTrack(g)  PROVE Brings'
  BY <1>2, ExportBrings
<1>3. CASE OnPoolEvent
  BY <1>3, HandlesBrings
<1>4. ASSUME NEW c \in Exports, Tick(c)  PROVE Brings'
  <2>1. /\ UNCHANGED <<asked, inbox, target, held>> /\ Removed(Overdue(c))
    BY <1>4 DEF Tick, links, noted
  <2>2. \A x \in DOMAIN pending' : x \in DOMAIN pending /\ pending'[x] = pending[x]
    BY <2>1 DEF Removed, Without
  <2> QED  BY <2>1, <2>2, BringsKept
<1>5. ASSUME NEW g \in Groups, RemoveGroup(g)  PROVE Brings'
  <2>1. UNCHANGED <<asked, inbox, target, pending>> /\ held' \subseteq held
    BY <1>5 DEF RemoveGroup, links, noted
  <2> QED  BY <2>1, BringsKept
<1>6. ASSUME NEW r \in Relays, Connect(r) \/ OfflineFetch(r)  PROVE Brings'
  BY <1>1, <1>6 DEF Connect, OfflineFetch, engine, noted
<1>7. ASSUME NEW r \in Relays, Disconnect(r)  PROVE Brings'
  <2>1. /\ UNCHANGED <<held, pending, target, inbox>> /\ DOMAIN asked'[r] = {}
        /\ \A z \in Relays \ {r} : asked'[z] = asked[z]
    BY <1>t, <1>7 DEF Disconnect, Drops, NoRequest, engine, noted
  <2>2. \A c \in Exports : BringsOpen(r, c)'
    BY <2>1 DEF BringsOpen
  <2>3. Len(inbox) <= Len(inbox') /\ inbox' \in Seq(Inbox)
    BY <1>t, <2>1
  <2> QED  BY <2>1, <2>2, <2>3, LinkBrings
<1>8. ASSUME NEW r \in Relays, LiveFetch(r)  PROVE Brings'
  BY <1>8, LiveBrings
<1>9. ASSUME NEW r \in Relays, NEW c \in Exports, NEW e \in Events, RelaySends(r, c, e)
      PROVE  Brings'
  BY <1>9, SendsBrings
<1>10. ASSUME NEW r \in Relays, NEW c \in Exports, RelayEnds(r, c)  PROVE Brings'
  BY <1>10, EndsBrings
<1>11. CASE UNCHANGED vars
  BY <1>1, <1>11 DEF vars, links, noted
<1> QED
  BY <1>2, <1>3, <1>4, <1>5, <1>6, <1>7, <1>8, <1>9, <1>10, <1>11 DEF Next

-----------------------------------------------------------------------------
(* What is collected and shipped *)

(* Of an export that was asked and answered nothing new, the same is owed. *)
LEMMA SameOwed ==
    ASSUME NEW c, history' = history, target'[c] = target[c],
           reached'[c] = reached[c], answered'[c] = answered[c]
    PROVE  Most(c)' = Most(c) /\ OwedTo(c)' = OwedTo(c)
BY DEF Most, OwedTo, Points

LEMMA OwedMore ==
    ASSUME NEW R, NEW r, NEW g  PROVE Points(R \cup {r}, g) = Points(R, g) \cup Owes(r, g)
BY DEF Points, Owes

LEMMA CollectedKept ==
    ASSUME TypeOK, Counts, NEW c \in Exports, CollectedOf(c), WholeOf(c),
           history' = history, held' \subseteq held, target'[c] = target[c],
           reached'[c] = reached[c], answered'[c] = answered[c],
           files'[c] = files[c],
           c \in DOMAIN pending' =>
               c \in DOMAIN pending /\ pending'[c].points = pending[c].points
    PROVE  CollectedOf(c)' /\ WholeOf(c)'
<1>1. Most(c)' = Most(c) /\ OwedTo(c)' = OwedTo(c)
  BY SameOwed
<1>2. CollectedOf(c)'
  BY <1>1 DEF CollectedOf
<1>3. WholeOf(c)'
  BY <1>1 DEF WholeOf, Shipped, Track
<1> QED  BY <1>2, <1>3

(* A track that is shipped when what it was owed is collected is whole. *)
LEMMA FinishCollected ==
    ASSUME TypeOK, Counts, NEW S \in SUBSET DOMAIN pending, Finish(S), Removed(S),
           UNCHANGED <<held, history, target, reached>>, NEW c \in S, c \in Exports,
           pending[c].points \subseteq Most(c),
           target[c].group \in held => OwedTo(c)' \subseteq pending[c].points
    PROVE  CollectedOf(c)' /\ WholeOf(c)'
<1>1. files[c] = <<>> /\ files'[c] = Append(files[c], Track(pending[c].points))
  BY FinishTyped DEF Counts, CountOf
<1>2. files'[c] = <<Track(pending[c].points)>> /\ files'[c][1] = Track(pending[c].points)
  BY <1>1
<1>3. c \notin DOMAIN pending'
  BY DEF Removed, Without
<1>4. Most(c)' = Most(c)
  BY DEF Most, Points
<1>5. Track(pending[c].points) \subseteq pending[c].points
  BY DEF Track
<1>6. PICK P : P = pending[c].points
  OBVIOUS
<1>7. P \in SUBSET Most(c)' /\ files'[c][1] = Track(P) /\ Track(P)' = Track(P)
  BY <1>2, <1>4, <1>6 DEF Track
<1>8. WholeOf(c)'
  BY <1>5, <1>6, <1>7 DEF WholeOf
<1> QED  BY <1>3, <1>8 DEF CollectedOf

LEMMA ExportCollected ==
    ASSUME TypeOK, Counts, Collected, NEW g \in Targets, ExportTrack(g)
    PROVE  Collected'
<1>0. PICK c : c = exports + 1
  OBVIOUS
<1>1. c \in Exports /\ exports \in Nat /\ c \notin 1..exports
  BY <1>0, LogAssumption DEF ExportTrack, TypeOK, Exports
<1>2. answered[c] = {} /\ files[c] = <<>> /\ c \notin DOMAIN pending
  BY <1>1 DEF Counts, CountOf
<1>3. /\ target' = [target EXCEPT ![c] = g]
      /\ reached' = [reached EXCEPT ![c] = Reachable]
      /\ UNCHANGED <<answered, held, history>>
      /\ target \in [Exports -> Targets] /\ reached \in [Exports -> SUBSET Relays]
      /\ files \in [Exports -> Seq(SUBSET Events)]
  BY <1>0 DEF ExportTrack, TypeOK
<1>4. target'[c] = g /\ answered'[c] = {}
  BY <1>1, <1>2, <1>3
<1>5. history[g] \subseteq Most(c)' /\ OwedTo(c)' = history[g]
  BY <1>3, <1>4 DEF Most, OwedTo, Points
<1>6. ASSUME NEW x \in Exports, x # c  PROVE CollectedOf(x)' /\ WholeOf(x)'
  <2>1. target'[x] = target[x] /\ reached'[x] = reached[x] /\ answered'[x] = answered[x]
        /\ files'[x] = files[x]
    BY <1>0, <1>1, <1>3, <1>6 DEF ExportTrack
  <2>2. x \in DOMAIN pending' => x \in DOMAIN pending /\ pending'[x].points = pending[x].points
    BY <1>0, <1>6 DEF ExportTrack
  <2> QED  BY <1>3, <2>1, <2>2, CollectedKept DEF Collected
<1>7. CASE /\ files' = [files EXCEPT ![c] = <<Track(history[g])>>]
           /\ pending' = pending
  <2>1. PICK P : P = history[g]
    OBVIOUS
  <2>2. files'[c] = <<Track(P)>> /\ files'[c][1] = Track(P) /\ Track(P)' = Track(P)
    BY <1>1, <1>3, <1>7, <2>1 DEF Track
  <2>3. Track(P) \subseteq P
    BY DEF Track
  <2>4. P \in SUBSET Most(c)' /\ OwedTo(c)' \subseteq P
    BY <1>5, <2>1
  <2>5. WholeOf(c)'
    BY <2>2, <2>3, <2>4 DEF WholeOf
  <2>6. CollectedOf(c)'
    BY <1>2, <1>7 DEF CollectedOf
  <2> QED  BY <1>6, <2>5, <2>6 DEF Collected
<1>8. CASE /\ pending' = [x \in DOMAIN pending \cup {c} |->
                  IF x = c THEN [of |-> g, left |-> Awaited, points |-> history[g]]
                           ELSE pending[x]]
           /\ files' = files
  <2>1. pending'[c].points = history[g]
    BY <1>8
  <2>2. CollectedOf(c)'
    BY <1>5, <2>1 DEF CollectedOf
  <2>3. WholeOf(c)'
    BY <1>2, <1>8 DEF WholeOf, Shipped
  <2> QED  BY <1>6, <2>2, <2>3 DEF Collected
<1> QED  BY <1>0, <1>7, <1>8 DEF ExportTrack

LEMMA HandlesCollected ==
    ASSUME TypeOK, Requests, Counts, Brings, Collected, OnPoolEvent  PROVE Collected'
<1>1. /\ UNCHANGED <<held, history, exports, target, reached>>
      /\ inbox \in Seq(Inbox) /\ inbox # <<>> /\ 1 \in DOMAIN inbox /\ DOMAIN inbox \subseteq Nat \ {0}
      /\ answered \in [Exports -> SUBSET Relays] /\ reached \in [Exports -> SUBSET Relays]
  BY Handles, Shorter DEF TypeOK
<1>2. ASSUME NEW c \in Exports, NEW e \in Events, inbox[1] = Found(c, e), FetchEvent(c, e)
      PROVE  Collected'
  <2>1. UNCHANGED <<answered, files>>
    BY <1>2 DEF FetchEvent
  <2>2. CASE pending' = pending
    BY <1>1, <2>1, <2>2, CollectedKept DEF Collected
  <2>3. CASE /\ c \in DOMAIN pending /\ Accepts(e, pending[c].of)
             /\ pending' = [pending EXCEPT ![c].points = @ \cup {e}]
    <3>1. pending[c] \in Pending /\ pending[c].of = target[c]
      BY <2>3 DEF TypeOK, Counts, CountOf
    <3>2. /\ pending'[c].points = pending[c].points \cup {e}
          /\ \A x \in DOMAIN pending' : x \in DOMAIN pending /\ (x # c => pending'[x] = pending[x])
      BY <2>3, <3>1 DEF Pending
    <3>3. e \in Most(c)
      <4>1. PICK r \in reached[c] : e \in Stored[r]
        BY <1>1, <1>2 DEF Requests, FromReached, Found
      <4>2. Matches(e, target[c]) /\ HasPoint(e)
        BY <2>3, <3>1 DEF Accepts, Opens, Matches
      <4> QED  BY <4>1, <4>2 DEF Most, Points
    <3>4. Most(c)' = Most(c) /\ OwedTo(c)' = OwedTo(c)
      BY <1>1, <2>1, SameOwed
    <3>5. CollectedOf(c) /\ WholeOf(c)
      BY DEF Collected
    <3>6. CollectedOf(c)'
      BY <1>1, <2>3, <3>2, <3>3, <3>4, <3>5 DEF CollectedOf
    <3>7. WholeOf(c)'
      BY <1>1, <2>1, <3>4, <3>5 DEF WholeOf, Shipped, Track
    <3>8. ASSUME NEW x \in Exports, x # c  PROVE CollectedOf(x)' /\ WholeOf(x)'
      BY <1>1, <2>1, <3>2, <3>8, CollectedKept DEF Collected
    <3> QED  BY <3>6, <3>7, <3>8 DEF Collected
  <2> QED  BY <1>2, <2>2, <2>3 DEF FetchEvent
<1>3. ASSUME NEW c \in Exports, NEW r \in Relays, inbox[1] = Ended(c, r), FetchEose(c, r)
      PROVE  Collected'
  <2>1. CASE UNCHANGED <<pending, answered, files>>
    BY <1>1, <2>1, CollectedKept DEF Collected
  <2>2. CASE c \in DOMAIN pending /\ answered' = [answered EXCEPT ![c] = @ \cup {r}]
    <3>1. /\ answered'[c] = answered[c] \cup {r}
          /\ \A x \in Exports \ {c} : answered'[x] = answered[x]
      BY <1>1, <2>2
    <3>2. CollectedOf(c) /\ pending[c] \in Pending /\ files[c] = <<>>
      BY <2>2 DEF Collected, TypeOK, Counts, CountOf
    <3>3. OwedTo(c)' = OwedTo(c) \cup Owes(r, target[c]) /\ Most(c)' = Most(c)
      BY <1>1, <3>1, OwedMore DEF OwedTo, Most, Points
    <3>4. target[c].group \in held => Owes(r, target[c]) \subseteq pending[c].points
      <4>1. \A e \in Owes(r, target[c]) : Covered(c, e, 1)
        <5>1. 1 \in DOMAIN inbox
          BY <1>1
        <5>2. BringsEnd(1)
          BY <1>1, <5>1 DEF Brings
        <5>3. inbox[1].kind = "eose" /\ inbox[1].corr = c /\ inbox[1].relay = r
          BY <1>3 DEF Ended
        <5> QED  BY <5>2, <5>3 DEF BringsEnd
      <4> QED  BY <1>1, <2>2, <4>1 DEF Covered
    <3>5. /\ pending[c].points \subseteq Most(c)
          /\ target[c].group \in held => OwedTo(c)' \subseteq pending[c].points
      BY <2>2, <3>2, <3>3, <3>4 DEF CollectedOf
    <3>6. CASE Finish({c}) /\ Removed({c})
      <4>1. CollectedOf(c)' /\ WholeOf(c)'
        BY <1>1, <2>2, <3>5, <3>6, FinishCollected
      <4>2. ASSUME NEW x \in Exports, x # c  PROVE CollectedOf(x)' /\ WholeOf(x)'
        <5>1. files'[x] = files[x]
          BY <2>2, <3>6, <4>2, FinishTyped
        <5>2. x \in DOMAIN pending' => x \in DOMAIN pending /\ pending'[x].points = pending[x].points
          BY <3>6 DEF Removed, Without
        <5> QED  BY <1>1, <3>1, <4>2, <5>1, <5>2, CollectedKept DEF Collected
      <4> QED  BY <4>1, <4>2 DEF Collected
    <3>7. CASE pending' = [pending EXCEPT ![c].left = @ - 1] /\ files' = files
      <4>1. \A x \in DOMAIN pending' : x \in DOMAIN pending /\ pending'[x].points = pending[x].points
        BY <2>2, <3>2, <3>7 DEF Pending
      <4>2. CollectedOf(c)'
        BY <1>1, <3>3, <3>5, <4>1 DEF CollectedOf
      <4>3. WholeOf(c)'
        BY <3>2, <3>7 DEF WholeOf, Shipped
      <4>4. ASSUME NEW x \in Exports, x # c  PROVE CollectedOf(x)' /\ WholeOf(x)'
        BY <1>1, <3>1, <3>7, <4>1, <4>4, CollectedKept DEF Collected
      <4> QED  BY <4>2, <4>3, <4>4 DEF Collected
    <3> QED  BY <1>3, <2>2, <3>6, <3>7 DEF FetchEose
  <2> QED  BY <1>3, <2>1, <2>2 DEF FetchEose
<1> QED  BY <1>2, <1>3, Handles

LEMMA CollectedStep ==
    ASSUME TypeOK, Requests, Counts, Brings, Collected, [Next]_vars  PROVE Collected'
<1>1. ASSUME UNCHANGED <<history, pending, target, reached, answered, files>>, held' \subseteq held
      PROVE  Collected'
  BY <1>1, CollectedKept DEF Collected
<1>2. ASSUME NEW g \in Targets, ExportTrack(g)  PROVE Collected'
  BY <1>2, ExportCollected
<1>3. CASE OnPoolEvent
  BY <1>3, HandlesCollected
<1>4. ASSUME NEW c \in Exports, Tick(c)  PROVE Collected'
  <2>1. PICK S : S = Overdue(c)
    OBVIOUS
  <2>2. /\ S \in SUBSET DOMAIN pending /\ Finish(S) /\ Removed(S)
        /\ UNCHANGED <<held, history, target, reached, answered>>
    BY <1>4, <2>1 DEF Tick, Overdue, noted
  <2>3. ASSUME NEW x \in Exports, x \in S  PROVE CollectedOf(x)' /\ WholeOf(x)'
    <3>1. CollectedOf(x) /\ x \in DOMAIN pending /\ OwedTo(x)' = OwedTo(x)
      BY <2>2, <2>3, SameOwed DEF Collected
    <3> QED  BY <2>2, <2>3, <3>1, FinishCollected DEF CollectedOf
  <2>4. ASSUME NEW x \in Exports, x \notin S  PROVE CollectedOf(x)' /\ WholeOf(x)'
    <3>1. files'[x] = files[x]
      BY <2>2, <2>4, FinishTyped
    <3>2. x \in DOMAIN pending' => x \in DOMAIN pending /\ pending'[x].points = pending[x].points
      BY <2>2 DEF Removed, Without
    <3> QED  BY <2>2, <3>1, <3>2, CollectedKept DEF Collected
  <2> QED  BY <2>3, <2>4 DEF Collected
<1>5. ASSUME NEW g \in Groups, RemoveGroup(g)  PROVE Collected'
  BY <1>1, <1>5 DEF RemoveGroup, noted
<1>6. ASSUME NEW r \in Relays,
             \/ Connect(r) \/ Disconnect(r) \/ OfflineFetch(r) \/ LiveFetch(r)
             \/ \E c \in Exports : RelayEnds(r, c) \/ \E e \in Events : RelaySends(r, c, e)
      PROVE  Collected'
  <2>1. UNCHANGED engine
    BY <1>6 DEF Connect, Disconnect, OfflineFetch, LiveFetch, RelayEnds, RelaySends
  <2> QED  BY <1>1, <2>1 DEF engine, noted
<1>7. CASE UNCHANGED vars
  BY <1>1, <1>7 DEF vars, noted
<1> QED  BY <1>2, <1>3, <1>4, <1>5, <1>6, <1>7 DEF Next

-----------------------------------------------------------------------------
(* The theorems *)

ExportInv == TypeOK /\ Requests /\ Counts /\ Brings /\ Collected

LEMMA ExportInit ==
    ASSUME Init  PROVE ExportInv
<1>1. TypeOK
  BY TypedInit
<1>2. /\ \A r \in Relays : cmds[r] = <<>> /\ DOMAIN asked[r] = {}
      /\ inbox = <<>> /\ DOMAIN pending = {} /\ exports = 0
      /\ \A c \in Exports : answered[c] = {} /\ files[c] = <<>>
  BY DEF Init, NoRequest
<1>3. Requests
  BY <1>2 DEF Requests, Queued, Open
<1>4. Counts
  BY <1>2 DEF Counts, CountOf
<1>5. Brings
  BY <1>2 DEF Brings, BringsOpen
<1>6. Collected
  BY <1>2 DEF Collected, CollectedOf, WholeOf, Shipped
<1> QED  BY <1>1, <1>3, <1>4, <1>5, <1>6 DEF ExportInv

(* Where each request is, and what has come ahead of it, is inductive. *)
LEMMA Inductive == Spec => []ExportInv
<1>1. Init => ExportInv
  BY ExportInit
<1>2. ExportInv /\ [Next]_vars => ExportInv'
  BY TypedStep, RequestsStep, CountsStep, BringsStep, CollectedStep DEF ExportInv
<1> QED  BY <1>1, <1>2, PTL DEF Spec

(* Every variable of an export and its relays holds a value of its type. *)
THEOREM TypeCorrect == Spec => []TypeOK
BY Inductive, PTL DEF ExportInv

(***************************************************************************)
(* PendingExport::relays_pending, finish_export: an export waits for the   *)
(* relays it reached that have not ended their answer, and ships once.     *)
(***************************************************************************)
THEOREM WaitsAndShipsOnce == Spec => []AwaitsReached
<1>1. ASSUME ExportInv  PROVE AwaitsReached
  <2>1. ASSUME NEW c \in 1..exports
        PROVE  /\ Len(files[c]) <= 1
               /\ c \in Shipped => c \notin DOMAIN pending
               /\ c \in DOMAIN pending => pending[c].left = Cardinality(reached[c] \ answered[c])
               /\ reached[c] \subseteq answered[c] => c \in Shipped
    <3>1. c \in Exports /\ CountOf(c)
      BY <1>1, LogAssumption DEF ExportInv, TypeOK, Exports, Counts
    <3>2. CASE c \in DOMAIN pending
      BY <3>1, <3>2 DEF CountOf, Shipped
    <3>3. CASE c \notin DOMAIN pending
      <4>1. Len(files[c]) = 1
        BY <3>1, <3>3 DEF CountOf
      <4>2. files[c] # <<>>
        BY <4>1
      <4> QED  BY <3>1, <3>3, <4>1, <4>2 DEF Shipped
    <3> QED  BY <3>2, <3>3
  <2> QED  BY <2>1 DEF AwaitsReached
<1> QED  BY <1>1, Inductive, PTL

(***************************************************************************)
(* on_fetch_event, finish_export: a track that was shipped holds all that  *)
(* the relays that answered in time hold of it, and nothing that is not    *)
(* the sender's and the group's.                                           *)
(***************************************************************************)
THEOREM TracksWhole == Spec => []Whole
<1>1. ExportInv => Whole
  BY DEF ExportInv, Collected, WholeOf, Whole, Most, OwedTo, Shipped
<1> QED  BY <1>1, Inductive, PTL
=============================================================================
