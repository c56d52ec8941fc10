--------------------------- MODULE VoiceBackends ---------------------------
(***************************************************************************)
(* The two services around the program, as far as its code in pkg/service  *)
(* uses them: AccelByte's session service (parties, game sessions, their   *)
(* members and teams) and Epic (account links, RTC room admissions).       *)
(*                                                                         *)
(* Nothing here is under src/.  Their data changes on its own while        *)
(* requests are being served, and a call to either may be refused, or may  *)
(* be answered too late or unreadably for the program to know whether it   *)
(* took effect, or will yet.                                               *)
(***************************************************************************)
EXTENDS VoiceErrors, FiniteSets

CONSTANTS
  User,          \* AccelByte user ids
  Puid,          \* Epic product user ids
  NoPuid,        \* the empty string where a PUID is expected
  Party,         \* party ids
  Session,       \* game session ids
  Team,          \* the non-empty team ids
  NoTeam,        \* the empty team id, which the program skips
  Status,        \* values of a member's StatusV2, NoStatus for a nil one
  Unlisted,      \* the user is not in the member list at all
  StatusErrors,  \* texts of errors that stand for an HTTP status: no effect
  LostErrors,    \* texts of errors after which the effect is unknown
  Delays,        \* a request may take effect after the program gave it up
  MaxChanges     \* bound: changes of the backends' data in one behaviour

Group == Party \cup Session
TeamID == Team \cup {NoTeam}

\* The suffix of party and session rooms.
Voice == "Voice"

\* A room id is the concatenation  group ":" suffix.  Ids hold no colon, so
\* two ids are equal exactly when both parts are.
RoomID(group, suffix) == <<group, suffix>>
Room == Group \X ({Voice} \cup Team)

ASSUME BackendsAssumption ==
  /\ NoPuid \notin Puid
  /\ NoTeam \notin Team
  /\ Unlisted \notin Status
  /\ Party \cap Session = {}
  /\ StatusErrors \subseteq ErrorText
  /\ LostErrors \subseteq ErrorText
  /\ Delays \in BOOLEAN
  /\ MaxChanges \in Nat

VARIABLES
  live,      \* the parties and sessions that exist
  roster,    \* roster[g][u]: status of user u in g, or Unlisted
  teams,     \* teams[s][t]: the UserIDs of team t of session s
  link,      \* link[u]: the PUID Epic has linked to AccelByte user u
  admitted,  \* <<room, puid>>: Epic holds a live token for puid in room
  late,      \* what Epic may yet do for requests the program gave up
  changes    \* how often the data has changed; only the bound reads it

backendVars == <<live, roster, teams, link, admitted, late, changes>>

\* What a request to Epic does to a room.
Work == [op : {"admit", "remove"}, room : Room, puids : SUBSET Puid]

BackendsTypeOK ==
  /\ live \subseteq Group
  /\ roster \in [Group -> [User -> Status \cup {Unlisted}]]
  /\ teams \in [Session -> [TeamID -> SUBSET User]]
  /\ link \in [User -> Puid \cup {NoPuid}]
  /\ admitted \subseteq Room \X Puid
  /\ late \subseteq Work
  /\ changes \in 0..MaxChanges

\* Epic links a PUID to one account of the identity provider at most.
OneUserPerPuid(l) == \A u, w \in User : l[u] = l[w] => u = w \/ l[u] = NoPuid

DataInit ==
  /\ live = Group
  /\ roster \in [Group -> [User -> Status \cup {Unlisted}]]
  /\ teams \in [Session -> [TeamID -> SUBSET User]]
  /\ link \in {l \in [User -> Puid \cup {NoPuid}] : OneUserPerPuid(l)}
  /\ late = {}
  /\ changes = 0

BackendsInit == DataInit /\ admitted = {}

-----------------------------------------------------------------------------
(* What a fetch of a group sees. *)

\* The member list of g names u, whatever the status.
Lists(g, u) == g \in live /\ roster[g][u] # Unlisted

\* The rooms u is listed for at this instant: those of its parties and
\* sessions, and those of the teams that name it in a session that lists it.
RoomsListing(u) ==
  {RoomID(g, Voice) : g \in {h \in Group : Lists(h, u)}}
    \cup {r \in Session \X Team : Lists(r[1], u) /\ u \in teams[r[1]][r[2]]}

-----------------------------------------------------------------------------
(* Changes of the backends' data that the program has no part in. *)

Counted == changes < MaxChanges /\ changes' = changes + 1

\* A user is invited, joins, leaves, is kicked, connects or drops.
ChangeRoster(g, u) ==
  /\ Counted
  /\ g \in live
  /\ \E st \in (Status \cup {Unlisted}) \ {roster[g][u]} :
        roster' = [roster EXCEPT ![g] = [@ EXCEPT ![u] = st]]
  /\ UNCHANGED <<live, teams, link, admitted, late>>

\* A user is put into a team or taken out of it.
ChangeTeam(s, t, u) ==
  /\ Counted
  /\ s \in live
  /\ \E ids \in {teams[s][t] \ {u}, teams[s][t] \cup {u}} \ {teams[s][t]} :
        teams' = [teams EXCEPT ![s] = [@ EXCEPT ![t] = ids]]
  /\ UNCHANGED <<live, roster, link, admitted, late>>

\* A party is disbanded, a session ends.  Ids are never used again.
Disband(g) ==
  /\ Counted
  /\ live' = live \ {g}
  /\ g \in live
  /\ UNCHANGED <<roster, teams, link, admitted, late>>

\* A user links, unlinks or relinks an Epic account.
ChangeLink(u) ==
  /\ Counted
  /\ \E p \in (Puid \cup {NoPuid}) \ {link[u]} : link' = [link EXCEPT ![u] = p]
  /\ OneUserPerPuid(link')
  /\ UNCHANGED <<live, roster, teams, admitted, late>>

\* What Epic's rooms hold when w is done.
Done(w) == IF w.op = "admit" THEN admitted \cup ({w.room} \X w.puids)
                             ELSE admitted \ ({w.room} \X w.puids)

\* Epic does what nobody waits for any more.  late does not count equal
\* requests, so w may remain.
Land(w) ==
  /\ w \in late
  /\ admitted' = Done(w)
  /\ late' \in {late, late \ {w}}
  /\ UNCHANGED <<live, roster, teams, link, changes>>

BackendsChange ==
  \/ \E g \in Group, u \in User : ChangeRoster(g, u)
  \/ \E s \in Session, t \in TeamID, u \in User : ChangeTeam(s, t, u)
  \/ \E g \in Group : Disband(g)
  \/ \E u \in User : ChangeLink(u)
  \/ \E w \in late : Land(w)

-----------------------------------------------------------------------------
(* Requests to Epic's rooms.  A request takes effect by the time it is      *)
(* answered, never, or, after the program has given it up, late.           *)

LostEffects == {"now", "never"} \cup (IF Delays THEN {"late"} ELSE {})

\* Epic is asked for w, with that effect.
Asked(w, effect) ==
  /\ admitted' = IF effect = "now" THEN Done(w) ELSE admitted
  /\ late' = IF effect = "late" THEN late \cup {w} ELSE late
  /\ UNCHANGED <<live, roster, teams, link, changes>>

(* How Epic answers POST /rtc/v1/<deployment>/room/<room>, the request of  *)
(* CreateRoomToken: with a token for each participant, with a 200 that     *)
(* names no participant ("empty") or one without a token ("blank"), with   *)
(* an HTTP status, or not at all (time-out, broken connection, undecodable *)
(* body).  Only an HTTP status tells that nothing was done.  The handlers  *)
(* differ in what they make of a 200: PublicRoomCode, AdminRoomCode.       *)

RoomAnswers ==
  [kind : {"token"}, effect : {"now"}, text : {{}}]
    \cup [kind : {"empty", "blank"}, effect : {"now", "never"}, text : {{}}]
    \cup [kind : {"error"}, effect : {"never"}, text : StatusErrors]
    \cup [kind : {"error"}, effect : LostEffects, text : LostErrors]

Admission(room, ps) == [op |-> "admit", room |-> room, puids |-> ps]

\* The admissions that answer a brings about, now or late, for the puids ps.
Admitting(a, room, ps) == IF a.effect # "never" THEN {room} \X ps ELSE {}

\* Mutant: the HTTP status of the answer is not looked at.
RemoveAnswersUnchecked(room, p) ==
  {[ok |-> TRUE, effect |-> e, text |-> {}] : e \in {"now", "never"}}
    \cup [ok : {FALSE}, effect : LostEffects, text : LostErrors]

\* How Epic answers DELETE /rtc/v1/<deployment>/room/<room>/participants/<p>,
\* the request of RemoveParticipant: 404 for a participant it does not know.
RemoveAnswers(room, p) ==
  (IF <<room, p>> \in admitted
   THEN {[ok |-> TRUE, effect |-> "now", text |-> {}]}
   ELSE {[ok |-> FALSE, effect |-> "never", text |-> {"404", "status 404"}]})
    \cup [ok : {FALSE}, effect : {"never"}, text : StatusErrors]
    \cup [ok : {FALSE}, effect : LostEffects, text : LostErrors]

Removal(room, p) == [op |-> "remove", room |-> room, puids |-> {p}]
=============================================================================
