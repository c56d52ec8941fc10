---------------------------- MODULE AdminTokens ----------------------------
(***************************************************************************)
(* GenerateAdminSessionToken of pkg/service/eosService.go, with            *)
(* createRoomTokens and the notifications it sends.                        *)
(*                                                                         *)
(* One fetch of the session is the snapshot on which the whole call works: *)
(* one look-up of PUIDs, one request for the session room, one for each    *)
(* team's room, then one notification per user.  Every one of them may     *)
(* find the backends in another state than the snapshot.                   *)
(***************************************************************************)
EXTENDS VoiceBackends

CONSTANTS
  Admin,     \* the admin calls of one behaviour, each served once
  NoSession  \* the empty session_id

ASSUME AdminAssumption == NoSession \notin Session

VARIABLES
  admin,        \* admin[a]: the local variables of the handler serving a
  \* History, read by properties only:
  adminMinted,  \* adminMinted[a]: <<room, puid>> admissions because of a, late ones too
  notified,     \* notified[a][u]: how many notifications a has sent to user u
  adminSeen     \* adminSeen[a]: what has held at some instant since a began

adminVars == <<admin, adminMinted, notified, adminSeen>>
adminAll == <<backendVars, adminVars>>

AdminRequest ==
  [sessionID : Session \cup {NoSession}, team : BOOLEAN, session : BOOLEAN,
   allowPending : BOOLEAN, notify : BOOLEAN]

AdminToken == [user : User, channel : {"SESSION", "TEAM"}, room : Room, puid : Puid]

AdminServing == {"fetch", "lookup", "session", "teams", "notify"}

\* Of the snapshot, members are the eligible ones, noTeams says that its list
\* of teams is empty, userIDs are those of its teams.  teamsLeft and usersLeft
\* are what the loops over teams and over users to notify have not reached.
AdminState ==
  [pc : AdminServing \cup {"done"}, req : AdminRequest, members : SUBSET User,
   noTeams : BOOLEAN, userIDs : [TeamID -> SUBSET User],
   puids : [User -> Puid \cup {NoPuid}], teamsLeft : SUBSET Team,
   usersLeft : SUBSET User, tokens : SUBSET AdminToken, reply : Codes \cup {NoCode}]

AdminIdle == [pc |-> "idle"]

\* The rooms users were eligible for, and the PUIDs they were linked to.
AdminHistory == [eligible : SUBSET (Room \X User), links : SUBSET (User \X (Puid \cup {NoPuid}))]

AdminTypeOK ==
  /\ BackendsTypeOK
  /\ admin \in [Admin -> AdminState \cup {AdminIdle}]
  /\ adminMinted \in [Admin -> SUBSET (Room \X Puid)]
  /\ notified \in [Admin -> [User -> Nat]]
  /\ adminSeen \in [Admin -> AdminHistory]

AdminInit ==
  /\ BackendsInit
  /\ admin = [a \in Admin |-> AdminIdle]
  /\ adminMinted = [a \in Admin |-> {}]
  /\ notified = [a \in Admin |-> [u \in User |-> 0]]
  /\ adminSeen = [a \in Admin |-> [eligible |-> {}, links |-> {}]]

AdminAt(a, pc) == admin[a].pc = pc

-----------------------------------------------------------------------------
(* Eligibility *)

\* Mutant: allow_pending_users is not looked at.
EligibleStatusPending(allowPending) == {"JOINED", "CONNECTED", "INVITED"}

\* The statuses of members who get tokens.
EligibleStatus(allowPending) ==
  {"JOINED", "CONNECTED"} \cup (IF allowPending THEN {"INVITED"} ELSE {})

EligibleMembers(r) == {u \in User : roster[r.sessionID][u] \in EligibleStatus(r.allowPending)}

\* User u takes part in the session of r, or may take part and r counts that.
TakesPart(r, u) ==
  LET st == roster[r.sessionID][u]
  IN st \in {"JOINED", "CONNECTED"} \/ (st = "INVITED" /\ r.allowPending)

\* What holds at this instant, as far as request r is concerned.
AdminNow(r) ==
  LET s == r.sessionID
      taking == {u \in User : TakesPart(r, u)}
  IN [eligible |->
        IF s \notin live THEN {}
        ELSE {<<RoomID(s, Voice), u>> : u \in taking}
               \cup {<<RoomID(s, tu[1]), tu[2]>> :
                       tu \in {x \in Team \X taking : x[2] \in teams[s][x[1]]}},
      links |-> {<<u, link[u]>> : u \in User}]

AdminBoth(h, n) == [eligible |-> h.eligible \cup n.eligible, links |-> h.links \cup n.links]

-----------------------------------------------------------------------------
(* The handler, one action per upstream request.                           *)

AdminReturn(a, code) == [admin[a] EXCEPT !.pc = "done", !.reply = code, !.tokens = {}]

AdminBegin(a, r) ==
  /\ AdminAt(a, "idle")
  /\ LET refused == r.sessionID = NoSession \/ (~r.team /\ ~r.session)
     IN admin' = [admin EXCEPT ![a] =
          [pc |-> IF refused THEN "done" ELSE "fetch", req |-> r, members |-> {},
           noTeams |-> FALSE, userIDs |-> [t \in TeamID |-> {}],
           puids |-> [u \in User |-> NoPuid], teamsLeft |-> {}, usersLeft |-> {},
           tokens |-> {}, reply |-> IF refused THEN "InvalidArgument" ELSE NoCode]]
  /\ adminSeen' = [adminSeen EXCEPT ![a] = IF r.sessionID = NoSession THEN @ ELSE AdminNow(r)]
  /\ UNCHANGED <<backendVars, adminMinted, notified>>

\* GetSession, the filter on StatusV2, and the refusal if nobody is left.
Fetch(a) ==
  LET r == admin[a].req
      s == r.sessionID
  IN /\ AdminAt(a, "fetch")
     /\ \/ /\ s \in live
           /\ EligibleMembers(r) # {}
           /\ \E none \in BOOLEAN :
                /\ none => \A t \in TeamID : teams[s][t] = {}
                /\ admin' = [admin EXCEPT ![a] =
                     [@ EXCEPT !.pc = "lookup", !.members = EligibleMembers(r),
                               !.noTeams = none, !.userIDs = teams[s]]]
        \/ /\ s \in live
           /\ EligibleMembers(r) = {}
           /\ admin' = [admin EXCEPT ![a] = AdminReturn(a, "FailedPrecondition")]
        \/ /\ s \notin live
           /\ admin' = [admin EXCEPT ![a] = AdminReturn(a, ToGRPCStatus(ErrSessionNotFound))]
        \/ \E e \in StatusErrors \cup LostErrors :
             admin' = [admin EXCEPT ![a] = AdminReturn(a, ParseHTTPError(e, "session"))]
     /\ UNCHANGED <<backendVars, adminMinted, notified, adminSeen>>

\* Mutant: a team of one is skipped.
TeamsToDoLarge(userIDs) == {t \in Team : Cardinality(userIDs[t]) > 1}

\* The teams whose turn comes: those with an id and at least one user id.
TeamsToDo(userIDs) == {t \in Team : userIDs[t] # {}}

\* EpicGamesClient.GetEpicPUID for the eligible members.
AdminLookup(a) ==
  LET v == admin[a]
  IN /\ AdminAt(a, "lookup")
     /\ \/ admin' = [admin EXCEPT ![a] =
             [@ EXCEPT !.pc = IF v.req.session THEN "session" ELSE "teams",
                       !.puids = [u \in User |-> IF u \in v.members THEN link[u] ELSE NoPuid],
                       !.teamsLeft = IF v.req.team THEN TeamsToDo(v.userIDs) ELSE {}]]
        \/ \E e \in StatusErrors \cup LostErrors :
             admin' = [admin EXCEPT ![a] = AdminReturn(a, ParseHTTPError(e, "epic_puid"))]
     /\ UNCHANGED <<backendVars, adminMinted, notified, adminSeen>>

\* Mutant: a participant's token is taken for good if the participant is there.
AdminRoomCodeTrusting(x) ==
  CASE x.kind = "error" -> ParseHTTPError(x.text, "epic_rtc")
    [] x.kind = "empty" -> ToGRPCStatus(ErrEpicRTCAPI)
    [] OTHER            -> NoCode

\* The error code made of Epic's answer x, NoCode if there is a token for each
\* participant: a missing or empty one fails the call.
AdminRoomCode(x) ==
  CASE x.kind = "error" -> ParseHTTPError(x.text, "epic_rtc")
    [] x.kind = "token" -> NoCode
    [] OTHER            -> ToGRPCStatus(ErrEpicRTCAPI)

\* createRoomTokens for the user ids users of a room: those without a PUID are
\* left out; the handler goes on from state after if the others get tokens.
CreateRoomTokens(a, room, channel, users, after) ==
  LET linked == {u \in users : admin[a].puids[u] # NoPuid}
      puids == {admin[a].puids[u] : u \in linked}
      got == {[user |-> u, channel |-> channel, room |-> room, puid |-> admin[a].puids[u]] :
                u \in linked}
  IN \/ /\ linked = {}
        /\ admin' = [admin EXCEPT ![a] = AdminReturn(a, ToGRPCStatus(ErrEpicAccountNotLinked))]
        /\ UNCHANGED <<backendVars, adminMinted, notified, adminSeen>>
     \/ /\ linked # {}
        /\ \E x \in RoomAnswers :
             /\ Asked(Admission(room, puids), x.effect)
             /\ adminMinted' = [adminMinted EXCEPT ![a] = @ \cup Admitting(x, room, puids)]
             /\ admin' = [admin EXCEPT ![a] =
                  IF AdminRoomCode(x) = NoCode THEN [after EXCEPT !.tokens = @ \cup got]
                                               ELSE AdminReturn(a, AdminRoomCode(x))]
        /\ UNCHANGED <<notified, adminSeen>>

SessionRoom(a) ==
  LET v == admin[a]
  IN /\ AdminAt(a, "session")
     /\ CreateRoomTokens(a, RoomID(v.req.sessionID, Voice), "SESSION", v.members,
                         [v EXCEPT !.pc = "teams"])

NoTeams(a) ==
  /\ AdminAt(a, "teams")
  /\ admin[a].req.team /\ admin[a].noTeams
  /\ admin' = [admin EXCEPT ![a] = AdminReturn(a, "FailedPrecondition")]
  /\ UNCHANGED <<backendVars, adminMinted, notified, adminSeen>>

\* A team's room is for the team's user ids; the order of the teams is open.
TeamRoom(a, t) ==
  LET v == admin[a]
  IN /\ AdminAt(a, "teams")
     /\ ~v.noTeams
     /\ t \in v.teamsLeft
     /\ CreateRoomTokens(a, RoomID(v.req.sessionID, t), "TEAM", v.userIDs[t],
                         [v EXCEPT !.teamsLeft = @ \ {t}])

\* All rooms are done: notify the users who have tokens, or return.
TeamsDone(a) ==
  LET v == admin[a]
  IN /\ AdminAt(a, "teams")
     /\ v.teamsLeft = {} /\ (v.req.team => ~v.noTeams)
     /\ admin' = [admin EXCEPT ![a] =
          IF v.req.notify THEN [@ EXCEPT !.pc = "notify", !.usersLeft = {x.user : x \in v.tokens}]
          ELSE [@ EXCEPT !.pc = "done", !.reply = "OK"]]
     /\ UNCHANGED <<backendVars, adminMinted, notified, adminSeen>>

\* One notification with all tokens of user u, in the random order in which Go
\* ranges over a map.  That it fails is only logged.
Notify(a, u) ==
  /\ AdminAt(a, "notify")
  /\ u \in admin[a].usersLeft
  /\ notified' = [notified EXCEPT ![a] = [notified[a] EXCEPT ![u] = notified[a][u] + 1]]
  /\ admin' = [admin EXCEPT ![a] = [admin[a] EXCEPT !.usersLeft = admin[a].usersLeft \ {u}]]
  /\ UNCHANGED <<backendVars, adminMinted, adminSeen>>

\* Mutant: the handler does not wait for the loop over the users.
NotifyDoneEarly(a) ==
  /\ AdminAt(a, "notify")
  /\ admin' = [admin EXCEPT ![a] = [@ EXCEPT !.pc = "done", !.reply = "OK"]]
  /\ UNCHANGED <<backendVars, adminMinted, notified, adminSeen>>

NotifyDone(a) ==
  /\ AdminAt(a, "notify")
  /\ admin[a].usersLeft = {}
  /\ admin' = [admin EXCEPT ![a] = [@ EXCEPT !.pc = "done", !.reply = "OK"]]
  /\ UNCHANGED <<backendVars, adminMinted, notified, adminSeen>>

AdminHandler(a) ==
  \/ Fetch(a) \/ AdminLookup(a) \/ SessionRoom(a) \/ NoTeams(a) \/ TeamsDone(a) \/ NotifyDone(a)
  \/ \E t \in Team : TeamRoom(a, t)
  \/ \E u \in User : Notify(a, u)

\* The histories of the calls as take in what has become of the backends' data.
AdminWatch(as) ==
  /\ UNCHANGED <<admin, adminMinted, notified>>
  /\ adminSeen' = [a \in Admin |->
       IF a \in as THEN AdminBoth(adminSeen[a], AdminNow(admin[a].req)') ELSE adminSeen[a]]

AdminWorld == BackendsChange /\ AdminWatch({a \in Admin : admin[a].pc \in AdminServing})

AdminNext ==
  \/ \E a \in Admin : AdminHandler(a) \/ \E r \in AdminRequest : AdminBegin(a, r)
  \/ AdminWorld

\* Every upstream request of a handler returns: the HTTP clients time out.
AdminFairness == \A a \in Admin : WF_adminAll(AdminHandler(a))

AdminSpec == AdminInit /\ [][AdminNext]_adminAll /\ AdminFairness

-----------------------------------------------------------------------------
(* Properties. *)

\* The call admits a PUID to a room only if some user linked to it has been
\* eligible for the room since the call began: for a team's room, listed with
\* an eligible status and named by the team at one instant.  Team rooms are
\* made from the teams' raw user ids, whose statuses nobody looks at again.
GrantOnlyToEligible ==
  \A a \in Admin : \A g \in adminMinted[a] :
    \E u \in User : <<g[1], u>> \in adminSeen[a].eligible /\ <<u, g[2]>> \in adminSeen[a].links

\* What a may bring about: the admission of users that have been eligible for a
\* room since a began, under PUIDs linked to them since then.
AdminRights(a) ==
  {g \in Room \X Puid :
     \E u \in User : <<g[1], u>> \in adminSeen[a].eligible /\ <<u, g[2]>> \in adminSeen[a].links}

AdminMainRoom(v) == RoomID(v.req.sessionID, Voice)
RoomOf(v, t) == RoomID(v.req.sessionID, t)

AdminLinked(v) == {u \in User : v.puids[u] # NoPuid}

\* The request wants user u in room.
Wanted(v, room, u) ==
  \/ v.req.session /\ room = AdminMainRoom(v)
  \/ v.req.team /\ \E t \in Team : u \in v.userIDs[t] /\ room = RoomOf(v, t)

Due(v) == {d \in Room \X User : d[2] \in AdminLinked(v) /\ Wanted(v, d[1], d[2])}

\* A success reply hands out all that the call obtained at Epic and nothing
\* else, and of the snapshot it leaves out no linked eligible user: each has
\* the token of the session room, and of each team that names it, as requested.
SuccessIsComplete ==
  \A a \in Admin : AdminAt(a, "done") /\ admin[a].reply = "OK" =>
    LET v == admin[a]
    IN /\ {<<x.room, x.puid>> : x \in v.tokens} = adminMinted[a]
       /\ {<<x.room, x.user>> : x \in v.tokens} = Due(v)
       /\ \A x \in v.tokens : x.puid = v.puids[x.user]

\* Users are notified only when the call can no longer fail, none of them
\* twice, and when it has returned all who have tokens have been notified if
\* the request asked for it.
OneNotificationEach ==
  \A a \in Admin : \A u \in User :
    LET v == admin[a]
        due == ~AdminAt(a, "idle") /\ v.req.notify /\ \E x \in v.tokens : x.user = u
    IN /\ notified[a][u] <= 1
       /\ notified[a][u] = 1 => due /\ v.reply \in {NoCode, "OK"}
       /\ AdminAt(a, "done") /\ due => notified[a][u] = 1

\* "The service validates all preconditions (party/session membership, Epic
\* account linking) before calling Epic APIs" (docs/architecture.md): a reply
\* that a precondition failed leaves no admission behind.
FailFast ==
  \A a \in Admin : AdminAt(a, "done") /\ admin[a].reply = "FailedPrecondition"
    => adminMinted[a] = {}

-----------------------------------------------------------------------------
(* The inductive invariant behind the safety properties, call by call: of  *)
(* a handler's variables v, its admissions m, its notifications n and its  *)
(* history h.                                                              *)

\* The members of the snapshot have been eligible for the session's room, and
\* for those of the teams that name them.
SnapshotInv(v, h) ==
  \A u \in v.members :
    /\ <<AdminMainRoom(v), u>> \in h.eligible
    /\ \A t \in Team : u \in v.userIDs[t] => <<RoomOf(v, t), u>> \in h.eligible

\* The PUIDs looked up are members', and have been linked to them.
LinksInv(v, h) == \A u \in AdminLinked(v) : u \in v.members /\ <<u, v.puids[u]>> \in h.links

Has(v, room, u) == \E x \in v.tokens : x.room = room /\ x.user = u

\* The tokens are those of the admissions, and nobody has one unasked.
TokensInv(v, m) ==
  /\ m = {<<x.room, x.puid>> : x \in v.tokens}
  /\ \A x \in v.tokens :
       x.user \in AdminLinked(v) /\ x.puid = v.puids[x.user] /\ Wanted(v, x.room, x.user)

\* The session's room is done, and so are those of the teams that are not left.
SessionDone(v) == v.req.session => \A u \in AdminLinked(v) : Has(v, AdminMainRoom(v), u)
TeamsDoneBut(v, left) ==
  v.req.team => \A t \in Team \ left : \A u \in AdminLinked(v) \cap v.userIDs[t] :
    Has(v, RoomOf(v, t), u)

\* The loop over teams has something left only if the request is for teams.
LeftInv(v) == v.teamsLeft # {} => v.req.team

\* Those who have tokens are notified one by one.
NotifiedInv(v, n) ==
  \A u \in User :
    n[u] = IF /\ v.pc \in {"notify", "done"}
              /\ v.req.notify /\ u \notin v.usersLeft /\ \E x \in v.tokens : x.user = u
           THEN 1 ELSE 0

Handing == {"session", "teams", "notify"}

AdminCallInv(v, m, n, h) ==
  /\ \A g \in m : \E u \in User : <<g[1], u>> \in h.eligible /\ <<u, g[2]>> \in h.links
  /\ NotifiedInv(v, n)
  /\ v.pc = "idle" => m = {}
  /\ v.pc \in AdminServing => v.req.sessionID \in Session /\ v.reply = NoCode
  /\ v.pc \in {"fetch", "lookup"} => m = {} /\ v.tokens = {}
  /\ v.pc = "session" => v.tokens = {} /\ v.req.session
  /\ v.pc = "notify" => v.req.notify /\ \A u \in v.usersLeft : \E x \in v.tokens : x.user = u
  /\ v.pc \in {"lookup", "session", "teams"} => SnapshotInv(v, h)
  /\ v.pc \in {"session", "teams"} => LinksInv(v, h) /\ LeftInv(v)
  /\ v.pc \in Handing \/ (v.pc = "done" /\ v.reply = "OK") =>
       /\ TokensInv(v, m)
       /\ v.pc # "session" => SessionDone(v)
       /\ TeamsDoneBut(v, IF v.pc \in {"session", "teams"} THEN v.teamsLeft ELSE {})
  /\ v.pc = "done" /\ v.reply # "OK" => v.tokens = {}
  /\ v.pc = "done" /\ v.reply = "OK" /\ v.req.notify => v.usersLeft = {}

\* The history of a call being served includes the present.
AdminUpToDate(v, h) ==
  v.pc \in AdminServing => AdminNow(v.req).eligible \subseteq h.eligible
    /\ AdminNow(v.req).links \subseteq h.links

\* on: the calls whose histories are kept.
AdminInvFor(on) ==
  /\ AdminTypeOK
  /\ \A a \in Admin : AdminCallInv(admin[a], adminMinted[a], notified[a], adminSeen[a])
  /\ \A a \in Admin \cap on : AdminUpToDate(admin[a], adminSeen[a])

AdminInv == AdminInvFor(Admin)
=============================================================================
