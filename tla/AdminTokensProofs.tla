------------------------- MODULE AdminTokensProofs -------------------------
(***************************************************************************)
(* Type correctness and the safety properties of AdminTokens, for any      *)
(* number of admin calls, users and teams, while memberships, teams and    *)
(* links change under them and Epic acts late.                             *)
(***************************************************************************)
EXTENDS AdminTokens, VoiceBackendsProofs

\* What createRoomTokens makes of Epic's answer.
LEMMA AdminRoomCodeType ==
  ASSUME NEW x \in RoomAnswers
  PROVE  /\ AdminRoomCode(x) \in (Codes \ {"OK"}) \cup {NoCode}
         /\ AdminRoomCode(x) = NoCode => x.effect = "now"
<1>1. CASE x.kind = "token"
  BY <1>1, ErrorCodes DEF RoomAnswers, AdminRoomCode
<1>2. CASE x.kind \in {"empty", "blank"}
  <2>1. AdminRoomCode(x) = ToGRPCStatus(ErrEpicRTCAPI)
    BY <1>2 DEF AdminRoomCode
  <2> QED
    BY <2>1, GRPCStatusType, ErrorCodes
<1>3. CASE x.kind = "error"
  <2>1. AdminRoomCode(x) = ParseHTTPError(x.text, "epic_rtc")
    BY <1>3 DEF AdminRoomCode
  <2> QED
    BY <2>1, ParseHTTPErrorType, ErrorCodes
<1> QED
  BY <1>1, <1>2, <1>3 DEF RoomAnswers

\* What holds of a request at this instant is a history.
LEMMA AdminNowType ==
  ASSUME BackendsTypeOK, NEW r \in AdminRequest, r.sessionID \in Session
  PROVE  AdminNow(r) \in AdminHistory
<1> DEFINE taking == {u \in User : TakesPart(r, u)}
<1>1. RoomID(r.sessionID, Voice) \in Room
  BY DEF RoomID, Room, Group
<1>2. \A t \in Team : RoomID(r.sessionID, t) \in Room
  BY DEF RoomID, Room, Group
<1>3. {<<RoomID(r.sessionID, Voice), u>> : u \in taking} \subseteq Room \X User
  BY <1>1
<1>4. {<<RoomID(r.sessionID, tu[1]), tu[2]>> :
         tu \in {x \in Team \X taking : x[2] \in teams[r.sessionID][x[1]]}} \subseteq Room \X User
  BY <1>2
<1>5. {<<u, link[u]>> : u \in User} \subseteq User \X (Puid \cup {NoPuid})
  BY DEF BackendsTypeOK
<1> HIDE DEF taking
<1> QED
  BY <1>3, <1>4, <1>5 DEF AdminNow, AdminHistory, taking

\* The same of the next state, from its own data.
LEMMA NowTypePrime ==
  ASSUME BackendsTypeOK', admin' = admin, NEW a \in Admin, admin[a].req \in AdminRequest,
         admin[a].req.sessionID \in Session
  PROVE  AdminNow(admin[a].req)' \in AdminHistory
<1> DEFINE r == admin[a].req
           taking == {u \in User : TakesPart(r, u)'}
<1>1. RoomID(r.sessionID, Voice) \in Room /\ \A t \in Team : RoomID(r.sessionID, t) \in Room
  BY DEF RoomID, Room, Group
<1>2. {<<RoomID(r.sessionID, Voice), u>> : u \in taking} \subseteq Room \X User
  BY <1>1
<1>3. {<<RoomID(r.sessionID, tu[1]), tu[2]>> :
         tu \in {x \in Team \X taking : x[2] \in teams'[r.sessionID][x[1]]}} \subseteq Room \X User
  BY <1>1
<1>4. {<<u, link'[u]>> : u \in User} \subseteq User \X (Puid \cup {NoPuid})
  BY DEF BackendsTypeOK
<1> HIDE DEF taking
<1> QED
  BY <1>2, <1>3, <1>4 DEF AdminNow, AdminHistory, taking

\* A step of call a leaves the invariant true if it leaves the others alone
\* and a in a state that satisfies it.
LEMMA AdminStepOfCall ==
  ASSUME NEW on, AdminInvFor(on), BackendsTypeOK', SameData, NEW a \in Admin,
         NEW v \in AdminState, NEW m \in SUBSET (Room \X Puid), NEW n \in [User -> Nat],
         NEW h \in AdminHistory,
         admin' = [admin EXCEPT ![a] = v], adminMinted' = [adminMinted EXCEPT ![a] = m],
         notified' = [notified EXCEPT ![a] = n], adminSeen' = [adminSeen EXCEPT ![a] = h],
         AdminCallInv(v, m, n, h), AdminUpToDate(v, h)
  PROVE  AdminInvFor(on)'
<1>1. AdminTypeOK'
  BY DEF AdminInvFor, AdminTypeOK
<1>2. ASSUME NEW b \in Admin
      PROVE  /\ AdminCallInv(admin[b], adminMinted[b], notified[b], adminSeen[b])'
             /\ b \in on => AdminUpToDate(admin[b], adminSeen[b])'
  <2>1. ASSUME NEW w, NEW k, AdminUpToDate(w, k), admin'[b] = w, adminSeen'[b] = k
        PROVE  AdminUpToDate(admin[b], adminSeen[b])'
    BY <2>1 DEF AdminUpToDate, AdminNow, TakesPart, SameData
  <2>2. CASE b = a
    <3>1. admin'[b] = v /\ adminMinted'[b] = m /\ notified'[b] = n /\ adminSeen'[b] = h
      BY <2>2 DEF AdminInvFor, AdminTypeOK
    <3>2. AdminCallInv(admin[b], adminMinted[b], notified[b], adminSeen[b])'
      BY <3>1
    <3> QED
      BY <2>1, <3>1, <3>2
  <2>3. CASE b # a
    <3>1. /\ admin'[b] = admin[b] /\ adminMinted'[b] = adminMinted[b]
          /\ notified'[b] = notified[b] /\ adminSeen'[b] = adminSeen[b]
      BY <2>3 DEF AdminInvFor, AdminTypeOK
    <3>2. AdminCallInv(admin[b], adminMinted[b], notified[b], adminSeen[b])'
      BY <3>1 DEF AdminInvFor
    <3>3. b \in on => AdminUpToDate(admin[b], adminSeen[b])
      BY DEF AdminInvFor
    <3> QED
      BY <2>1, <3>1, <3>2, <3>3
  <2> QED
    BY <2>2, <2>3
<1> QED
  BY <1>1, <1>2 DEF AdminInvFor

\* In the middle of a call.
LEMMA AdminMiddle ==
  ASSUME NEW on, AdminInvFor(on), NEW a \in Admin, a \in on, admin[a].pc # "idle"
  PROVE  /\ admin[a] \in AdminState /\ admin[a].req \in AdminRequest
         /\ adminMinted[a] \in SUBSET (Room \X Puid) /\ notified[a] \in [User -> Nat]
         /\ adminSeen[a] \in AdminHistory
         /\ AdminCallInv(admin[a], adminMinted[a], notified[a], adminSeen[a])
         /\ AdminUpToDate(admin[a], adminSeen[a])
         /\ adminMinted = [adminMinted EXCEPT ![a] = adminMinted[a]]
         /\ notified = [notified EXCEPT ![a] = notified[a]]
         /\ adminSeen = [adminSeen EXCEPT ![a] = adminSeen[a]]
<1>1. admin[a] \in AdminState \cup {AdminIdle} /\ admin[a] # AdminIdle
  BY DEF AdminInvFor, AdminTypeOK, AdminIdle
<1>2. admin[a] \in AdminState
  BY <1>1
<1> QED
  BY <1>2 DEF AdminInvFor, AdminTypeOK, AdminState

\* The invariant of a call does not depend on more having been seen.
LEMMA AdminMoreSeen ==
  ASSUME NEW v, NEW m, NEW n, NEW h, NEW k,
         h.eligible \subseteq k.eligible, h.links \subseteq k.links, AdminCallInv(v, m, n, h)
  PROVE  AdminCallInv(v, m, n, k)
<1>1. SnapshotInv(v, h) => SnapshotInv(v, k)
  BY DEF SnapshotInv
<1>2. LinksInv(v, h) => LinksInv(v, k)
  BY DEF LinksInv
<1> QED
  BY <1>1, <1>2 DEF AdminCallInv

LEMMA AdminInitInv == AdminInit => AdminInv
<1> SUFFICES ASSUME AdminInit PROVE AdminInv
  OBVIOUS
<1>1. AdminTypeOK
  BY BackendsAssumption DEF AdminInit, AdminTypeOK, BackendsInit, DataInit, BackendsTypeOK,
     AdminHistory
<1>2. ASSUME NEW a \in Admin PROVE AdminCallInv(admin[a], adminMinted[a], notified[a], adminSeen[a])
  BY DEF AdminInit, AdminCallInv, AdminIdle, AdminServing, Handing, NotifiedInv
<1>3. ASSUME NEW a \in Admin PROVE AdminUpToDate(admin[a], adminSeen[a])
  BY DEF AdminInit, AdminUpToDate, AdminIdle, AdminServing
<1> QED
  BY <1>1, <1>2, <1>3 DEF AdminInv, AdminInvFor

LEMMA AdminBeginInv ==
  ASSUME NEW on, AdminInvFor(on), NEW a \in Admin, a \in on, NEW r \in AdminRequest,
         AdminBegin(a, r)
  PROVE  AdminInvFor(on)'
<1> DEFINE refused == r.sessionID = NoSession \/ (~r.team /\ ~r.session)
           v == [pc |-> IF refused THEN "done" ELSE "fetch", req |-> r, members |-> {},
                 noTeams |-> FALSE, userIDs |-> [t \in TeamID |-> {}],
                 puids |-> [u \in User |-> NoPuid], teamsLeft |-> {}, usersLeft |-> {},
                 tokens |-> {}, reply |-> IF refused THEN "InvalidArgument" ELSE NoCode]
           h == IF r.sessionID = NoSession THEN adminSeen[a] ELSE AdminNow(r)
<1>1. /\ admin[a].pc = "idle" /\ UNCHANGED <<backendVars, adminMinted, notified>>
      /\ admin' = [admin EXCEPT ![a] = v]
      /\ adminSeen' = [adminSeen EXCEPT ![a] = h]
  BY DEF AdminBegin, AdminAt
<1>2. BackendsTypeOK' /\ SameData /\ BackendsTypeOK
  BY <1>1 DEF AdminInvFor, AdminTypeOK, BackendsTypeOK, backendVars, SameData
<1>3. v \in AdminState
  BY DEF AdminState, AdminServing, Codes, NoCode
<1>4. r.sessionID \in Session \cup {NoSession}
  BY DEF AdminRequest
<1>5. h \in AdminHistory
  BY <1>2, <1>4, AdminNowType DEF AdminInvFor, AdminTypeOK
<1>6. adminMinted[a] = {} /\ NotifiedInv(admin[a], notified[a])
  BY <1>1 DEF AdminInvFor, AdminCallInv
<1>7. /\ v.pc \in {"fetch", "done"} /\ v.req = r /\ v.tokens = {}
      /\ v.pc = "fetch" => r.sessionID \in Session /\ v.reply = NoCode
      /\ v.pc = "done" => v.reply = "InvalidArgument"
  BY <1>4
<1>8. AdminUpToDate(v, h)
  BY <1>7, AdminAssumption DEF AdminUpToDate, AdminServing
<1>9. NotifiedInv(v, notified[a])
  BY <1>1, <1>6, <1>7 DEF NotifiedInv
<1>10. /\ adminMinted' = [adminMinted EXCEPT ![a] = adminMinted[a]]
       /\ adminMinted[a] \in SUBSET (Room \X Puid)
       /\ notified' = [notified EXCEPT ![a] = notified[a]] /\ notified[a] \in [User -> Nat]
  BY <1>1 DEF AdminInvFor, AdminTypeOK
<1> HIDE DEF v, h
<1>11. AdminCallInv(v, adminMinted[a], notified[a], h)
  BY <1>6, <1>7, <1>9 DEF AdminCallInv, AdminServing, Handing
<1> QED
  BY <1>1, <1>2, <1>3, <1>5, <1>8, <1>10, <1>11, AdminStepOfCall

\* A step of a handler that sends Epic no request for tokens.
LEMMA AdminLocalStep ==
  ASSUME NEW on, AdminInvFor(on), NEW a \in Admin, a \in on, NEW v \in AdminState,
         NEW n \in [User -> Nat],
         admin[a].pc \in AdminServing, v.req = admin[a].req,
         admin' = [admin EXCEPT ![a] = v], notified' = [notified EXCEPT ![a] = n],
         UNCHANGED <<backendVars, adminMinted, adminSeen>>,
         AdminCallInv(v, adminMinted[a], n, adminSeen[a])
  PROVE  AdminInvFor(on)'
<1>1. admin[a].pc # "idle"
  BY DEF AdminServing
<1>2. BackendsTypeOK' /\ SameData
  BY DEF AdminInvFor, AdminTypeOK, BackendsTypeOK, backendVars, SameData
<1>3. AdminUpToDate(v, adminSeen[a])
  BY <1>1, AdminMiddle DEF AdminUpToDate
<1>4. /\ adminMinted[a] \in SUBSET (Room \X Puid) /\ adminSeen[a] \in AdminHistory
      /\ adminMinted' = [adminMinted EXCEPT ![a] = adminMinted[a]]
      /\ adminSeen' = [adminSeen EXCEPT ![a] = adminSeen[a]]
  BY <1>1, AdminMiddle
<1> QED
  BY <1>2, <1>3, <1>4, AdminStepOfCall

\* A handler may give up with an error before it notifies anybody: what it has
\* obtained by then is dropped.
LEMMA GiveUp ==
  ASSUME NEW on, AdminInvFor(on), NEW a \in Admin, a \in on, NEW code \in Codes \ {"OK"},
         admin[a].pc \in AdminServing \ {"notify"},
         NEW m, \A g \in m : \E u \in User : <<g[1], u>> \in adminSeen[a].eligible
                                          /\ <<u, g[2]>> \in adminSeen[a].links
  PROVE  /\ AdminReturn(a, code) \in AdminState
         /\ AdminReturn(a, code).req = admin[a].req
         /\ AdminReturn(a, code).pc = "done"
         /\ AdminCallInv(AdminReturn(a, code), m, notified[a], adminSeen[a])
<1> DEFINE v == AdminReturn(a, code)
<1>1. admin[a] \in AdminState /\ AdminCallInv(admin[a], adminMinted[a], notified[a], adminSeen[a])
  BY AdminMiddle DEF AdminServing
<1>2. /\ v \in AdminState /\ v.pc = "done" /\ v.req = admin[a].req /\ v.tokens = {}
      /\ v.reply = code
  BY <1>1 DEF AdminReturn, AdminState
<1>3. \A u \in User : notified[a][u] = 0
  BY <1>1 DEF AdminCallInv, NotifiedInv, AdminServing
<1> HIDE DEF v
<1>4. NotifiedInv(v, notified[a])
  BY <1>2, <1>3 DEF NotifiedInv
<1>5. AdminCallInv(v, m, notified[a], adminSeen[a])
  BY <1>2, <1>4 DEF AdminCallInv, AdminServing, Handing
<1> QED
  BY <1>2, <1>5 DEF v

\* The same as a step.
LEMMA GiveUpInv ==
  ASSUME NEW on, AdminInvFor(on), NEW a \in Admin, a \in on, NEW code \in Codes \ {"OK"},
         admin[a].pc \in AdminServing \ {"notify"},
         admin' = [admin EXCEPT ![a] = AdminReturn(a, code)],
         UNCHANGED <<backendVars, adminMinted, notified, adminSeen>>
  PROVE  AdminInvFor(on)'
<1>1. /\ \A g \in adminMinted[a] : \E u \in User : <<g[1], u>> \in adminSeen[a].eligible
                                           /\ <<u, g[2]>> \in adminSeen[a].links
      /\ notified[a] \in [User -> Nat] /\ notified' = [notified EXCEPT ![a] = notified[a]]
  BY AdminMiddle DEF AdminCallInv, AdminServing
<1> DEFINE v == AdminReturn(a, code)
<1>2. v \in AdminState /\ v.req = admin[a].req
        /\ AdminCallInv(v, adminMinted[a], notified[a], adminSeen[a])
  BY <1>1, GiveUp
<1> HIDE DEF v
<1> QED
  BY <1>1, <1>2, AdminLocalStep DEF v

LEMMA FetchInv ==
  ASSUME NEW on, AdminInvFor(on), NEW a \in Admin, a \in on, Fetch(a)
  PROVE  AdminInvFor(on)'
<1> DEFINE s == admin[a]
           id == s.req.sessionID
<1>1. s.pc = "fetch" /\ UNCHANGED <<backendVars, adminMinted, notified, adminSeen>>
  BY DEF Fetch, AdminAt
<1>2. /\ s \in AdminState /\ s.req \in AdminRequest /\ notified[a] \in [User -> Nat]
      /\ AdminCallInv(s, adminMinted[a], notified[a], adminSeen[a])
      /\ AdminUpToDate(s, adminSeen[a])
      /\ notified = [notified EXCEPT ![a] = notified[a]]
  BY <1>1, AdminMiddle
<1>3. /\ id \in Session /\ s.reply = NoCode /\ adminMinted[a] = {} /\ s.tokens = {}
      /\ \A u \in User : notified[a][u] = 0
  BY <1>1, <1>2 DEF AdminCallInv, AdminServing, NotifiedInv
<1>4. ASSUME NEW none \in BOOLEAN, id \in live,
             admin' = [admin EXCEPT ![a] =
               [s EXCEPT !.pc = "lookup", !.members = EligibleMembers(s.req),
                         !.noTeams = none, !.userIDs = teams[id]]]
      PROVE  AdminInvFor(on)'
  <2> DEFINE v == [s EXCEPT !.pc = "lookup", !.members = EligibleMembers(s.req),
                            !.noTeams = none, !.userIDs = teams[id]]
  <2>1. teams[id] \in [TeamID -> SUBSET User] /\ EligibleMembers(s.req) \in SUBSET User
    BY <1>3 DEF AdminInvFor, AdminTypeOK, BackendsTypeOK, EligibleMembers
  <2>2. /\ v \in AdminState /\ v.pc = "lookup" /\ v.req = s.req /\ v.reply = NoCode
        /\ v.tokens = {} /\ v.members = EligibleMembers(s.req) /\ v.userIDs = teams[id]
    BY <1>2, <1>3, <2>1 DEF AdminState, AdminServing
  <2> HIDE DEF v
  <2>3. SnapshotInv(v, adminSeen[a])
    <3> SUFFICES ASSUME NEW u \in EligibleMembers(s.req)
                 PROVE  /\ <<RoomID(id, Voice), u>> \in adminSeen[a].eligible
                        /\ \A t \in Team : u \in teams[id][t] =>
                             <<RoomID(id, t), u>> \in adminSeen[a].eligible
      BY <2>2 DEF SnapshotInv, AdminMainRoom, RoomOf
    <3>1. u \in User /\ TakesPart(s.req, u)
      BY DEF EligibleMembers, EligibleStatus, TakesPart
    <3>2. AdminNow(s.req).eligible \subseteq adminSeen[a].eligible
      BY <1>1, <1>2 DEF AdminUpToDate, AdminServing
    <3>3. <<RoomID(id, Voice), u>> \in AdminNow(s.req).eligible
      BY <1>4, <3>1 DEF AdminNow
    <3>4. ASSUME NEW t \in Team, u \in teams[id][t]
          PROVE  <<RoomID(id, t), u>> \in AdminNow(s.req).eligible
      <4> DEFINE taking == {w \in User : TakesPart(s.req, w)}
                 named == {x \in Team \X taking : x[2] \in teams[id][x[1]]}
      <4>1. <<t, u>> \in named
        BY <3>1, <3>4
      <4>2. <<RoomID(id, t), u>> \in {<<RoomID(id, tu[1]), tu[2]>> : tu \in named}
        BY <4>1
      <4> QED
        BY <1>4, <4>2 DEF AdminNow
    <3> QED
      BY <3>2, <3>3, <3>4
  <2>4. NotifiedInv(v, notified[a])
    BY <1>3, <2>2 DEF NotifiedInv
  <2>5. AdminCallInv(v, adminMinted[a], notified[a], adminSeen[a])
    BY <1>3, <2>2, <2>3, <2>4 DEF AdminCallInv, AdminServing, Handing
  <2> QED
    BY <1>1, <1>2, <1>4, <2>2, <2>5, AdminLocalStep DEF v, AdminServing
<1>5. ASSUME NEW code \in Codes \ {"OK"}, admin' = [admin EXCEPT ![a] = AdminReturn(a, code)]
      PROVE  AdminInvFor(on)'
  BY <1>1, <1>5, GiveUpInv DEF AdminServing
<1>6. "FailedPrecondition" \in Codes \ {"OK"}
  BY DEF Codes
<1> QED
  BY <1>4, <1>5, <1>6, GRPCStatusType, ParseHTTPErrorType DEF Fetch

LEMMA AdminLookupInv ==
  ASSUME NEW on, AdminInvFor(on), NEW a \in Admin, a \in on, AdminLookup(a)
  PROVE  AdminInvFor(on)'
<1> DEFINE s == admin[a]
           v == [s EXCEPT !.pc = IF s.req.session THEN "session" ELSE "teams",
                          !.puids = [u \in User |-> IF u \in s.members THEN link[u] ELSE NoPuid],
                          !.teamsLeft = IF s.req.team THEN TeamsToDo(s.userIDs) ELSE {}]
<1>1. s.pc = "lookup" /\ UNCHANGED <<backendVars, adminMinted, notified, adminSeen>>
  BY DEF AdminLookup, AdminAt
<1>2. /\ s \in AdminState /\ s.req \in AdminRequest /\ notified[a] \in [User -> Nat]
      /\ AdminCallInv(s, adminMinted[a], notified[a], adminSeen[a])
      /\ AdminUpToDate(s, adminSeen[a])
      /\ notified = [notified EXCEPT ![a] = notified[a]]
  BY <1>1, AdminMiddle
<1>3. /\ s.req.sessionID \in Session /\ s.reply = NoCode /\ adminMinted[a] = {} /\ s.tokens = {}
      /\ SnapshotInv(s, adminSeen[a]) /\ \A u \in User : notified[a][u] = 0
  BY <1>1, <1>2 DEF AdminCallInv, AdminServing, NotifiedInv
<1>4. ASSUME admin' = [admin EXCEPT ![a] = v] PROVE AdminInvFor(on)'
  <2>1. link \in [User -> Puid \cup {NoPuid}] /\ TeamsToDo(s.userIDs) \in SUBSET Team
    BY DEF AdminInvFor, AdminTypeOK, BackendsTypeOK, TeamsToDo
  <2>2. v \in AdminState
    BY <1>2, <2>1 DEF AdminState, AdminServing
  <2>3. /\ v.pc = IF s.req.session THEN "session" ELSE "teams"
        /\ v.req = s.req /\ v.reply = NoCode /\ v.tokens = {}
        /\ v.members = s.members /\ v.userIDs = s.userIDs
        /\ v.puids = [u \in User |-> IF u \in s.members THEN link[u] ELSE NoPuid]
        /\ v.teamsLeft = IF s.req.team THEN TeamsToDo(s.userIDs) ELSE {}
    BY <1>2, <1>3 DEF AdminState
  <2> HIDE DEF v
  <2>4. SnapshotInv(v, adminSeen[a])
    BY <1>3, <2>3 DEF SnapshotInv, AdminMainRoom, RoomOf
  <2>5. LinksInv(v, adminSeen[a])
    <3> SUFFICES ASSUME NEW u \in User, v.puids[u] # NoPuid
                 PROVE  u \in v.members /\ <<u, v.puids[u]>> \in adminSeen[a].links
      BY DEF LinksInv, AdminLinked
    <3>1. u \in s.members /\ v.puids[u] = link[u]
      BY <2>3
    <3>2. <<u, link[u]>> \in AdminNow(s.req).links
      BY DEF AdminNow
    <3> QED
      BY <1>1, <1>2, <2>3, <3>1, <3>2 DEF AdminUpToDate, AdminServing
  <2>6. TokensInv(v, adminMinted[a])
    BY <1>3, <2>3 DEF TokensInv
  <2>7. TeamsDoneBut(v, v.teamsLeft)
    BY <2>3 DEF TeamsDoneBut, TeamsToDo
  <2>8. v.pc # "session" => SessionDone(v)
    BY <2>3 DEF SessionDone
  <2>9. NotifiedInv(v, notified[a]) /\ LeftInv(v)
    BY <1>3, <2>3 DEF NotifiedInv, LeftInv
  <2>10. AdminCallInv(v, adminMinted[a], notified[a], adminSeen[a])
    BY <1>3, <2>3, <2>4, <2>5, <2>6, <2>7, <2>8, <2>9 DEF AdminCallInv, AdminServing, Handing
  <2> QED
    BY <1>1, <1>2, <1>4, <2>2, <2>3, <2>10, AdminLocalStep DEF AdminServing
<1>5. ASSUME NEW e \in StatusErrors \cup LostErrors,
             admin' = [admin EXCEPT ![a] = AdminReturn(a, ParseHTTPError(e, "epic_puid"))]
      PROVE  AdminInvFor(on)'
  BY <1>1, <1>5, GiveUpInv, ParseHTTPErrorType DEF AdminServing
<1> QED
  BY <1>4, <1>5 DEF AdminLookup

\* w goes on from s, with no less tokens.
Follows(w, s) ==
  /\ w.req = s.req /\ w.members = s.members /\ w.userIDs = s.userIDs /\ w.puids = s.puids
  /\ w.reply = s.reply /\ s.tokens \subseteq w.tokens

\* With tokens of room for the linked ones of users, all is done that left, the
\* teams not yet reached, does not name.
Completes(s, left, room, users) ==
  \A w : /\ Follows(w, s)
         /\ \A u \in users \cap AdminLinked(s) : Has(w, room, u)
         => SessionDone(w) /\ TeamsDoneBut(w, left)

\* The tokens that createRoomTokens makes for the users of a room.
Made(s, room, channel, users) ==
  {[user |-> u, channel |-> channel, room |-> room, puid |-> s.puids[u]] :
    u \in users \cap AdminLinked(s)}

\* The admissions that go with them.
Gained(s, room, users) == {room} \X {s.puids[u] : u \in users \cap AdminLinked(s)}

\* The handler's state after Epic's token answer for a room.
LEMMA RoomGiven ==
  ASSUME NEW s \in AdminState, NEW m, NEW h, NEW n, NEW room \in Room,
         NEW channel \in {"SESSION", "TEAM"}, NEW users \in SUBSET User, NEW w,
         s.pc \in {"session", "teams"}, AdminCallInv(s, m, n, h),
         w \in AdminState, w.pc = "teams", Follows(w, s),
         w.tokens = s.tokens \cup Made(s, room, channel, users),
         \A u \in users \cap AdminLinked(s) : <<room, u>> \in h.eligible /\ Wanted(s, room, u),
         Completes(s, w.teamsLeft, room, users), LeftInv(w)
  PROVE  AdminCallInv(w, m \cup Gained(s, room, users), n, h)
<1> DEFINE linked == users \cap AdminLinked(s)
           made == Made(s, room, channel, users)
           k == m \cup Gained(s, room, users)
<1>1. /\ TokensInv(s, m) /\ LinksInv(s, h) /\ SnapshotInv(s, h) /\ NotifiedInv(s, n)
      /\ s.req.sessionID \in Session /\ s.reply = NoCode
      /\ \A g \in m : \E u \in User : <<g[1], u>> \in h.eligible /\ <<u, g[2]>> \in h.links
  BY DEF AdminCallInv, AdminServing, Handing
<1>2. AdminLinked(w) = AdminLinked(s) /\ linked \subseteq User
  BY DEF Follows, AdminLinked
<1>3. \A x \in made : \E u \in linked : x.user = u /\ x.room = room /\ x.puid = s.puids[u]
  BY DEF Made
<1>4. \A u \in linked : \E x \in made : x.user = u /\ x.room = room /\ x.puid = s.puids[u]
  <2> SUFFICES ASSUME NEW u \in linked
               PROVE  \E x \in made : x.user = u /\ x.room = room /\ x.puid = s.puids[u]
    OBVIOUS
  <2> DEFINE x == [user |-> u, channel |-> channel, room |-> room, puid |-> s.puids[u]]
  <2>1. x \in made
    BY DEF Made
  <2>2. x.user = u /\ x.room = room /\ x.puid = s.puids[u]
    OBVIOUS
  <2> QED
    BY <2>1, <2>2
<1> HIDE DEF made, linked
<1>5. SessionDone(w) /\ TeamsDoneBut(w, w.teamsLeft)
  <2>1. \A u \in linked : Has(w, room, u)
    BY <1>4 DEF Has, made
  <2> QED
    BY <2>1 DEF Completes, linked
<1>6. \A g \in k : \E u \in User : <<g[1], u>> \in h.eligible /\ <<u, g[2]>> \in h.links
  <2> SUFFICES ASSUME NEW g \in k, g \notin m
               PROVE  \E u \in User : <<g[1], u>> \in h.eligible /\ <<u, g[2]>> \in h.links
    BY <1>1
  <2>1. PICK u \in linked : g = <<room, s.puids[u]>>
    BY DEF Gained, linked
  <2>2. <<room, u>> \in h.eligible /\ <<u, s.puids[u]>> \in h.links
    BY <1>1 DEF LinksInv, linked
  <2> QED
    BY <1>2, <2>1, <2>2
<1>7. k = {<<x.room, x.puid>> : x \in w.tokens}
  <2>1. \A x \in w.tokens : <<x.room, x.puid>> \in k
    <3> SUFFICES ASSUME NEW x \in w.tokens PROVE <<x.room, x.puid>> \in k
      OBVIOUS
    <3>1. CASE x \in s.tokens
      BY <1>1, <3>1 DEF TokensInv
    <3>2. CASE x \in made
      BY <1>3, <3>2 DEF Gained, linked
    <3> QED
      BY <3>1, <3>2 DEF made
  <2>2. \A g \in k : \E x \in w.tokens : g = <<x.room, x.puid>>
    <3> SUFFICES ASSUME NEW g \in k PROVE \E x \in w.tokens : g = <<x.room, x.puid>>
      OBVIOUS
    <3>1. CASE g \in m
      BY <1>1, <3>1 DEF TokensInv, Follows
    <3>2. CASE g \notin m
      <4>1. PICK u \in linked : g = <<room, s.puids[u]>>
        BY <3>2 DEF Gained, linked
      <4> QED
        BY <1>4, <4>1 DEF made
    <3> QED
      BY <3>1, <3>2
  <2> QED
    BY <2>1, <2>2
<1> HIDE DEF k
<1>8. ASSUME NEW x \in w.tokens
      PROVE  x.user \in AdminLinked(w) /\ x.puid = w.puids[x.user] /\ Wanted(w, x.room, x.user)
  <2>1. \A r, u : Wanted(w, r, u) <=> Wanted(s, r, u)
    BY DEF Wanted, Follows, AdminMainRoom, RoomOf
  <2>2. w.puids = s.puids
    BY DEF Follows
  <2>3. CASE x \in s.tokens
    BY <1>1, <1>2, <2>1, <2>2, <2>3 DEF TokensInv
  <2>4. CASE x \in made
    BY <1>2, <1>3, <2>1, <2>2, <2>4 DEF linked
  <2> QED
    BY <1>8, <2>3, <2>4 DEF made
<1>9. TokensInv(w, k)
  BY <1>7, <1>8 DEF TokensInv
<1>10. SnapshotInv(w, h) /\ LinksInv(w, h)
  BY <1>1 DEF SnapshotInv, LinksInv, AdminLinked, Follows, AdminMainRoom, RoomOf
<1>11. NotifiedInv(w, n)
  BY <1>1 DEF NotifiedInv
<1>12. w.req.sessionID \in Session /\ w.reply = NoCode
  BY <1>1 DEF Follows
<1>13. AdminCallInv(w, k, n, h)
  BY <1>5, <1>6, <1>9, <1>10, <1>11, <1>12 DEF AdminCallInv, AdminServing, Handing
<1> QED
  BY <1>13 DEF k, linked

\* createRoomTokens in the service of a handler that then goes on from after.
LEMMA RoomStep ==
  ASSUME NEW on, AdminInvFor(on), NEW a \in Admin, a \in on, NEW room \in Room,
         NEW channel \in {"SESSION", "TEAM"},
         NEW users \in SUBSET User, NEW after \in AdminState,
         CreateRoomTokens(a, room, channel, users, after),
         admin[a].pc \in {"session", "teams"},
         after.pc = "teams", Follows(after, admin[a]), after.tokens = admin[a].tokens,
         \A u \in users \cap AdminLinked(admin[a]) :
           <<room, u>> \in adminSeen[a].eligible /\ Wanted(admin[a], room, u),
         Completes(admin[a], after.teamsLeft, room, users), LeftInv(after)
  PROVE  AdminInvFor(on)'
<1> DEFINE s == admin[a]
           linked == users \cap AdminLinked(s)
           puids == {s.puids[u] : u \in linked}
           w == [after EXCEPT !.tokens = after.tokens \cup Made(s, room, channel, users)]
<1>1. /\ s \in AdminState /\ s.req \in AdminRequest
      /\ adminMinted[a] \in SUBSET (Room \X Puid) /\ notified[a] \in [User -> Nat]
      /\ adminSeen[a] \in AdminHistory
      /\ AdminCallInv(s, adminMinted[a], notified[a], adminSeen[a])
      /\ AdminUpToDate(s, adminSeen[a])
      /\ notified = [notified EXCEPT ![a] = notified[a]]
      /\ adminSeen = [adminSeen EXCEPT ![a] = adminSeen[a]]
  BY AdminMiddle
<1>2. linked = {u \in users : s.puids[u] # NoPuid}
  BY DEF AdminLinked
<1>3. puids \in SUBSET Puid
  BY <1>1, <1>2 DEF AdminState
<1>4. Made(s, room, channel, users) \subseteq AdminToken
  <2>1. \A u \in linked : u \in User /\ s.puids[u] \in Puid
    BY <1>1, <1>2 DEF AdminState
  <2> QED
    BY <2>1 DEF Made, AdminToken
<1>5. ASSUME linked = {},
             admin' = [admin EXCEPT ![a] = AdminReturn(a, ToGRPCStatus(ErrEpicAccountNotLinked))],
             UNCHANGED <<backendVars, adminMinted, notified, adminSeen>>
      PROVE  AdminInvFor(on)'
  BY <1>5, GRPCStatusType, GiveUpInv DEF AdminServing
<1>6. ASSUME NEW x \in RoomAnswers, Asked(Admission(room, puids), x.effect),
             adminMinted' =
               [adminMinted EXCEPT ![a] = adminMinted[a] \cup Admitting(x, room, puids)],
             admin' =
               [admin EXCEPT ![a] = IF AdminRoomCode(x) = NoCode
                                    THEN w ELSE AdminReturn(a, AdminRoomCode(x))],
             UNCHANGED <<notified, adminSeen>>
      PROVE  AdminInvFor(on)'
  <2>1. BackendsTypeOK' /\ SameData
    <3>1. Admission(room, puids) \in Work
      BY <1>3 DEF Admission, Work
    <3> QED
      BY <1>6, <3>1, AskedType DEF AdminInvFor, AdminTypeOK, SameData, Asked
  <2> DEFINE m == adminMinted[a] \cup Admitting(x, room, puids)
  <2>2. Admitting(x, room, puids) \subseteq {room} \X puids
    BY DEF Admitting
  <2>3. m \in SUBSET (Room \X Puid)
    BY <1>1, <1>3, <2>2
  <2>4. /\ notified' = [notified EXCEPT ![a] = notified[a]]
        /\ adminSeen' = [adminSeen EXCEPT ![a] = adminSeen[a]]
        /\ adminMinted' = [adminMinted EXCEPT ![a] = m]
    BY <1>1, <1>6
  <2>5. CASE AdminRoomCode(x) = NoCode
    <3>1. m = adminMinted[a] \cup ({room} \X puids)
      BY <2>5, AdminRoomCodeType DEF Admitting
    <3>2. /\ w \in AdminState /\ w.pc = "teams" /\ w.req = after.req /\ w.members = after.members
          /\ w.userIDs = after.userIDs /\ w.puids = after.puids /\ w.reply = after.reply
          /\ w.tokens = s.tokens \cup Made(s, room, channel, users)
          /\ w.teamsLeft = after.teamsLeft
      BY <1>4 DEF AdminState
    <3>3. admin' = [admin EXCEPT ![a] = w]
      BY <1>6, <2>5
    <3> HIDE DEF w
    <3>4. Follows(w, s) /\ LeftInv(w)
      BY <3>2 DEF Follows, LeftInv
    <3>5. AdminCallInv(w, m, notified[a], adminSeen[a])
      <4>1. Completes(s, w.teamsLeft, room, users)
        BY <3>2
      <4>2. /\ s.pc \in {"session", "teams"}
            /\ \A u \in users \cap AdminLinked(s) : <<room, u>> \in adminSeen[a].eligible
                 /\ Wanted(s, room, u)
        OBVIOUS
      <4>3. m = adminMinted[a] \cup Gained(s, room, users)
        BY <3>1 DEF Gained
      <4> HIDE DEF s, m
      <4>4. AdminCallInv(w, adminMinted[a] \cup Gained(s, room, users), notified[a], adminSeen[a])
        BY <1>1, <3>2, <3>4, <4>1, <4>2, RoomGiven
      <4> QED
        BY <4>3, <4>4
    <3>6. AdminUpToDate(w, adminSeen[a])
      BY <1>1, <3>2, <3>4 DEF AdminUpToDate, AdminServing, Follows
    <3> HIDE DEF m
    <3> QED
      BY <1>1, <2>1, <2>3, <2>4, <3>2, <3>3, <3>5, <3>6, AdminStepOfCall
  <2>6. CASE AdminRoomCode(x) # NoCode
    <3> DEFINE code == AdminRoomCode(x)
               v == AdminReturn(a, code)
    <3>1. code \in Codes \ {"OK"}
      BY <2>6, AdminRoomCodeType
    <3>2. \A g \in m : \E u \in User : <<g[1], u>> \in adminSeen[a].eligible
                                    /\ <<u, g[2]>> \in adminSeen[a].links
      <4> SUFFICES ASSUME NEW g \in m
                   PROVE  \E u \in User : <<g[1], u>> \in adminSeen[a].eligible
                                       /\ <<u, g[2]>> \in adminSeen[a].links
        OBVIOUS
      <4>1. CASE g \in adminMinted[a]
        BY <1>1, <4>1 DEF AdminCallInv
      <4>2. CASE g \notin adminMinted[a]
        <5>1. PICK u \in linked : g = <<room, s.puids[u]>>
          BY <2>2, <4>2
        <5>2. LinksInv(s, adminSeen[a])
          BY <1>1 DEF AdminCallInv
        <5> QED
          BY <5>1, <5>2 DEF LinksInv
      <4> QED
        BY <4>1, <4>2
    <3>3. admin' = [admin EXCEPT ![a] = v]
      BY <1>6, <2>6
    <3> HIDE DEF m, code
    <3>4. v \in AdminState /\ v.req = s.req /\ v.pc = "done"
            /\ AdminCallInv(v, m, notified[a], adminSeen[a])
      BY <3>1, <3>2, GiveUp DEF AdminServing
    <3> HIDE DEF v
    <3>5. AdminUpToDate(v, adminSeen[a])
      BY <3>4 DEF AdminUpToDate, AdminServing
    <3> QED
      BY <1>1, <2>1, <2>3, <2>4, <3>3, <3>4, <3>5, AdminStepOfCall
  <2> QED
    BY <2>5, <2>6
<1>7. \/ /\ linked = {}
         /\ admin' = [admin EXCEPT ![a] = AdminReturn(a, ToGRPCStatus(ErrEpicAccountNotLinked))]
         /\ UNCHANGED <<backendVars, adminMinted, notified, adminSeen>>
      \/ \E x \in RoomAnswers :
           /\ Asked(Admission(room, puids), x.effect)
           /\ adminMinted' =
                [adminMinted EXCEPT ![a] = adminMinted[a] \cup Admitting(x, room, puids)]
           /\ admin' =
                [admin EXCEPT ![a] = IF AdminRoomCode(x) = NoCode
                                     THEN w ELSE AdminReturn(a, AdminRoomCode(x))]
           /\ UNCHANGED <<notified, adminSeen>>
  <2> HIDE DEF linked
  <2> QED
    BY <1>2 DEF CreateRoomTokens, Made, linked
<1> QED
  BY <1>5, <1>6, <1>7

LEMMA SessionRoomInv ==
  ASSUME NEW on, AdminInvFor(on), NEW a \in Admin, a \in on, SessionRoom(a)
  PROVE  AdminInvFor(on)'
<1> DEFINE s == admin[a]
           room == RoomID(s.req.sessionID, Voice)
           after == [s EXCEPT !.pc = "teams"]
<1>1. s.pc = "session" /\ CreateRoomTokens(a, room, "SESSION", s.members, after)
  BY DEF SessionRoom, AdminAt
<1>2. s \in AdminState /\ AdminCallInv(s, adminMinted[a], notified[a], adminSeen[a])
  BY <1>1, AdminMiddle
<1>3. /\ SnapshotInv(s, adminSeen[a]) /\ LinksInv(s, adminSeen[a]) /\ TeamsDoneBut(s, s.teamsLeft)
      /\ s.req.sessionID \in Session /\ s.req.session /\ LeftInv(s)
  BY <1>1, <1>2 DEF AdminCallInv, AdminServing, Handing
<1>4. room \in Room /\ s.members \in SUBSET User /\ room = AdminMainRoom(s)
  BY <1>2, <1>3 DEF RoomID, Room, Group, AdminState, AdminMainRoom
<1>5. /\ after \in AdminState /\ after.pc = "teams" /\ Follows(after, s)
      /\ after.tokens = s.tokens /\ after.teamsLeft = s.teamsLeft
  BY <1>2 DEF AdminState, Follows, AdminServing
<1>6. \A u \in s.members \cap AdminLinked(s) : <<room, u>> \in adminSeen[a].eligible
        /\ Wanted(s, room, u)
  BY <1>3, <1>4 DEF SnapshotInv, Wanted
<1>7. Completes(s, s.teamsLeft, room, s.members)
  <2> SUFFICES ASSUME NEW w, Follows(w, s), \A u \in s.members \cap AdminLinked(s) : Has(w, room, u)
               PROVE  SessionDone(w) /\ TeamsDoneBut(w, s.teamsLeft)
    BY DEF Completes
  <2>1. AdminLinked(w) = AdminLinked(s) /\ AdminLinked(s) \subseteq s.members
          /\ AdminMainRoom(w) = room
    BY <1>3, <1>4 DEF Follows, AdminLinked, LinksInv, AdminMainRoom
  <2>2. TeamsDoneBut(w, s.teamsLeft)
    BY <1>3 DEF TeamsDoneBut, Follows, AdminLinked, Has, RoomOf
  <2> QED
    BY <2>1, <2>2 DEF SessionDone
<1>8. LeftInv(after)
  BY <1>3, <1>5 DEF LeftInv, Follows
<1> HIDE DEF after, room
<1> QED
  BY <1>1, <1>4, <1>5, <1>6, <1>7, <1>8, RoomStep

LEMMA TeamRoomInv ==
  ASSUME NEW on, AdminInvFor(on), NEW a \in Admin, a \in on, NEW t \in Team, TeamRoom(a, t)
  PROVE  AdminInvFor(on)'
<1> DEFINE s == admin[a]
           room == RoomID(s.req.sessionID, t)
           after == [s EXCEPT !.teamsLeft = s.teamsLeft \ {t}]
<1>1. /\ s.pc = "teams" /\ t \in s.teamsLeft
      /\ CreateRoomTokens(a, room, "TEAM", s.userIDs[t], after)
  BY DEF TeamRoom, AdminAt
<1>2. s \in AdminState /\ AdminCallInv(s, adminMinted[a], notified[a], adminSeen[a])
  BY <1>1, AdminMiddle
<1>3. /\ SnapshotInv(s, adminSeen[a]) /\ LinksInv(s, adminSeen[a]) /\ TeamsDoneBut(s, s.teamsLeft)
      /\ SessionDone(s) /\ s.req.sessionID \in Session /\ LeftInv(s)
  BY <1>1, <1>2 DEF AdminCallInv, AdminServing, Handing
<1>4. room \in Room /\ s.userIDs[t] \in SUBSET User /\ room = RoomOf(s, t)
  BY <1>2, <1>3 DEF RoomID, Room, Group, AdminState, RoomOf, TeamID
<1>5. /\ after \in AdminState /\ after.pc = "teams" /\ Follows(after, s)
      /\ after.tokens = s.tokens /\ after.teamsLeft = s.teamsLeft \ {t}
  BY <1>1, <1>2 DEF AdminState, Follows
<1>6. s.req.team
  BY <1>1, <1>3 DEF LeftInv
<1>7. \A u \in s.userIDs[t] \cap AdminLinked(s) : <<room, u>> \in adminSeen[a].eligible
        /\ Wanted(s, room, u)
  BY <1>3, <1>4, <1>6 DEF SnapshotInv, LinksInv, Wanted
<1>8. Completes(s, s.teamsLeft \ {t}, room, s.userIDs[t])
  <2> SUFFICES ASSUME NEW w, Follows(w, s), \A u \in s.userIDs[t] \cap AdminLinked(s) :
                      Has(w, room, u)
               PROVE  SessionDone(w) /\ TeamsDoneBut(w, s.teamsLeft \ {t})
    BY DEF Completes
  <2>1. /\ AdminLinked(w) = AdminLinked(s) /\ w.req = s.req /\ w.userIDs = s.userIDs
        /\ AdminMainRoom(w) = AdminMainRoom(s) /\ \A x \in Team : RoomOf(w, x) = RoomOf(s, x)
        /\ \A r, u : Has(s, r, u) => Has(w, r, u)
    BY DEF Follows, AdminLinked, AdminMainRoom, RoomOf, Has
  <2>2. SessionDone(w)
    BY <1>3, <2>1 DEF SessionDone
  <2>3. ASSUME NEW x \in Team \ (s.teamsLeft \ {t}), NEW u \in AdminLinked(w) \cap w.userIDs[x]
        PROVE  Has(w, RoomOf(w, x), u)
    <3>1. CASE x = t
      BY <1>4, <2>1, <2>3, <3>1
    <3>2. CASE x # t
      BY <1>3, <1>6, <2>1, <2>3, <3>2 DEF TeamsDoneBut
    <3> QED
      BY <3>1, <3>2
  <2> QED
    BY <2>2, <2>3 DEF TeamsDoneBut
<1>9. LeftInv(after)
  BY <1>5, <1>6 DEF LeftInv, Follows
<1> HIDE DEF after, room
<1> QED
  BY <1>1, <1>4, <1>5, <1>7, <1>8, <1>9, RoomStep

LEMMA NoTeamsInv ==
  ASSUME NEW on, AdminInvFor(on), NEW a \in Admin, a \in on, NoTeams(a)
  PROVE  AdminInvFor(on)'
<1>1. "FailedPrecondition" \in Codes \ {"OK"}
  BY DEF Codes
<1> QED
  BY <1>1, GiveUpInv DEF NoTeams, AdminAt, AdminServing

LEMMA TeamsDoneInv ==
  ASSUME NEW on, AdminInvFor(on), NEW a \in Admin, a \in on, TeamsDone(a)
  PROVE  AdminInvFor(on)'
<1> DEFINE s == admin[a]
           v == IF s.req.notify
             THEN [s EXCEPT !.pc = "notify", !.usersLeft = {x.user : x \in s.tokens}]
                ELSE [s EXCEPT !.pc = "done", !.reply = "OK"]
<1>1. /\ s.pc = "teams" /\ s.teamsLeft = {}
      /\ UNCHANGED <<backendVars, adminMinted, notified, adminSeen>>
      /\ admin' = [admin EXCEPT ![a] = v]
  BY DEF TeamsDone, AdminAt
<1>2. /\ s \in AdminState /\ notified[a] \in [User -> Nat]
      /\ AdminCallInv(s, adminMinted[a], notified[a], adminSeen[a])
      /\ notified = [notified EXCEPT ![a] = notified[a]]
  BY <1>1, AdminMiddle
<1>3. /\ TokensInv(s, adminMinted[a]) /\ SessionDone(s) /\ TeamsDoneBut(s, {})
      /\ NotifiedInv(s, notified[a])
      /\ s.req.sessionID \in Session /\ s.reply = NoCode
  BY <1>1, <1>2 DEF AdminCallInv, AdminServing, Handing
<1>4. {x.user : x \in s.tokens} \in SUBSET User
  BY <1>2 DEF AdminState, AdminToken
<1>5. /\ v \in AdminState /\ v.req = s.req /\ v.tokens = s.tokens /\ v.puids = s.puids
      /\ v.userIDs = s.userIDs /\ v.teamsLeft = s.teamsLeft
      /\ \/ v.pc = "done" /\ v.reply = "OK" /\ ~v.req.notify
         \/ v.pc = "notify" /\ v.reply = NoCode /\ v.req.notify
              /\ v.usersLeft = {x.user : x \in s.tokens}
  BY <1>2, <1>3, <1>4, ErrorCodes DEF AdminState, AdminServing
<1> HIDE DEF v
<1>6. TokensInv(v, adminMinted[a]) /\ SessionDone(v) /\ TeamsDoneBut(v, {})
  BY <1>3, <1>5 DEF TokensInv, SessionDone, TeamsDoneBut, AdminLinked, Has, Wanted, AdminMainRoom,
     RoomOf
<1>7. NotifiedInv(v, notified[a])
  BY <1>1, <1>3, <1>5 DEF NotifiedInv
<1>8. AdminCallInv(v, adminMinted[a], notified[a], adminSeen[a])
  BY <1>2, <1>3, <1>5, <1>6, <1>7 DEF AdminCallInv, AdminServing, Handing
<1> QED
  BY <1>1, <1>2, <1>5, <1>8, AdminLocalStep DEF AdminServing

LEMMA NotifyInv ==
  ASSUME NEW on, AdminInvFor(on), NEW a \in Admin, a \in on, NEW u \in User, Notify(a, u)
  PROVE  AdminInvFor(on)'
<1> DEFINE s == admin[a]
           v == [s EXCEPT !.usersLeft = s.usersLeft \ {u}]
           n == [notified[a] EXCEPT ![u] = notified[a][u] + 1]
<1>1. /\ s.pc = "notify" /\ u \in s.usersLeft /\ UNCHANGED <<backendVars, adminMinted, adminSeen>>
      /\ admin' = [admin EXCEPT ![a] = v] /\ notified' = [notified EXCEPT ![a] = n]
  BY DEF Notify, AdminAt
<1>2. s \in AdminState /\ notified[a] \in [User -> Nat]
        /\ AdminCallInv(s, adminMinted[a], notified[a], adminSeen[a])
  BY <1>1, AdminMiddle
<1>3. /\ TokensInv(s, adminMinted[a]) /\ SessionDone(s) /\ TeamsDoneBut(s, {})
      /\ NotifiedInv(s, notified[a])
      /\ s.req.sessionID \in Session /\ s.reply = NoCode
      /\ s.req.notify /\ \A w \in s.usersLeft : \E x \in s.tokens : x.user = w
  BY <1>1, <1>2 DEF AdminCallInv, AdminServing, Handing
<1>4. /\ v \in AdminState /\ v.req = s.req /\ v.tokens = s.tokens /\ v.puids = s.puids
      /\ v.userIDs = s.userIDs /\ v.pc = "notify" /\ v.reply = NoCode
      /\ v.usersLeft = s.usersLeft \ {u}
  BY <1>1, <1>2, <1>3 DEF AdminState
<1>5. n \in [User -> Nat]
  BY <1>2
<1>6. NotifiedInv(v, n)
  <2> SUFFICES ASSUME NEW w \in User
               PROVE  n[w] = IF w \notin v.usersLeft /\ \E x \in v.tokens : x.user = w THEN 1 ELSE 0
    BY <1>3, <1>4 DEF NotifiedInv
  <2>1. notified[a][w] = IF w \notin s.usersLeft /\ \E x \in s.tokens : x.user = w THEN 1 ELSE 0
    BY <1>1, <1>3 DEF NotifiedInv
  <2>2. CASE w = u
    BY <1>1, <1>2, <1>3, <1>4, <2>1, <2>2
  <2>3. CASE w # u
    BY <1>2, <1>4, <2>1, <2>3
  <2> QED
    BY <2>2, <2>3
<1> HIDE DEF v, n
<1>7. TokensInv(v, adminMinted[a]) /\ SessionDone(v) /\ TeamsDoneBut(v, {})
  BY <1>3, <1>4 DEF TokensInv, SessionDone, TeamsDoneBut, AdminLinked, Has, Wanted, AdminMainRoom,
     RoomOf
<1>8. AdminCallInv(v, adminMinted[a], n, adminSeen[a])
  BY <1>2, <1>3, <1>4, <1>6, <1>7 DEF AdminCallInv, AdminServing, Handing
<1> QED
  BY <1>1, <1>4, <1>5, <1>8, AdminLocalStep DEF AdminServing

LEMMA NotifyDoneInv ==
  ASSUME NEW on, AdminInvFor(on), NEW a \in Admin, a \in on, NotifyDone(a)
  PROVE  AdminInvFor(on)'
<1> DEFINE s == admin[a]
           v == [s EXCEPT !.pc = "done", !.reply = "OK"]
<1>1. /\ s.pc = "notify" /\ s.usersLeft = {}
      /\ UNCHANGED <<backendVars, adminMinted, notified, adminSeen>>
      /\ admin' = [admin EXCEPT ![a] = v]
  BY DEF NotifyDone, AdminAt
<1>2. /\ s \in AdminState /\ notified[a] \in [User -> Nat]
      /\ AdminCallInv(s, adminMinted[a], notified[a], adminSeen[a])
      /\ notified = [notified EXCEPT ![a] = notified[a]]
  BY <1>1, AdminMiddle
<1>3. TokensInv(s, adminMinted[a]) /\ SessionDone(s) /\ TeamsDoneBut(s, {})
        /\ NotifiedInv(s, notified[a])
  BY <1>1, <1>2 DEF AdminCallInv, AdminServing, Handing
<1>4. /\ v \in AdminState /\ v.req = s.req /\ v.tokens = s.tokens /\ v.puids = s.puids
      /\ v.userIDs = s.userIDs /\ v.pc = "done" /\ v.reply = "OK" /\ v.usersLeft = {}
  BY <1>1, <1>2, ErrorCodes DEF AdminState
<1> HIDE DEF v
<1>5. TokensInv(v, adminMinted[a]) /\ SessionDone(v) /\ TeamsDoneBut(v, {})
        /\ NotifiedInv(v, notified[a])
  BY <1>1, <1>3, <1>4
  DEF TokensInv, SessionDone, TeamsDoneBut, AdminLinked, Has, Wanted, AdminMainRoom, RoomOf,
     NotifiedInv
<1>6. AdminCallInv(v, adminMinted[a], notified[a], adminSeen[a])
  BY <1>2, <1>4, <1>5 DEF AdminCallInv, AdminServing, Handing
<1> QED
  BY <1>1, <1>2, <1>4, <1>6, AdminLocalStep DEF AdminServing

\* A history that takes in another one contains both.
LEMMA BothGrows ==
  ASSUME NEW h \in AdminHistory, NEW n \in AdminHistory
  PROVE  /\ AdminBoth(h, n) \in AdminHistory
         /\ h.eligible \subseteq AdminBoth(h, n).eligible /\ h.links \subseteq AdminBoth(h, n).links
         /\ n.eligible \subseteq AdminBoth(h, n).eligible /\ n.links \subseteq AdminBoth(h, n).links
BY DEF AdminBoth, AdminHistory

\* A change of the backends' data happens to every call at once: those whose
\* histories are kept and that are being served have it recorded.
LEMMA AdminWatchInv ==
  ASSUME NEW on, AdminInvFor(on), BackendsTypeOK', NEW as, AdminWatch(as),
         \A a \in Admin : a \in as <=> a \in on /\ admin[a].pc \in AdminServing
  PROVE  AdminInvFor(on)'
<1>1. /\ admin' = admin /\ adminMinted' = adminMinted /\ notified' = notified
      /\ adminSeen' = [a \in Admin |-> IF a \in as
           THEN AdminBoth(adminSeen[a], AdminNow(admin[a].req)')
                                       ELSE adminSeen[a]]
  BY DEF AdminWatch
<1>2. ASSUME NEW a \in Admin
      PROVE  /\ adminSeen'[a] \in AdminHistory
             /\ AdminCallInv(admin[a], adminMinted[a], notified[a], adminSeen[a])'
             /\ a \in on => AdminUpToDate(admin[a], adminSeen[a])'
  <2>1. /\ AdminCallInv(admin[a], adminMinted[a], notified[a], adminSeen[a])
        /\ adminSeen[a] \in AdminHistory
    BY DEF AdminInvFor, AdminTypeOK
  <2>2. CASE a \in as
    <3> DEFINE now == AdminNow(admin[a].req)'
    <3>1. admin[a].req \in AdminRequest /\ admin[a].req.sessionID \in Session
      BY <2>2, AdminMiddle DEF AdminCallInv, AdminServing
    <3>2. now \in AdminHistory
      BY <1>1, <3>1, NowTypePrime
    <3>3. adminSeen'[a] = AdminBoth(adminSeen[a], now)
      BY <1>1, <2>2
    <3> HIDE DEF now
    <3>4. /\ adminSeen'[a] \in AdminHistory
          /\ adminSeen[a].eligible \subseteq adminSeen'[a].eligible
          /\ adminSeen[a].links \subseteq adminSeen'[a].links
          /\ now.eligible \subseteq adminSeen'[a].eligible
          /\ now.links \subseteq adminSeen'[a].links
      BY <2>1, <3>2, <3>3, BothGrows
    <3>5. AdminCallInv(admin[a], adminMinted[a], notified[a], adminSeen'[a])
      BY <2>1, <3>4, AdminMoreSeen
    <3>6. AdminUpToDate(admin[a], adminSeen[a])'
      BY <1>1, <3>4 DEF AdminUpToDate, now
    <3> QED
      BY <1>1, <3>4, <3>5, <3>6
  <2>3. CASE a \notin as
    <3>1. adminSeen'[a] = adminSeen[a]
      BY <1>1, <2>3
    <3>2. a \in on => AdminUpToDate(admin[a], adminSeen[a])'
      BY <1>1, <2>3 DEF AdminUpToDate
    <3> QED
      BY <1>1, <2>1, <3>1, <3>2
  <2> QED
    BY <2>2, <2>3
<1>3. adminSeen' \in [Admin -> AdminHistory]
  BY <1>1, <1>2
<1>4. AdminTypeOK'
  BY <1>1, <1>3 DEF AdminInvFor, AdminTypeOK
<1> QED
  BY <1>2, <1>4 DEF AdminInvFor

\* The steps of a handler.
LEMMA AdminHandlerInv ==
  ASSUME NEW on, AdminInvFor(on), NEW a \in Admin, a \in on, AdminHandler(a)
  PROVE  AdminInvFor(on)'
BY FetchInv, AdminLookupInv, SessionRoomInv, NoTeamsInv, TeamRoomInv, TeamsDoneInv, NotifyInv,
   NotifyDoneInv DEF AdminHandler

\* What others do to Epic's rooms does not matter.
LEMMA AdminElsewhere ==
  ASSUME NEW on, AdminInvFor(on), UNCHANGED adminVars, SameData, BackendsTypeOK'
  PROVE  AdminInvFor(on)'
<1>1. admin' = admin /\ adminMinted' = adminMinted /\ notified' = notified /\ adminSeen' = adminSeen
  BY DEF adminVars
<1>2. AdminTypeOK'
  BY <1>1 DEF AdminInvFor, AdminTypeOK
<1>3. ASSUME NEW a \in Admin
      PROVE  AdminCallInv(admin[a], adminMinted[a], notified[a], adminSeen[a])'
  BY <1>1 DEF AdminInvFor
<1>4. ASSUME NEW a \in Admin \cap on PROVE AdminUpToDate(admin[a], adminSeen[a])'
  <2>1. AdminUpToDate(admin[a], adminSeen[a])
    BY DEF AdminInvFor
  <2> QED
    BY <1>1, <2>1 DEF AdminUpToDate, AdminNow, TakesPart, SameData
<1> QED
  BY <1>2, <1>3, <1>4 DEF AdminInvFor

LEMMA AdminNextInv == AdminInv /\ [AdminNext]_adminAll => AdminInv'
<1> SUFFICES ASSUME AdminInvFor(Admin), [AdminNext]_adminAll PROVE AdminInvFor(Admin)'
  BY DEF AdminInv
<1>1. ASSUME NEW a \in Admin, AdminHandler(a) PROVE AdminInvFor(Admin)'
  BY <1>1, AdminHandlerInv
<1>2. ASSUME NEW a \in Admin, NEW r \in AdminRequest, AdminBegin(a, r) PROVE AdminInvFor(Admin)'
  BY <1>2, AdminBeginInv
<1>3. CASE AdminWorld
  <2>1. BackendsTypeOK'
    BY <1>3, BackendsChangeType DEF AdminInvFor, AdminTypeOK, AdminWorld
  <2>2. PICK as : as = {a \in Admin : admin[a].pc \in AdminServing}
    OBVIOUS
  <2>3. AdminWatch(as)
    BY <1>3, <2>2 DEF AdminWorld
  <2>4. \A a \in Admin : a \in as <=> a \in Admin /\ admin[a].pc \in AdminServing
    BY <2>2
  <2> QED
    BY <2>1, <2>3, <2>4, AdminWatchInv
<1>4. CASE UNCHANGED adminAll
  <2>1. UNCHANGED adminVars /\ SameData /\ BackendsTypeOK'
    BY <1>4 DEF adminAll, backendVars, SameData, AdminInvFor, AdminTypeOK, BackendsTypeOK
  <2> QED
    BY <2>1, AdminElsewhere
<1> QED
  BY <1>1, <1>2, <1>3, <1>4 DEF AdminNext

-----------------------------------------------------------------------------
(* What the steps of a call do to Epic's rooms. *)

\* What a call has been granted it had the right to.
LEMMA AdminMintedByRight ==
  ASSUME NEW on, AdminInvFor(on), NEW a \in Admin
  PROVE  /\ adminMinted[a] \subseteq AdminRights(a)
         /\ adminMinted[a] # {} => admin[a].pc # "idle"
<1>1. /\ AdminCallInv(admin[a], adminMinted[a], notified[a], adminSeen[a])
      /\ adminMinted[a] \in SUBSET (Room \X Puid)
  BY DEF AdminInvFor, AdminTypeOK
<1> QED
  BY <1>1 DEF AdminCallInv, AdminRights

\* The handler of a, which is being served, goes on or ends.
AdminMoves(a) ==
  /\ admin[a].pc \in AdminServing
  /\ admin' = [admin EXCEPT ![a] = admin'[a]]
  /\ admin'[a].req = admin[a].req /\ admin'[a].pc \in AdminServing \cup {"done"}

\* What a step of the handler of a does to Epic's rooms and leaves to be done:
\* admissions that a has the right to, and of which its new tokens are.
AdminDid(a) ==
  /\ AdminMoves(a)
  /\ UNCHANGED adminSeen /\ SameData
  /\ admitted \subseteq admitted' /\ admitted' \ admitted \subseteq adminMinted'[a]
  /\ late \subseteq late'
  /\ \A w \in late' \ late :
       w.op = "admit" /\ w.puids # {} /\ {w.room} \X w.puids \subseteq adminMinted'[a]
  /\ adminMinted[a] \subseteq adminMinted'[a] /\ adminMinted'[a] \subseteq AdminRights(a)
  /\ \A b \in Admin \ {a} : adminMinted'[b] = adminMinted[b]
  /\ \A t \in admin'[a].tokens \ admin[a].tokens : <<t.room, t.puid>> \in admitted'

\* A step that Epic's rooms take no part in: to state v.
LEMMA AdminQuietStep ==
  ASSUME NEW on, AdminInvFor(on), NEW a \in Admin, NEW v, admin[a].pc \in AdminServing,
         UNCHANGED <<backendVars, adminMinted, adminSeen>>, admin' = [admin EXCEPT ![a] = v],
         v.req = admin[a].req, v.pc \in AdminServing \cup {"done"},
         v.tokens \subseteq admin[a].tokens
  PROVE  AdminDid(a)
<1>1. admin'[a] = v
  BY DEF AdminInvFor, AdminTypeOK
<1>2. AdminMoves(a)
  BY <1>1 DEF AdminMoves
<1> QED
  BY <1>1, <1>2, AdminMintedByRight DEF AdminDid, backendVars, SameData

\* createRoomTokens, successful or not.
LEMMA AdminRoomStep ==
  ASSUME NEW on, AdminInvFor(on), AdminInvFor(on)', NEW a \in Admin, a \in on,
         NEW room \in Room, NEW channel, NEW users \in SUBSET User, NEW after \in AdminState,
         CreateRoomTokens(a, room, channel, users, after),
         admin[a].pc \in {"session", "teams"},
         after.pc = "teams", after.req = admin[a].req, after.tokens = admin[a].tokens
  PROVE  AdminDid(a)
<1> DEFINE s == admin[a]
           linked == {u \in users : s.puids[u] # NoPuid}
           puids == {s.puids[u] : u \in linked}
           got == {[user |-> u, channel |-> channel, room |-> room, puid |-> s.puids[u]] :
                     u \in linked}
           w == [after EXCEPT !.tokens = after.tokens \cup got]
<1>1. s \in AdminState /\ s.pc \in AdminServing
  BY AdminMiddle DEF AdminServing
<1>2. ASSUME NEW code
      PROVE  LET v == AdminReturn(a, code)
             IN v.req = s.req /\ v.pc = "done" /\ v.tokens = {}
  BY <1>1 DEF AdminReturn, AdminState
<1>3. w.req = s.req /\ w.pc = "teams" /\ w.tokens = s.tokens \cup got
  BY DEF AdminState
<1>4. ASSUME admin' = [admin EXCEPT ![a] = AdminReturn(a, ToGRPCStatus(ErrEpicAccountNotLinked))],
             UNCHANGED <<backendVars, adminMinted, notified, adminSeen>>
      PROVE  AdminDid(a)
  <2> DEFINE v == AdminReturn(a, ToGRPCStatus(ErrEpicAccountNotLinked))
  <2>1. v.req = s.req /\ v.pc = "done" /\ v.tokens = {}
    BY <1>2
  <2>2. admin' = [admin EXCEPT ![a] = v]
    BY <1>4
  <2> HIDE DEF v
  <2> QED
    BY <1>1, <1>4, <2>1, <2>2, AdminQuietStep
<1>5. ASSUME NEW x \in RoomAnswers, linked # {}, Asked(Admission(room, puids), x.effect),
             adminMinted' =
               [adminMinted EXCEPT ![a] = adminMinted[a] \cup Admitting(x, room, puids)],
             admin' =
               [admin EXCEPT ![a] = IF AdminRoomCode(x) = NoCode
                                    THEN w ELSE AdminReturn(a, AdminRoomCode(x))],
             UNCHANGED <<notified, adminSeen>>
      PROVE  AdminDid(a)
  <2>1. /\ adminMinted'[a] = adminMinted[a] \cup Admitting(x, room, puids)
        /\ \A b \in Admin \ {a} : adminMinted'[b] = adminMinted[b]
    BY <1>5 DEF AdminInvFor, AdminTypeOK
  <2>2. puids # {}
    BY <1>5
  <2>3. adminMinted'[a] \subseteq AdminRights(a)
    <3>1. /\ AdminCallInv(admin[a], adminMinted[a], notified[a], adminSeen[a])'
          /\ adminMinted'[a] \in SUBSET (Room \X Puid)
      BY DEF AdminInvFor, AdminTypeOK
    <3>2. \A g \in adminMinted'[a] :
            \E u \in User : <<g[1], u>> \in adminSeen'[a].eligible
              /\ <<u, g[2]>> \in adminSeen'[a].links
      BY <3>1 DEF AdminCallInv
    <3> QED
      BY <1>5, <3>1, <3>2 DEF AdminRights
  <2> HIDE DEF puids
  <2>4. SameData /\ late \subseteq late'
        /\ admitted' = IF x.effect = "now" THEN admitted \cup ({room} \X puids) ELSE admitted
    BY <1>5 DEF Asked, SameData, Done, Admission
  <2>5. \A y \in late' \ late : /\ y.op = "admit" /\ y.puids # {}
                                /\ {y.room} \X y.puids \subseteq adminMinted'[a]
    BY <1>5, <2>1, <2>2 DEF Asked, Admission, Admitting
  <2>6. admitted \subseteq admitted' /\ admitted' \ admitted \subseteq adminMinted'[a]
    BY <2>1, <2>4 DEF Admitting
  <2> HIDE DEF got, w
  <2>7. CASE AdminRoomCode(x) = NoCode
    <3>1. admin'[a] = w /\ admin' = [admin EXCEPT ![a] = w]
      BY <1>5, <2>7 DEF AdminInvFor, AdminTypeOK
    <3>2. AdminMoves(a)
      BY <1>1, <1>3, <3>1 DEF AdminMoves, AdminServing
    <3>3. x.effect = "now"
      BY <2>7, AdminRoomCodeType
    <3>4. \A t \in got : <<t.room, t.puid>> \in {room} \X puids
      BY DEF got, puids
    <3>5. \A t \in admin'[a].tokens \ admin[a].tokens : <<t.room, t.puid>> \in admitted'
      BY <1>3, <2>4, <3>1, <3>3, <3>4
    <3> QED
      BY <1>5, <2>1, <2>3, <2>4, <2>5, <2>6, <3>2, <3>5 DEF AdminDid
  <2>8. CASE AdminRoomCode(x) # NoCode
    <3> DEFINE v == AdminReturn(a, AdminRoomCode(x))
    <3>1. v.req = s.req /\ v.pc = "done" /\ v.tokens = {}
      BY <1>2
    <3>2. admin'[a] = v /\ admin' = [admin EXCEPT ![a] = v]
      BY <1>5, <2>8 DEF AdminInvFor, AdminTypeOK
    <3> HIDE DEF v
    <3>3. AdminMoves(a)
      BY <1>1, <3>1, <3>2 DEF AdminMoves
    <3> QED
      BY <1>5, <2>1, <2>3, <2>4, <2>5, <2>6, <3>1, <3>2, <3>3 DEF AdminDid
  <2> QED
    BY <2>7, <2>8
<1> QED
  BY <1>4, <1>5 DEF CreateRoomTokens

\* The steps of a handler, one by one.
LEMMA AdminDoes ==
  ASSUME NEW on, AdminInvFor(on), NEW a \in Admin, a \in on, AdminHandler(a)
  PROVE  AdminDid(a)
<1> DEFINE s == admin[a]
<1>0. AdminInvFor(on)'
  BY AdminHandlerInv
<1>1. ASSUME s.pc \in AdminServing
      PROVE  s \in AdminState /\ AdminCallInv(s, adminMinted[a], notified[a], adminSeen[a])
  BY <1>1, AdminMiddle DEF AdminServing
<1>2. ASSUME NEW code, s.pc \in AdminServing, admin' = [admin EXCEPT ![a] = AdminReturn(a, code)],
             UNCHANGED <<backendVars, adminMinted, adminSeen>>
      PROVE  AdminDid(a)
  <2> DEFINE v == AdminReturn(a, code)
  <2>1. v.req = s.req /\ v.pc = "done" /\ v.tokens = {} /\ admin' = [admin EXCEPT ![a] = v]
    BY <1>1, <1>2 DEF AdminReturn, AdminState
  <2> HIDE DEF v
  <2> QED
    BY <1>2, <2>1, AdminQuietStep
<1>3. CASE Fetch(a)
  <2>1. s.pc \in AdminServing /\ UNCHANGED <<backendVars, adminMinted, adminSeen>>
    BY <1>3 DEF Fetch, AdminAt, AdminServing
  <2>2. ASSUME NEW none, NEW mems, NEW ids,
               admin' = [admin EXCEPT ![a] = [s EXCEPT !.pc = "lookup", !.members = mems,
                                                       !.noTeams = none, !.userIDs = ids]]
        PROVE  AdminDid(a)
    <3> DEFINE v == [s EXCEPT !.pc = "lookup", !.members = mems, !.noTeams = none, !.userIDs = ids]
    <3>1. v.req = s.req /\ v.pc \in AdminServing /\ v.tokens = s.tokens
            /\ admin' = [admin EXCEPT ![a] = v]
      BY <1>1, <2>1, <2>2 DEF AdminState, AdminServing
    <3> HIDE DEF v
    <3> QED
      BY <2>1, <3>1, AdminQuietStep
  <2> QED
    BY <1>2, <1>3, <2>1, <2>2 DEF Fetch
<1>4. CASE AdminLookup(a)
  <2>1. s.pc \in AdminServing /\ UNCHANGED <<backendVars, adminMinted, adminSeen>>
    BY <1>4 DEF AdminLookup, AdminAt, AdminServing
  <2>2. ASSUME NEW next \in {"session", "teams"}, NEW puids, NEW left,
               admin' =
                 [admin EXCEPT ![a] = [s EXCEPT !.pc = next, !.puids = puids, !.teamsLeft = left]]
        PROVE  AdminDid(a)
    <3> DEFINE v == [s EXCEPT !.pc = next, !.puids = puids, !.teamsLeft = left]
    <3>1. v.req = s.req /\ v.pc \in AdminServing /\ v.tokens = s.tokens
            /\ admin' = [admin EXCEPT ![a] = v]
      BY <1>1, <2>1, <2>2 DEF AdminState, AdminServing
    <3> HIDE DEF v
    <3> QED
      BY <2>1, <3>1, AdminQuietStep
  <2>3. (IF s.req.session THEN "session" ELSE "teams") \in {"session", "teams"}
    OBVIOUS
  <2> QED
    BY <1>2, <1>4, <2>1, <2>2, <2>3 DEF AdminLookup
<1>5. CASE SessionRoom(a)
  <2> DEFINE room == RoomID(s.req.sessionID, Voice)
             after == [s EXCEPT !.pc = "teams"]
  <2>1. s.pc = "session" /\ CreateRoomTokens(a, room, "SESSION", s.members, after)
    BY <1>5 DEF SessionRoom, AdminAt
  <2>2. s \in AdminState /\ s.req.sessionID \in Session
    BY <1>1, <2>1 DEF AdminCallInv, AdminServing
  <2>3. room \in Room /\ s.members \in SUBSET User
    BY <2>2 DEF RoomID, Room, Group, AdminState
  <2>4. after \in AdminState /\ after.pc = "teams" /\ after.req = s.req /\ after.tokens = s.tokens
    BY <2>2 DEF AdminState, AdminServing
  <2> HIDE DEF after, room
  <2> QED
    BY <1>0, <2>1, <2>3, <2>4, AdminRoomStep
<1>6. ASSUME NEW t \in Team, TeamRoom(a, t) PROVE AdminDid(a)
  <2> DEFINE room == RoomID(s.req.sessionID, t)
             after == [s EXCEPT !.teamsLeft = s.teamsLeft \ {t}]
  <2>1. s.pc = "teams" /\ CreateRoomTokens(a, room, "TEAM", s.userIDs[t], after)
    BY <1>6 DEF TeamRoom, AdminAt
  <2>2. s \in AdminState /\ s.req.sessionID \in Session
    BY <1>1, <2>1 DEF AdminCallInv, AdminServing
  <2>3. room \in Room /\ s.userIDs[t] \in SUBSET User
    BY <2>2 DEF RoomID, Room, Group, AdminState, TeamID
  <2>4. after \in AdminState /\ after.pc = "teams" /\ after.req = s.req /\ after.tokens = s.tokens
    BY <2>1, <2>2 DEF AdminState
  <2> HIDE DEF after, room
  <2> QED
    BY <1>0, <2>1, <2>3, <2>4, AdminRoomStep
<1>7. CASE NoTeams(a)
  <2>1. /\ s.pc \in AdminServing /\ UNCHANGED <<backendVars, adminMinted, adminSeen>>
        /\ admin' = [admin EXCEPT ![a] = AdminReturn(a, "FailedPrecondition")]
    BY <1>7 DEF NoTeams, AdminAt, AdminServing
  <2> QED
    BY <1>2, <2>1
<1>8. CASE TeamsDone(a)
  <2> DEFINE v == IF s.req.notify
               THEN [s EXCEPT !.pc = "notify", !.usersLeft = {x.user : x \in s.tokens}]
                  ELSE [s EXCEPT !.pc = "done", !.reply = "OK"]
  <2>1. /\ s.pc \in AdminServing /\ UNCHANGED <<backendVars, adminMinted, adminSeen>>
        /\ admin' = [admin EXCEPT ![a] = v]
    BY <1>8 DEF TeamsDone, AdminAt, AdminServing
  <2>2. v.req = s.req /\ v.pc \in AdminServing \cup {"done"} /\ v.tokens = s.tokens
    BY <1>1, <2>1 DEF AdminState, AdminServing
  <2> HIDE DEF v
  <2> QED
    BY <2>1, <2>2, AdminQuietStep
<1>9. ASSUME NEW u \in User, Notify(a, u) PROVE AdminDid(a)
  <2> DEFINE v == [s EXCEPT !.usersLeft = s.usersLeft \ {u}]
  <2>1. /\ s.pc \in AdminServing /\ UNCHANGED <<backendVars, adminMinted, adminSeen>>
        /\ admin' = [admin EXCEPT ![a] = v]
    BY <1>9 DEF Notify, AdminAt, AdminServing
  <2>2. v.req = s.req /\ v.pc = s.pc /\ v.tokens = s.tokens
    BY <1>1, <2>1 DEF AdminState
  <2> HIDE DEF v
  <2> QED
    BY <2>1, <2>2, AdminQuietStep
<1>10. CASE NotifyDone(a)
  <2> DEFINE v == [s EXCEPT !.pc = "done", !.reply = "OK"]
  <2>1. /\ s.pc \in AdminServing /\ UNCHANGED <<backendVars, adminMinted, adminSeen>>
        /\ admin' = [admin EXCEPT ![a] = v]
    BY <1>10 DEF NotifyDone, AdminAt, AdminServing
  <2>2. v.req = s.req /\ v.pc = "done" /\ v.tokens = s.tokens
    BY <1>1, <2>1 DEF AdminState
  <2> HIDE DEF v
  <2> QED
    BY <2>1, <2>2, AdminQuietStep
<1> QED
  BY <1>3, <1>4, <1>5, <1>6, <1>7, <1>8, <1>9, <1>10 DEF AdminHandler

\* What the rights of a call become when the data changes.
LEMMA AdminRightsGrow ==
  ASSUME NEW on, AdminInvFor(on), NEW as, AdminWatch(as), NEW a \in Admin,
         a \in as => a \in on /\ admin[a].pc \in AdminServing
  PROVE  /\ a \notin as => AdminRights(a)' = AdminRights(a)
         /\ AdminRights(a) \subseteq AdminRights(a)'
         /\ SameData => AdminRights(a)' = AdminRights(a)
<1>1. /\ admin' = admin
      /\ adminSeen' = [b \in Admin |-> IF b \in as
           THEN AdminBoth(adminSeen[b], AdminNow(admin[b].req)')
                                       ELSE adminSeen[b]]
  BY DEF AdminWatch
<1>2. CASE a \notin as
  BY <1>1, <1>2 DEF AdminRights
<1>3. CASE a \in as
  <2> DEFINE r == admin[a].req
  <2>1. AdminNow(r).eligible \subseteq adminSeen[a].eligible
          /\ AdminNow(r).links \subseteq adminSeen[a].links
    BY <1>3, AdminMiddle DEF AdminUpToDate, AdminServing
  <2>2. /\ adminSeen'[a].eligible = adminSeen[a].eligible \cup AdminNow(r)'.eligible
        /\ adminSeen'[a].links = adminSeen[a].links \cup AdminNow(r)'.links
    BY <1>1, <1>3 DEF AdminBoth
  <2>3. AdminRights(a) \subseteq AdminRights(a)'
    BY <2>2 DEF AdminRights
  <2>4. ASSUME SameData PROVE AdminRights(a)' = AdminRights(a)
    <3>1. AdminNow(r)' = AdminNow(r)
      BY <1>1, <2>4 DEF SameData, AdminNow, TakesPart
    <3>2. adminSeen'[a].eligible = adminSeen[a].eligible /\ adminSeen'[a].links = adminSeen[a].links
      BY <2>1, <2>2, <3>1
    <3> QED
      BY <3>2 DEF AdminRights
  <2> QED
    BY <1>3, <2>3, <2>4
<1> QED
  BY <1>2, <1>3

-----------------------------------------------------------------------------
(* The theorems. *)

\* The invariant that the admin call's properties follow from is inductive.
THEOREM AdminInductive == AdminSpec => []AdminInv
<1>1. AdminInv /\ [AdminNext]_adminAll => AdminInv'
  BY AdminNextInv
<1> QED
  BY <1>1, AdminInitInv, PTL DEF AdminSpec

\* The handlers' variables, Epic's rooms and the histories stay in their types.
THEOREM AdminTypeCorrect == AdminSpec => []AdminTypeOK
<1>1. AdminInv => AdminTypeOK
  BY DEF AdminInv, AdminInvFor
<1> QED
  BY <1>1, AdminInductive, PTL

\* What the invariant says of each call, whosever histories are kept.
LEMMA AdminPromises ==
  ASSUME NEW on, AdminInvFor(on)
  PROVE  GrantOnlyToEligible /\ SuccessIsComplete /\ OneNotificationEach
<1>1. GrantOnlyToEligible
  BY DEF AdminInvFor, GrantOnlyToEligible, AdminCallInv
<1>2. SuccessIsComplete
  <2> SUFFICES ASSUME NEW a \in Admin, AdminAt(a, "done"), admin[a].reply = "OK"
               PROVE  /\ {<<x.room, x.puid>> : x \in admin[a].tokens} = adminMinted[a]
                      /\ {<<x.room, x.user>> : x \in admin[a].tokens} = Due(admin[a])
                      /\ \A x \in admin[a].tokens : x.puid = admin[a].puids[x.user]
    BY DEF SuccessIsComplete
  <2> DEFINE v == admin[a]
  <2>1. TokensInv(v, adminMinted[a]) /\ SessionDone(v) /\ TeamsDoneBut(v, {})
    BY DEF AdminInvFor, AdminCallInv, AdminAt
  <2>2. v.tokens \subseteq AdminToken
    BY DEF AdminInvFor, AdminTypeOK, AdminState, AdminIdle, AdminAt
  <2>3. ASSUME NEW x \in v.tokens PROVE <<x.room, x.user>> \in Due(v)
    <3>1. x.room \in Room /\ x.user \in AdminLinked(v) /\ Wanted(v, x.room, x.user)
      BY <2>1, <2>2 DEF TokensInv, AdminToken
    <3>2. x.user \in User
      BY <2>2 DEF AdminToken
    <3> QED
      BY <3>1, <3>2 DEF Due
  <2>4. ASSUME NEW d \in Due(v) PROVE \E x \in v.tokens : d = <<x.room, x.user>>
    <3>1. d = <<d[1], d[2]>> /\ d[2] \in AdminLinked(v) /\ Wanted(v, d[1], d[2])
      BY DEF Due
    <3>2. Has(v, d[1], d[2])
      BY <2>1, <3>1 DEF Wanted, SessionDone, TeamsDoneBut
    <3> QED
      BY <3>1, <3>2 DEF Has
  <2>5. {<<x.room, x.user>> : x \in v.tokens} = Due(v)
    BY <2>3, <2>4
  <2> QED
    BY <2>1, <2>5 DEF TokensInv
<1>3. OneNotificationEach
  <2> SUFFICES ASSUME NEW a \in Admin, NEW u \in User
               PROVE  LET v == admin[a]
                          due == ~AdminAt(a, "idle") /\ v.req.notify
                                 /\ \E x \in v.tokens : x.user = u
                      IN /\ notified[a][u] <= 1
                         /\ notified[a][u] = 1 => due /\ v.reply \in {NoCode, "OK"}
                         /\ AdminAt(a, "done") /\ due => notified[a][u] = 1
    BY DEF OneNotificationEach
  <2>1. AdminCallInv(admin[a], adminMinted[a], notified[a], adminSeen[a])
    BY DEF AdminInvFor
  <2>2. NotifiedInv(admin[a], notified[a])
    BY <2>1 DEF AdminCallInv
  <2>3. notified[a][u] = 1 => admin[a].reply \in {NoCode, "OK"}
    BY <2>1, <2>2 DEF AdminCallInv, NotifiedInv, AdminServing
  <2>4. AdminAt(a, "done") /\ admin[a].req.notify /\ (\E x \in admin[a].tokens : x.user = u)
          => admin[a].usersLeft = {}
    BY <2>1 DEF AdminCallInv, AdminAt
  <2> QED
    BY <2>2, <2>3, <2>4 DEF NotifiedInv, AdminAt
<1> QED
  BY <1>1, <1>2, <1>3

\* An admin call admits nobody to a room but under a PUID linked to a user who
\* has been eligible for the room since the call began.
THEOREM GrantsOnlyToEligible == AdminSpec => []GrantOnlyToEligible
<1>1. AdminInv => GrantOnlyToEligible
  BY AdminPromises DEF AdminInv
<1> QED
  BY <1>1, AdminInductive, PTL

\* A success hands out all that the call has obtained, and every linked eligible
\* user of the snapshot has the tokens that the request asked for.
THEOREM SuccessComplete == AdminSpec => []SuccessIsComplete
<1>1. AdminInv => SuccessIsComplete
  BY AdminPromises DEF AdminInv
<1> QED
  BY <1>1, AdminInductive, PTL

\* Nobody is notified by a call that may still fail, nor twice, and whoever has
\* tokens of a successful call that was to notify has been notified.
THEOREM NotifiesEachOnce == AdminSpec => []OneNotificationEach
<1>1. AdminInv => OneNotificationEach
  BY AdminPromises DEF AdminInv
<1> QED
  BY <1>1, AdminInductive, PTL
=============================================================================
