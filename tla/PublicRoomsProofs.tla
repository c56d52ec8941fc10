------------------------- MODULE PublicRoomsProofs -------------------------
(***************************************************************************)
(* The handlers of PublicTokens implement VoiceRooms, for any number of    *)
(* calls, users, groups and changes of the backends' data: every step is,  *)
(* under the refinement mapping, a step of VoiceRooms or a stutter.        *)
(***************************************************************************)
EXTENDS PublicTokensProofs

RInv == PublicInv /\ PublicLateInv

\* What a step has to be.
RoomsStep == [PublicRooms!Next]_(PublicRooms!roomsVars) /\ PublicLateInv'

-----------------------------------------------------------------------------
(* The refinement mapping of single calls. *)

LEMMA StageOf ==
  ASSUME NEW c \in Call
  PROVE  Stage[c] = IF call[c].pc = "idle" THEN "idle"
                    ELSE IF call[c].pc = "done" THEN "closed" ELSE "open"
BY DEF Stage, PublicAt

\* What a call has been granted it had the right to.
LEMMA MintedByRight ==
  ASSUME NEW on, PublicInvFor(on), NEW c \in Call
  PROVE  /\ minted[c] \subseteq PublicRights(c)
         /\ minted[c] # {} => call[c].pc # "idle"
<1>1. PublicCallInv(call[c], minted[c], asked[c], seen[c]) /\ minted[c] \in SUBSET (Room \X Puid)
  BY DEF PublicInvFor, PublicTypeOK
<1>2. minted[c] # {} => call[c].pc # "idle"
  BY <1>1 DEF PublicCallInv
<1>3. ASSUME NEW g \in minted[c] PROVE g \in PublicRights(c)
  <2>1. g[1] \in seen[c].held /\ g[2] = call[c].puid /\ OwnPuid(call[c], seen[c])
    BY <1>1, <1>3 DEF PublicCallInv
  <2>2. ~PublicAt(c, "idle") /\ g = <<g[1], g[2]>>
    BY <1>1, <1>2, <1>3 DEF PublicAt
  <2>3. g[2] \in Puid
    BY <2>1 DEF OwnPuid
  <2>4. g[2] \in IF call[c].req.puid = NoPuid THEN seen[c].links ELSE {call[c].req.puid}
    BY <2>1, <2>3, BackendsAssumption DEF OwnPuid
  <2>5. g \in seen[c].held \X ((IF call[c].req.puid = NoPuid THEN seen[c].links
                                                         ELSE {call[c].req.puid}) \cap Puid)
    BY <2>1, <2>2, <2>3, <2>4
  <2> QED
    BY <2>2, <2>5 DEF PublicRights
<1> QED
  BY <1>2, <1>3

\* Two states in which c has the same request and history.
LEMMA SameRights ==
  ASSUME NEW c \in Call, call'[c].req = call[c].req, call[c].pc # "idle", call'[c].pc # "idle",
         seen'[c].held = seen[c].held, seen'[c].links = seen[c].links
  PROVE  PublicRights(c)' = PublicRights(c)
BY DEF PublicRights, PublicAt

-----------------------------------------------------------------------------
(* Steps of a handler. *)

\* The handler of c, which is being served, goes on or ends.
Moves(c) ==
  /\ call[c].pc \in PublicServing
  /\ call' = [call EXCEPT ![c] = call'[c]]
  /\ call'[c].req = call[c].req /\ call'[c].pc \in PublicServing \cup {"done"}

LEMMA MovesTo ==
  ASSUME NEW on, PublicInvFor(on), NEW c \in Call, NEW v, call[c].pc \in PublicServing,
         v.req = call[c].req, v.pc \in PublicServing \cup {"done"}, call' = [call EXCEPT ![c] = v]
  PROVE  Moves(c)
BY DEF PublicInvFor, PublicTypeOK, Moves

\* What a step of the handler of c does to Epic's rooms and leaves to be done:
\* admissions that c has the right to, and of which its new tokens are, unless
\* blank.
PublicDid(c) ==
  /\ Moves(c)
  /\ UNCHANGED seen /\ SameData
  /\ admitted \subseteq admitted' /\ admitted' \ admitted \subseteq minted'[c]
  /\ late \subseteq late'
  /\ \A w \in late' \ late : w.op = "admit" /\ w.puids # {}
       /\ {w.room} \X w.puids \subseteq minted'[c]
  /\ minted[c] \subseteq minted'[c] /\ minted'[c] \subseteq PublicRights(c)
  /\ \A d \in Call \ {c} : minted'[d] = minted[d]
  /\ \A t \in call'[c].tokens \ call[c].tokens : t.blank \/ <<t.room, t.puid>> \in admitted'

\* A step that Epic's rooms take no part in.
LEMMA QuietStep ==
  ASSUME NEW on, PublicInvFor(on), NEW c \in Call, Moves(c),
         UNCHANGED <<backendVars, minted, seen>>,
         call'[c].tokens = call[c].tokens
  PROVE  PublicDid(c)
BY MintedByRight DEF PublicDid, backendVars, SameData

\* Epic's answer a to a request for a token of room.
LEMMA GrantStep ==
  ASSUME NEW on, PublicInvFor(on), NEW c \in Call, c \in on, Moves(c),
         call[c].pc \in {"party", "team", "session"},
         NEW room \in Room, NEW a \in RoomAnswers, CreateRoomToken(c, room, a),
         room \in seen[c].held, NEW ch,
         call'[c].tokens \subseteq TokensAfter(c, ch, room, a)
  PROVE  PublicDid(c)
<1> DEFINE g == {room} \X {call[c].puid}
<1>1. UNCHANGED seen /\ SameData
  BY DEF CreateRoomToken, Asked, SameData
<1>2. /\ admitted' = IF a.effect = "now" THEN admitted \cup g ELSE admitted
      /\ late' = IF a.effect = "late" THEN late \cup {Admission(room, {call[c].puid})} ELSE late
  BY DEF CreateRoomToken, Asked, Done, Admission
<1>3. /\ a.effect # "never" => g \subseteq minted'[c]
      /\ minted[c] \subseteq minted'[c] /\ minted'[c] \subseteq minted[c] \cup g
      /\ \A d \in Call \ {c} : minted'[d] = minted[d]
  BY DEF CreateRoomToken, Admitting, PublicInvFor, PublicTypeOK
<1>4. g \subseteq PublicRights(c)
  <2>1. OwnPuid(call[c], seen[c])
    BY PublicMiddle DEF PublicCallInv
  <2> QED
    BY <2>1, BackendsAssumption DEF PublicRights, OwnPuid, PublicAt
<1>5. minted'[c] \subseteq PublicRights(c)
  BY <1>3, <1>4, MintedByRight
<1>6. \A w \in late' \ late : /\ w.op = "admit" /\ w.puids # {}
                            /\ {w.room} \X w.puids \subseteq minted'[c]
  BY <1>2, <1>3 DEF Admission
<1>7. ASSUME NEW t \in call'[c].tokens \ call[c].tokens
      PROVE  t.blank \/ <<t.room, t.puid>> \in admitted'
  <2>1. PublicRoomCode(a) = NoCode /\ t = TokenFor(c, ch, room, a)
    BY <1>7 DEF TokensAfter
  <2>2. t.room = room /\ t.puid = call[c].puid /\ (t.blank <=> a.kind = "blank")
    BY <2>1 DEF TokenFor
  <2>3. t.blank \/ a.effect = "now"
    BY <2>1, <2>2, PublicRoomCodeType
  <2> QED
    BY <1>2, <2>2, <2>3
<1>8. admitted \subseteq admitted' /\ admitted' \ admitted \subseteq minted'[c]
        /\ late \subseteq late'
  BY <1>2, <1>3
<1> QED
  BY <1>1, <1>3, <1>5, <1>6, <1>7, <1>8 DEF PublicDid

\* The rooms of the requests to Epic.
LEMMA GrantRoom ==
  ASSUME NEW on, PublicInvFor(on), NEW c \in Call, c \in on
  PROVE  LET main == MainRoom(call[c].req)
             team == RoomID(call[c].req.group, call[c].teamID)
         IN /\ call[c].pc \in {"party", "session"} => main \in Room \cap seen[c].held
            /\ call[c].pc = "team" => team \in Room \cap seen[c].held
<1> SUFFICES ASSUME call[c].pc \in {"party", "session", "team"}
             PROVE  /\ MainRoom(call[c].req) \in Room \cap seen[c].held
                    /\ call[c].pc = "team" =>
                         RoomID(call[c].req.group, call[c].teamID) \in Room \cap seen[c].held
  OBVIOUS
<1>1. /\ MainRoom(call[c].req) \in seen[c].held
      /\ call[c].pc = "team" => RoomID(call[c].req.group, call[c].teamID) \in seen[c].held
      /\ call[c].req \in Request /\ call[c].req.group # NoGroup
      /\ call[c].pc = "team" => call[c].req.kind = "SESSION" /\ call[c].teamID \in Team
  BY PublicMiddle DEF PublicCallInv, PublicServing
<1> QED
  BY <1>1, RequestRooms

\* The steps of a handler, one by one.
LEMMA PublicDoes ==
  ASSUME NEW on, PublicInvFor(on), NEW c \in Call, c \in on, PublicHandler(c)
  PROVE  PublicDid(c)
<1>1. CASE Validate(c)
  <2>1. PICK err : call' = [call EXCEPT ![c] =
          IF err = NoCode THEN [call[c] EXCEPT !.pc = "resolve"] ELSE PublicReturn(c, err)]
    BY <1>1 DEF Validate
  <2> DEFINE v == IF err = NoCode THEN [call[c] EXCEPT !.pc = "resolve"] ELSE PublicReturn(c, err)
  <2>2. UNCHANGED <<backendVars, minted, seen>> /\ call[c].pc \in PublicServing
    BY <1>1 DEF Validate, PublicAt, PublicServing
  <2>3. call[c] \in CallState
    BY <2>2, PublicMiddle DEF PublicServing
  <2>4. v.req = call[c].req /\ v.pc \in PublicServing \cup {"done"} /\ v.tokens = call[c].tokens
    BY <2>3 DEF CallState, PublicReturn, PublicServing
  <2>5. call' = [call EXCEPT ![c] = v]
    BY <2>1
  <2> HIDE DEF v
  <2>6. call'[c] = v
    BY <2>5 DEF PublicInvFor, PublicTypeOK
  <2> QED
    BY <2>2, <2>4, <2>5, <2>6, MovesTo, QuietStep
<1>2. CASE Resolve(c)
  <2> DEFINE r == call[c].req
             next == CASE r.kind = "PARTY" -> "party" [] r.team -> "getTeam" [] OTHER -> "session"
  <2>1. PICK res \in ResolvePUID(r.user, r.puid) : call' = [call EXCEPT ![c] =
          IF res.err = NoCode THEN [call[c] EXCEPT !.pc = next, !.puid = res.puid]
                              ELSE PublicReturn(c, res.err)]
    BY <1>2 DEF Resolve
  <2> DEFINE v == IF res.err = NoCode THEN [call[c] EXCEPT !.pc = next, !.puid = res.puid]
                                      ELSE PublicReturn(c, res.err)
  <2>2. UNCHANGED <<backendVars, minted, seen>> /\ call[c].pc \in PublicServing
    BY <1>2 DEF Resolve, PublicAt, PublicServing
  <2>3. call[c] \in CallState
    BY <2>2, PublicMiddle DEF PublicServing
  <2>4. v.req = call[c].req /\ v.pc \in PublicServing \cup {"done"} /\ v.tokens = call[c].tokens
    BY <2>3 DEF CallState, PublicReturn, PublicServing
  <2>5. call' = [call EXCEPT ![c] = v]
    BY <2>1
  <2> HIDE DEF v
  <2>6. call'[c] = v
    BY <2>5 DEF PublicInvFor, PublicTypeOK
  <2> QED
    BY <2>2, <2>4, <2>5, <2>6, MovesTo, QuietStep
<1>3. CASE GetTeam(c)
  <2>1. PICK t : call' = [call EXCEPT ![c] =
          IF t # NoTeam THEN [call[c] EXCEPT !.pc = "team", !.teamID = t]
          ELSE [call[c] EXCEPT !.pc = AfterTeam(c), !.teamErr = "FailedPrecondition"]]
    BY <1>3 DEF GetTeam
  <2> DEFINE v == IF t # NoTeam THEN [call[c] EXCEPT !.pc = "team", !.teamID = t]
                  ELSE [call[c] EXCEPT !.pc = AfterTeam(c), !.teamErr = "FailedPrecondition"]
  <2>2. UNCHANGED <<backendVars, minted, seen>> /\ call[c].pc \in PublicServing
    BY <1>3 DEF GetTeam, PublicAt, PublicServing
  <2>3. call[c] \in CallState
    BY <2>2, PublicMiddle DEF PublicServing
  <2>4. v.req = call[c].req /\ v.pc \in PublicServing \cup {"done"} /\ v.tokens = call[c].tokens
    BY <2>3 DEF CallState, AfterTeam, PublicServing
  <2>5. call' = [call EXCEPT ![c] = v]
    BY <2>1
  <2> HIDE DEF v
  <2>6. call'[c] = v
    BY <2>5 DEF PublicInvFor, PublicTypeOK
  <2> QED
    BY <2>2, <2>4, <2>5, <2>6, MovesTo, QuietStep
<1>4. CASE PublicFinish(c)
  <2> DEFINE v == PublicReturn(c, SessionReply(c))
  <2>1. /\ UNCHANGED <<backendVars, minted, seen>> /\ call[c].pc \in PublicServing
        /\ call' = [call EXCEPT ![c] = v]
    BY <1>4 DEF PublicFinish, PublicAt, PublicServing
  <2>2. call[c] \in CallState
    BY <2>1, PublicMiddle DEF PublicServing
  <2>3. v.req = call[c].req /\ v.pc \in PublicServing \cup {"done"} /\ v.tokens = call[c].tokens
    BY <2>2 DEF CallState, PublicReturn
  <2> HIDE DEF v
  <2>4. call'[c] = v
    BY <2>1 DEF PublicInvFor, PublicTypeOK
  <2> QED
    BY <2>1, <2>3, <2>4, MovesTo, QuietStep
<1>5. CASE PartyToken(c)
  <2> DEFINE room == RoomID(call[c].req.group, Voice)
             V(a) == IF PublicRoomCode(a) = NoCode
                     THEN [PublicReturn(c, "OK") EXCEPT !.tokens = {TokenFor(c, "PARTY", room, a)}]
                     ELSE PublicReturn(c, PublicRoomCode(a))
  <2>1. PICK a \in RoomAnswers : CreateRoomToken(c, room, a) /\ call' = [call EXCEPT ![c] = V(a)]
    BY <1>5 DEF PartyToken
  <2>2. call[c].pc = "party" /\ call[c] \in CallState
    BY <1>5, PublicMiddle DEF PartyToken, PublicAt
  <2> DEFINE v == V(a)
  <2>3. v.req = call[c].req /\ v.pc \in PublicServing \cup {"done"}
    BY <2>2 DEF CallState, PublicReturn
  <2>4. call' = [call EXCEPT ![c] = v]
    BY <2>1
  <2>5. room \in Room /\ room \in seen[c].held
    BY <2>2, GrantRoom DEF MainRoom
  <2>6. Moves(c)
    <3>1. call[c].pc \in PublicServing
      BY <2>2 DEF PublicServing
    <3> HIDE DEF v
    <3> QED
      BY <2>3, <2>4, <3>1, MovesTo
  <2>7. call'[c].tokens \subseteq TokensAfter(c, "PARTY", room, a)
    <3>1. call'[c] = v
      BY <2>4 DEF PublicInvFor, PublicTypeOK
    <3> QED
      BY <2>2, <3>1 DEF CallState, PublicReturn, TokensAfter
  <2> HIDE DEF v, room
  <2> QED
    BY <2>1, <2>2, <2>5, <2>6, <2>7, GrantStep
<1>6. CASE TeamToken(c)
  <2> DEFINE room == RoomID(call[c].req.group, call[c].teamID)
             V(a) == IF PublicRoomCode(a) = NoCode
                     THEN [call[c] EXCEPT !.pc = AfterTeam(c),
                             !.tokens = call[c].tokens \cup {TokenFor(c, "TEAM", room, a)}]
                     ELSE [call[c] EXCEPT !.pc = AfterTeam(c), !.teamErr = PublicRoomCode(a)]
  <2>1. PICK a \in RoomAnswers : CreateRoomToken(c, room, a) /\ call' = [call EXCEPT ![c] = V(a)]
    BY <1>6 DEF TeamToken
  <2>2. call[c].pc = "team" /\ call[c] \in CallState
    BY <1>6, PublicMiddle DEF TeamToken, PublicAt
  <2> DEFINE v == V(a)
  <2>3. v.req = call[c].req /\ v.pc \in PublicServing \cup {"done"}
    BY <2>2 DEF CallState, AfterTeam, PublicServing
  <2>4. call' = [call EXCEPT ![c] = v]
    BY <2>1
  <2>5. room \in Room /\ room \in seen[c].held
    BY <2>2, GrantRoom DEF MainRoom
  <2>6. Moves(c)
    <3>1. call[c].pc \in PublicServing
      BY <2>2 DEF PublicServing
    <3> HIDE DEF v
    <3> QED
      BY <2>3, <2>4, <3>1, MovesTo
  <2>7. call'[c].tokens \subseteq TokensAfter(c, "TEAM", room, a)
    <3>1. call'[c] = v
      BY <2>4 DEF PublicInvFor, PublicTypeOK
    <3> QED
      BY <2>2, <3>1 DEF CallState, PublicReturn, TokensAfter
  <2> HIDE DEF v, room
  <2> QED
    BY <2>1, <2>2, <2>5, <2>6, <2>7, GrantStep
<1>7. CASE SessionToken(c)
  <2> DEFINE room == RoomID(call[c].req.group, Voice)
             V(a) == IF PublicRoomCode(a) = NoCode
                     THEN [call[c] EXCEPT !.pc = "finish",
                             !.tokens = call[c].tokens \cup {TokenFor(c, "SESSION", room, a)}]
                     ELSE [call[c] EXCEPT !.pc = "finish", !.sessionErr = PublicRoomCode(a)]
  <2>1. PICK a \in RoomAnswers : CreateRoomToken(c, room, a) /\ call' = [call EXCEPT ![c] = V(a)]
    BY <1>7 DEF SessionToken
  <2>2. call[c].pc = "session" /\ call[c] \in CallState
    BY <1>7, PublicMiddle DEF SessionToken, PublicAt
  <2> DEFINE v == V(a)
  <2>3. v.req = call[c].req /\ v.pc \in PublicServing \cup {"done"}
    BY <2>2 DEF CallState, PublicServing
  <2>4. call' = [call EXCEPT ![c] = v]
    BY <2>1
  <2>5. room \in Room /\ room \in seen[c].held
    BY <2>2, GrantRoom DEF MainRoom
  <2>6. Moves(c)
    <3>1. call[c].pc \in PublicServing
      BY <2>2 DEF PublicServing
    <3> HIDE DEF v
    <3> QED
      BY <2>3, <2>4, <3>1, MovesTo
  <2>7. call'[c].tokens \subseteq TokensAfter(c, "SESSION", room, a)
    <3>1. call'[c] = v
      BY <2>4 DEF PublicInvFor, PublicTypeOK
    <3> QED
      BY <2>2, <3>1 DEF CallState, PublicReturn, TokensAfter
  <2> HIDE DEF v, room
  <2> QED
    BY <2>1, <2>2, <2>5, <2>6, <2>7, GrantStep
<1> QED
  BY <1>1, <1>2, <1>3, <1>4, <1>5, <1>6, <1>7 DEF PublicHandler

-----------------------------------------------------------------------------
(* The refinement, step by step. *)

LEMMA Served ==
  ASSUME PublicInv, NEW c \in Call, Moves(c), UNCHANGED seen
  PROVE  /\ UNCHANGED Entitlement
         /\ Stage[c] = "open"
         /\ \/ UNCHANGED Stage
            \/ Stage' = [x \in Call |-> IF x \in {c} THEN "closed" ELSE Stage[x]]
<1> DEFINE v == call'[c]
<1>0. call[c].pc \in PublicServing /\ v.req = call[c].req /\ v.pc \in PublicServing \cup {"done"}
  BY DEF Moves
<1>1. \A d \in Call : d # c => call'[d] = call[d]
  BY DEF PublicInv, PublicInvFor, PublicTypeOK, Moves
<1>2. ASSUME NEW d \in Call PROVE PublicRights(d)' = PublicRights(d)
  <2>1. CASE d = c
    BY <1>0, <2>1, SameRights DEF PublicServing
  <2>2. CASE d # c
    BY <1>1, <2>2 DEF PublicRights, PublicAt
  <2> QED
    BY <2>1, <2>2
<1>3. UNCHANGED Entitlement
  BY <1>2 DEF Entitlement
<1>4. Stage[c] = "open"
  BY <1>0, StageOf DEF PublicServing
<1>5. \A d \in Call : Stage'[d] = IF d = c THEN (IF v.pc = "done" THEN "closed" ELSE "open")
                                          ELSE Stage[d]
  BY <1>0, <1>1 DEF Stage, PublicAt, PublicServing
<1>6. CASE v.pc = "done"
  <2>1. Stage' = [x \in Call |-> IF x \in {c} THEN "closed" ELSE Stage[x]]
    BY <1>5, <1>6 DEF Stage
  <2> QED
    BY <1>3, <1>4, <2>1
<1>7. CASE v.pc # "done"
  <2>1. \A d \in Call : Stage'[d] = Stage[d]
    BY <1>4, <1>5, <1>7
  <2>2. UNCHANGED Stage
    BY <2>1 DEF Stage
  <2> QED
    BY <1>3, <1>4, <2>2
<1> QED
  BY <1>6, <1>7

\* Every step of a handler is one of an admission, if only of nobody.
LEMMA HandlerStep ==
  ASSUME RInv, NEW c \in Call, PublicHandler(c)
  PROVE  RoomsStep
<1>1. PublicDid(c)
  BY PublicDoes DEF RInv, PublicInv
<1>2. /\ UNCHANGED Entitlement /\ Stage[c] = "open"
      /\ \/ UNCHANGED Stage
         \/ Stage' = [x \in Call |-> IF x \in {c} THEN "closed" ELSE Stage[x]]
  BY <1>1, Served DEF RInv, PublicDid
<1>3. admitted \subseteq admitted' /\ admitted' \ admitted \subseteq Entitlement[c]
  BY <1>1 DEF PublicDid, Entitlement
<1>4. PublicRooms!Grant(c)
  <2>1. CASE UNCHANGED Stage
    BY <1>2, <1>3, <2>1 DEF PublicRooms!Grant
  <2>2. CASE Stage' = [x \in Call |-> IF x \in {c} THEN "closed" ELSE Stage[x]]
    <3>1. PublicRooms!Close({c})
      BY <1>2, <2>2 DEF PublicRooms!Close, PublicRooms!Request
    <3> QED
      BY <1>2, <1>3, <3>1 DEF PublicRooms!Grant
  <2> QED
    BY <1>2, <2>1, <2>2
<1>5. PublicLateInv'
  <2> SUFFICES ASSUME NEW w \in late'
               PROVE  w.op = "admit" /\ \E d \in Call : {w.room} \X w.puids \subseteq minted'[d]
    BY DEF PublicLateInv
  <2>1. CASE w \in late
    BY <1>1, <2>1 DEF PublicDid, RInv, PublicLateInv
  <2>2. CASE w \notin late
    BY <1>1, <2>2 DEF PublicDid
  <2> QED
    BY <2>1, <2>2
<1> QED
  BY <1>4, <1>5 DEF PublicRooms!Next, RoomsStep

\* A request comes in.
LEMMA BeginStep ==
  ASSUME RInv, NEW c \in Call, NEW r \in Request, PublicBegin(c, r)
  PROVE  RoomsStep
<1>1. /\ call[c].pc = "idle" /\ UNCHANGED <<admitted, late, minted>>
      /\ \A d \in Call \ {c} : call'[d] = call[d] /\ seen'[d] = seen[d]
      /\ call'[c].pc \in {"validate", "done"}
  BY DEF PublicBegin, PublicAt, backendVars, RInv, PublicInv, PublicInvFor, PublicTypeOK
<1>2. Stage[c] = "idle"
  BY <1>1, StageOf
<1>3. /\ Stage'[c] \in {"open", "closed"}
      /\ \A d \in Call \ {c} : Stage'[d] = Stage[d] /\ Entitlement'[d] = Entitlement[d]
  BY <1>1 DEF Stage, Entitlement, PublicRights, PublicAt
<1>4. Stage' = [Stage EXCEPT ![c] = Stage'[c]]
  BY <1>3 DEF Stage
<1>5. PublicRooms!Open(c)
  BY <1>1, <1>2, <1>3, <1>4 DEF PublicRooms!Open, PublicRooms!Request
<1>6. PublicLateInv'
  BY <1>1 DEF RInv, PublicLateInv
<1> QED
  BY <1>5, <1>6 DEF PublicRooms!Next, PublicRooms!Request, RoomsStep

-----------------------------------------------------------------------------
(* Changes of the backends' data. *)

\* What the rights of a call become when the data changes.
LEMMA RightsGrow ==
  ASSUME NEW on, PublicInvFor(on), NEW cs, PublicWatch(cs), NEW c \in Call,
         c \in cs => c \in on /\ call[c].pc \in PublicServing
  PROVE  /\ c \notin cs => PublicRights(c)' = PublicRights(c)
         /\ PublicRights(c) \subseteq PublicRights(c)'
         /\ SameData => PublicRights(c)' = PublicRights(c)
<1>1. /\ call' = call
      /\ seen' = [d \in Call |-> IF d \in cs
           THEN PublicBoth(seen[d], PublicNow(call[d].req.user)') ELSE seen[d]]
  BY DEF PublicWatch
<1>2. CASE c \notin cs
  BY <1>1, <1>2 DEF PublicRights, PublicAt
<1>3. CASE c \in cs
  <2> DEFINE u == call[c].req.user
  <2>1. u # NoUser /\ PublicUpToDate(call[c], seen[c])
    BY <1>3, PublicMiddle DEF PublicCallInv, PublicServing
  <2>2. /\ seen'[c].held = seen[c].held \cup RoomsListing(u)'
        /\ seen'[c].links = seen[c].links \cup {link'[u]}
    BY <1>1, <1>3, <2>1 DEF PublicBoth, PublicNow
  <2>3. seen[c].held \subseteq seen'[c].held /\ seen[c].links \subseteq seen'[c].links
    BY <2>2
  <2>4. PublicRights(c) \subseteq PublicRights(c)'
    BY <1>1, <2>3 DEF PublicRights, PublicAt
  <2>5. ASSUME SameData PROVE PublicRights(c)' = PublicRights(c)
    <3>1. RoomsListing(u)' = RoomsListing(u) /\ link'[u] = link[u]
      BY <1>1, <2>5 DEF SameData, RoomsListing, Lists
    <3>2. seen'[c].held = seen[c].held /\ seen'[c].links = seen[c].links
      BY <1>3, <2>1, <2>2, <3>1 DEF PublicUpToDate
    <3> QED
      BY <1>1, <3>2 DEF PublicRights, PublicAt
  <2> QED
    BY <1>3, <2>4, <2>5
<1> QED
  BY <1>2, <1>3

LEMMA WorldStep ==
  ASSUME RInv, PublicWorld
  PROVE  RoomsStep
<1>1. UNCHANGED <<call, minted>> /\ BackendsChange
  BY DEF PublicWorld, PublicWatch
<1>2. UNCHANGED Stage
  BY <1>1 DEF Stage, PublicAt
<1>0. PICK cs : cs = {c \in Call : call[c].pc \in PublicServing}
  OBVIOUS
<1>3. ASSUME NEW c \in Call
      PROVE  /\ call[c].pc \notin PublicServing => PublicRights(c)' = PublicRights(c)
             /\ PublicRights(c) \subseteq PublicRights(c)'
             /\ SameData => PublicRights(c)' = PublicRights(c)
  <2>1. PublicWatch(cs) /\ (c \in cs => c \in Call /\ call[c].pc \in PublicServing)
    BY <1>0 DEF PublicWorld
  <2> QED
    BY <1>0, <2>1, RightsGrow DEF RInv, PublicInv
<1>4. CASE UNCHANGED <<admitted, late>>
  <2>1. \A c \in Call : call[c].pc \in PublicServing => Stage[c] = "open"
    BY StageOf DEF PublicServing
  <2>2. PublicRooms!Entitle
    <3>1. ASSUME NEW c \in Call
          PROVE  \/ Entitlement'[c] = Entitlement[c]
                 \/ Stage[c] = "open" /\ Entitlement[c] \subseteq Entitlement'[c]
      BY <1>3, <2>1 DEF Entitlement
    <3> QED
      BY <1>2, <1>4, <3>1 DEF PublicRooms!Entitle, PublicRooms!Request
  <2>3. PublicLateInv'
    BY <1>1, <1>4 DEF RInv, PublicLateInv
  <2> QED
    BY <2>2, <2>3 DEF PublicRooms!Next, RoomsStep
<1>5. ASSUME NEW w \in late, Land(w) PROVE RoomsStep
  <2>1. UNCHANGED Entitlement
    <3>1. SameData
      BY <1>5 DEF Land, SameData
    <3>2. \A c \in Call : PublicRights(c)' = PublicRights(c)
      BY <1>3, <3>1
    <3> QED
      BY <3>2 DEF Entitlement
  <2>2. PICK c \in Call : {w.room} \X w.puids \subseteq minted[c]
    BY <1>5 DEF RInv, PublicLateInv
  <2>3. admitted' = admitted \cup ({w.room} \X w.puids)
    BY <1>5 DEF RInv, PublicLateInv, Land, Done
  <2>4. PublicLateInv'
    BY <1>1, <1>5 DEF RInv, PublicLateInv, Land
  <2>5. CASE {w.room} \X w.puids = {}
    <3>1. UNCHANGED admitted
      BY <2>3, <2>5
    <3> QED
      BY <1>2, <2>1, <2>4, <3>1 DEF PublicRooms!roomsVars, RoomsStep
  <2>6. CASE {w.room} \X w.puids # {}
    <3>1. minted[c] \subseteq PublicRights(c) /\ Stage[c] # "idle"
      BY <2>2, <2>6, MintedByRight, StageOf DEF RInv, PublicInv
    <3>2. admitted \subseteq admitted' /\ admitted' \ admitted \subseteq Entitlement[c]
      BY <2>2, <2>3, <3>1 DEF Entitlement
    <3>3. PublicRooms!Grant(c)
      BY <1>2, <2>1, <3>1, <3>2 DEF PublicRooms!Grant
    <3> QED
      BY <2>4, <3>3 DEF PublicRooms!Next, RoomsStep
  <2> QED
    BY <2>5, <2>6
<1>6. BackendsChange => UNCHANGED <<admitted, late>> \/ \E w \in late : Land(w)
  BY DEF BackendsChange, ChangeRoster, ChangeTeam, Disband, ChangeLink
<1> QED
  BY <1>1, <1>4, <1>5, <1>6

-----------------------------------------------------------------------------
(* The theorem. *)

\* Epic's rooms gain nobody but by right of a call, whose rights are the rooms
\* that have listed its caller and the PUIDs that are the caller's, since it
\* began: the handlers implement VoiceRooms whatever the backends do meanwhile.
THEOREM RoomsImplemented == PublicSpec => PublicImplementsRooms
<1>1. PublicInit => RInv /\ PublicRooms!Init
  <2> SUFFICES ASSUME PublicInit PROVE RInv /\ PublicRooms!Init
    OBVIOUS
  <2>1. PublicLateInv
    BY DEF PublicInit, BackendsInit, DataInit, PublicLateInv
  <2>2. \A c \in Call : Stage[c] = "idle" /\ Entitlement[c] = {}
    BY DEF PublicInit, Stage, Entitlement, PublicRights, PublicAt, PublicIdle
  <2>3. PublicRooms!Init
    BY <2>2 DEF PublicRooms!Init, PublicRooms!Request, Stage, Entitlement
  <2> QED
    BY <2>1, <2>3, PublicInitInv DEF RInv
<1>2. RInv /\ [PublicNext]_publicAll => RInv' /\ [PublicRooms!Next]_(PublicRooms!roomsVars)
  <2> SUFFICES ASSUME RInv, [PublicNext]_publicAll
               PROVE  RInv' /\ [PublicRooms!Next]_(PublicRooms!roomsVars)
    OBVIOUS
  <2>1. PublicInv'
    BY PublicNextInv DEF RInv
  <2>2. RoomsStep
    <3>1. CASE UNCHANGED publicAll
      <4>1. UNCHANGED <<admitted, late, minted, call, seen>>
        BY <3>1 DEF publicAll, backendVars, publicVars
      <4>2. UNCHANGED <<Stage, Entitlement>> /\ PublicLateInv'
        BY <4>1 DEF Stage, Entitlement, PublicRights, PublicAt, RInv, PublicLateInv
      <4> QED
        BY <4>1, <4>2 DEF PublicRooms!roomsVars, RoomsStep
    <3>2. CASE PublicNext
      BY <3>2, HandlerStep, BeginStep, WorldStep DEF PublicNext
    <3> QED
      BY <3>1, <3>2
  <2> QED
    BY <2>1, <2>2 DEF RoomsStep, RInv
<1> QED
  BY <1>1, <1>2, PTL DEF PublicSpec, PublicImplementsRooms, PublicRooms!Spec
=============================================================================
