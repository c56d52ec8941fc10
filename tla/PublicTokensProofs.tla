------------------------- MODULE PublicTokensProofs -------------------------
(***************************************************************************)
(* Type correctness and the grant properties of PublicTokens, for any      *)
(* number of calls, users, groups and changes of the backends' data.       *)
(***************************************************************************)
EXTENDS PublicTokens, VoiceBackendsProofs, FiniteSetTheorems

\* What a single call's variables may be, and what a call that has not begun,
\* is being served or is over satisfies.
CallOK(v, m, e, h) ==
  /\ v \in CallState \cup {PublicIdle}
  /\ m \in SUBSET (Room \X Puid)
  /\ e \in BOOLEAN
  /\ h \in PublicHistory
  /\ PublicCallInv(v, m, e, h)
  /\ PublicReplyInv(v, m, h)

\* A step of call c leaves the invariant true if it leaves the other calls
\* alone and c in a state that satisfies it.
LEMMA PublicStepOfCall ==
  ASSUME NEW on, PublicInvFor(on), BackendsTypeOK', SameData,
         NEW c \in Call, NEW v, NEW m, NEW e, NEW h,
         call' = [call EXCEPT ![c] = v], minted' = [minted EXCEPT ![c] = m],
         asked' = [asked EXCEPT ![c] = e], seen' = [seen EXCEPT ![c] = h],
         CallOK(v, m, e, h), PublicUpToDate(v, h)
  PROVE  PublicInvFor(on)'
<1>1. PublicTypeOK'
  BY DEF PublicInvFor, PublicTypeOK, CallOK
<1>2. ASSUME NEW d \in Call
      PROVE  /\ PublicCallInv(call[d], minted[d], asked[d], seen[d])'
             /\ PublicReplyInv(call[d], minted[d], seen[d])'
             /\ d \in on => PublicUpToDate(call[d], seen[d])'
  <2>1. CASE d = c
    <3>1. call'[d] = v /\ minted'[d] = m /\ asked'[d] = e /\ seen'[d] = h
      BY <2>1 DEF PublicInvFor, PublicTypeOK
    <3>2. PublicCallInv(call[d], minted[d], asked[d], seen[d])'
      BY <3>1 DEF CallOK
    <3>3. PublicReplyInv(call[d], minted[d], seen[d])'
      BY <3>1 DEF CallOK
    <3>4. PublicUpToDate(call[d], seen[d])'
      BY <3>1 DEF PublicUpToDate, RoomsListing, Lists, SameData
    <3> QED
      BY <3>2, <3>3, <3>4
  <2>2. CASE d # c
    <3>1. /\ call'[d] = call[d] /\ minted'[d] = minted[d]
          /\ asked'[d] = asked[d] /\ seen'[d] = seen[d]
      BY <2>2 DEF PublicInvFor, PublicTypeOK
    <3>2. PublicCallInv(call[d], minted[d], asked[d], seen[d])'
      BY <3>1 DEF PublicInvFor
    <3>3. PublicReplyInv(call[d], minted[d], seen[d])'
      BY <3>1 DEF PublicInvFor
    <3>4. d \in on => PublicUpToDate(call[d], seen[d])'
      BY <3>1 DEF PublicInvFor, PublicUpToDate, RoomsListing, Lists, SameData
    <3> QED
      BY <3>2, <3>3, <3>4
  <2> QED
    BY <2>1, <2>2
<1> QED
  BY <1>1, <1>2 DEF PublicInvFor

\* The invariant of a call does not depend on more having been seen.
LEMMA PublicMoreSeen ==
  ASSUME NEW v, NEW m, NEW e, NEW h, NEW k,
         h.held \subseteq k.held, h.links \subseteq k.links, PublicCallInv(v, m, e, h)
  PROVE  PublicCallInv(v, m, e, k)
BY DEF PublicCallInv, OwnPuid

LEMMA ReplyMoreSeen ==
  ASSUME NEW v, NEW m, NEW h, NEW k,
         h.missed \subseteq k.missed, h.links \subseteq k.links, PublicReplyInv(v, m, h)
  PROVE  PublicReplyInv(v, m, k)
BY DEF PublicReplyInv, AnswerInv

LEMMA PublicNowType ==
  ASSUME PublicTypeOK, NEW u \in User \cup {NoUser}
  PROVE  PublicNow(u) \in PublicHistory
<1>1. RoomsListing(u) \subseteq Room
  BY RoomsListingType
<1>2. u # NoUser => link[u] \in Puid \cup {NoPuid}
  BY DEF PublicTypeOK, BackendsTypeOK
<1> QED
  BY <1>1, <1>2 DEF PublicNow, PublicHistory

\* In the middle of a call.
LEMMA PublicMiddle ==
  ASSUME NEW on, PublicInvFor(on), NEW c \in Call, c \in on, call[c].pc # "idle"
  PROVE  /\ call[c] \in CallState
         /\ call[c].req \in Request
         /\ minted[c] \in SUBSET (Room \X Puid) /\ asked[c] \in BOOLEAN /\ seen[c] \in PublicHistory
         /\ PublicCallInv(call[c], minted[c], asked[c], seen[c])
         /\ PublicReplyInv(call[c], minted[c], seen[c])
         /\ PublicUpToDate(call[c], seen[c])
         /\ minted = [minted EXCEPT ![c] = minted[c]]
         /\ asked = [asked EXCEPT ![c] = asked[c]]
         /\ seen = [seen EXCEPT ![c] = seen[c]]
<1>1. call[c] \in CallState \cup {PublicIdle}
  BY DEF PublicInvFor, PublicTypeOK
<1>2. call[c] # PublicIdle
  BY DEF PublicIdle
<1>3. call[c] \in CallState
  BY <1>1, <1>2
<1> QED
  BY <1>3 DEF PublicInvFor, PublicTypeOK, CallState

\* The rooms a request can lead to.
LEMMA RequestRooms ==
  ASSUME NEW r \in Request, r.group # NoGroup
  PROVE  /\ MainRoom(r) \in Room
         /\ r.kind = "SESSION" => \A t \in Team : RoomID(r.group, t) \in Room
BY DEF Request, PartyRequest, SessionRequest, MainRoom, RoomID, Room, Group

LEMMA PublicInitInv == PublicInit => PublicInv
<1> SUFFICES ASSUME PublicInit PROVE PublicInv
  OBVIOUS
<1>1. PublicTypeOK
  BY BackendsAssumption
  DEF PublicInit, PublicTypeOK, BackendsInit, DataInit, BackendsTypeOK, PublicHistory
<1>2. ASSUME NEW c \in Call PROVE PublicCallInv(call[c], minted[c], asked[c], seen[c])
  BY DEF PublicInit, PublicCallInv, PublicIdle, PublicServing
<1>3. ASSUME NEW c \in Call
      PROVE PublicUpToDate(call[c], seen[c]) /\ PublicReplyInv(call[c], minted[c], seen[c])
  BY DEF PublicInit, PublicUpToDate, PublicIdle, PublicServing, PublicReplyInv, CleanInv
<1> QED
  BY <1>1, <1>2, <1>3 DEF PublicInv, PublicInvFor

LEMMA PublicBeginInv ==
  ASSUME NEW on, PublicInvFor(on), NEW c \in Call, c \in on, NEW r \in Request, PublicBegin(c, r)
  PROVE  PublicInvFor(on)'
<1> DEFINE v == [pc |-> IF Refusal(r) = NoCode THEN "validate" ELSE "done",
                 req |-> r, puid |-> NoPuid, teamID |-> NoTeam, tokens |-> {},
                 teamErr |-> NoCode, sessionErr |-> NoCode, reply |-> Refusal(r)]
<1>1. BackendsTypeOK'
  BY DEF PublicInvFor, PublicTypeOK, BackendsTypeOK, PublicBegin, backendVars
<1>2. Refusal(r) \in Codes \cup {NoCode}
  BY DEF Refusal, Codes
<1>3. v \in CallState
  BY <1>2 DEF CallState, PublicServing, TeamID
<1>4. PublicNow(r.user) \in PublicHistory
  BY PublicNowType DEF PublicInvFor, Request, PartyRequest, SessionRequest
<1>5. minted[c] = {} /\ ~asked[c]
  BY DEF PublicInvFor, PublicCallInv, PublicBegin, PublicAt
<1>6. v.pc = "validate" => r.group # NoGroup /\ r.user # NoUser
  BY ErrorCodes DEF Refusal, Codes
<1>7. PublicCallInv(v, {}, FALSE, PublicNow(r.user))
  BY <1>6 DEF PublicCallInv, PublicServing
<1>8. /\ call' = [call EXCEPT ![c] = v] /\ minted' = [minted EXCEPT ![c] = {}]
      /\ asked' = [asked EXCEPT ![c] = FALSE] /\ seen' = [seen EXCEPT ![c] = PublicNow(r.user)]
  BY <1>5 DEF PublicBegin, PublicInvFor, PublicTypeOK
<1>9. PublicUpToDate(v, PublicNow(r.user))
  BY <1>6 DEF PublicUpToDate, PublicNow, PublicServing
<1>12. PublicReplyInv(v, {}, PublicNow(r.user))
  <2>1. Got(v) = {} /\ Behind(v) = {} /\ v.tokens = {} /\ v.teamErr = NoCode
          /\ v.sessionErr = NoCode
    BY DEF Got, Behind
  <2>2. v.pc = "validate" => Wants(v.req) # {}
    BY DEF Wants, Refusal, Request, PartyRequest, SessionRequest, NoCode
  <2>3. v.reply # "OK" /\ v.reply \notin Refusing /\ v.pc \in {"validate", "done"}
    BY DEF Refusal, Refusing, NoRetry, NoCode
  <2> HIDE DEF v
  <2>4. PublicTokensInv(v, {})
    BY <2>1 DEF PublicTokensInv
  <2>5. v.pc = "validate" => ChannelsInv(v)
    BY <2>1, <2>2, ErrorCodes DEF ChannelsInv, ErrorOf
  <2>6. AnswerInv(v, PublicNow(r.user))
    BY <2>1, <2>3 DEF AnswerInv
  <2> QED
    BY <2>1, <2>3, <2>4, <2>5, <2>6, ErrorCodes
    DEF PublicReplyInv, CleanInv, PublicServing, Refusing, NoRetry, Codes
<1> HIDE DEF v
<1>10. CallOK(v, {}, FALSE, PublicNow(r.user))
  BY <1>3, <1>4, <1>7, <1>12 DEF CallOK
<1>11. SameData
  BY DEF PublicBegin, backendVars, SameData
<1> QED
  BY <1>1, <1>8, <1>9, <1>10, <1>11, PublicStepOfCall

\* A step of a handler that sends Epic no request for a token.
LEMMA PublicLocalStep ==
  ASSUME NEW on, PublicInvFor(on), NEW c \in Call, c \in on, NEW v \in CallState, NEW e \in BOOLEAN,
         call[c].pc \in PublicServing, v.req = call[c].req,
         call' = [call EXCEPT ![c] = v], asked' = [asked EXCEPT ![c] = e],
         UNCHANGED <<backendVars, minted, seen>>,
         PublicCallInv(v, minted[c], e, seen[c]), PublicReplyInv(v, minted[c], seen[c])
  PROVE  PublicInvFor(on)'
<1>1. call[c].pc # "idle"
  BY DEF PublicServing
<1>2. BackendsTypeOK' /\ SameData
  BY DEF PublicInvFor, PublicTypeOK, BackendsTypeOK, backendVars, SameData
<1>3. CallOK(v, minted[c], e, seen[c])
  BY <1>1, PublicMiddle DEF CallOK
<1>4. PublicUpToDate(v, seen[c])
  BY <1>1, PublicMiddle DEF PublicUpToDate
<1>5. minted' = [minted EXCEPT ![c] = minted[c]] /\ seen' = [seen EXCEPT ![c] = seen[c]]
  BY <1>1, PublicMiddle
<1> QED
  BY <1>2, <1>3, <1>4, <1>5, PublicStepOfCall

\* A step of a handler that returns: the call's PUID stays.
LEMMA ReturnInv ==
  ASSUME NEW on, PublicInvFor(on), NEW c \in Call, c \in on,
         NEW code \in Codes \cup {NoCode}, NEW e \in BOOLEAN,
         call[c].pc \in PublicServing, e => asked[c] \/ MainRoom(call[c].req) \in seen[c].held,
         AnswerInv(PublicReturn(c, code), seen[c]),
         LostMayBeRetried /\ code \in NoRetry => minted[c] = {}
  PROVE  /\ PublicReturn(c, code) \in CallState
         /\ PublicReturn(c, code).req = call[c].req
         /\ PublicCallInv(PublicReturn(c, code), minted[c], e, seen[c])
         /\ PublicReplyInv(PublicReturn(c, code), minted[c], seen[c])
<1>1. /\ call[c] \in CallState /\ PublicCallInv(call[c], minted[c], asked[c], seen[c])
      /\ PublicReplyInv(call[c], minted[c], seen[c])
  BY PublicMiddle DEF PublicServing
<1> DEFINE v == PublicReturn(c, code)
<1>2. /\ v \in CallState /\ v.pc = "done" /\ v.req = call[c].req /\ v.puid = call[c].puid
      /\ v.reply = code /\ v.tokens = call[c].tokens
  BY <1>1 DEF PublicReturn, CallState
<1> HIDE DEF v
<1>3. PublicCallInv(v, minted[c], e, seen[c])
  BY <1>1, <1>2 DEF PublicCallInv, OwnPuid, PublicServing
<1>4. PublicReplyInv(v, minted[c], seen[c])
  <2>1. PublicTokensInv(v, minted[c])
    BY <1>1, <1>2 DEF PublicReplyInv, PublicTokensInv, PublicServing
  <2>2. CleanInv(v, minted[c])
    BY <1>2 DEF CleanInv, PublicServing
  <2> QED
    BY <1>2, <2>1, <2>2 DEF PublicReplyInv, PublicServing, v
<1> QED
  BY <1>2, <1>3, <1>4 DEF v

\* A handler that has sent Epic no request for a token has none to lose.
LEMMA NothingYet ==
  ASSUME NEW on, PublicInvFor(on), NEW c \in Call, c \in on,
         call[c].pc \in {"validate", "resolve", "party", "getTeam", "team"}
  PROVE  /\ call[c].tokens = {} /\ Got(call[c]) = {} /\ Behind(call[c]) = {}
         /\ call[c].teamErr = NoCode /\ call[c].sessionErr = NoCode
         /\ Wants(call[c].req) # {}
         /\ LostMayBeRetried => minted[c] = {}
<1>1. ChannelsInv(call[c]) /\ CleanInv(call[c], minted[c]) /\ call[c].pc \in PublicServing
  BY PublicMiddle DEF PublicReplyInv, PublicServing
<1>2. Behind(call[c]) = {}
  BY DEF Behind
<1>3. Got(call[c]) = {} /\ call[c].teamErr = NoCode /\ call[c].sessionErr = NoCode
  BY <1>1, <1>2 DEF ChannelsInv, ErrorOf
<1>4. call[c].tokens = {}
  BY <1>3 DEF Got
<1> QED
  BY <1>1, <1>2, <1>3, <1>4 DEF ChannelsInv, CleanInv

\* It has none to lose either at the next place before such a request.
LEMMA StillNothing ==
  ASSUME NEW on, PublicInvFor(on), NEW c \in Call, c \in on,
         call[c].pc \in {"validate", "resolve", "getTeam"},
         NEW v, v.req = call[c].req, v.tokens = call[c].tokens,
         v.teamErr = call[c].teamErr, v.sessionErr = call[c].sessionErr,
         \/ v.pc \in {"resolve", "party"}
         \/ v.pc \in {"getTeam", "team"} /\ "TEAM" \in Wants(v.req)
         \/ v.pc = "session" /\ "SESSION" \in Wants(v.req) /\ "TEAM" \notin Wants(v.req)
  PROVE  PublicReplyInv(v, minted[c], seen[c])
<1>1. /\ v.tokens = {} /\ Got(v) = {} /\ v.teamErr = NoCode /\ v.sessionErr = NoCode
      /\ Wants(v.req) # {} /\ (LostMayBeRetried => minted[c] = {})
  BY NothingYet DEF Got
<1>2. PublicTokensInv(v, minted[c])
  BY <1>1 DEF PublicTokensInv
<1>3. Behind(v) \cap Wants(v.req) = {}
  BY DEF Behind
<1>4. ChannelsInv(v)
  BY <1>1, <1>3, ErrorCodes DEF ChannelsInv, ErrorOf
<1> QED
  BY <1>1, <1>2, <1>4, ErrorCodes
  DEF PublicReplyInv, CleanInv, PublicServing, Refusing, NoRetry, Codes

\* Before it has sent Epic a request for a token, a handler may return any
\* error that the history justifies.
LEMMA EarlyReturn ==
  ASSUME NEW on, PublicInvFor(on), NEW c \in Call, c \in on,
         NEW code \in Codes \ {"OK"}, NEW e \in BOOLEAN,
         call[c].pc \in {"validate", "resolve", "party"},
         e => asked[c] \/ MainRoom(call[c].req) \in seen[c].held,
         UpstreamNeverRefuses /\ code \in Refusing =>
           \/ code = "FailedPrecondition" /\ NoPuid \in seen[c].links
           \/ code \in {"NotFound", "PermissionDenied"} /\ MainRoom(call[c].req) \in seen[c].missed
  PROVE  /\ PublicReturn(c, code) \in CallState
         /\ PublicReturn(c, code).req = call[c].req
         /\ PublicCallInv(PublicReturn(c, code), minted[c], e, seen[c])
         /\ PublicReplyInv(PublicReturn(c, code), minted[c], seen[c])
<1>1. call[c].tokens = {} /\ (LostMayBeRetried => minted[c] = {})
  BY NothingYet
<1>2. call[c] \in CallState /\ call[c].pc \in PublicServing
  BY PublicMiddle DEF PublicServing
<1> DEFINE v == PublicReturn(c, code)
<1>3. v.reply = code /\ v.tokens = {} /\ v.req = call[c].req
  BY <1>1, <1>2 DEF PublicReturn, CallState
<1> HIDE DEF v
<1>4. AnswerInv(v, seen[c])
  BY <1>3 DEF AnswerInv
<1> QED
  BY <1>1, <1>2, <1>4, ReturnInv DEF v

LEMMA ValidateInv ==
  ASSUME NEW on, PublicInvFor(on), NEW c \in Call, c \in on, Validate(c)
  PROVE  PublicInvFor(on)'
<1> DEFINE r == call[c].req
<1>1. UNCHANGED <<backendVars, minted, asked, seen>> /\ call[c].pc = "validate"
  BY DEF Validate, PublicAt
<1>2. PICK err \in IF r.kind = "PARTY" THEN ValidateUserInParty(r.user, r.group)
                                       ELSE ValidateUserInSession(r.user, r.group) :
        call' = [call EXCEPT ![c] =
          IF err = NoCode THEN [call[c] EXCEPT !.pc = "resolve"] ELSE PublicReturn(c, err)]
  BY DEF Validate
<1>3. /\ call[c] \in CallState /\ r \in Request /\ r.group # NoGroup
      /\ minted[c] = {} /\ asked[c] = FALSE
      /\ PublicUpToDate(call[c], seen[c])
      /\ asked' = [asked EXCEPT ![c] = asked[c]]
  BY <1>1, PublicMiddle DEF PublicCallInv, PublicServing
<1>4. err \in (Codes \ {"OK"}) \cup {NoCode}
  BY <1>2, GRPCStatusType, ParseHTTPErrorType DEF ValidateUserInParty, ValidateUserInSession
<1>5. CASE err = NoCode
  <2> DEFINE v == [call[c] EXCEPT !.pc = "resolve"]
  <2>1. Lists(r.group, r.user)
    BY <1>2, <1>5, GRPCStatusType, ParseHTTPErrorType, ErrorCodes
    DEF ValidateUserInParty, ValidateUserInSession
  <2>2. MainRoom(r) \in RoomsListing(r.user)
    BY <1>3, <2>1 DEF RoomsListing, MainRoom, Request, PartyRequest, SessionRequest, Group
  <2>3. MainRoom(r) \in seen[c].held
    BY <1>1, <1>3, <2>2 DEF PublicUpToDate, PublicServing
  <2>4. /\ v \in CallState /\ v.pc = "resolve" /\ v.req = r /\ v.tokens = call[c].tokens
        /\ v.teamErr = call[c].teamErr /\ v.sessionErr = call[c].sessionErr
    BY <1>3 DEF CallState, PublicServing
  <2>5. PublicCallInv(v, minted[c], asked[c], seen[c])
    <3>1. r.user # NoUser
      BY <1>1, PublicMiddle DEF PublicCallInv, PublicServing
    <3> QED
      BY <1>3, <2>3, <2>4, <3>1 DEF PublicCallInv, PublicServing
  <2>6. call' = [call EXCEPT ![c] = v]
    BY <1>2, <1>5
  <2> HIDE DEF v
  <2>7. v.pc \in {"validate", "resolve"}
    BY <2>4
  <2>8. PublicReplyInv(v, minted[c], seen[c])
    BY <1>1, <2>4, <2>7, StillNothing
  <2> QED
    BY <1>1, <1>3, <2>4, <2>5, <2>6, <2>8, PublicLocalStep DEF PublicServing
<1>6. CASE err # NoCode
  <2>1. /\ call[c].pc \in PublicServing /\ call' = [call EXCEPT ![c] = PublicReturn(c, err)]
        /\ err \in Codes \ {"OK"}
    BY <1>1, <1>2, <1>4, <1>6 DEF PublicServing
  <2>2. ASSUME UpstreamNeverRefuses, err \in Refusing
        PROVE  err \in {"NotFound", "PermissionDenied"} /\ MainRoom(r) \in seen[c].missed
    <3>1. ~Lists(r.group, r.user) /\ err \in {"NotFound", "PermissionDenied"}
      <4>1. \A e \in UpstreamErrors : /\ err # ParseHTTPError(e, "party")
                                     /\ err # ParseHTTPError(e, "session")
        BY <2>2 DEF UpstreamNeverRefuses
      <4>2. err \in { ToGRPCStatus(ErrPartyNotFound), ToGRPCStatus(ErrUserNotInParty),
                      ToGRPCStatus(ErrSessionNotFound), ToGRPCStatus(ErrUserNotInSession) }
            /\ ~Lists(r.group, r.user)
        BY <1>2, <1>6, <4>1 DEF ValidateUserInParty, ValidateUserInSession, Lists
      <4> QED
        BY <4>2 DEF ToGRPCStatus, ErrPartyNotFound, ErrUserNotInParty, ErrSessionNotFound,
           ErrUserNotInSession
    <3>2. MainRoom(r) \in Room /\ MainRoom(r) \notin RoomsListing(r.user)
      BY <1>3, <3>1, RequestRooms DEF RoomsListing, MainRoom, RoomID
    <3> QED
      BY <1>1, <1>3, <3>1, <3>2 DEF PublicUpToDate, PublicServing
  <2>3. asked[c] \in BOOLEAN
    BY <1>3
  <2>4. /\ PublicReturn(c, err) \in CallState /\ PublicReturn(c, err).req = call[c].req
        /\ PublicCallInv(PublicReturn(c, err), minted[c], asked[c], seen[c])
        /\ PublicReplyInv(PublicReturn(c, err), minted[c], seen[c])
    BY <1>1, <2>1, <2>2, <2>3, EarlyReturn
  <2> QED
    BY <1>1, <1>3, <2>1, <2>3, <2>4, PublicLocalStep
<1> QED
  BY <1>4, <1>5, <1>6

\* What resolvePUID returns without an error is the caller's own PUID.
LEMMA ResolvedPuid ==
  ASSUME PublicTypeOK, NEW r \in Request, r.user # NoUser,
         NEW res \in ResolvePUID(r.user, r.puid)
  PROVE  /\ res.err \in (Codes \ {"OK"}) \cup {NoCode}
         /\ res.err = NoCode =>
              /\ res.puid \in Puid
              /\ res.puid = r.puid \/ (r.puid = NoPuid /\ res.puid = link[r.user])
         /\ UpstreamNeverRefuses /\ res.err \in Refusing =>
              res.err = "FailedPrecondition" /\ link[r.user] = NoPuid
<1>1. r.user \in User /\ r.puid \in Puid \cup {NoPuid, BlankPuid}
  BY DEF Request, PartyRequest, SessionRequest
<1>2. link[r.user] \in Puid \cup {NoPuid}
  BY <1>1 DEF PublicTypeOK, BackendsTypeOK
<1>3. CASE r.puid = NoPuid
  <2>1. res \in GetEpicPUID(r.user)
    BY <1>3, PublicAssumption DEF ResolvePUID
  <2>2. CASE res = [puid |-> link[r.user],
                    err |-> IF link[r.user] = NoPuid
                            THEN ToGRPCStatus(ErrEpicAccountNotLinked) ELSE NoCode]
    BY <1>2, <1>3, <2>2, GRPCStatusType, ErrorCodes
    DEF ToGRPCStatus, ErrEpicAccountNotLinked, Refusing, NoRetry, NoCode
  <2>3. CASE \E x \in UpstreamErrors :
               res = [puid |-> NoPuid, err |-> ParseHTTPError(x, "epic_puid")]
    BY <2>3, ParseHTTPErrorType, ErrorCodes DEF UpstreamNeverRefuses
  <2> QED
    BY <2>1, <2>2, <2>3 DEF GetEpicPUID
<1>4. CASE r.puid = BlankPuid
  <2>1. res = [puid |-> NoPuid, err |-> "InvalidArgument"]
    BY <1>4, PublicAssumption DEF ResolvePUID
  <2> QED
    BY <2>1, ErrorCodes DEF Codes, Refusing
<1>5. CASE r.puid \in Puid
  <2>1. res = [puid |-> r.puid, err |-> NoCode]
    BY <1>5, PublicAssumption, BackendsAssumption DEF ResolvePUID
  <2> QED
    BY <1>5, <2>1, ErrorCodes DEF Refusing, NoRetry, NoCode
<1> QED
  BY <1>1, <1>3, <1>4, <1>5

LEMMA ResolveInv ==
  ASSUME NEW on, PublicInvFor(on), NEW c \in Call, c \in on, Resolve(c)
  PROVE  PublicInvFor(on)'
<1> DEFINE r == call[c].req
           next == CASE r.kind = "PARTY" -> "party"
                     [] r.team           -> "getTeam"
                     [] OTHER            -> "session"
           e == r.puid = NoPuid
<1>1. /\ UNCHANGED <<backendVars, minted, seen>> /\ call[c].pc = "resolve"
      /\ asked' = [asked EXCEPT ![c] = e]
  BY DEF Resolve, PublicAt
<1>2. PICK res \in ResolvePUID(r.user, r.puid) :
        call' = [call EXCEPT ![c] =
          IF res.err = NoCode THEN [call[c] EXCEPT !.pc = next, !.puid = res.puid]
                              ELSE PublicReturn(c, res.err)]
  BY DEF Resolve
<1>3. /\ call[c] \in CallState /\ r \in Request /\ r.group # NoGroup /\ r.user # NoUser
      /\ minted[c] = {} /\ MainRoom(r) \in seen[c].held /\ PublicUpToDate(call[c], seen[c])
  BY <1>1, PublicMiddle DEF PublicCallInv, PublicServing
<1>4. /\ res.err \in (Codes \ {"OK"}) \cup {NoCode}
      /\ res.err = NoCode =>
           /\ res.puid \in Puid
           /\ res.puid = r.puid \/ (r.puid = NoPuid /\ res.puid = link[r.user])
      /\ UpstreamNeverRefuses /\ res.err \in Refusing =>
           res.err = "FailedPrecondition" /\ link[r.user] = NoPuid
  BY <1>2, <1>3, ResolvedPuid DEF PublicInvFor
<1>5. CASE res.err = NoCode
  <2> DEFINE v == [call[c] EXCEPT !.pc = next, !.puid = res.puid]
  <2>1. /\ v \in CallState /\ v.pc = next /\ v.req = r /\ v.puid = res.puid
        /\ v.tokens = call[c].tokens /\ v.teamErr = call[c].teamErr
        /\ v.sessionErr = call[c].sessionErr
    BY <1>3, <1>4, <1>5 DEF CallState, PublicServing
  <2>2. OwnPuid(v, seen[c])
    BY <1>1, <1>3, <1>4, <1>5, <2>1 DEF OwnPuid, PublicUpToDate, PublicServing
  <2>3. PublicCallInv(v, minted[c], e, seen[c])
    <3>1. next = "party" => r.kind = "PARTY"
      OBVIOUS
    <3>2. next \in {"getTeam", "session"} => r.kind = "SESSION"
      BY <1>3 DEF Request, PartyRequest, SessionRequest
    <3>3. next \in {"party", "getTeam", "session"}
      OBVIOUS
    <3> QED
      BY <1>3, <2>1, <2>2, <3>1, <3>2, <3>3 DEF PublicCallInv, PublicServing
  <2>4. call' = [call EXCEPT ![c] = v]
    BY <1>2, <1>5
  <2>5. \/ v.pc \in {"resolve", "party"}
        \/ v.pc \in {"getTeam", "team"} /\ "TEAM" \in Wants(v.req)
        \/ v.pc = "session" /\ "SESSION" \in Wants(v.req) /\ "TEAM" \notin Wants(v.req)
    <3>1. CASE r.kind = "PARTY"
      <4>1. ~r.team
        BY <1>3, <3>1 DEF Request, PartyRequest, SessionRequest
      <4> QED
        BY <2>1, <3>1, <4>1
    <3>2. CASE r.kind = "SESSION"
      <4>1. Wants(r) = {ch \in {"TEAM", "SESSION"} : IF ch = "TEAM" THEN r.team ELSE r.session}
        BY <3>2 DEF Wants
      <4>2. Wants(r) # {} /\ r.team \in BOOLEAN /\ r.session \in BOOLEAN
        BY <1>1, <1>3, <3>2, NothingYet DEF Request, PartyRequest, SessionRequest
      <4> QED
        BY <2>1, <3>2, <4>1, <4>2
    <3> QED
      BY <1>3, <3>1, <3>2 DEF Request, PartyRequest, SessionRequest
  <2> HIDE DEF v, e
  <2>6. PublicReplyInv(v, minted[c], seen[c])
    BY <1>1, <2>1, <2>5, StillNothing
  <2> QED
    BY <1>1, <2>1, <2>3, <2>4, <2>6, PublicLocalStep DEF PublicServing, e
<1>6. CASE res.err # NoCode
  <2>1. /\ call[c].pc \in PublicServing /\ call' = [call EXCEPT ![c] = PublicReturn(c, res.err)]
        /\ res.err \in Codes \ {"OK"}
    BY <1>1, <1>2, <1>4, <1>6 DEF PublicServing
  <2>2. UpstreamNeverRefuses /\ res.err \in Refusing =>
          res.err = "FailedPrecondition" /\ NoPuid \in seen[c].links
    BY <1>1, <1>3, <1>4 DEF PublicUpToDate, PublicServing
  <2>3. e \in BOOLEAN
    OBVIOUS
  <2> HIDE DEF e
  <2>4. /\ PublicReturn(c, res.err) \in CallState /\ PublicReturn(c, res.err).req = call[c].req
        /\ PublicCallInv(PublicReturn(c, res.err), minted[c], e, seen[c])
        /\ PublicReplyInv(PublicReturn(c, res.err), minted[c], seen[c])
    BY <1>1, <1>3, <2>1, <2>2, <2>3, EarlyReturn
  <2> QED
    BY <1>1, <2>1, <2>3, <2>4, PublicLocalStep
<1> QED
  BY <1>4, <1>5, <1>6

\* What the public handlers make of Epic's answer.
LEMMA PublicRoomCodeType ==
  ASSUME NEW a \in RoomAnswers
  PROVE  /\ PublicRoomCode(a) \in (Codes \ {"OK"}) \cup {NoCode}
         /\ PublicRoomCode(a) = NoCode /\ a.kind # "blank" => a.effect = "now"
<1>1. CASE a.kind \in {"token", "blank"}
  <2>1. PublicRoomCode(a) = NoCode
    BY <1>1 DEF PublicRoomCode
  <2> QED
    BY <1>1, <2>1 DEF RoomAnswers
<1>2. CASE a.kind = "empty"
  <2>1. PublicRoomCode(a) = ToGRPCStatus(ErrEpicRTCAPI)
    BY <1>2 DEF PublicRoomCode
  <2> QED
    BY <2>1, GRPCStatusType, ErrorCodes
<1>3. CASE a.kind = "error"
  <2>1. PublicRoomCode(a) = ParseHTTPError(a.text, "epic_rtc")
    BY <1>3 DEF PublicRoomCode
  <2> QED
    BY <2>1, ParseHTTPErrorType, ErrorCodes
<1> QED
  BY <1>1, <1>2, <1>3 DEF RoomAnswers

\* An answer that must not be retried admits nobody, unless it is a lost one
\* that reads like it; and no answer reads like a refusal if no error does.
LEMMA RoomRefusal ==
  ASSUME NEW a \in RoomAnswers, NEW room, NEW ps
  PROVE  /\ LostMayBeRetried /\ PublicRoomCode(a) \in NoRetry => Admitting(a, room, ps) = {}
         /\ UpstreamNeverRefuses => PublicRoomCode(a) \notin Refusing
         /\ PublicRoomCode(a) = NoCode /\ a.kind # "blank" =>
              Admitting(a, room, ps) = {room} \X ps
<1>1. CASE a.kind = "token"
  BY <1>1, ErrorCodes DEF RoomAnswers, PublicRoomCode, Admitting, NoRetry, Refusing, NoCode
<1>2. CASE a.kind = "empty"
  <2>1. PublicRoomCode(a) = "Internal"
    BY <1>2 DEF PublicRoomCode, ToGRPCStatus, ErrEpicRTCAPI
  <2> QED
    BY <2>1 DEF NoRetry, Refusing, NoCode
<1>4. CASE a.kind = "blank"
  <2>1. PublicRoomCode(a) = NoCode /\ NoCode \notin NoRetry /\ NoCode \notin Refusing
    BY <1>4 DEF PublicRoomCode, NoRetry, Refusing, NoCode
  <2> QED
    BY <1>4, <2>1
<1>3. CASE a.kind = "error"
  <2>1. PublicRoomCode(a) = ParseHTTPError(a.text, "epic_rtc")
    BY <1>3 DEF PublicRoomCode
  <2>2. (a.text \in StatusErrors /\ a.effect = "never") \/ a.text \in LostErrors
    BY <1>3 DEF RoomAnswers
  <2>3. PublicRoomCode(a) # NoCode
    BY <2>1, ParseHTTPErrorType, ErrorCodes
  <2> QED
    BY <2>1, <2>2, <2>3 DEF LostMayBeRetried, UpstreamNeverRefuses, UpstreamErrors, Admitting
<1> QED
  BY <1>1, <1>2, <1>3, <1>4 DEF RoomAnswers

\* The tokens of call c after Epic's answer a to its request for channel ch,
\* and their channels.
TokensAfter(c, ch, room, a) ==
  IF PublicRoomCode(a) = NoCode THEN call[c].tokens \cup {TokenFor(c, ch, room, a)}
                                ELSE call[c].tokens
GotAfter(c, ch, a) == IF PublicRoomCode(a) = NoCode THEN Got(call[c]) \cup {ch} ELSE Got(call[c])

LEMMA TokenTaken ==
  ASSUME NEW on, PublicInvFor(on), NEW c \in Call, c \in on, NEW room, NEW a \in RoomAnswers,
         call[c].pc \in {"party", "team", "session"},
         NEW ch \in Wants(call[c].req), ch \notin Behind(call[c]),
         room[1] = call[c].req.group, ch # "TEAM" => room = MainRoom(call[c].req),
         NEW v, v.req = call[c].req, v.tokens = TokensAfter(c, ch, room, a)
  PROVE  /\ PublicTokensInv(v, minted[c] \cup Admitting(a, room, {call[c].puid}))
         /\ Got(v) = GotAfter(c, ch, a)
         /\ ch \notin Got(call[c])
<1> DEFINE m == minted[c] \cup Admitting(a, room, {call[c].puid})
<1>1. PublicTokensInv(call[c], minted[c]) /\ ChannelsInv(call[c])
  BY PublicMiddle DEF PublicReplyInv, PublicServing
<1>2. \A t \in call[c].tokens : t.channel # ch
  BY <1>1 DEF ChannelsInv, Got
<1>3. CASE PublicRoomCode(a) = NoCode
  <2> DEFINE t == TokenFor(c, ch, room, a)
  <2>1. /\ t.channel = ch /\ t.room = room /\ t.puid = call[c].puid
        /\ t.blank <=> a.kind = "blank"
    BY DEF TokenFor
  <2>6. t.blank \/ <<t.room, t.puid>> \in m
    BY <1>3, <2>1, RoomRefusal
  <2>2. v.tokens = call[c].tokens \cup {t}
    BY <1>3 DEF TokensAfter
  <2> HIDE DEF t, m
  <2>3. \A x \in v.tokens :
          /\ x.blank \/ <<x.room, x.puid>> \in m
          /\ x.room[1] = v.req.group /\ x.channel \in Wants(v.req)
          /\ x.channel # "TEAM" => x.room = MainRoom(v.req)
    <3>1. minted[c] \subseteq m
      BY DEF m
    <3> QED
      BY <1>1, <2>1, <2>2, <2>6, <3>1 DEF PublicTokensInv
  <2>4. \A x, y \in v.tokens : x.channel = y.channel => x = y
    BY <1>1, <1>2, <2>1, <2>2 DEF PublicTokensInv
  <2>5. Got(v) = Got(call[c]) \cup {ch}
    BY <2>1, <2>2 DEF Got
  <2> QED
    BY <1>2, <1>3, <2>3, <2>4, <2>5 DEF PublicTokensInv, m, Got, GotAfter
<1>4. CASE PublicRoomCode(a) # NoCode
  <2>1. v.tokens = call[c].tokens
    BY <1>4 DEF TokensAfter
  <2> QED
    BY <1>1, <1>2, <1>4, <2>1 DEF PublicTokensInv, Got, GotAfter
<1> QED
  BY <1>3, <1>4

\* Epic's answer a to a request for a token of room, sent by call c, whose
\* handler goes on with v.
LEMMA TokenStep ==
  ASSUME NEW on, PublicInvFor(on), NEW c \in Call, c \in on, NEW room \in Room,
         NEW a \in RoomAnswers,
         CreateRoomToken(c, room, a), call[c].pc \in {"party", "team", "session"},
         room \in seen[c].held, NEW v \in CallState, call' = [call EXCEPT ![c] = v],
         v.req = call[c].req, v.puid = call[c].puid,
         v.pc \in {"session", "finish", "done"}, v.pc = "session" => v.req.kind = "SESSION",
         PublicReplyInv(v, minted[c] \cup Admitting(a, room, {call[c].puid}), seen[c])
  PROVE  PublicInvFor(on)'
<1> DEFINE new == Admitting(a, room, {call[c].puid})
<1>1. /\ PublicCallInv(call[c], minted[c], asked[c], seen[c])
      /\ minted[c] \in SUBSET (Room \X Puid) /\ seen[c] \in PublicHistory
      /\ PublicUpToDate(call[c], seen[c])
      /\ seen = [seen EXCEPT ![c] = seen[c]]
  BY PublicMiddle
<1>2. OwnPuid(call[c], seen[c]) /\ MainRoom(call[c].req) \in seen[c].held
  BY <1>1 DEF PublicCallInv, PublicServing
<1>3. new \subseteq {<<room, call[c].puid>>}
  BY DEF Admitting
<1>4. call[c].puid \in Puid
  BY <1>2 DEF OwnPuid
<1>5. /\ UNCHANGED <<live, roster, teams, link, seen>>
      /\ Asked(Admission(room, {call[c].puid}), a.effect)
      /\ minted' = [minted EXCEPT ![c] = minted[c] \cup new]
      /\ asked' = [asked EXCEPT ![c] = TRUE]
  BY DEF CreateRoomToken, Asked
<1> HIDE DEF new
<1>6. BackendsTypeOK' /\ SameData
  <2>1. Admission(room, {call[c].puid}) \in Work
    BY <1>4 DEF Admission, Work
  <2> QED
    BY <1>5, <2>1, AskedType DEF PublicInvFor, PublicTypeOK, SameData
<1>7. minted[c] \cup new \in SUBSET (Room \X Puid)
  BY <1>1, <1>3, <1>4
<1>8. PublicCallInv(v, minted[c] \cup new, TRUE, seen[c])
  <2>1. OwnPuid(v, seen[c])
    BY <1>2 DEF OwnPuid
  <2>2. \A g \in minted[c] \cup new : g[1] \in seen[c].held /\ g[2] = v.puid
    BY <1>1, <1>3 DEF PublicCallInv
  <2>3. v.pc \in PublicServing => v.req.group # NoGroup /\ v.req.user # NoUser
    BY <1>1 DEF PublicCallInv, PublicServing
  <2> QED
    BY <1>2, <2>1, <2>2, <2>3 DEF PublicCallInv, PublicServing
<1>9. CallOK(v, minted[c] \cup new, TRUE, seen[c])
  BY <1>1, <1>7, <1>8 DEF CallOK, new
<1>10. PublicUpToDate(v, seen[c])
  BY <1>1 DEF PublicUpToDate, PublicServing
<1>11. seen' = [seen EXCEPT ![c] = seen[c]]
  BY <1>1, <1>5
<1> QED
  BY <1>5, <1>6, <1>9, <1>10, <1>11, PublicStepOfCall

\* A token for the call's own PUID is a token.
LEMMA TokenForType ==
  ASSUME NEW c \in Call, NEW channel \in {"PARTY", "TEAM", "SESSION"}, NEW room \in Room,
         NEW a, call[c].puid \in Puid
  PROVE  TokenFor(c, channel, room, a) \in PublicToken
BY DEF TokenFor, PublicToken

LEMMA PartyTokenInv ==
  ASSUME NEW on, PublicInvFor(on), NEW c \in Call, c \in on, PartyToken(c)
  PROVE  PublicInvFor(on)'
<1> DEFINE room == RoomID(call[c].req.group, Voice)
<1>1. call[c].pc = "party"
  BY DEF PartyToken, PublicAt
<1>2. PICK a \in RoomAnswers :
        /\ CreateRoomToken(c, room, a)
        /\ call' = [call EXCEPT ![c] =
             IF PublicRoomCode(a) = NoCode
             THEN [PublicReturn(c, "OK") EXCEPT !.tokens = {TokenFor(c, "PARTY", room, a)}]
             ELSE PublicReturn(c, PublicRoomCode(a))]
  BY DEF PartyToken
<1>3. /\ call[c] \in CallState /\ call[c].req \in Request /\ call[c].req.group # NoGroup
      /\ room \in seen[c].held /\ call[c].puid \in Puid
  BY <1>1, PublicMiddle DEF PublicCallInv, PublicServing, MainRoom, OwnPuid
<1>4. room \in Room /\ TokenFor(c, "PARTY", room, a) \in PublicToken
  <2>1. room \in Room
    BY <1>3, RequestRooms DEF MainRoom
  <2> QED
    BY <1>3, <2>1, TokenForType
<1> DEFINE v == IF PublicRoomCode(a) = NoCode
                THEN [PublicReturn(c, "OK") EXCEPT !.tokens = {TokenFor(c, "PARTY", room, a)}]
                ELSE PublicReturn(c, PublicRoomCode(a))
<1>5. /\ v \in CallState /\ v.pc = "done" /\ v.req = call[c].req
      /\ v.puid = call[c].puid
  BY <1>3, <1>4, PublicRoomCodeType, ErrorCodes DEF PublicReturn, CallState
<1>6. call' = [call EXCEPT ![c] = v]
  BY <1>2
<1>7. PublicReplyInv(v, minted[c] \cup Admitting(a, room, {call[c].puid}), seen[c])
  <2> DEFINE m == minted[c] \cup Admitting(a, room, {call[c].puid})
  <2>1. /\ call[c].tokens = {} /\ Got(call[c]) = {} /\ Behind(call[c]) = {}
        /\ (LostMayBeRetried => minted[c] = {})
    BY <1>1, NothingYet
  <2>2. Wants(call[c].req) = {"PARTY"}
    BY <1>1, PublicMiddle DEF PublicCallInv, Wants
  <2>3. v.tokens = TokensAfter(c, "PARTY", room, a)
    BY <1>3, <2>1 DEF PublicReturn, CallState, TokensAfter
  <2>4. v.reply = IF PublicRoomCode(a) = NoCode THEN "OK" ELSE PublicRoomCode(a)
    BY <1>3 DEF PublicReturn, CallState
  <2>5. room[1] = call[c].req.group /\ room = MainRoom(call[c].req)
    BY DEF RoomID, MainRoom
  <2> HIDE DEF v, room
  <2>6. PublicTokensInv(v, m) /\ Got(v) = GotAfter(c, "PARTY", a)
    <3>1. "PARTY" \in Wants(call[c].req) /\ "PARTY" \notin Behind(call[c])
      BY <2>1, <2>2
    <3> QED
      BY <1>1, <1>5, <2>3, <2>5, <3>1, TokenTaken
  <2>7. /\ PublicRoomCode(a) \in NoRetry /\ LostMayBeRetried => m = {}
        /\ UpstreamNeverRefuses => PublicRoomCode(a) \notin Refusing
        /\ PublicRoomCode(a) # "OK"
    BY <2>1, RoomRefusal, PublicRoomCodeType, ErrorCodes
  <2>8. v.tokens # {} <=> PublicRoomCode(a) = NoCode
    BY <2>1, <2>3 DEF TokensAfter
  <2> HIDE DEF m
  <2>9. AnswerInv(v, seen[c])
    BY <1>5, <2>1, <2>2, <2>4, <2>6, <2>7, <2>8 DEF AnswerInv, Refusing, NoRetry, GotAfter
  <2>10. CleanInv(v, m)
    BY <1>5, <2>4, <2>7 DEF CleanInv, PublicServing, NoRetry
  <2> QED
    BY <1>5, <2>6, <2>9, <2>10 DEF PublicReplyInv, PublicServing, m
<1> HIDE DEF v, room
<1> QED
  BY <1>1, <1>2, <1>3, <1>4, <1>5, <1>6, <1>7, TokenStep

\* What a session request wants.
LEMMA SessionWants ==
  ASSUME NEW r \in Request, r.kind = "SESSION"
  PROVE  /\ "TEAM" \in Wants(r) <=> r.team
         /\ "SESSION" \in Wants(r) <=> r.session
         /\ Wants(r) \subseteq {"TEAM", "SESSION"}
BY DEF Wants

\* The handler goes on after the team token, with or without it.
LEMMA AfterTeamInv ==
  ASSUME NEW on, PublicInvFor(on), NEW c \in Call, c \in on, call[c].pc \in {"getTeam", "team"},
         NEW v, v.req = call[c].req, v.pc = AfterTeam(c), v.sessionErr = NoCode, v.teamErr # "OK",
         Got(v) = IF v.teamErr = NoCode THEN {"TEAM"} ELSE {},
         NEW m, PublicTokensInv(v, m), LostMayBeRetried /\ v.teamErr \in NoRetry => m = {}
  PROVE  PublicReplyInv(v, m, seen[c])
<1>1. /\ call[c].req \in Request /\ v.req.kind = "SESSION" /\ "TEAM" \in Wants(v.req)
  BY PublicMiddle DEF PublicCallInv, PublicReplyInv
<1>2. v.pc = IF v.req.session THEN "session" ELSE "finish"
  BY DEF AfterTeam
<1>3. v.pc = "session" <=> "SESSION" \in Wants(v.req)
  BY <1>1, <1>2, SessionWants
<1>4. /\ "TEAM" \in Behind(v) \cap Wants(v.req)
      /\ "SESSION" \notin Behind(v) \cap Wants(v.req)
  BY <1>1, <1>2, <1>3 DEF Behind
<1>5. ChannelsInv(v)
  BY <1>1, <1>4, ErrorCodes DEF ChannelsInv, ErrorOf
<1>6. v.tokens = {} => v.teamErr # NoCode
  BY DEF Got
<1>7. CleanInv(v, m)
  BY <1>2, <1>6 DEF CleanInv
<1> QED
  BY <1>1, <1>2, <1>3, <1>5, <1>7 DEF PublicReplyInv, Refusing, NoRetry, NoCode

LEMMA TeamTokenInv ==
  ASSUME NEW on, PublicInvFor(on), NEW c \in Call, c \in on, TeamToken(c)
  PROVE  PublicInvFor(on)'
<1> DEFINE room == RoomID(call[c].req.group, call[c].teamID)
<1>1. call[c].pc = "team"
  BY DEF TeamToken, PublicAt
<1>2. PICK a \in RoomAnswers :
        /\ CreateRoomToken(c, room, a)
        /\ call' = [call EXCEPT ![c] =
             IF PublicRoomCode(a) = NoCode
             THEN [call[c] EXCEPT !.pc = AfterTeam(c),
                                  !.tokens = call[c].tokens \cup {TokenFor(c, "TEAM", room, a)}]
             ELSE [call[c] EXCEPT !.pc = AfterTeam(c), !.teamErr = PublicRoomCode(a)]]
  BY DEF TeamToken
<1>3. /\ call[c] \in CallState /\ call[c].req \in Request /\ call[c].req.group # NoGroup
      /\ call[c].req.kind = "SESSION" /\ call[c].teamID \in Team
      /\ room \in seen[c].held /\ call[c].puid \in Puid
  BY <1>1, PublicMiddle DEF PublicCallInv, PublicServing, OwnPuid
<1>4. room \in Room /\ TokenFor(c, "TEAM", room, a) \in PublicToken
  <2>1. room \in Room
    BY <1>3, RequestRooms
  <2> QED
    BY <1>3, <2>1, TokenForType
<1> DEFINE v == IF PublicRoomCode(a) = NoCode
                THEN [call[c] EXCEPT !.pc = AfterTeam(c),
                                     !.tokens = call[c].tokens \cup {TokenFor(c, "TEAM", room, a)}]
                ELSE [call[c] EXCEPT !.pc = AfterTeam(c), !.teamErr = PublicRoomCode(a)]
<1>5. /\ v \in CallState /\ v.pc \in {"session", "finish"} /\ v.req = call[c].req
      /\ v.puid = call[c].puid
  BY <1>3, <1>4, PublicRoomCodeType DEF AfterTeam, CallState, PublicServing
<1>6. call' = [call EXCEPT ![c] = v]
  BY <1>2
<1>7. PublicReplyInv(v, minted[c] \cup Admitting(a, room, {call[c].puid}), seen[c])
  <2> DEFINE m == minted[c] \cup Admitting(a, room, {call[c].puid})
  <2>1. /\ call[c].tokens = {} /\ Got(call[c]) = {} /\ Behind(call[c]) = {}
        /\ call[c].teamErr = NoCode /\ call[c].sessionErr = NoCode
        /\ (LostMayBeRetried => minted[c] = {})
    BY <1>1, NothingYet
  <2>2. "TEAM" \in Wants(call[c].req) /\ "TEAM" \notin Behind(call[c])
    BY <1>1, <2>1, PublicMiddle DEF PublicReplyInv
  <2>3. /\ v.tokens = TokensAfter(c, "TEAM", room, a) /\ v.sessionErr = NoCode
        /\ v.pc = AfterTeam(c) /\ v.teamErr = PublicRoomCode(a)
    BY <1>3, <2>1 DEF CallState, TokensAfter
  <2>4. room[1] = call[c].req.group
    BY DEF RoomID
  <2> HIDE DEF v, room
  <2>5. PublicTokensInv(v, m) /\ Got(v) = GotAfter(c, "TEAM", a)
    BY <1>1, <1>5, <2>2, <2>3, <2>4, TokenTaken
  <2>6. /\ PublicRoomCode(a) \in NoRetry /\ LostMayBeRetried => m = {}
        /\ PublicRoomCode(a) # "OK"
    BY <2>1, RoomRefusal, PublicRoomCodeType, ErrorCodes
  <2>7. Got(v) = IF v.teamErr = NoCode THEN {"TEAM"} ELSE {}
    BY <2>1, <2>3, <2>5 DEF GotAfter
  <2> HIDE DEF m
  <2>8. PublicReplyInv(v, m, seen[c])
    BY <1>1, <1>5, <2>3, <2>5, <2>6, <2>7, AfterTeamInv
  <2> QED
    BY <2>8 DEF m
<1> HIDE DEF v, room
<1>8. /\ call[c].pc \in {"party", "team", "session"} /\ v.pc \in {"session", "finish", "done"}
      /\ v.pc = "session" => v.req.kind = "SESSION"
  BY <1>1, <1>3, <1>5
<1> QED
  BY <1>2, <1>3, <1>4, <1>5, <1>6, <1>7, <1>8, TokenStep

LEMMA SessionTokenInv ==
  ASSUME NEW on, PublicInvFor(on), NEW c \in Call, c \in on, SessionToken(c)
  PROVE  PublicInvFor(on)'
<1> DEFINE room == RoomID(call[c].req.group, Voice)
<1>1. call[c].pc = "session"
  BY DEF SessionToken, PublicAt
<1>2. PICK a \in RoomAnswers :
        /\ CreateRoomToken(c, room, a)
        /\ call' = [call EXCEPT ![c] =
             IF PublicRoomCode(a) = NoCode
             THEN [call[c] EXCEPT !.pc = "finish",
                                  !.tokens = call[c].tokens \cup {TokenFor(c, "SESSION", room, a)}]
             ELSE [call[c] EXCEPT !.pc = "finish", !.sessionErr = PublicRoomCode(a)]]
  BY DEF SessionToken
<1>3. /\ call[c] \in CallState /\ call[c].req \in Request /\ call[c].req.group # NoGroup
      /\ room \in seen[c].held /\ call[c].puid \in Puid
  BY <1>1, PublicMiddle DEF PublicCallInv, PublicServing, MainRoom, OwnPuid
<1>4. room \in Room /\ TokenFor(c, "SESSION", room, a) \in PublicToken
  <2>1. room \in Room
    BY <1>3, RequestRooms DEF MainRoom
  <2> QED
    BY <1>3, <2>1, TokenForType
<1> DEFINE v == IF PublicRoomCode(a) = NoCode
                THEN [call[c] EXCEPT !.pc = "finish",
                       !.tokens = call[c].tokens \cup {TokenFor(c, "SESSION", room, a)}]
                ELSE [call[c] EXCEPT !.pc = "finish", !.sessionErr = PublicRoomCode(a)]
<1>5. /\ v \in CallState /\ v.pc = "finish" /\ v.req = call[c].req
      /\ v.puid = call[c].puid
  BY <1>3, <1>4, PublicRoomCodeType DEF CallState, PublicServing
<1>6. call' = [call EXCEPT ![c] = v]
  BY <1>2
<1>7. PublicReplyInv(v, minted[c] \cup Admitting(a, room, {call[c].puid}), seen[c])
  <2> DEFINE m == minted[c] \cup Admitting(a, room, {call[c].puid})
  <2>1. /\ ChannelsInv(call[c]) /\ CleanInv(call[c], minted[c])
        /\ "SESSION" \in Wants(call[c].req) /\ call[c].req.kind = "SESSION"
    BY <1>1, PublicMiddle DEF PublicReplyInv, PublicCallInv, PublicServing
  <2>2. Behind(call[c]) = {"TEAM"}
    BY <1>1 DEF Behind
  <2>3. call[c].sessionErr = NoCode
    BY <2>1, <2>2 DEF ChannelsInv, ErrorOf
  <2>4. /\ v.tokens = TokensAfter(c, "SESSION", room, a) /\ v.teamErr = call[c].teamErr
        /\ v.sessionErr = PublicRoomCode(a)
    BY <1>3, <2>3 DEF CallState, TokensAfter
  <2>5. room[1] = call[c].req.group /\ room = MainRoom(call[c].req)
    BY DEF RoomID, MainRoom
  <2> HIDE DEF v, room
  <2>6. /\ PublicTokensInv(v, m) /\ Got(v) = GotAfter(c, "SESSION", a)
        /\ "SESSION" \notin Got(call[c])
    <3>1. "SESSION" \notin Behind(call[c])
      BY <2>2
    <3> QED
      BY <1>1, <1>5, <2>1, <2>4, <2>5, <3>1, TokenTaken
  <2>7. /\ LostMayBeRetried /\ PublicRoomCode(a) \in NoRetry => m = minted[c]
        /\ UpstreamNeverRefuses => PublicRoomCode(a) \notin Refusing
        /\ PublicRoomCode(a) # "OK"
    BY RoomRefusal, PublicRoomCodeType, ErrorCodes
  <2> HIDE DEF m
  <2>8. Behind(v) = {"TEAM", "SESSION"}
    BY <1>5 DEF Behind
  <2>9. ChannelsInv(v)
    <3>1. "SESSION" \in Got(v) <=> v.sessionErr = NoCode
      BY <2>4, <2>6 DEF GotAfter
    <3>2. "TEAM" \in Got(v) <=> "TEAM" \in Got(call[c])
      BY <2>6 DEF GotAfter
    <3>3. Got(v) \subseteq {"TEAM", "SESSION"}
      BY <2>1, <2>2, <2>6 DEF ChannelsInv, GotAfter
    <3> QED
      BY <1>5, <2>1, <2>2, <2>4, <2>7, <2>8, <3>1, <3>2, <3>3 DEF ChannelsInv, ErrorOf
  <2>10. CleanInv(v, m)
    <3>1. v.tokens = {} => call[c].tokens = {} /\ PublicRoomCode(a) # NoCode
      BY <2>4 DEF TokensAfter
    <3> QED
      BY <1>1, <1>5, <2>1, <2>3, <2>4, <2>7, <3>1 DEF CleanInv, PublicServing
  <2> QED
    BY <1>5, <2>1, <2>4, <2>6, <2>7, <2>9, <2>10 DEF PublicReplyInv, PublicServing, m
<1> HIDE DEF v, room
<1> QED
  BY <1>1, <1>2, <1>3, <1>4, <1>5, <1>6, <1>7, TokenStep

LEMMA GetTeamInv ==
  ASSUME NEW on, PublicInvFor(on), NEW c \in Call, c \in on, GetTeam(c)
  PROVE  PublicInvFor(on)'
<1> DEFINE r == call[c].req
<1>1. UNCHANGED <<backendVars, minted, asked, seen>> /\ call[c].pc = "getTeam"
  BY DEF GetTeam, PublicAt
<1>2. PICK t \in GetUserTeamInSession(r.user, r.group) :
        call' = [call EXCEPT ![c] =
          IF t # NoTeam THEN [call[c] EXCEPT !.pc = "team", !.teamID = t]
          ELSE [call[c] EXCEPT !.pc = AfterTeam(c), !.teamErr = "FailedPrecondition"]]
  BY DEF GetTeam
<1>3. /\ call[c] \in CallState /\ r \in Request /\ r.group # NoGroup /\ r.user # NoUser
      /\ r.kind = "SESSION" /\ PublicUpToDate(call[c], seen[c])
      /\ PublicCallInv(call[c], minted[c], asked[c], seen[c])
      /\ asked[c] \in BOOLEAN /\ asked' = [asked EXCEPT ![c] = asked[c]]
  BY <1>1, PublicMiddle DEF PublicCallInv, PublicServing
<1>4. MainRoom(r) \in seen[c].held /\ OwnPuid(call[c], seen[c])
  BY <1>1, <1>3 DEF PublicCallInv, PublicServing
<1>5. CASE t # NoTeam
  <2> DEFINE v == [call[c] EXCEPT !.pc = "team", !.teamID = t]
  <2>1. t \in Team /\ Lists(r.group, r.user) /\ r.user \in teams[r.group][t]
    BY <1>2, <1>5 DEF GetUserTeamInSession
  <2>2. r.group \in Session
    BY <1>3 DEF Request, PartyRequest, SessionRequest
  <2>3. RoomID(r.group, t) \in RoomsListing(r.user)
    <3>1. <<r.group, t>> \in Session \X Team
      BY <2>1, <2>2
    <3>2. Lists(<<r.group, t>>[1], r.user) /\ r.user \in teams[<<r.group, t>>[1]][<<r.group, t>>[2]]
      BY <2>1
    <3> QED
      BY <3>1, <3>2 DEF RoomsListing, RoomID
  <2>4. RoomID(r.group, t) \in seen[c].held
    BY <1>1, <1>3, <2>3 DEF PublicUpToDate, PublicServing
  <2>5. /\ v \in CallState /\ v.pc = "team" /\ v.req = r /\ v.teamID = t
        /\ v.puid = call[c].puid /\ v.tokens = call[c].tokens
        /\ v.teamErr = call[c].teamErr /\ v.sessionErr = call[c].sessionErr
    BY <1>3, <2>1 DEF CallState, PublicServing, TeamID
  <2>6. PublicCallInv(v, minted[c], asked[c], seen[c])
    BY <1>3, <1>4, <2>1, <2>4, <2>5 DEF PublicCallInv, OwnPuid, PublicServing
  <2>7. call' = [call EXCEPT ![c] = v]
    BY <1>2, <1>5
  <2> HIDE DEF v
  <2>8. PublicReplyInv(v, minted[c], seen[c])
    <3>1. "TEAM" \in Wants(v.req)
      BY <1>1, <2>5, PublicMiddle DEF PublicReplyInv
    <3> QED
      BY <1>1, <2>5, <3>1, StillNothing
  <2> QED
    BY <1>1, <1>3, <2>5, <2>6, <2>7, <2>8, PublicLocalStep DEF PublicServing
<1>6. CASE t = NoTeam
  <2> DEFINE v == [call[c] EXCEPT !.pc = AfterTeam(c), !.teamErr = "FailedPrecondition"]
  <2>1. AfterTeam(c) \in {"session", "finish"}
    BY DEF AfterTeam
  <2>2. /\ v \in CallState /\ v.pc = AfterTeam(c) /\ v.req = r /\ v.puid = call[c].puid
    BY <1>3, <2>1 DEF CallState, PublicServing, Codes
  <2>3. PublicCallInv(v, minted[c], asked[c], seen[c])
    BY <1>3, <1>4, <2>1, <2>2 DEF PublicCallInv, OwnPuid, PublicServing
  <2>4. call' = [call EXCEPT ![c] = v]
    BY <1>2, <1>6
  <2>5. PublicReplyInv(v, minted[c], seen[c])
    <3>1. /\ call[c].tokens = {} /\ call[c].sessionErr = NoCode
          /\ (LostMayBeRetried => minted[c] = {})
      BY <1>1, NothingYet
    <3>2. v.tokens = {} /\ v.sessionErr = NoCode /\ v.teamErr = "FailedPrecondition"
      BY <1>3, <3>1 DEF CallState
    <3> HIDE DEF v
    <3>3. Got(v) = IF v.teamErr = NoCode THEN {"TEAM"} ELSE {}
      BY <3>2 DEF Got, NoCode
    <3>4. PublicTokensInv(v, minted[c])
      BY <3>2 DEF PublicTokensInv
    <3> QED
      BY <1>1, <2>2, <3>1, <3>2, <3>3, <3>4, AfterTeamInv
  <2> HIDE DEF v
  <2> QED
    BY <1>1, <1>3, <2>2, <2>3, <2>4, <2>5, PublicLocalStep DEF PublicServing
<1> QED
  BY <1>5, <1>6

\* The reply of a session request, by the tokens and errors it has.
LEMMA SessionReplyIs ==
  ASSUME NEW c \in Call
  PROVE  LET v == call[c]
         IN /\ v.tokens # {} => SessionReply(c) = "OK"
            /\ v.tokens = {} =>
                 \/ SessionReply(c) = "Internal"
                 \/ SessionReply(c) = v.teamErr /\ v.teamErr # NoCode /\ v.sessionErr = NoCode
                 \/ SessionReply(c) = v.sessionErr /\ v.teamErr = NoCode /\ v.sessionErr # NoCode
<1> DEFINE v == call[c]
           failed == {e \in {"team", "session"} :
                        (IF e = "team" THEN v.teamErr ELSE v.sessionErr) # NoCode}
<1>1. /\ failed = {"team"} => v.teamErr # NoCode /\ v.sessionErr = NoCode
      /\ failed = {"session"} => v.teamErr = NoCode /\ v.sessionErr # NoCode
  <2>1. /\ "team" \in failed <=> v.teamErr # NoCode
        /\ "session" \in failed <=> v.sessionErr # NoCode
    OBVIOUS
  <2> HIDE DEF failed
  <2> QED
    BY <2>1
<1>2. SessionReply(c) = CASE v.tokens # {} -> "OK"
                          [] OTHER -> CASE failed = {"team"}    -> v.teamErr
                                        [] failed = {"session"} -> v.sessionErr
                                        [] OTHER                -> "Internal"
  BY DEF SessionReply
<1> HIDE DEF failed
<1>3. ~(failed = {"team"} /\ failed = {"session"})
  BY <1>1
<1> QED
  BY <1>1, <1>2, <1>3

LEMMA PublicFinishInv ==
  ASSUME NEW on, PublicInvFor(on), NEW c \in Call, c \in on, PublicFinish(c)
  PROVE  PublicInvFor(on)'
<1> DEFINE s == call[c]
           code == SessionReply(c)
           v == PublicReturn(c, code)
<1>1. /\ UNCHANGED <<backendVars, minted, asked, seen>> /\ call[c].pc = "finish"
      /\ call' = [call EXCEPT ![c] = v]
  BY DEF PublicFinish, PublicAt
<1>2. /\ s \in CallState /\ asked[c] \in BOOLEAN
      /\ asked' = [asked EXCEPT ![c] = asked[c]]
      /\ ChannelsInv(s) /\ CleanInv(s, minted[c]) /\ s.req \in Request /\ s.req.kind = "SESSION"
      /\ UpstreamNeverRefuses => s.sessionErr \notin Refusing
  BY <1>1, PublicMiddle DEF PublicReplyInv, PublicServing
<1>3. /\ s.tokens # {} => code = "OK"
      /\ s.tokens = {} =>
           \/ code = "Internal"
           \/ code = s.teamErr /\ s.teamErr # NoCode /\ s.sessionErr = NoCode
           \/ code = s.sessionErr /\ s.teamErr = NoCode /\ s.sessionErr # NoCode
  BY SessionReplyIs
<1>4. code \in Codes \cup {NoCode}
  BY <1>2, <1>3, ErrorCodes DEF CallState, Codes
<1>5. /\ v.reply = code /\ v.tokens = s.tokens /\ v.req = s.req
      /\ v.teamErr = s.teamErr /\ v.sessionErr = s.sessionErr
  BY <1>2 DEF PublicReturn, CallState
<1>6. Behind(s) = {"TEAM", "SESSION"}
  BY <1>1 DEF Behind
<1> HIDE DEF code, v
<1>7. AnswerInv(v, seen[c])
  <2>1. v.reply = "OK" <=> v.tokens # {}
    BY <1>2, <1>3, <1>5 DEF ChannelsInv
  <2>2. ASSUME NEW ch \in Wants(v.req) \ Got(v) PROVE ErrorOf(v, ch) # NoCode
    <3>1. ch \in {"TEAM", "SESSION"} /\ ch \in Wants(s.req) /\ ch \notin Got(s)
      BY <1>2, <1>5, <2>2, SessionWants DEF Got
    <3> QED
      BY <1>2, <1>5, <1>6, <3>1 DEF ChannelsInv, ErrorOf
  <2>3. ASSUME UpstreamNeverRefuses, v.reply \in Refusing, ~v.req.team PROVE FALSE
    <3>1. s.teamErr = NoCode
      BY <1>2, <1>5, <2>3, SessionWants DEF ChannelsInv, ErrorOf
    <3>2. code # "Internal" /\ code # "OK"
      BY <1>5, <2>3 DEF Refusing, NoRetry
    <3> QED
      BY <1>2, <1>3, <1>5, <2>3, <3>1, <3>2
  <2> QED
    BY <2>1, <2>2, <2>3 DEF AnswerInv
<1>8. LostMayBeRetried /\ code \in NoRetry => minted[c] = {}
  <2> SUFFICES ASSUME LostMayBeRetried, code \in NoRetry PROVE minted[c] = {}
    OBVIOUS
  <2>1. s.tokens = {} /\ code # "Internal"
    BY <1>3 DEF NoRetry
  <2>2. {s.teamErr, s.sessionErr} \subseteq NoRetry \cup {NoCode}
    BY <1>3, <2>1
  <2> QED
    BY <1>1, <1>2, <2>1, <2>2 DEF CleanInv, PublicServing
<1>9. asked[c] => asked[c] \/ MainRoom(call[c].req) \in seen[c].held
  OBVIOUS
<1>10. /\ v \in CallState /\ v.req = call[c].req
       /\ PublicCallInv(v, minted[c], asked[c], seen[c])
       /\ PublicReplyInv(v, minted[c], seen[c])
  <2>1. call[c].pc \in PublicServing /\ AnswerInv(PublicReturn(c, code), seen[c])
    BY <1>1, <1>7 DEF PublicServing, v
  <2> QED
    BY <1>2, <1>4, <1>8, <1>9, <2>1, ReturnInv DEF v
<1> QED
  BY <1>1, <1>2, <1>10, PublicLocalStep DEF PublicServing

\* A change of the backends' data happens to every call at once: those whose
\* histories are kept and that are being served have it recorded.
LEMMA PublicWatchInv ==
  ASSUME NEW on, PublicInvFor(on), BackendsTypeOK', NEW cs, PublicWatch(cs),
         \A c \in Call : c \in cs <=> c \in on /\ call[c].pc \in PublicServing
  PROVE  PublicInvFor(on)'
<1>2. /\ call' = call /\ minted' = minted /\ asked' = asked
      /\ seen' = [c \in Call |-> IF c \in cs THEN PublicBoth(seen[c], PublicNow(call[c].req.user)')
                                 ELSE seen[c]]
  BY DEF PublicWatch
<1>3. ASSUME NEW c \in Call
      PROVE  /\ seen'[c] \in PublicHistory
             /\ PublicCallInv(call[c], minted[c], asked[c], seen[c])'
             /\ PublicReplyInv(call[c], minted[c], seen[c])'
             /\ c \in on => PublicUpToDate(call[c], seen[c])'
  <2>1. /\ PublicCallInv(call[c], minted[c], asked[c], seen[c])
        /\ PublicReplyInv(call[c], minted[c], seen[c])
        /\ seen[c] \in PublicHistory
    BY DEF PublicInvFor, PublicTypeOK
  <2>2. CASE c \in cs
    <3>1. call[c].req.user \in User
      <4>1. call[c] \in CallState
        BY <2>2, PublicMiddle DEF PublicServing
      <4>2. call[c].req.user # NoUser
        BY <2>1, <2>2 DEF PublicCallInv
      <4> QED
        BY <4>1, <4>2 DEF CallState, Request, PartyRequest, SessionRequest
    <3> DEFINE u == call[c].req.user
    <3>2. RoomsListing(u)' = RoomsListing(u)'
          /\ seen'[c] = [held |-> seen[c].held \cup RoomsListing(u)',
                         missed |-> seen[c].missed \cup (Room \ RoomsListing(u)'),
                         links |-> seen[c].links \cup {link'[u]}]
      BY <1>2, <2>2, <3>1, PublicAssumption DEF PublicBoth, PublicNow
    <3>3. RoomsListing(u)' \subseteq Room
      BY <1>2 DEF RoomsListing, RoomID, Room, Group
    <3>4. link'[u] \in Puid \cup {NoPuid}
      BY <3>1 DEF BackendsTypeOK
    <3>5. seen'[c] \in PublicHistory
      BY <2>1, <3>2, <3>3, <3>4 DEF PublicHistory
    <3>6. PublicCallInv(call[c], minted[c], asked[c], seen'[c])
      BY <2>1, <3>2, PublicMoreSeen
    <3>7. PublicReplyInv(call[c], minted[c], seen'[c])
      BY <2>1, <3>2, ReplyMoreSeen
    <3>8. PublicUpToDate(call[c], seen[c])'
      BY <1>2, <3>2 DEF PublicUpToDate
    <3> QED
      BY <1>2, <3>5, <3>6, <3>7, <3>8
  <2>3. CASE c \notin cs
    <3>1. seen'[c] = seen[c]
      BY <1>2, <2>3
    <3>2. c \in on => PublicUpToDate(call[c], seen[c])'
      BY <1>2, <2>3 DEF PublicUpToDate
    <3> QED
      BY <1>2, <2>1, <3>1, <3>2
  <2> QED
    BY <2>2, <2>3
<1>4. seen' \in [Call -> PublicHistory]
  BY <1>2, <1>3
<1>5. PublicTypeOK'
  BY <1>2, <1>4 DEF PublicInvFor, PublicTypeOK
<1> QED
  BY <1>3, <1>5 DEF PublicInvFor

\* The steps of a handler.
LEMMA PublicHandlerInv ==
  ASSUME NEW on, PublicInvFor(on), NEW c \in Call, c \in on, PublicHandler(c)
  PROVE  PublicInvFor(on)'
BY ValidateInv, ResolveInv, PartyTokenInv, GetTeamInv, TeamTokenInv, SessionTokenInv,
   PublicFinishInv DEF PublicHandler

\* What others do to Epic's rooms does not matter.
LEMMA PublicElsewhere ==
  ASSUME NEW on, PublicInvFor(on), UNCHANGED publicVars, SameData, BackendsTypeOK'
  PROVE  PublicInvFor(on)'
<1>1. call' = call /\ minted' = minted /\ asked' = asked /\ seen' = seen
  BY DEF publicVars
<1>2. PublicTypeOK'
  BY <1>1 DEF PublicInvFor, PublicTypeOK
<1>3. ASSUME NEW c \in Call
      PROVE  /\ PublicCallInv(call[c], minted[c], asked[c], seen[c])'
             /\ PublicReplyInv(call[c], minted[c], seen[c])'
  BY <1>1 DEF PublicInvFor
<1>4. ASSUME NEW c \in Call \cap on PROVE PublicUpToDate(call[c], seen[c])'
  BY <1>1 DEF PublicInvFor, PublicUpToDate, RoomsListing, Lists, SameData
<1> QED
  BY <1>2, <1>3, <1>4 DEF PublicInvFor

LEMMA PublicNextInv == PublicInv /\ [PublicNext]_publicAll => PublicInv'
<1> SUFFICES ASSUME PublicInvFor(Call), [PublicNext]_publicAll PROVE PublicInvFor(Call)'
  BY DEF PublicInv
<1>1. ASSUME NEW c \in Call, PublicHandler(c) PROVE PublicInvFor(Call)'
  BY <1>1, PublicHandlerInv
<1>2. ASSUME NEW c \in Call, NEW r \in Request, PublicBegin(c, r) PROVE PublicInvFor(Call)'
  BY <1>2, PublicBeginInv
<1>3. CASE PublicWorld
  <2>1. BackendsTypeOK'
    BY <1>3, BackendsChangeType DEF PublicInvFor, PublicTypeOK, PublicWorld
  <2>2. PICK cs : cs = {c \in Call : call[c].pc \in PublicServing}
    OBVIOUS
  <2>3. PublicWatch(cs)
    BY <1>3, <2>2 DEF PublicWorld
  <2>4. \A c \in Call : c \in cs <=> c \in Call /\ call[c].pc \in PublicServing
    BY <2>2
  <2> QED
    BY <2>1, <2>3, <2>4, PublicWatchInv
<1>4. CASE UNCHANGED publicAll
  <2>1. UNCHANGED publicVars /\ SameData /\ BackendsTypeOK'
    BY <1>4 DEF publicAll, backendVars, SameData, PublicInvFor, PublicTypeOK, BackendsTypeOK
  <2> QED
    BY <2>1, PublicElsewhere
<1> QED
  BY <1>1, <1>2, <1>3, <1>4 DEF PublicNext

-----------------------------------------------------------------------------
(* The theorems. *)

\* The invariant that the grant properties follow from is inductive.
THEOREM PublicInductive == PublicSpec => []PublicInv
<1>1. PublicInv /\ [PublicNext]_publicAll => PublicInv'
  BY PublicNextInv
<1> QED
  BY <1>1, PublicInitInv, PTL DEF PublicSpec

\* The local variables of the handlers, Epic's admissions and the histories
\* stay within their types.
THEOREM PublicTypeCorrect == PublicSpec => []PublicTypeOK
<1>1. PublicInv => PublicTypeOK
  BY DEF PublicInv, PublicInvFor, PublicInvFor
<1> QED
  BY <1>1, PublicInductive, PTL

\* Different tokens are of different channels, so there are as many of them.
LEMMA OneTokenPerChannel ==
  ASSUME NEW v, NEW m, v.tokens \subseteq PublicToken, PublicTokensInv(v, m)
  PROVE  Cardinality(v.tokens) = Cardinality(Got(v))
<1> DEFINE f == [t \in v.tokens |-> t.channel]
<1>1. f \in Injection(v.tokens, Got(v)) /\ f \in Surjection(v.tokens, Got(v))
  BY DEF Injection, Surjection, IsInjective, Got, PublicTokensInv
<1>2. IsFiniteSet(Got(v))
  <2>1. IsFiniteSet({"PARTY", "TEAM", "SESSION"})
    <3>1. IsFiniteSet({"PARTY"})
      BY FS_Singleton
    <3>2. IsFiniteSet({"PARTY"} \cup {"TEAM"})
      BY <3>1, FS_AddElement
    <3>3. IsFiniteSet(({"PARTY"} \cup {"TEAM"}) \cup {"SESSION"})
      BY <3>2, FS_AddElement
    <3> QED
      BY <3>3
  <2>2. Got(v) \subseteq {"PARTY", "TEAM", "SESSION"}
    BY DEF Got, PublicToken
  <2> QED
    BY <2>1, <2>2, FS_Subset
<1> QED
  BY <1>1, <1>2, FS_Injection

\* What the invariant says of each call, whosever histories are kept.
LEMMA PublicPromises ==
  ASSUME NEW on, PublicInvFor(on)
  PROVE  /\ GrantOnlyToListed /\ GrantIdentity /\ AskedOnlyForMembers
         /\ LostMayBeRetried => RefusalLeavesNoGrant
         /\ UpstreamNeverRefuses => RefusalJustified
         /\ ReplyAccountsForChannels
<1>1. GrantOnlyToListed
  BY DEF PublicInvFor, PublicCallInv, GrantOnlyToListed
<1>2. GrantIdentity
  <2> SUFFICES ASSUME NEW c \in Call, NEW g \in minted[c]
               PROVE  /\ g[2] = call[c].puid
                      /\ \/ g[2] = call[c].req.puid
                         \/ call[c].req.puid = NoPuid /\ g[2] \in seen[c].links
    BY DEF GrantIdentity
  <2>1. PublicCallInv(call[c], minted[c], asked[c], seen[c])
    BY DEF PublicInvFor
  <2> QED
    BY <2>1 DEF PublicCallInv, OwnPuid
<1>3. AskedOnlyForMembers
  BY DEF PublicInvFor, PublicCallInv, AskedOnlyForMembers
<1>4. LostMayBeRetried => RefusalLeavesNoGrant
  BY DEF PublicInvFor, PublicReplyInv, CleanInv, RefusalLeavesNoGrant, PublicAt
<1>5. UpstreamNeverRefuses => RefusalJustified
  <2> SUFFICES ASSUME UpstreamNeverRefuses, NEW c \in Call, call[c].pc = "done",
                      call[c].reply \in Refusing, ~call[c].req.team
               PROVE  \/ call[c].reply = "FailedPrecondition" /\ NoPuid \in seen[c].links
                      \/ /\ call[c].reply \in {"NotFound", "PermissionDenied"}
                         /\ MainRoom(call[c].req) \in seen[c].missed
    BY DEF RefusalJustified, PublicAt, Refusing
  <2>1. AnswerInv(call[c], seen[c])
    BY DEF PublicInvFor, PublicReplyInv
  <2> QED
    BY <2>1 DEF AnswerInv
<1>6. ReplyAccountsForChannels
  <2> SUFFICES ASSUME NEW c \in Call, call[c].pc = "done"
               PROVE  LET v == call[c]
                      IN /\ Got(v) \subseteq Wants(v.req)
                         /\ (v.reply = "OK") <=> (Got(v) # {})
                         /\ Cardinality(v.tokens) = Cardinality(Got(v))
                         /\ \A t \in v.tokens :
                              /\ t.blank \/ <<t.room, t.puid>> \in minted[c]
                              /\ t.room[1] = v.req.group
                              /\ t.channel # "TEAM" => t.room = MainRoom(v.req)
                         /\ v.reply = "OK" => \A ch \in Wants(v.req) \ Got(v) :
                                                ErrorOf(v, ch) # NoCode
    BY DEF ReplyAccountsForChannels, PublicAt
  <2>1. /\ PublicTokensInv(call[c], minted[c]) /\ AnswerInv(call[c], seen[c])
        /\ call[c].tokens \subseteq PublicToken
    <3>1. call[c] \in CallState
      BY DEF PublicInvFor, PublicTypeOK, PublicIdle
    <3> QED
      BY <3>1 DEF PublicInvFor, PublicReplyInv, CallState
  <2>2. Got(call[c]) \subseteq Wants(call[c].req)
    BY <2>1 DEF PublicTokensInv, Got
  <2>3. Got(call[c]) # {} <=> call[c].tokens # {}
    BY DEF Got
  <2>4. Cardinality(call[c].tokens) = Cardinality(Got(call[c]))
    BY <2>1, OneTokenPerChannel
  <2> QED
    BY <2>1, <2>2, <2>3, <2>4 DEF PublicTokensInv, AnswerInv
<1> QED
  BY <1>1, <1>2, <1>3, <1>4, <1>5, <1>6

\* Nobody is admitted to a room that has not listed the caller since the call
\* began.
THEOREM GrantsOnlyToListed == PublicSpec => []GrantOnlyToListed
<1>1. PublicInv => GrantOnlyToListed
  BY PublicPromises DEF PublicInv
<1> QED
  BY <1>1, PublicInductive, PTL

\* All that a call obtains is for one PUID, given with the request or linked
\* to the caller since the call began.
THEOREM GrantsOneIdentity == PublicSpec => []GrantIdentity
<1>1. PublicInv => GrantIdentity
  BY PublicPromises DEF PublicInv
<1> QED
  BY <1>1, PublicInductive, PTL

\* Epic is asked on behalf of a caller only after the party or session of the
\* request was seen to list it.
THEOREM AsksOnlyForMembers == PublicSpec => []AskedOnlyForMembers
<1>1. PublicInv => AskedOnlyForMembers
  BY PublicPromises DEF PublicInv
<1> QED
  BY <1>1, PublicInductive, PTL

\* A "do not retry" reply leaves no admission behind, if no error after which
\* the effect is unknown reads like one that must not be retried.
THEOREM RefusalsLeaveNoGrant ==
  ASSUME LostMayBeRetried PROVE PublicSpec => []RefusalLeavesNoGrant
<1>1. PublicInv => RefusalLeavesNoGrant
  BY PublicPromises DEF PublicInv
<1> QED
  BY <1>1, PublicInductive, PTL

\* A refusal is true of some instant since the call began, if no upstream error
\* reads like a refusal.
THEOREM RefusalsJustified ==
  ASSUME UpstreamNeverRefuses PROVE PublicSpec => []RefusalJustified
<1>1. PublicInv => RefusalJustified
  BY PublicPromises DEF PublicInv
<1> QED
  BY <1>1, PublicInductive, PTL

\* A reply accounts for every channel the request asked for.
THEOREM RepliesAccountForChannels == PublicSpec => []ReplyAccountsForChannels
<1>1. PublicInv => ReplyAccountsForChannels
  BY PublicPromises DEF PublicInv
<1> QED
  BY <1>1, PublicInductive, PTL
=============================================================================
