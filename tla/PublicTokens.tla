---------------------------- MODULE PublicTokens ----------------------------
(***************************************************************************)
(* GeneratePartyToken and GenerateSessionToken of pkg/service/eosService.go*)
(* with the validator and the Epic client methods they call.               *)
(*                                                                         *)
(* Every gRPC call runs in a goroutine of its own and the program keeps no *)
(* state between its upstream requests, so a call is a record of the       *)
(* handler's local variables and each upstream request is one action: the  *)
(* answer it acts on is the backends' state at that instant, which may     *)
(* have changed by the next one.  Data the handlers only pass through      *)
(* (hardMuted, client IP, base URL, token text) is left out.               *)
(***************************************************************************)
EXTENDS VoiceBackends

CONSTANTS
  Call,       \* the calls of one behaviour, each served once
  NoUser,     \* a bearer token that yields no user id
  NoGroup,    \* the empty party_id or session_id
  BlankPuid   \* a puid field of white space only

ASSUME PublicAssumption ==
  /\ NoUser \notin User
  /\ NoGroup \notin Group
  /\ BlankPuid \notin Puid \cup {NoPuid}

VARIABLES
  call,    \* call[c]: the local variables of the handler serving c
  \* History, read by properties only:
  minted,  \* minted[c]: <<room, puid>> admissions because of c, late ones too
  asked,   \* asked[c]: c has sent a request to Epic
  seen     \* seen[c]: what has held of c's user at some instant since c began

publicVars == <<call, minted, asked, seen>>
publicAll == <<backendVars, publicVars>>

\* A request: the bearer token's user, the party or session it names, and
\* for a session which of the two tokens it asks for.
PartyRequest ==
  [kind : {"PARTY"}, user : User \cup {NoUser}, group : Party \cup {NoGroup},
   team : {FALSE}, session : {FALSE}, puid : Puid \cup {NoPuid, BlankPuid}]
SessionRequest ==
  [kind : {"SESSION"}, user : User \cup {NoUser}, group : Session \cup {NoGroup},
   team : BOOLEAN, session : BOOLEAN, puid : Puid \cup {NoPuid, BlankPuid}]
Request == PartyRequest \cup SessionRequest

\* blank: Epic's answer held no token, and the reply passes that on.
PublicToken ==
  [channel : {"PARTY", "TEAM", "SESSION"}, room : Room, puid : Puid, blank : BOOLEAN]

PublicServing == {"validate", "resolve", "party", "getTeam", "team", "session", "finish"}

CallState ==
  [pc : PublicServing \cup {"done"}, req : Request, puid : Puid \cup {NoPuid},
   teamID : TeamID, tokens : SUBSET PublicToken, teamErr : Codes \cup {NoCode},
   sessionErr : Codes \cup {NoCode}, reply : Codes \cup {NoCode}]

PublicIdle == [pc |-> "idle"]

PublicHistory ==
  [held : SUBSET Room, missed : SUBSET Room, links : SUBSET (Puid \cup {NoPuid})]

PublicTypeOK ==
  /\ BackendsTypeOK
  /\ call \in [Call -> CallState \cup {PublicIdle}]
  /\ minted \in [Call -> SUBSET (Room \X Puid)]
  /\ asked \in [Call -> BOOLEAN]
  /\ seen \in [Call -> PublicHistory]

PublicInit ==
  /\ BackendsInit
  /\ call = [c \in Call |-> PublicIdle]
  /\ minted = [c \in Call |-> {}]
  /\ asked = [c \in Call |-> FALSE]
  /\ seen = [c \in Call |-> [held |-> {}, missed |-> {}, links |-> {}]]

PublicAt(c, pc) == call[c].pc = pc

\* What holds of user u at this instant.
PublicNow(u) ==
  IF u = NoUser THEN [held |-> {}, missed |-> {}, links |-> {}]
  ELSE [held |-> RoomsListing(u), missed |-> Room \ RoomsListing(u), links |-> {link[u]}]

PublicBoth(h, n) ==
  [held |-> h.held \cup n.held, missed |-> h.missed \cup n.missed, links |-> h.links \cup n.links]

-----------------------------------------------------------------------------
(* What the calls of the validator and the Epic client may return.  Each   *)
(* operator is the set of results possible in the current state.           *)

UpstreamErrors == StatusErrors \cup LostErrors

\* Mutant: the member list is not searched.
ValidateUserInPartyExists(u, p) ==
  {IF p \in live THEN NoCode ELSE ToGRPCStatus(ErrPartyNotFound)}

\* The error code, or NoCode if the party lists the user.
ValidateUserInParty(u, p) ==
  { CASE p \notin live -> ToGRPCStatus(ErrPartyNotFound)
      [] Lists(p, u)   -> NoCode
      [] OTHER         -> ToGRPCStatus(ErrUserNotInParty) }
    \cup {ParseHTTPError(e, "party") : e \in UpstreamErrors}

\* The same for GetSession followed by the search of its member list.
ValidateUserInSession(u, s) ==
  { CASE s \notin live -> ToGRPCStatus(ErrSessionNotFound)
      [] Lists(s, u)   -> NoCode
      [] OTHER         -> ToGRPCStatus(ErrUserNotInSession) }
    \cup {ParseHTTPError(e, "session") : e \in UpstreamErrors}

\* Mutant: any team of the session will do.
GetUserTeamInSessionAny(u, s) == IF Lists(s, u) THEN Team ELSE {NoTeam}

\* A non-empty team that names the user, or NoTeam for any error: the caller
\* turns every error into the same one.  The order of the teams is left open.
GetUserTeamInSession(u, s) ==
  LET naming == {t \in Team : u \in teams[s][t]}
  IN (IF Lists(s, u) /\ naming # {} THEN naming ELSE {NoTeam})
       \cup (IF UpstreamErrors = {} THEN {} ELSE {NoTeam})

\* The user's linked PUID, or the error code.
GetEpicPUID(u) ==
  { [puid |-> link[u],
     err  |-> IF link[u] = NoPuid THEN ToGRPCStatus(ErrEpicAccountNotLinked) ELSE NoCode] }
    \cup {[puid |-> NoPuid, err |-> ParseHTTPError(e, "epic_puid")] : e \in UpstreamErrors}

\* Mutant: a PUID of white space only is taken for one.
ResolvePUIDUntrimmed(u, provided) ==
  IF provided = NoPuid THEN GetEpicPUID(u) ELSE {[puid |-> provided, err |-> NoCode]}

\* Mutant: the PUID given with the request is not used.
ResolvePUIDLinked(u, provided) == GetEpicPUID(u)

\* The PUID given with the request counts without asking Epic about it.
ResolvePUID(u, provided) ==
  CASE provided = NoPuid    -> GetEpicPUID(u)
    [] provided = BlankPuid -> {[puid |-> NoPuid, err |-> "InvalidArgument"]}
    [] OTHER                -> {[puid |-> provided, err |-> NoCode]}

-----------------------------------------------------------------------------
(* The handlers, one action per upstream request.                          *)

\* The handler of c returns with code.
PublicReturn(c, code) == [call[c] EXCEPT !.pc = "done", !.reply = code]

\* The checks a handler makes before its first upstream request.
Refusal(r) ==
  CASE r.kind = "SESSION" /\ ~r.team /\ ~r.session -> "InvalidArgument"
    [] r.group = NoGroup -> "InvalidArgument"
    [] OTHER -> IF r.user = NoUser THEN "Unauthenticated" ELSE NoCode

PublicBegin(c, r) ==
  /\ PublicAt(c, "idle")
  /\ call' = [call EXCEPT ![c] =
       [pc |-> IF Refusal(r) = NoCode THEN "validate" ELSE "done",
        req |-> r, puid |-> NoPuid, teamID |-> NoTeam, tokens |-> {},
        teamErr |-> NoCode, sessionErr |-> NoCode, reply |-> Refusal(r)]]
  /\ seen' = [seen EXCEPT ![c] = PublicNow(r.user)]
  /\ UNCHANGED <<backendVars, minted, asked>>

Validate(c) ==
  LET r == call[c].req
  IN /\ PublicAt(c, "validate")
     /\ \E err \in IF r.kind = "PARTY" THEN ValidateUserInParty(r.user, r.group)
                                       ELSE ValidateUserInSession(r.user, r.group) :
           call' = [call EXCEPT ![c] =
             IF err = NoCode THEN [@ EXCEPT !.pc = "resolve"] ELSE PublicReturn(c, err)]
     /\ UNCHANGED <<backendVars, minted, asked, seen>>

Resolve(c) ==
  LET r == call[c].req
      next == CASE r.kind = "PARTY" -> "party"
                [] r.team           -> "getTeam"
                [] OTHER            -> "session"
  IN /\ PublicAt(c, "resolve")
     /\ \E res \in ResolvePUID(r.user, r.puid) :
           call' = [call EXCEPT ![c] =
             IF res.err = NoCode THEN [@ EXCEPT !.pc = next, !.puid = res.puid]
                                 ELSE PublicReturn(c, res.err)]
     /\ asked' = [asked EXCEPT ![c] = (r.puid = NoPuid)]
     /\ UNCHANGED <<backendVars, minted, seen>>

\* Epic answers a for room to the request of c.
CreateRoomToken(c, room, a) ==
  /\ Asked(Admission(room, {call[c].puid}), a.effect)
  /\ minted' = [minted EXCEPT ![c] = @ \cup Admitting(a, room, {call[c].puid})]
  /\ asked' = [asked EXCEPT ![c] = TRUE]
  /\ UNCHANGED seen

\* The error code made of Epic's answer a, NoCode if it is taken for a token:
\* that a participant is there is looked at, its token is not.
PublicRoomCode(a) ==
  CASE a.kind = "error" -> ParseHTTPError(a.text, "epic_rtc")
    [] a.kind = "empty" -> ToGRPCStatus(ErrEpicRTCAPI)
    [] OTHER            -> NoCode

\* What the handler of c takes from Epic's answer a for room.
TokenFor(c, channel, room, a) ==
  [channel |-> channel, room |-> room, puid |-> call[c].puid, blank |-> a.kind = "blank"]

PartyToken(c) ==
  LET room == RoomID(call[c].req.group, Voice)
  IN /\ PublicAt(c, "party")
     /\ \E a \in RoomAnswers :
          /\ CreateRoomToken(c, room, a)
          /\ call' = [call EXCEPT ![c] =
               IF PublicRoomCode(a) = NoCode
               THEN [PublicReturn(c, "OK") EXCEPT !.tokens = {TokenFor(c, "PARTY", room, a)}]
               ELSE PublicReturn(c, PublicRoomCode(a))]

\* Mutant: the session token is only asked for if no team token is wanted.
AfterTeamDone(c) == "finish"

\* Where the session handler goes when it is through with the team token.
AfterTeam(c) == IF call[c].req.session THEN "session" ELSE "finish"

\* Mutant: the team is looked up again until there is one.
GetTeamRetrying(c) ==
  LET r == call[c].req
  IN /\ PublicAt(c, "getTeam")
     /\ \E t \in GetUserTeamInSession(r.user, r.group) :
          call' = [call EXCEPT ![c] =
            IF t # NoTeam THEN [@ EXCEPT !.pc = "team", !.teamID = t] ELSE @]
     /\ UNCHANGED <<backendVars, minted, asked, seen>>

\* The first half of generateTeamTokenInternal: a second fetch of the session.
GetTeam(c) ==
  LET r == call[c].req
  IN /\ PublicAt(c, "getTeam")
     /\ \E t \in GetUserTeamInSession(r.user, r.group) :
          call' = [call EXCEPT ![c] =
            IF t # NoTeam THEN [@ EXCEPT !.pc = "team", !.teamID = t]
            ELSE [@ EXCEPT !.pc = AfterTeam(c), !.teamErr = "FailedPrecondition"]]
     /\ UNCHANGED <<backendVars, minted, asked, seen>>

TeamToken(c) ==
  LET room == RoomID(call[c].req.group, call[c].teamID)
  IN /\ PublicAt(c, "team")
     /\ \E a \in RoomAnswers :
          /\ CreateRoomToken(c, room, a)
          /\ call' = [call EXCEPT ![c] =
               IF PublicRoomCode(a) = NoCode
               THEN [@ EXCEPT !.pc = AfterTeam(c),
                              !.tokens = call[c].tokens \cup {TokenFor(c, "TEAM", room, a)}]
               ELSE [@ EXCEPT !.pc = AfterTeam(c), !.teamErr = PublicRoomCode(a)]]

SessionToken(c) ==
  LET room == RoomID(call[c].req.group, Voice)
  IN /\ PublicAt(c, "session")
     /\ \E a \in RoomAnswers :
          /\ CreateRoomToken(c, room, a)
          /\ call' = [call EXCEPT ![c] =
               IF PublicRoomCode(a) = NoCode
               THEN [@ EXCEPT !.pc = "finish",
                              !.tokens = call[c].tokens \cup {TokenFor(c, "SESSION", room, a)}]
               ELSE [@ EXCEPT !.pc = "finish", !.sessionErr = PublicRoomCode(a)]]

\* Mutant: the first failure is the reply, whatever the other request gave.
SessionReplyFirstError(c) ==
  LET v == call[c]
  IN CASE v.teamErr # NoCode                         -> v.teamErr
       [] v.teamErr = NoCode /\ v.sessionErr # NoCode -> v.sessionErr
       [] OTHER                                      -> "OK"

\* The reply of GenerateSessionToken once both token requests are behind it.
SessionReply(c) ==
  LET v == call[c]
      failed == {e \in {"team", "session"} :
                   (IF e = "team" THEN v.teamErr ELSE v.sessionErr) # NoCode}
  IN CASE v.tokens # {}          -> "OK"
       [] OTHER -> CASE failed = {"team"}    -> v.teamErr
                     [] failed = {"session"} -> v.sessionErr
                     [] OTHER                -> "Internal"

PublicFinish(c) ==
  /\ PublicAt(c, "finish")
  /\ call' = [call EXCEPT ![c] = PublicReturn(c, SessionReply(c))]
  /\ UNCHANGED <<backendVars, minted, asked, seen>>

PublicHandler(c) ==
  Validate(c) \/ Resolve(c) \/ PartyToken(c) \/ GetTeam(c) \/ TeamToken(c)
    \/ SessionToken(c) \/ PublicFinish(c)

\* The histories of the calls cs take in what has become of the backends' data.
PublicWatch(cs) ==
  /\ UNCHANGED <<call, minted, asked>>
  /\ seen' = [c \in Call |->
       IF c \in cs THEN PublicBoth(seen[c], PublicNow(call[c].req.user)') ELSE seen[c]]

\* The backends' data changes while calls are being served.
PublicWorld == BackendsChange /\ PublicWatch({c \in Call : call[c].pc \in PublicServing})

PublicNext ==
  \/ \E c \in Call : PublicHandler(c) \/ \E r \in Request : PublicBegin(c, r)
  \/ PublicWorld

\* Every upstream request of a handler returns: the HTTP clients time out.
PublicFairness == \A c \in Call : WF_publicAll(PublicHandler(c))

PublicSpec == PublicInit /\ [][PublicNext]_publicAll /\ PublicFairness

-----------------------------------------------------------------------------
(* Properties. *)

\* The session or party room of a request.
MainRoom(r) == RoomID(r.group, Voice)

\* Whatever the backends do while a call is being served, Epic admits nobody
\* because of it except to a room that listed the caller at some instant since
\* the call began: for a team room, one instant at which the session listed
\* the caller and the team named it.  The handlers look at the member list
\* once, before other requests that can take their time.
GrantOnlyToListed ==
  \A c \in Call : \A g \in minted[c] : g[1] \in seen[c].held

\* All that a call obtains is for one PUID, the one given with the request or
\* one linked to the caller since the call began, although the link may change
\* between the team token and the session token.
GrantIdentity ==
  \A c \in Call : \A g \in minted[c] :
    /\ g[2] = call[c].puid
    /\ g[2] = call[c].req.puid \/ (call[c].req.puid = NoPuid /\ g[2] \in seen[c].links)

\* Fail fast: Epic, link lookup included, is asked on behalf of a caller only
\* if the party or session of the request has listed it since the call began
\* (docs/architecture.md, "Fail-Fast Validation Pattern").
AskedOnlyForMembers ==
  \A c \in Call : asked[c] => MainRoom(call[c].req) \in seen[c].held

\* A reply with one of the codes that clients must not retry leaves no
\* admission behind at Epic, not even when a request that took effect was
\* reported to the program as failed.
RefusalLeavesNoGrant ==
  \A c \in Call : PublicAt(c, "done") /\ call[c].reply \in NoRetry => minted[c] = {}

\* When upstream failures are transient, a "do not retry" reply to a complete
\* request is true: some instant since the call began had the caller outside
\* the party or session, or without a linked account.  For requests without a
\* team token; the team token is another matter (FailedPreconditionMeant).
RefusalJustified ==
  \A c \in Call :
    LET v == call[c]
    IN /\ PublicAt(c, "done")
       /\ v.reply \in NoRetry \ {"InvalidArgument"}
       /\ ~v.req.team
       => \/ v.reply = "FailedPrecondition" /\ NoPuid \in seen[c].links
          \/ v.reply \in {"NotFound", "PermissionDenied"} /\ MainRoom(v.req) \in seen[c].missed

\* The channels that request r asks for, those that v has an entry for, and the
\* error that v keeps of a channel's own request.
Wants(r) ==
  IF r.kind = "PARTY" THEN {"PARTY"}
  ELSE {ch \in {"TEAM", "SESSION"} : IF ch = "TEAM" THEN r.team ELSE r.session}
Got(v) == {t.channel : t \in v.tokens}
ErrorOf(v, ch) == IF ch = "TEAM" THEN v.teamErr ELSE v.sessionErr

\* A success reply accounts for every channel the request asked for: it has an
\* entry for the channel, or the channel's own request failed; at least one
\* entry, one of each channel, each for the request's own group, and each that
\* holds a token backed by an admission this call obtained.  (An entry without
\* a token may be backed by none: the handlers do not look.)  An error reply
\* means that every requested channel failed.
ReplyAccountsForChannels ==
  \A c \in Call : PublicAt(c, "done")
    /\ call[c].reply \notin {"InvalidArgument", "Unauthenticated"} =>
    LET v == call[c]
    IN /\ Got(v) \subseteq Wants(v.req)
       /\ (v.reply = "OK") <=> (Got(v) # {})
       /\ Cardinality(v.tokens) = Cardinality(Got(v))
       /\ \A t \in v.tokens :
            /\ t.blank \/ <<t.room, t.puid>> \in minted[c]
            /\ t.room[1] = v.req.group
            /\ t.channel # "TEAM" => t.room = MainRoom(v.req)
       /\ v.reply = "OK" => \A ch \in Wants(v.req) \ Got(v) : ErrorOf(v, ch) # NoCode

\* docs/operations.md says of gRPC code 9 that it is custom code 40303, "link
\* Epic account first", never to be retried; the tests have it for a caller
\* without a team as well.  So one who gets it is, at some instant since the call
\* began, without a linked account, or asks for a team token and is, of each
\* team, at some instant no member.
FailedPreconditionMeant ==
  \A c \in Call :
    LET r == call[c].req
    IN PublicAt(c, "done") /\ call[c].reply = "FailedPrecondition" =>
         \/ NoPuid \in seen[c].links
         \/ r.team /\ \A t \in Team : RoomID(r.group, t) \in seen[c].missed

\* What c may bring about: the caller's admission to rooms that have listed it
\* since c began, under the PUID of the request or else a PUID linked since then.
PublicRights(c) ==
  IF PublicAt(c, "idle") THEN {}
  ELSE seen[c].held \X
         ((IF call[c].req.puid = NoPuid THEN seen[c].links ELSE {call[c].req.puid}) \cap Puid)

Stage ==
  [c \in Call |->
     CASE PublicAt(c, "idle") -> "idle" [] PublicAt(c, "done") -> "closed" [] OTHER -> "open"]
Entitlement == [c \in Call |-> PublicRights(c)]

PublicRooms == INSTANCE VoiceRooms WITH
  Granting <- Call, Revoking <- {}, rooms <- admitted, state <- Stage, may <- Entitlement

\* All that Epic's rooms gain, they gain by right of a call: while it is being
\* served, or later for a request of the call that was late.
PublicImplementsRooms == PublicRooms!Spec

\* Every call that passes the first checks is answered, whatever the backends
\* answer and however their data changes meanwhile.
EveryCallReplies ==
  \A c \in Call : call[c].pc \in PublicServing ~> PublicAt(c, "done")

-----------------------------------------------------------------------------
(* The inductive invariant behind the grant properties, call by call: what *)
(* the handler's place in the code tells about its variables v, the        *)
(* admissions m, Epic requests e and history h of the call.                *)

\* The PUID of v is the one the request gave, or was linked to the caller.
OwnPuid(v, h) ==
  /\ v.puid \in Puid
  /\ v.puid = v.req.puid \/ (v.req.puid = NoPuid /\ v.puid \in h.links)

PublicCallInv(v, m, e, h) ==
  /\ v.pc \in {"idle", "validate", "resolve"} => m = {} /\ ~e
  /\ v.pc \in PublicServing => v.req.group # NoGroup /\ v.req.user # NoUser
  /\ v.pc \in PublicServing \ {"validate"} => MainRoom(v.req) \in h.held
  /\ v.pc \in {"party", "getTeam", "team", "session", "finish"} => OwnPuid(v, h)
  /\ v.pc = "party" => v.req.kind = "PARTY"
  /\ v.pc \in {"getTeam", "team", "session"} => v.req.kind = "SESSION"
  /\ v.pc = "team" => v.teamID \in Team /\ RoomID(v.req.group, v.teamID) \in h.held
  /\ e => MainRoom(v.req) \in h.held
  /\ m # {} => OwnPuid(v, h)
  /\ \A g \in m : g[1] \in h.held /\ g[2] = v.puid

\* No error after which the effect is unknown reads like one that must not be
\* retried; no upstream error at all reads like a refusal.
LostMayBeRetried == \A e \in LostErrors : ParseHTTPError(e, "epic_rtc") \notin NoRetry
Refusing == NoRetry \ {"InvalidArgument"}
UpstreamNeverRefuses ==
  \A e \in UpstreamErrors : \A context \in {"party", "session", "epic_puid", "epic_rtc"} :
    ParseHTTPError(e, context) \notin Refusing

\* The channels whose requests the handler has behind it.
Behind(v) ==
  CASE v.pc = "session" -> {"TEAM"} [] v.pc = "finish" -> {"TEAM", "SESSION"} [] OTHER -> {}

\* Tokens are of admissions, unless blank, and of channels asked for, one of
\* each channel.
PublicTokensInv(v, m) ==
  /\ \A t \in v.tokens :
       /\ t.blank \/ <<t.room, t.puid>> \in m
       /\ t.room[1] = v.req.group
       /\ t.channel \in Wants(v.req)
       /\ t.channel # "TEAM" => t.room = MainRoom(v.req)
  /\ \A s, t \in v.tokens : s.channel = t.channel => s = t

\* A channel that is behind the handler has left a token or an error, the
\* others neither.
ChannelsInv(v) ==
  /\ Wants(v.req) # {}
  /\ v.teamErr # "OK" /\ v.sessionErr # "OK"
  /\ Got(v) \subseteq Behind(v)
  /\ \A ch \in {"TEAM", "SESSION"} :
       IF ch \in Behind(v) \cap Wants(v.req) THEN (ch \in Got(v)) <=> (ErrorOf(v, ch) = NoCode)
                                           ELSE ErrorOf(v, ch) = NoCode

\* What the reply says of the channels and of the history.
AnswerInv(v, h) ==
  /\ (v.reply = "OK") <=> (v.tokens # {})
  /\ v.reply = "OK" => \A ch \in Wants(v.req) \ Got(v) : ErrorOf(v, ch) # NoCode
  /\ UpstreamNeverRefuses /\ v.reply \in Refusing /\ ~v.req.team =>
       \/ v.reply = "FailedPrecondition" /\ NoPuid \in h.links
       \/ v.reply \in {"NotFound", "PermissionDenied"} /\ MainRoom(v.req) \in h.missed

\* Errors that must not be retried leave no admission behind.
CleanInv(v, m) ==
  LostMayBeRetried =>
    /\ /\ v.pc \in PublicServing /\ v.tokens = {}
       /\ {v.teamErr, v.sessionErr} \subseteq NoRetry \cup {NoCode}
       => m = {}
    /\ v.pc = "done" /\ v.reply \in NoRetry => m = {}

PublicReplyInv(v, m, h) ==
  /\ v.pc # "idle" => PublicTokensInv(v, m)
  /\ v.pc \in PublicServing => ChannelsInv(v)
  /\ v.pc \in {"getTeam", "team"} => "TEAM" \in Wants(v.req)
  /\ v.pc = "session" => "SESSION" \in Wants(v.req)
  /\ v.pc = "finish" => v.req.kind = "SESSION"
  /\ v.pc \in PublicServing /\ UpstreamNeverRefuses => v.sessionErr \notin Refusing
  /\ v.pc = "done" => AnswerInv(v, h)
  /\ CleanInv(v, m)

\* The history of a call being served includes the present.
PublicUpToDate(v, h) ==
  v.pc \in PublicServing =>
    /\ RoomsListing(v.req.user) \subseteq h.held
    /\ Room \ RoomsListing(v.req.user) \subseteq h.missed
    /\ link[v.req.user] \in h.links

\* on: the calls whose histories are kept.
PublicInvFor(on) ==
  /\ PublicTypeOK
  /\ \A c \in Call : PublicCallInv(call[c], minted[c], asked[c], seen[c])
  /\ \A c \in Call : PublicReplyInv(call[c], minted[c], seen[c])
  /\ \A c \in Call \cap on : PublicUpToDate(call[c], seen[c])

PublicInv == PublicInvFor(Call)

\* What is late is an admission that some call asked for.
PublicLateInv ==
  \A w \in late : w.op = "admit" /\ \E c \in Call : {w.room} \X w.puids \subseteq minted[c]
=============================================================================
