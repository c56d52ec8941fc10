---------------------------- MODULE RevokeTokens ----------------------------
(***************************************************************************)
(* RevokeToken of pkg/service/eosService.go with the Epic client methods   *)
(* it calls: one look-up of the users' PUIDs, then one request per linked  *)
(* user, in the random order in which Go ranges over a map.                *)
(***************************************************************************)
EXTENDS VoiceBackends

CONSTANTS
  Revocation,  \* the calls of one behaviour, each served once
  NoRoom       \* the empty room_id

ASSUME RevokeAssumption == NoRoom \notin Room

VARIABLES
  revoke,  \* revoke[v]: the local variables of the handler serving v
  \* History, read by properties only:
  tried,   \* tried[v][u]: how often v has asked Epic to remove user u
  absent   \* absent[v]: PUIDs not in v's room at some instant since v began

revokeVars == <<revoke, tried, absent>>
revokeAll == <<backendVars, revokeVars>>

RevokeRequest == [room : Room \cup {NoRoom}, users : SUBSET User]

RevokeState ==
  [pc : {"lookup", "remove", "done"}, req : RevokeRequest,
   puids : [User -> Puid \cup {NoPuid}], left : SUBSET User,
   errors : SUBSET User, notFound : SUBSET User, reply : Codes \cup {NoCode}]

RevokeIdle == [pc |-> "idle"]

RevokeTypeOK ==
  /\ BackendsTypeOK
  /\ revoke \in [Revocation -> RevokeState \cup {RevokeIdle}]
  /\ tried \in [Revocation -> [User -> Nat]]
  /\ absent \in [Revocation -> SUBSET Puid]

\* Tokens have been handed out before.
RevokeInit ==
  /\ DataInit
  /\ admitted \in SUBSET (Room \X Puid)
  /\ revoke = [v \in Revocation |-> RevokeIdle]
  /\ tried = [v \in Revocation |-> [u \in User |-> 0]]
  /\ absent = [v \in Revocation |-> {}]

RevokeAt(v, pc) == revoke[v].pc = pc

\* The PUIDs that room does not hold, of the admissions adm.
Out(room, adm) == {p \in Puid : <<room, p>> \notin adm}

-----------------------------------------------------------------------------
(* The handler, one action per upstream request.                           *)

\* The history takes in what has become of the rooms.
RevokeWatch ==
  absent' = [v \in Revocation |->
    IF RevokeAt(v, "lookup") \/ RevokeAt(v, "remove")
    THEN absent[v] \cup Out(revoke[v].req.room, admitted') ELSE absent[v]]

RevokeReturn(v, code) == [revoke[v] EXCEPT !.pc = "done", !.reply = code]

RevokeBegin(v, r) ==
  /\ RevokeAt(v, "idle")
  /\ LET refused == r.room = NoRoom \/ r.users = {}
     IN revoke' = [revoke EXCEPT ![v] =
          [pc |-> IF refused THEN "done" ELSE "lookup", req |-> r,
           puids |-> [u \in User |-> NoPuid], left |-> {}, errors |-> {}, notFound |-> {},
           reply |-> IF refused THEN "InvalidArgument" ELSE NoCode]]
  /\ absent' = [absent EXCEPT ![v] = IF r.room = NoRoom THEN {} ELSE Out(r.room, admitted)]
  /\ UNCHANGED <<backendVars, tried>>

\* Mutant: all links are taken, not only those of the users asked for.
LookupAll(v) ==
  /\ RevokeAt(v, "lookup")
  /\ revoke' = [revoke EXCEPT ![v] =
       [@ EXCEPT !.pc = "remove", !.puids = link, !.left = {u \in User : link[u] # NoPuid}]]
  /\ UNCHANGED <<backendVars, tried, absent>>

\* EpicGamesClient.GetEpicPUID: Epic names those of the users it has linked.
RevokeLookup(v) ==
  LET users == revoke[v].req.users
  IN /\ RevokeAt(v, "lookup")
     /\ \/ revoke' = [revoke EXCEPT ![v] =
             [@ EXCEPT !.pc = "remove",
                       !.puids = [u \in User |-> IF u \in users THEN link[u] ELSE NoPuid],
                       !.left = {u \in users : link[u] # NoPuid}]]
        \/ \E e \in StatusErrors \cup LostErrors :
             revoke' = [revoke EXCEPT ![v] = RevokeReturn(v, ParseHTTPError(e, "epic_puid"))]
     /\ UNCHANGED <<backendVars, tried, absent>>

\* The user is not in the room, as far as the text of the error tells.
LooksNotFound(e) == e \cap {"404", "not found"} # {}

\* The handler after Epic's answer a for user u: an error is remembered and the
\* loop goes on.
Turned(s, u, a) ==
  [s EXCEPT !.left = s.left \ {u},
            !.errors = s.errors \cup {x \in {u} : ~a.ok},
            !.notFound = s.notFound \cup {x \in {u} : LooksNotFound(a.text)}]

\* One turn of the loop.
Remove(v, u) ==
  LET room == revoke[v].req.room
      p == revoke[v].puids[u]
  IN /\ RevokeAt(v, "remove")
     /\ u \in revoke[v].left
     /\ \E a \in RemoveAnswers(room, p) :
          /\ Asked(Removal(room, p), a.effect)
          /\ revoke' = [revoke EXCEPT ![v] = Turned(revoke[v], u, a)]
     /\ tried' = [tried EXCEPT ![v] = [tried[v] EXCEPT ![u] = tried[v][u] + 1]]
     /\ RevokeWatch

\* Mutant: one removal is enough for a success.
RevokeReplySome(v) ==
  IF revoke[v].errors = {u \in User : revoke[v].puids[u] # NoPuid} /\ revoke[v].errors # {}
  THEN "Internal" ELSE "OK"

\* Mutant: one 404 is enough for a NotFound.
RevokeReplyAny404(v) ==
  CASE revoke[v].errors = {} -> "OK"
    [] revoke[v].errors # {} /\ revoke[v].notFound # {} -> "NotFound"
    [] OTHER -> "Internal"

RevokeReply(v) ==
  CASE revoke[v].errors = {} -> "OK"
    [] revoke[v].errors # {} /\ revoke[v].notFound = revoke[v].errors -> "NotFound"
    [] OTHER -> "Internal"

\* Mutant: the first error ends the loop.
FinishAtError(v) ==
  /\ RevokeAt(v, "remove")
  /\ revoke[v].left = {} \/ revoke[v].errors # {}
  /\ revoke' = [revoke EXCEPT ![v] = RevokeReturn(v, RevokeReply(v))]
  /\ UNCHANGED <<backendVars, tried, absent>>

\* Mutant: the loop is left only when nothing has failed.
FinishClean(v) ==
  /\ RevokeAt(v, "remove")
  /\ revoke[v].left = {} /\ revoke[v].errors = {}
  /\ revoke' = [revoke EXCEPT ![v] = RevokeReturn(v, RevokeReply(v))]
  /\ UNCHANGED <<backendVars, tried, absent>>

RevokeFinish(v) ==
  /\ RevokeAt(v, "remove")
  /\ revoke[v].left = {}
  /\ revoke' = [revoke EXCEPT ![v] = RevokeReturn(v, RevokeReply(v))]
  /\ UNCHANGED <<backendVars, tried, absent>>

RevokeHandler(v) == RevokeLookup(v) \/ RevokeFinish(v) \/ \E u \in User : Remove(v, u)

\* Meanwhile other handlers obtain tokens, and the backends' data changes.
OthersAdmit ==
  /\ \E g \in Room \X Puid : admitted' = admitted \cup {g}
  /\ UNCHANGED <<live, roster, teams, link, late, changes>>

RevokeWorld == (BackendsChange \/ OthersAdmit) /\ RevokeWatch /\ UNCHANGED <<revoke, tried>>

RevokeNext ==
  \/ \E v \in Revocation : RevokeHandler(v) \/ \E r \in RevokeRequest : RevokeBegin(v, r)
  \/ RevokeWorld

\* Every upstream request of a handler returns: the HTTP client times out.
RevokeFairness == \A v \in Revocation : WF_revokeAll(RevokeHandler(v))

RevokeSpec == RevokeInit /\ [][RevokeNext]_revokeAll /\ RevokeFairness

-----------------------------------------------------------------------------
(* Properties. *)

\* The PUIDs the look-up gave for the users of the request.
Resolved(v) == {revoke[v].puids[u] : u \in User} \ {NoPuid}

\* After a success reply every linked user of the request has been out of the
\* room at some instant since the call began, although users are removed one
\* by one while others, or the same ones, are being admitted.
SuccessRemoves ==
  \A v \in Revocation : RevokeAt(v, "done") /\ revoke[v].reply = "OK"
    => Resolved(v) \subseteq absent[v]

\* One user's failure does not keep the loop from the others: when the handler
\* is through, it has asked Epic once for each linked user of the request, and
\* for nobody else.
EveryLinkedUserTriedOnce ==
  \A v \in Revocation : RevokeAt(v, "done") =>
    \A u \in User : tried[v][u] = IF revoke[v].puids[u] # NoPuid THEN 1 ELSE 0

\* "If all errors are 404 (user not in room), return NotFound"
\* (eosService.go:554): a NotFound reply of the loop says that every linked
\* user of the request has been out of the room since the call began.
NotFoundMeansAbsent ==
  \A v \in Revocation :
    RevokeAt(v, "done") /\ revoke[v].reply = "NotFound" => Resolved(v) \subseteq absent[v]

-----------------------------------------------------------------------------
(* The inductive invariant behind the safety properties, call by call: of  *)
(* the variables r of a handler, how often it has tried each user, and the *)
(* PUIDs that have been out of its room.                                   *)

\* No error text but that of a participant Epic does not know looks like one.
PlainErrors == \A e \in StatusErrors \cup LostErrors : ~LooksNotFound(e)

RevokeLinked(r) == {u \in User : r.puids[u] # NoPuid}

RevokeServing == {"lookup", "remove"}

\* What the loop has done of its work.
LoopInv(r, t, out) ==
  /\ r.left \subseteq RevokeLinked(r) /\ r.notFound \subseteq r.errors
  /\ RevokeLinked(r) \subseteq r.req.users
  /\ \A u \in User : t[u] = IF u \in RevokeLinked(r) \ r.left THEN 1 ELSE 0
  /\ \A u \in RevokeLinked(r) \ (r.left \cup r.errors) : r.puids[u] \in out
  /\ PlainErrors => \A u \in r.notFound : r.puids[u] \in out

RevokeCallInv(r, t, out) ==
  /\ r.pc = "idle" => \A u \in User : t[u] = 0
  /\ r.pc # "idle" => LoopInv(r, t, out)
  /\ r.pc \in RevokeServing => r.req.room \in Room
  /\ r.pc = "lookup" => RevokeLinked(r) = {} /\ r.errors = {}
  /\ r.pc = "done" => /\ r.left = {}
                      /\ r.reply = "OK" => r.errors = {}
                      /\ r.reply = "NotFound" => RevokeLinked(r) = {} \/ r.notFound = r.errors

RevokeInv ==
  /\ RevokeTypeOK
  /\ \A v \in Revocation : RevokeCallInv(revoke[v], tried[v], absent[v])
=============================================================================
