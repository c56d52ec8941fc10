------------------------- MODULE RevokeTokensProofs -------------------------
(***************************************************************************)
(* Type correctness and the safety properties of RevokeTokens, for any     *)
(* number of revocations and users, with other calls admitting and         *)
(* removing participants and late effects all the time.                    *)
(***************************************************************************)
EXTENDS RevokeTokens, VoiceBackendsProofs

\* A step of revocation v leaves the invariant true if it leaves the others
\* alone and v in a state that satisfies it; absences are only ever added.
LEMMA StepOfRevocation ==
  ASSUME RevokeInv, BackendsTypeOK', NEW v \in Revocation, NEW r, NEW t,
         revoke' = [revoke EXCEPT ![v] = r], tried' = [tried EXCEPT ![v] = t],
         r \in RevokeState, t \in [User -> Nat], absent' \in [Revocation -> SUBSET Puid],
         \A w \in Revocation \ {v} : absent[w] \subseteq absent'[w],
         RevokeCallInv(r, t, absent'[v])
  PROVE  RevokeInv'
<1>1. RevokeTypeOK'
  BY DEF RevokeInv, RevokeTypeOK
<1>2. ASSUME NEW w \in Revocation PROVE RevokeCallInv(revoke[w], tried[w], absent[w])'
  <2>1. CASE w = v
    <3>1. revoke'[w] = r /\ tried'[w] = t
      BY <2>1 DEF RevokeInv, RevokeTypeOK
    <3>2. RevokeCallInv(revoke'[w], tried'[w], absent'[w])
      BY <2>1, <3>1
    <3> QED
      BY <3>2 DEF RevokeCallInv, LoopInv, RevokeLinked, PlainErrors
  <2>2. CASE w # v
    <3>1. revoke'[w] = revoke[w] /\ tried'[w] = tried[w] /\ absent[w] \subseteq absent'[w]
      BY <2>2 DEF RevokeInv, RevokeTypeOK
    <3>2. RevokeCallInv(revoke[w], tried[w], absent[w])
      BY DEF RevokeInv
    <3> QED
      BY <3>1, <3>2 DEF RevokeCallInv, LoopInv, RevokeLinked, PlainErrors
  <2> QED
    BY <2>1, <2>2
<1> QED
  BY <1>1, <1>2 DEF RevokeInv

\* In the middle of a call.
LEMMA RevokeMiddle ==
  ASSUME RevokeInv, NEW v \in Revocation, revoke[v].pc # "idle"
  PROVE  /\ revoke[v] \in RevokeState
         /\ tried[v] \in [User -> Nat]
         /\ RevokeCallInv(revoke[v], tried[v], absent[v])
<1>1. revoke[v] \in RevokeState \cup {RevokeIdle} /\ revoke[v] # RevokeIdle
  BY DEF RevokeInv, RevokeTypeOK, RevokeIdle
<1> QED
  BY <1>1 DEF RevokeInv, RevokeTypeOK

LEMMA RevokeInitInv == RevokeInit => RevokeInv
<1> SUFFICES ASSUME RevokeInit PROVE RevokeInv
  OBVIOUS
<1>1. RevokeTypeOK
  BY BackendsAssumption DEF RevokeInit, DataInit, RevokeTypeOK, BackendsTypeOK
<1>2. ASSUME NEW v \in Revocation PROVE RevokeCallInv(revoke[v], tried[v], absent[v])
  BY DEF RevokeInit, RevokeCallInv, RevokeIdle, RevokeServing
<1> QED
  BY <1>1, <1>2 DEF RevokeInv

LEMMA RevokeBeginInv ==
  ASSUME RevokeInv, NEW v \in Revocation, NEW q \in RevokeRequest, RevokeBegin(v, q)
  PROVE  RevokeInv'
<1> DEFINE refused == q.room = NoRoom \/ q.users = {}
           r == [pc |-> IF refused THEN "done" ELSE "lookup", req |-> q,
                 puids |-> [u \in User |-> NoPuid], left |-> {}, errors |-> {}, notFound |-> {},
                 reply |-> IF refused THEN "InvalidArgument" ELSE NoCode]
<1>1. /\ revoke[v].pc = "idle" /\ UNCHANGED <<backendVars, tried>>
      /\ revoke' = [revoke EXCEPT ![v] = r]
      /\ absent' = [absent EXCEPT ![v] = IF q.room = NoRoom THEN {} ELSE Out(q.room, admitted)]
  BY DEF RevokeBegin, RevokeAt
<1>2. BackendsTypeOK'
  BY <1>1 DEF RevokeInv, RevokeTypeOK, BackendsTypeOK, backendVars
<1>3. r \in RevokeState /\ r.reply # "NotFound"
  BY DEF RevokeState, Codes, NoCode
<1>4. absent' \in [Revocation -> SUBSET Puid]
      /\ \A w \in Revocation \ {v} : absent[w] \subseteq absent'[w]
  BY <1>1 DEF RevokeInv, RevokeTypeOK, Out
<1>5. \A u \in User : tried[v][u] = 0
  BY <1>1 DEF RevokeInv, RevokeCallInv
<1>6. RevokeCallInv(r, tried[v], absent'[v])
  <2>1. RevokeLinked(r) = {}
    BY DEF RevokeLinked
  <2>2. r.pc \in RevokeServing => q.room \in Room
    BY DEF RevokeServing, RevokeRequest
  <2> QED
    BY <1>3, <1>5, <2>1, <2>2 DEF RevokeCallInv, LoopInv, RevokeServing
<1>7. tried' = [tried EXCEPT ![v] = tried[v]] /\ tried[v] \in [User -> Nat]
  BY <1>1 DEF RevokeInv, RevokeTypeOK
<1> HIDE DEF r
<1> QED
  BY <1>1, <1>2, <1>3, <1>4, <1>6, <1>7, StepOfRevocation

\* A step of a handler that sends Epic no request to remove anybody.
LEMMA RevokeLocalStep ==
  ASSUME RevokeInv, NEW v \in Revocation, NEW r \in RevokeState, revoke[v].pc # "idle",
         revoke' = [revoke EXCEPT ![v] = r], UNCHANGED <<backendVars, tried, absent>>,
         RevokeCallInv(r, tried[v], absent[v])
  PROVE  RevokeInv'
<1>1. BackendsTypeOK'
  BY DEF RevokeInv, RevokeTypeOK, BackendsTypeOK, backendVars
<1>2. /\ absent' \in [Revocation -> SUBSET Puid]
      /\ \A w \in Revocation : absent[w] \subseteq absent'[w]
  BY DEF RevokeInv, RevokeTypeOK
<1>3. tried' = [tried EXCEPT ![v] = tried[v]] /\ tried[v] \in [User -> Nat]
  BY DEF RevokeInv, RevokeTypeOK
<1> QED
  BY <1>1, <1>2, <1>3, StepOfRevocation

LEMMA RevokeLookupInv ==
  ASSUME RevokeInv, NEW v \in Revocation, RevokeLookup(v)
  PROVE  RevokeInv'
<1> DEFINE s == revoke[v]
<1>1. s.pc = "lookup" /\ UNCHANGED <<backendVars, tried, absent>>
  BY DEF RevokeLookup, RevokeAt
<1>2. /\ s \in RevokeState /\ RevokeCallInv(s, tried[v], absent[v])
  BY <1>1, RevokeMiddle
<1>3. RevokeLinked(s) = {} /\ s.errors = {} /\ s.left = {} /\ s.notFound = {} /\ s.req.room \in Room
  BY <1>1, <1>2 DEF RevokeCallInv, LoopInv, RevokeServing
<1>4. \A u \in User : tried[v][u] = 0
  BY <1>1, <1>2, <1>3 DEF RevokeCallInv, LoopInv
<1>5. ASSUME revoke' = [revoke EXCEPT ![v] =
               [s EXCEPT !.pc = "remove",
                         !.puids = [u \in User |-> IF u \in s.req.users THEN link[u] ELSE NoPuid],
                         !.left = {u \in s.req.users : link[u] # NoPuid}]]
      PROVE  RevokeInv'
  <2> DEFINE r == [s EXCEPT !.pc = "remove",
                     !.puids = [u \in User |-> IF u \in s.req.users THEN link[u] ELSE NoPuid],
                     !.left = {u \in s.req.users : link[u] # NoPuid}]
  <2>1. s.req.users \in SUBSET User /\ link \in [User -> Puid \cup {NoPuid}]
    BY <1>2 DEF RevokeState, RevokeRequest, RevokeInv, RevokeTypeOK, BackendsTypeOK
  <2>2. r \in RevokeState
    BY <1>2, <2>1 DEF RevokeState
  <2>3. /\ r.pc = "remove" /\ r.req = s.req /\ r.errors = {} /\ r.notFound = {}
        /\ r.left = {u \in s.req.users : link[u] # NoPuid}
        /\ r.puids = [u \in User |-> IF u \in s.req.users THEN link[u] ELSE NoPuid]
    BY <1>2, <1>3 DEF RevokeState
  <2>4. RevokeLinked(r) = r.left
    BY <2>1, <2>3 DEF RevokeLinked
  <2>5. RevokeCallInv(r, tried[v], absent[v])
    BY <1>3, <1>4, <2>3, <2>4 DEF RevokeCallInv, LoopInv, RevokeServing
  <2> HIDE DEF r
  <2> QED
    BY <1>1, <1>5, <2>2, <2>5, RevokeLocalStep DEF r
<1>6. ASSUME NEW e \in StatusErrors \cup LostErrors,
             revoke' = [revoke EXCEPT ![v] = RevokeReturn(v, ParseHTTPError(e, "epic_puid"))]
      PROVE  RevokeInv'
  <2> DEFINE code == ParseHTTPError(e, "epic_puid")
             r == RevokeReturn(v, code)
  <2>1. code \in Codes \ {"OK"}
    BY ParseHTTPErrorType
  <2> HIDE DEF code
  <2>2. r \in RevokeState
    BY <1>2, <2>1 DEF RevokeReturn, RevokeState
  <2>3. /\ r.pc = "done" /\ r.reply # "OK" /\ r.errors = {} /\ r.notFound = {}
        /\ r.left = {} /\ r.puids = s.puids
    BY <1>2, <1>3, <2>1 DEF RevokeReturn, RevokeState
  <2>4. RevokeLinked(r) = {}
    BY <1>3, <2>3 DEF RevokeLinked
  <2>5. RevokeCallInv(r, tried[v], absent[v])
    BY <1>4, <2>3, <2>4 DEF RevokeCallInv, LoopInv, RevokeServing
  <2>6. revoke' = [revoke EXCEPT ![v] = r]
    BY <1>6 DEF code
  <2> HIDE DEF r
  <2> QED
    BY <1>1, <2>2, <2>5, <2>6, RevokeLocalStep
<1> QED
  BY <1>5, <1>6 DEF RevokeLookup

\* The history of absences grows with every step that looks at it, by what is
\* out of the room when the step is done.
LEMMA Watched ==
  ASSUME RevokeInv, RevokeWatch
  PROVE  /\ absent' \in [Revocation -> SUBSET Puid]
         /\ \A v \in Revocation : absent[v] \subseteq absent'[v]
         /\ \A v \in Revocation :
              revoke[v].pc = "remove" => Out(revoke[v].req.room, admitted') \subseteq absent'[v]
BY DEF RevokeInv, RevokeTypeOK, RevokeWatch, Out, RevokeAt

\* If Epic has removed a participant, or does not know it, and says so, it is
\* out of the room then.
LEMMA RemovedIsOut ==
  ASSUME BackendsTypeOK, NEW room \in Room, NEW p \in Puid, NEW a \in RemoveAnswers(room, p),
         Asked(Removal(room, p), a.effect)
  PROVE  /\ a.ok \in BOOLEAN
         /\ a.ok => p \in Out(room, admitted')
         /\ PlainErrors /\ LooksNotFound(a.text) => p \in Out(room, admitted')
         /\ LooksNotFound(a.text) => ~a.ok
<1>1. CASE <<room, p>> \in admitted /\ a = [ok |-> TRUE, effect |-> "now", text |-> {}]
  <2>1. admitted' = admitted \ ({room} \X {p})
    BY <1>1 DEF Asked, Done, Removal
  <2>2. p \in Out(room, admitted')
    BY <2>1 DEF Out
  <2>3. ~LooksNotFound(a.text)
    BY <1>1 DEF LooksNotFound
  <2> QED
    BY <1>1, <2>2, <2>3
<1>2. CASE <<room, p>> \notin admitted
        /\ a = [ok |-> FALSE, effect |-> "never", text |-> {"404", "status 404"}]
  <2>1. admitted' = admitted
    BY <1>2 DEF Asked
  <2>2. p \in Out(room, admitted')
    BY <1>2, <2>1 DEF Out
  <2> QED
    BY <1>2, <2>2
<1>3. CASE a \in [ok : {FALSE}, effect : {"never"}, text : StatusErrors]
           \/ a \in [ok : {FALSE}, effect : LostEffects, text : LostErrors]
  BY <1>3 DEF PlainErrors
<1> QED
  BY <1>1, <1>2, <1>3 DEF RemoveAnswers

LEMMA RemoveInv ==
  ASSUME RevokeInv, NEW v \in Revocation, NEW u \in User, Remove(v, u)
  PROVE  RevokeInv'
<1> DEFINE s == revoke[v]
           room == s.req.room
           p == s.puids[u]
           t == [tried[v] EXCEPT ![u] = tried[v][u] + 1]
<1>1. s.pc = "remove" /\ u \in s.left /\ RevokeWatch
  BY DEF Remove, RevokeAt
<1>2. s \in RevokeState /\ tried[v] \in [User -> Nat] /\ RevokeCallInv(s, tried[v], absent[v])
  BY <1>1, RevokeMiddle
<1>3. LoopInv(s, tried[v], absent[v]) /\ room \in Room
  BY <1>1, <1>2 DEF RevokeCallInv, RevokeServing
<1>4. p \in Puid
  BY <1>1, <1>2, <1>3 DEF LoopInv, RevokeLinked, RevokeState
<1>5. PICK a \in RemoveAnswers(room, p) :
        /\ Asked(Removal(room, p), a.effect)
        /\ revoke' = [revoke EXCEPT ![v] = Turned(s, u, a)]
  BY DEF Remove
<1>6. tried' = [tried EXCEPT ![v] = t] /\ t \in [User -> Nat]
  BY <1>2 DEF Remove
<1> DEFINE r == Turned(s, u, a)
<1>7. Removal(room, p) \in Work
  BY <1>3, <1>4 DEF Removal, Work
<1>8. BackendsTypeOK /\ BackendsTypeOK'
  BY <1>5, <1>7, AskedType DEF RevokeInv, RevokeTypeOK
<1>9. /\ a.ok \in BOOLEAN
      /\ a.ok => p \in Out(room, admitted')
      /\ PlainErrors /\ LooksNotFound(a.text) => p \in Out(room, admitted')
      /\ LooksNotFound(a.text) => ~a.ok
  BY <1>3, <1>4, <1>5, <1>8, RemovedIsOut
<1>10. r.pc = s.pc /\ r.req = s.req /\ r.puids = s.puids /\ r.left = s.left \ {u}
  BY <1>2 DEF RevokeState, Turned
<1>11. /\ absent' \in [Revocation -> SUBSET Puid]
       /\ \A w \in Revocation : absent[w] \subseteq absent'[w]
       /\ Out(room, admitted') \subseteq absent'[v]
  BY <1>1, Watched
<1>12. r \in RevokeState
  BY <1>2 DEF RevokeState, Turned
<1>13. /\ r.errors = s.errors \cup {x \in {u} : ~a.ok}
       /\ r.notFound = s.notFound \cup {x \in {u} : LooksNotFound(a.text)}
  BY <1>2 DEF RevokeState, Turned
<1> HIDE DEF r, t
<1>14. LoopInv(r, t, absent'[v])
  <2>1. RevokeLinked(r) = RevokeLinked(s) /\ u \in RevokeLinked(s)
    BY <1>1, <1>3, <1>10 DEF RevokeLinked, LoopInv
  <2>2. r.left \subseteq RevokeLinked(r) /\ r.notFound \subseteq r.errors
    BY <1>3, <1>9, <1>10, <1>13, <2>1 DEF LoopInv
  <2>3. ASSUME NEW w \in User PROVE t[w] = IF w \in RevokeLinked(r) \ r.left THEN 1 ELSE 0
    <3>1. tried[v][w] = IF w \in RevokeLinked(s) \ s.left THEN 1 ELSE 0
      BY <1>3 DEF LoopInv
    <3>2. CASE w = u
      BY <1>1, <1>2, <1>10, <1>13, <2>1, <3>1, <3>2 DEF t
    <3>3. CASE w # u
      BY <1>2, <1>10, <1>13, <2>1, <3>1, <3>3 DEF t
    <3> QED
      BY <3>2, <3>3
  <2>4. ASSUME NEW w \in RevokeLinked(r) \ (r.left \cup r.errors) PROVE r.puids[w] \in absent'[v]
    <3>1. CASE w = u
      BY <1>9, <1>10, <1>11, <1>13, <2>4, <3>1
    <3>2. CASE w # u
      BY <1>3, <1>10, <1>11, <1>13, <2>1, <2>4, <3>2 DEF LoopInv
    <3> QED
      BY <3>1, <3>2
  <2>5. ASSUME PlainErrors, NEW w \in r.notFound PROVE r.puids[w] \in absent'[v]
    <3>1. CASE w \in s.notFound
      BY <1>3, <1>10, <1>11, <1>13, <2>5, <3>1 DEF LoopInv
    <3>2. CASE w \notin s.notFound
      BY <1>9, <1>10, <1>11, <1>13, <2>5, <3>2
    <3> QED
      BY <3>1, <3>2
  <2>6. RevokeLinked(r) \subseteq r.req.users
    BY <1>3, <1>10, <2>1 DEF LoopInv
  <2> QED
    BY <2>2, <2>3, <2>4, <2>5, <2>6 DEF LoopInv
<1>15. RevokeCallInv(r, t, absent'[v])
  BY <1>1, <1>3, <1>10, <1>14 DEF RevokeCallInv
<1>16. revoke' = [revoke EXCEPT ![v] = r]
  BY <1>5 DEF r
<1> QED
  BY <1>6, <1>8, <1>11, <1>12, <1>15, <1>16, StepOfRevocation

\* The answer of the loop: a success if nothing has failed, a NotFound only if
\* nothing but 404s has.
LEMMA ReplyOf ==
  ASSUME NEW v \in Revocation
  PROVE  /\ RevokeReply(v) \in Codes
         /\ RevokeReply(v) = "OK" => revoke[v].errors = {}
         /\ RevokeReply(v) = "NotFound" => revoke[v].notFound = revoke[v].errors
BY DEF RevokeReply, Codes

LEMMA RevokeFinishInv ==
  ASSUME RevokeInv, NEW v \in Revocation, RevokeFinish(v)
  PROVE  RevokeInv'
<1> DEFINE s == revoke[v]
           r == RevokeReturn(v, RevokeReply(v))
<1>1. /\ s.pc = "remove" /\ s.left = {} /\ UNCHANGED <<backendVars, tried, absent>>
      /\ revoke' = [revoke EXCEPT ![v] = r]
  BY DEF RevokeFinish, RevokeAt
<1>2. s \in RevokeState /\ RevokeCallInv(s, tried[v], absent[v])
  BY <1>1, RevokeMiddle
<1>3. LoopInv(s, tried[v], absent[v])
  BY <1>1, <1>2 DEF RevokeCallInv
<1>4. r \in RevokeState
  BY <1>2, ReplyOf DEF RevokeReturn, RevokeState
<1>5. /\ r.pc = "done" /\ r.req = s.req /\ r.puids = s.puids /\ r.left = {} /\ r.errors = s.errors
      /\ r.notFound = s.notFound /\ r.reply = RevokeReply(v)
  BY <1>1, <1>2 DEF RevokeReturn, RevokeState
<1>6. LoopInv(r, tried[v], absent[v])
  BY <1>1, <1>3, <1>5 DEF LoopInv, RevokeLinked
<1>7. RevokeCallInv(r, tried[v], absent[v])
  BY <1>5, <1>6, ReplyOf DEF RevokeCallInv, RevokeServing
<1> HIDE DEF r
<1> QED
  BY <1>1, <1>4, <1>7, RevokeLocalStep

\* The steps of a handler.
LEMMA RevokeHandlerInv ==
  ASSUME RevokeInv, NEW v \in Revocation, RevokeHandler(v)
  PROVE  RevokeInv'
BY RevokeLookupInv, RemoveInv, RevokeFinishInv DEF RevokeHandler

\* What other calls and the backends do touches a revocation's history only.
LEMMA RevokeWatchInv ==
  ASSUME RevokeInv, BackendsTypeOK', UNCHANGED <<revoke, tried>>, RevokeWatch
  PROVE  RevokeInv'
<1>1. revoke' = revoke /\ tried' = tried /\ absent' \in [Revocation -> SUBSET Puid]
      /\ \A v \in Revocation : absent[v] \subseteq absent'[v]
  BY Watched
<1>2. ASSUME NEW v \in Revocation PROVE RevokeCallInv(revoke[v], tried[v], absent[v])'
  <2>1. RevokeCallInv(revoke[v], tried[v], absent[v])
    BY DEF RevokeInv
  <2> QED
    BY <1>1, <2>1 DEF RevokeCallInv, LoopInv, RevokeLinked, PlainErrors
<1>3. RevokeTypeOK'
  BY <1>1 DEF RevokeInv, RevokeTypeOK
<1> QED
  BY <1>2, <1>3 DEF RevokeInv

\* What others do to Epic's rooms does not matter.
LEMMA RevokeElsewhere ==
  ASSUME RevokeInv, BackendsTypeOK', UNCHANGED revokeVars
  PROVE  RevokeInv'
<1>1. revoke' = revoke /\ tried' = tried /\ absent' = absent
  BY DEF revokeVars
<1>2. \A v \in Revocation : RevokeCallInv(revoke[v], tried[v], absent[v])'
  BY <1>1 DEF RevokeInv
<1>3. RevokeTypeOK'
  BY <1>1 DEF RevokeInv, RevokeTypeOK
<1> QED
  BY <1>2, <1>3 DEF RevokeInv

LEMMA RevokeNextInv == RevokeInv /\ [RevokeNext]_revokeAll => RevokeInv'
<1> SUFFICES ASSUME RevokeInv, [RevokeNext]_revokeAll PROVE RevokeInv'
  OBVIOUS
<1>1. ASSUME NEW v \in Revocation, RevokeHandler(v) PROVE RevokeInv'
  BY <1>1, RevokeHandlerInv
<1>2. ASSUME NEW v \in Revocation, NEW q \in RevokeRequest, RevokeBegin(v, q) PROVE RevokeInv'
  BY <1>2, RevokeBeginInv
<1>3. CASE RevokeWorld
  <2>1. BackendsTypeOK'
    <3>1. CASE BackendsChange
      BY <3>1, BackendsChangeType DEF RevokeInv, RevokeTypeOK
    <3>2. CASE OthersAdmit
      BY <3>2 DEF OthersAdmit, RevokeInv, RevokeTypeOK, BackendsTypeOK
    <3> QED
      BY <1>3, <3>1, <3>2 DEF RevokeWorld
  <2> QED
    BY <1>3, <2>1, RevokeWatchInv DEF RevokeWorld
<1>4. CASE UNCHANGED revokeAll
  <2>1. UNCHANGED revokeVars /\ BackendsTypeOK'
    BY <1>4 DEF revokeAll, backendVars, RevokeInv, RevokeTypeOK, BackendsTypeOK
  <2> QED
    BY <2>1, RevokeElsewhere
<1> QED
  BY <1>1, <1>2, <1>3, <1>4 DEF RevokeNext

-----------------------------------------------------------------------------
(* What the steps of a call do to Epic's rooms. *)

\* The admissions that the handler with variables r is out to undo.
Undoing(r) == {r.req.room} \X {r.puids[u] : u \in RevokeLinked(r)}

\* The users whose removal has been confirmed to it.
Settled(r) == RevokeLinked(r) \ (r.left \cup r.errors)

\* What a step of the handler of v does to Epic's rooms and leaves to be done:
\* removals of those it is out to remove; who is newly settled is out.
RevokeDid(v) ==
  LET r == revoke[v]
      s == revoke'[v]
  IN /\ r.pc \in RevokeServing /\ s.pc \in {"remove", "done"}
     /\ revoke' = [revoke EXCEPT ![v] = s] /\ s.req = r.req
     /\ SameData
     /\ admitted' \subseteq admitted /\ admitted \ admitted' \subseteq Undoing(r)
     /\ late \subseteq late'
     /\ \A w \in late' \ late : w.op = "remove" /\ w.puids # {}
          /\ {w.room} \X w.puids \subseteq Undoing(r)
     /\ \/ s.puids = r.puids
        \/ RevokeLinked(r) = {} /\ admitted' = admitted /\ s.pc = "remove"
     /\ \A u \in Settled(s) : \/ <<s.req.room, s.puids[u]>> \notin admitted'
                              \/ u \in Settled(r) /\ s.puids = r.puids

\* A step that Epic's rooms take no part in: to state s.
LEMMA RevokeQuietStep ==
  ASSUME RevokeInv, NEW v \in Revocation, NEW s, revoke[v].pc \in RevokeServing,
         UNCHANGED backendVars, revoke' = [revoke EXCEPT ![v] = s],
         s.req = revoke[v].req, s.pc \in {"remove", "done"},
         \/ RevokeLinked(revoke[v]) = {} /\ s.pc = "remove" /\ Settled(s) = {}
         \/ s.puids = revoke[v].puids /\ s.left = revoke[v].left /\ s.errors = revoke[v].errors
  PROVE  RevokeDid(v)
<1>1. revoke'[v] = s
  BY DEF RevokeInv, RevokeTypeOK
<1>2. s.puids = revoke[v].puids /\ s.left = revoke[v].left /\ s.errors = revoke[v].errors
        => Settled(s) = Settled(revoke[v])
  BY DEF Settled, RevokeLinked
<1> QED
  BY <1>1, <1>2 DEF RevokeDid, backendVars, SameData

LEMMA RevokeDoes ==
  ASSUME RevokeInv, NEW v \in Revocation, RevokeHandler(v)
  PROVE  RevokeDid(v)
<1> DEFINE r == revoke[v]
           room == r.req.room
<1>1. ASSUME r.pc \in RevokeServing
      PROVE  r \in RevokeState /\ RevokeCallInv(r, tried[v], absent[v]) /\ room \in Room
  BY <1>1, RevokeMiddle DEF RevokeServing, RevokeCallInv
<1>2. ASSUME NEW code, r.pc \in RevokeServing, UNCHANGED backendVars,
             revoke' = [revoke EXCEPT ![v] = RevokeReturn(v, code)]
      PROVE  RevokeDid(v)
  <2> DEFINE s == RevokeReturn(v, code)
  <2>1. /\ s.req = r.req /\ s.pc = "done" /\ s.puids = r.puids /\ s.left = r.left
        /\ s.errors = r.errors /\ revoke' = [revoke EXCEPT ![v] = s]
    BY <1>1, <1>2 DEF RevokeReturn, RevokeState
  <2> HIDE DEF s
  <2> QED
    BY <1>2, <2>1, RevokeQuietStep
<1>3. CASE RevokeLookup(v)
  <2>1. r.pc \in RevokeServing /\ r.pc = "lookup" /\ UNCHANGED backendVars
    BY <1>3 DEF RevokeLookup, RevokeAt, RevokeServing
  <2> DEFINE s == [r EXCEPT !.pc = "remove",
                     !.puids = [u \in User |-> IF u \in r.req.users THEN link[u] ELSE NoPuid],
                     !.left = {u \in r.req.users : link[u] # NoPuid}]
  <2>2. ASSUME revoke' = [revoke EXCEPT ![v] = s] PROVE RevokeDid(v)
    <3>1. /\ s.req = r.req /\ s.pc = "remove" /\ s.left = {u \in r.req.users : link[u] # NoPuid}
          /\ s.puids = [u \in User |-> IF u \in r.req.users THEN link[u] ELSE NoPuid]
      BY <1>1, <2>1 DEF RevokeState
    <3>2. RevokeLinked(r) = {}
      BY <1>1, <2>1 DEF RevokeCallInv
    <3> HIDE DEF s
    <3>3. Settled(s) = {}
      BY <3>1 DEF Settled, RevokeLinked
    <3> QED
      BY <2>1, <2>2, <3>1, <3>2, <3>3, RevokeQuietStep
  <2> QED
    BY <1>2, <1>3, <2>1, <2>2 DEF RevokeLookup
<1>4. CASE RevokeFinish(v)
  <2>1. r.pc \in RevokeServing /\ UNCHANGED backendVars
        /\ revoke' = [revoke EXCEPT ![v] = RevokeReturn(v, RevokeReply(v))]
    BY <1>4 DEF RevokeFinish, RevokeAt, RevokeServing
  <2> QED
    BY <1>2, <2>1
<1>5. ASSUME NEW u \in User, Remove(v, u) PROVE RevokeDid(v)
  <2> DEFINE p == r.puids[u]
  <2>1. r.pc = "remove" /\ r.pc \in RevokeServing /\ u \in r.left
    BY <1>5 DEF Remove, RevokeAt, RevokeServing
  <2>2. u \in RevokeLinked(r) /\ p \in Puid
    BY <1>1, <2>1 DEF RevokeCallInv, LoopInv, RevokeLinked, RevokeState
  <2>3. PICK x \in RemoveAnswers(room, p) : /\ Asked(Removal(room, p), x.effect)
                                            /\ revoke' = [revoke EXCEPT ![v] = Turned(r, u, x)]
    BY <1>5 DEF Remove
  <2> DEFINE s == Turned(r, u, x)
  <2>4. /\ s.pc = "remove" /\ s.req = r.req /\ s.puids = r.puids
        /\ s.left = r.left \ {u} /\ s.errors = r.errors \cup {y \in {u} : ~x.ok}
    BY <1>1, <2>1 DEF RevokeState, Turned
  <2>5. revoke'[v] = s /\ revoke' = [revoke EXCEPT ![v] = s]
    BY <2>3 DEF RevokeInv, RevokeTypeOK
  <2>6. x.ok => p \in Out(room, admitted')
    BY <1>1, <2>1, <2>2, <2>3, RemovedIsOut DEF RevokeInv, RevokeTypeOK
  <2> HIDE DEF s
  <2>7. {room} \X {p} \subseteq Undoing(r)
    BY <2>2 DEF Undoing
  <2>8. /\ SameData /\ late \subseteq late'
        /\ admitted' \subseteq admitted /\ admitted \ admitted' \subseteq {room} \X {p}
        /\ \A w \in late' \ late : w = Removal(room, p)
    BY <2>3 DEF Asked, SameData, Done, Removal
  <2>9. ASSUME NEW y \in Settled(s)
        PROVE  <<s.req.room, s.puids[y]>> \notin admitted'
                 \/ (y \in Settled(r) /\ s.puids = r.puids)
    <3>1. y \in RevokeLinked(r) /\ y \notin r.left \ {u} /\ y \notin r.errors /\ (y = u => x.ok)
      BY <2>4, <2>9 DEF Settled, RevokeLinked
    <3>2. CASE y = u
      BY <2>4, <2>6, <3>1, <3>2 DEF Out
    <3>3. CASE y # u
      BY <2>4, <3>1, <3>3 DEF Settled
    <3> QED
      BY <3>2, <3>3
  <2>10. \A w \in late' \ late : /\ w.op = "remove" /\ w.puids # {}
                                 /\ {w.room} \X w.puids \subseteq Undoing(r)
    BY <2>7, <2>8 DEF Removal
  <2>11. admitted \ admitted' \subseteq Undoing(r)
    BY <2>7, <2>8
  <2> QED
    BY <2>1, <2>4, <2>5, <2>8, <2>9, <2>10, <2>11 DEF RevokeDid
<1> QED
  BY <1>3, <1>4, <1>5 DEF RevokeHandler

-----------------------------------------------------------------------------
(* The theorems. *)

\* The invariant that the properties of the loop follow from is inductive.
THEOREM RevokeInductive == RevokeSpec => []RevokeInv
<1>1. RevokeInv /\ [RevokeNext]_revokeAll => RevokeInv'
  BY RevokeNextInv
<1> QED
  BY <1>1, RevokeInitInv, PTL DEF RevokeSpec

\* The handlers' variables, Epic's rooms and the histories stay in their types.
THEOREM RevokeTypeCorrect == RevokeSpec => []RevokeTypeOK
<1>1. RevokeInv => RevokeTypeOK
  BY DEF RevokeInv
<1> QED
  BY <1>1, RevokeInductive, PTL

\* What the invariant says of each call.
LEMMA RevokePromises ==
  ASSUME RevokeInv
  PROVE  /\ SuccessRemoves /\ EveryLinkedUserTriedOnce
         /\ PlainErrors => NotFoundMeansAbsent
<1>1. SuccessRemoves
  <2> SUFFICES ASSUME NEW v \in Revocation, RevokeAt(v, "done"), revoke[v].reply = "OK",
                      NEW u \in User, revoke[v].puids[u] # NoPuid
               PROVE  revoke[v].puids[u] \in absent[v]
    BY DEF SuccessRemoves, Resolved
  <2>1. RevokeCallInv(revoke[v], tried[v], absent[v]) /\ revoke[v].pc = "done"
    BY DEF RevokeInv, RevokeAt
  <2> QED
    BY <2>1 DEF RevokeCallInv, LoopInv, RevokeLinked
<1>2. EveryLinkedUserTriedOnce
  <2> SUFFICES ASSUME NEW v \in Revocation, RevokeAt(v, "done"), NEW u \in User
               PROVE  tried[v][u] = IF revoke[v].puids[u] # NoPuid THEN 1 ELSE 0
    BY DEF EveryLinkedUserTriedOnce
  <2>1. RevokeCallInv(revoke[v], tried[v], absent[v]) /\ revoke[v].pc = "done"
    BY DEF RevokeInv, RevokeAt
  <2> QED
    BY <2>1 DEF RevokeCallInv, LoopInv, RevokeLinked
<1>3. PlainErrors => NotFoundMeansAbsent
  <2> SUFFICES ASSUME PlainErrors, NEW v \in Revocation, RevokeAt(v, "done"),
                      revoke[v].reply = "NotFound",
                      NEW u \in User, revoke[v].puids[u] # NoPuid
               PROVE  revoke[v].puids[u] \in absent[v]
    BY DEF NotFoundMeansAbsent, Resolved
  <2>1. RevokeCallInv(revoke[v], tried[v], absent[v]) /\ revoke[v].pc = "done"
    BY DEF RevokeInv, RevokeAt
  <2>2. u \in RevokeLinked(revoke[v]) /\ revoke[v].left = {}
        /\ revoke[v].notFound = revoke[v].errors
    BY <2>1 DEF RevokeCallInv, RevokeLinked
  <2> QED
    BY <2>1, <2>2 DEF RevokeCallInv, LoopInv
<1> QED
  BY <1>1, <1>2, <1>3

\* A success reply means that every linked user of the request has been out of
\* the room since the call began, whoever else was admitted meanwhile.
THEOREM SuccessHasRemoved == RevokeSpec => []SuccessRemoves
<1>1. RevokeInv => SuccessRemoves
  BY RevokePromises
<1> QED
  BY <1>1, RevokeInductive, PTL

\* When a revocation is through, it has asked Epic exactly once for each linked
\* user of the request and never for anybody else, whatever failed.
THEOREM NobodySkipped == RevokeSpec => []EveryLinkedUserTriedOnce
<1>1. RevokeInv => EveryLinkedUserTriedOnce
  BY RevokePromises
<1> QED
  BY <1>1, RevokeInductive, PTL

\* A NotFound reply says that the users are gone only if no other error's text
\* reads like a 404.
THEOREM NotFoundIfPlain == ASSUME PlainErrors PROVE RevokeSpec => []NotFoundMeansAbsent
<1>1. RevokeInv => NotFoundMeansAbsent
  BY RevokePromises
<1> QED
  BY <1>1, RevokeInductive, PTL
=============================================================================
