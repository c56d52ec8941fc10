------------------------- MODULE VoiceServiceProofs -------------------------
(***************************************************************************)
(* The service as a whole, for any number of calls of each kind, with      *)
(* crashes, changes of the data and late effects between their steps:      *)
(* type correctness, what a revocation and a token are worth, and that the *)
(* service implements VoiceRooms.                                          *)
(***************************************************************************)
EXTENDS VoiceService, PublicRoomsProofs, AdminTokensProofs, RevokeTokensProofs

-----------------------------------------------------------------------------
(* Calls of the three kinds. *)

LEMMA PublicKind ==
  ASSUME NEW x \in Call
  PROVE  /\ x \in ID /\ x \notin Admin /\ x \notin Revocation
         /\ PC(x) = call[x].pc /\ PC(x)' = call'[x].pc
         /\ Grants(x) = minted[x] /\ Grants(x)' = minted'[x]
         /\ Targets(x) = {} /\ Targets(x)' = {}
         /\ Rights(x) = PublicRights(x) /\ Rights(x)' = PublicRights(x)'
         /\ Tokens(x) = Filled(call[x].tokens) /\ Tokens(x)' = Filled(call'[x].tokens)
BY ServiceAssumption DEF ID, PC, Grants, Targets, Rights, Tokens

LEMMA AdminKind ==
  ASSUME NEW x \in Admin
  PROVE  /\ x \in ID /\ x \notin Call /\ x \notin Revocation
         /\ PC(x) = admin[x].pc /\ PC(x)' = admin'[x].pc
         /\ Grants(x) = adminMinted[x] /\ Grants(x)' = adminMinted'[x]
         /\ Targets(x) = {} /\ Targets(x)' = {}
         /\ Rights(x) = AdminRights(x) /\ Rights(x)' = AdminRights(x)'
         /\ Tokens(x) = admin[x].tokens /\ Tokens(x)' = admin'[x].tokens
BY ServiceAssumption DEF ID, PC, Grants, Targets, Rights, Tokens

LEMMA RevocationKind ==
  ASSUME NEW x \in Revocation
  PROVE  /\ x \in ID /\ x \notin Call /\ x \notin Admin
         /\ PC(x) = revoke[x].pc /\ PC(x)' = revoke'[x].pc
         /\ Grants(x) = {} /\ Grants(x)' = {}
         /\ Targets(x) = IF revoke[x].pc = "idle" THEN {} ELSE Undoing(revoke[x])
         /\ Targets(x)' = IF revoke'[x].pc = "idle" THEN {} ELSE Undoing(revoke'[x])
<1>1. x \in ID /\ x \notin Call /\ x \notin Admin
  BY ServiceAssumption DEF ID
<1>2. /\ PC(x) = revoke[x].pc /\ PC(x)' = revoke'[x].pc
      /\ Grants(x) = {} /\ Grants(x)' = {}
  BY <1>1 DEF PC, Grants
<1>3. Resolved(x) = {revoke[x].puids[u] : u \in RevokeLinked(revoke[x])}
  BY DEF Resolved, RevokeLinked
<1>4. Resolved(x)' = {revoke'[x].puids[u] : u \in RevokeLinked(revoke'[x])}
  BY DEF Resolved, RevokeLinked
<1>5. Targets(x) = IF revoke[x].pc = "idle" THEN {} ELSE Undoing(revoke[x])
  BY <1>3 DEF Targets, RevokeAt, Undoing
<1>6. Targets(x)' = IF revoke'[x].pc = "idle" THEN {} ELSE Undoing(revoke'[x])
  BY <1>4 DEF Targets, RevokeAt, Undoing
<1> QED
  BY <1>1, <1>2, <1>5, <1>6

\* Who is out to admit somebody is a call for tokens, who is out to remove
\* somebody a revocation; neither is idle, and both do it by right.
LEMMA OutTo ==
  ASSUME ServiceInv, NEW y \in ID
  PROVE  /\ Grants(y) # {} => y \in Call \cup Admin /\ PC(y) # "idle"
         /\ Targets(y) # {} => y \in Revocation /\ PC(y) # "idle"
         /\ Grants(y) \subseteq Rights(y) /\ Targets(y) \subseteq Rights(y)
<1>1. CASE y \in Call
  BY <1>1, PublicKind, MintedByRight DEF ServiceInv
<1>2. CASE y \in Admin
  BY <1>2, AdminKind, AdminMintedByRight DEF ServiceInv
<1>3. CASE y \in Revocation
  <2>1. revoke[y].pc # "idle" => Undoing(revoke[y]) \subseteq Rights(y)
    <3> SUFFICES ASSUME revoke[y].pc # "idle", NEW u \in RevokeLinked(revoke[y])
                 PROVE  <<revoke[y].req.room, revoke[y].puids[u]>> \in Rights(y)
      BY DEF Undoing
    <3>1. revoke[y] \in RevokeState /\ u \in revoke[y].req.users
      BY <1>3, RevokeMiddle DEF ServiceInv, RevokeCallInv, LoopInv
    <3>2. revoke[y].puids[u] \in {revoke[y].puids[w] : w \in revoke[y].req.users} \cap Puid
      BY <3>1 DEF RevokeState, RevokeLinked
    <3> QED
      BY <1>3, <3>2, RevocationKind DEF Rights, RevokeAt
  <2> QED
    BY <1>3, <2>1, RevocationKind
<1> QED
  BY <1>1, <1>2, <1>3 DEF ID

-----------------------------------------------------------------------------
(* The invariants of the handlers' modules. *)

\* on: the calls that are kept now, or some more.
LEMMA PublicKept ==
  ASSUME NEW on, PublicInvFor(on)', Call \ cut' \subseteq on
  PROVE  PublicInvFor(Call \ cut)'
BY DEF PublicInvFor

LEMMA AdminKept ==
  ASSUME NEW on, AdminInvFor(on)', Admin \ cut' \subseteq on
  PROVE  AdminInvFor(Admin \ cut)'
BY DEF AdminInvFor

LEMMA PublicAside ==
  ASSUME PublicInvFor(Call \ cut), UNCHANGED publicVars, SameData, BackendsTypeOK',
         cut \subseteq cut'
  PROVE  PublicInvFor(Call \ cut)'
<1>1. PICK on : on = Call \ cut
  OBVIOUS
<1>2. PublicInvFor(on)
  BY <1>1
<1>3. PublicInvFor(on)'
  BY <1>2, PublicElsewhere
<1>4. Call \ cut' \subseteq on
  BY <1>1
<1> QED
  BY <1>3, <1>4, PublicKept

LEMMA AdminAside ==
  ASSUME AdminInvFor(Admin \ cut), UNCHANGED adminVars, SameData, BackendsTypeOK',
         cut \subseteq cut'
  PROVE  AdminInvFor(Admin \ cut)'
<1>1. PICK on : on = Admin \ cut
  OBVIOUS
<1>2. AdminInvFor(on)
  BY <1>1
<1>3. AdminInvFor(on)'
  BY <1>2, AdminElsewhere
<1>4. Admin \ cut' \subseteq on
  BY <1>1
<1> QED
  BY <1>3, <1>4, AdminKept

-----------------------------------------------------------------------------
(* What a step of a call under way, of the world, or the end of the        *)
(* process does, and why it keeps the invariant.                           *)

\* What the calls are out to do, they stay out to do, and none goes back to its
\* beginning.
Onwards ==
  /\ over' = over
  /\ cut \subseteq cut' /\ \A x \in cut' \ cut : x \in ID /\ PC(x) # "idle"
  /\ \A y \in ID :
       /\ Grants(y) \subseteq Grants(y)' /\ Targets(y) \subseteq Targets(y)'
       /\ (PC(y) = "idle") <=> (PC(y)' = "idle")
       /\ PC(y) = "done" => PC(y)' = "done"

\* Gains and losses of the rooms and all that becomes late are the work of calls
\* that were not over when any one call began.
Answered ==
  /\ \A g \in admitted' \ admitted : \A x \in ID : AdmitterOf(g, x)'
  /\ \A g \in admitted \ admitted' : \A x \in ID : RemoverOf(g, x)'
  /\ \A w \in late' \ late :
       /\ w.puids # {}
       /\ \E y \in ID : AskedFor(w, y)'
       /\ \A x \in ID : \E y \in ID \ over[x] : AskedFor(w, y)'

\* New tokens are good, and who has newly been removed is out.
Truthful ==
  /\ \A x \in Call \cup Admin : PC(x) # "idle" =>
       \A t \in Tokens(x)' \ Tokens(x) : <<t.room, t.puid>> \in admitted'
  /\ \A v \in Revocation : revoke[v].pc # "idle" => \A u \in Settled(revoke'[v]) :
       \/ <<revoke'[v].req.room, revoke'[v].puids[u]>> \notin admitted'
       \/ /\ u \in Settled(revoke[v])
          /\ revoke'[v].req = revoke[v].req /\ revoke'[v].puids = revoke[v].puids

LEMMA ProcessGoesOn ==
  ASSUME TypeOK, ProcessInv, Onwards
  PROVE  ProcessInv'
<1>1. ASSUME NEW x \in cut' PROVE PC(x)' # "idle"
  BY <1>1 DEF ProcessInv, Onwards, TypeOK
<1>2. ASSUME NEW x \in ID, NEW y \in over'[x] PROVE PC(y)' = "done" \/ y \in cut'
  <2>1. y \in over[x] /\ y \in ID
    BY <1>2 DEF Onwards, TypeOK
  <2> QED
    BY <2>1 DEF ProcessInv, Onwards
<1> QED
  BY <1>1, <1>2 DEF ProcessInv

LEMMA StillAsked ==
  ASSUME Onwards, NEW w, NEW y \in ID, AskedFor(w, y)
  PROVE  AskedFor(w, y)'
BY DEF Onwards, AskedFor

LEMMA StillOutTo ==
  ASSUME Onwards, NEW g, NEW x \in ID
  PROVE  /\ AdmitterOf(g, x) => AdmitterOf(g, x)'
         /\ RemoverOf(g, x) => RemoverOf(g, x)'
BY DEF Onwards, AdmitterOf, RemoverOf, ID

LEMMA LateStays ==
  ASSUME LateInv, Onwards, Answered
  PROVE  LateInv'
<1>1. SUFFICES ASSUME NEW w \in late'
               PROVE  /\ w.puids # {}
                      /\ \E y \in ID : AskedFor(w, y)'
                      /\ \A x \in ID : \E y \in ID \ over'[x] : AskedFor(w, y)'
  BY DEF LateInv
<1>2. over' = over
  BY DEF Onwards
<1>3. CASE w \in late
  <2>1. w.puids # {} /\ \E y \in ID : AskedFor(w, y)
    BY <1>3 DEF LateInv
  <2>2. ASSUME NEW x \in ID PROVE \E y \in ID \ over[x] : AskedFor(w, y)'
    BY <1>3, StillAsked DEF LateInv
  <2> QED
    BY <2>1, <2>2, <1>2, StillAsked
<1>4. CASE w \notin late
  BY <1>4, <1>2 DEF Answered
<1> QED
  BY <1>3, <1>4

LEMMA TokensStay ==
  ASSUME TokensKept, Onwards, Answered, Truthful
  PROVE  TokensKept'
<1>1. SUFFICES ASSUME NEW x \in Call \cup Admin, PC(x)' # "idle", NEW t \in Tokens(x)'
               PROVE  <<t.room, t.puid>> \in admitted' \/ RemoverOf(<<t.room, t.puid>>, x)'
  BY DEF TokensKept
<1>2. x \in ID /\ PC(x) # "idle"
  BY <1>1 DEF ID, Onwards
<1>3. CASE t \in Tokens(x)
  <2>1. <<t.room, t.puid>> \in admitted \/ RemoverOf(<<t.room, t.puid>>, x)
    BY <1>2, <1>3 DEF TokensKept
  <2>2. CASE RemoverOf(<<t.room, t.puid>>, x)
    BY <2>2, <1>2, StillOutTo
  <2>3. CASE <<t.room, t.puid>> \in admitted
    BY <2>3, <1>2 DEF Answered
  <2> QED
    BY <2>1, <2>2, <2>3
<1>4. CASE t \notin Tokens(x)
  BY <1>1, <1>2, <1>4 DEF Truthful
<1> QED
  BY <1>3, <1>4

LEMMA RemovedStay ==
  ASSUME RemovedStayOut, Onwards, Answered, Truthful
  PROVE  RemovedStayOut'
<1>1. SUFFICES ASSUME NEW v \in Revocation, PC(v)' # "idle", NEW u \in Settled(revoke'[v]),
                      NEW g \in admitted', g = <<revoke'[v].req.room, revoke'[v].puids[u]>>
               PROVE  AdmitterOf(g, v)'
  BY DEF RemovedStayOut, Settled
<1>2. v \in ID /\ PC(v) # "idle" /\ revoke[v].pc # "idle"
  BY <1>1, RevocationKind DEF Onwards
<1>3. /\ u \in Settled(revoke[v])
      /\ revoke'[v].req = revoke[v].req /\ revoke'[v].puids = revoke[v].puids
  BY <1>1, <1>2 DEF Truthful
<1>4. CASE g \in admitted
  <2>1. AdmitterOf(g, v)
    BY <1>1, <1>2, <1>3, <1>4 DEF RemovedStayOut, Settled
  <2> QED
    BY <2>1, <1>2, StillOutTo
<1>5. CASE g \notin admitted
  BY <1>1, <1>2, <1>5 DEF Answered
<1> QED
  BY <1>4, <1>5

\* A call that is being served is not over for any other.
LEMMA ServedIsNotOver ==
  ASSUME ProcessInv, NEW y \in ID, y \notin cut, PC(y) # "done"
  PROVE  \A x \in ID : y \notin over[x]
BY DEF ProcessInv

LEMMA StepKeeps ==
  ASSUME ServiceInv, PublicInvFor(Call \ cut)', AdminInvFor(Admin \ cut)', RevokeInv',
         cut' \subseteq ID, crashes' \in 0..MaxCrashes, Onwards, Answered, Truthful
  PROVE  ServiceInv'
<1>1. TypeOK'
  BY DEF ServiceInv, TypeOK, Onwards, PublicInvFor, AdminInvFor, RevokeInv
<1>2. ProcessInv' /\ LateInv' /\ TokensKept' /\ RemovedStayOut'
  BY ProcessGoesOn, LateStays, TokensStay, RemovedStay DEF ServiceInv
<1> QED
  BY <1>1, <1>2 DEF ServiceInv

LEMMA ServiceTypes ==
  ASSUME ServiceInv
  PROVE  /\ cut \subseteq ID /\ crashes \in 0..MaxCrashes
         /\ PublicTypeOK /\ AdminTypeOK /\ RevokeTypeOK /\ BackendsTypeOK
         /\ RevokeInv /\ ProcessInv
BY DEF ServiceInv, TypeOK, PublicTypeOK

-----------------------------------------------------------------------------
(* The steps of the handlers. *)

LEMMA ServePublicInv ==
  ASSUME ServiceInv, NEW c \in Call, ServePublic(c)
  PROVE  ServiceInv' /\ PublicDid(c)
<1>1. /\ PublicHandler(c) /\ c \notin cut /\ UNCHANGED <<cut, crashes, over>>
      /\ UNCHANGED adminVars /\ UNCHANGED revokeVars
  BY DEF ServePublic, GoesOn, processVars
<1>2. PICK on : on = Call \ cut
  OBVIOUS
<1>3. PublicInvFor(on) /\ c \in on
  BY <1>1, <1>2 DEF ServiceInv
<1>4. PublicInvFor(on)'
  BY <1>1, <1>3, PublicHandlerInv
<1>5. PublicDid(c)
  BY <1>1, <1>3, PublicDoes
<1>6. PublicInvFor(Call \ cut)'
  BY <1>1, <1>2, <1>4, PublicKept
<1>7. BackendsTypeOK' /\ SameData /\ cut \subseteq cut'
  BY <1>1, <1>4, <1>5 DEF PublicInvFor, PublicTypeOK, PublicDid
<1>8. AdminInvFor(Admin \ cut)' /\ RevokeInv'
  BY <1>1, <1>7, AdminAside, RevokeElsewhere DEF ServiceInv
<1>9. c \in ID /\ PC(c) \notin {"idle", "done"} /\ \A x \in ID : c \notin over[x]
  <2>1. call[c].pc \notin {"idle", "done"}
    BY <1>5 DEF PublicDid, Moves, PublicServing
  <2> QED
    BY <1>1, <2>1, PublicKind, ServedIsNotOver, ServiceTypes
<1>10. \A d \in Call \ {c} : call'[d] = call[d]
  BY <1>5, ServiceTypes DEF PublicDid, Moves, PublicTypeOK
<1>11. Onwards
  <2>1. ASSUME NEW y \in ID
        PROVE  /\ Grants(y) \subseteq Grants(y)' /\ Targets(y) \subseteq Targets(y)'
               /\ (PC(y) = "idle") <=> (PC(y)' = "idle")
               /\ PC(y) = "done" => PC(y)' = "done"
    <3>1. CASE y \in Call
      <4>1. call'[c].pc # "idle"
        BY <1>5 DEF PublicDid, Moves, PublicServing
      <4>2. minted[y] \subseteq minted'[y]
        BY <1>5, <3>1 DEF PublicDid
      <4>3. CASE y = c
        BY <1>9, <3>1, <4>1, <4>2, <4>3, PublicKind
      <4>4. CASE y # c
        BY <1>10, <3>1, <4>2, <4>4, PublicKind
      <4> QED
        BY <4>3, <4>4
    <3>2. CASE y \in Admin
      BY <1>1, <3>2, AdminKind DEF adminVars
    <3>3. CASE y \in Revocation
      BY <1>1, <3>3, RevocationKind DEF revokeVars
    <3> QED
      BY <3>1, <3>2, <3>3 DEF ID
  <2> QED
    BY <1>1, <2>1 DEF Onwards
<1>12. Answered
  <2>1. ASSUME NEW g \in admitted' \ admitted, NEW x \in ID PROVE AdmitterOf(g, x)'
    <3>1. g \in Grants(c)'
      BY <1>5, PublicKind DEF PublicDid
    <3> QED
      BY <1>1, <1>9, <3>1 DEF AdmitterOf
  <2>2. admitted \ admitted' = {}
    BY <1>5 DEF PublicDid
  <2>3. ASSUME NEW w \in late' \ late
        PROVE  w.puids # {} /\ AskedFor(w, c)'
    <3>1. w.op = "admit" /\ w.puids # {} /\ {w.room} \X w.puids \subseteq Grants(c)'
      BY <1>5, PublicKind DEF PublicDid
    <3> QED
      BY <3>1 DEF AskedFor
  <2> QED
    BY <1>9, <2>1, <2>2, <2>3 DEF Answered
<1>13. Truthful
  <2>1. ASSUME NEW x \in Call \cup Admin, NEW t \in Tokens(x)' \ Tokens(x)
        PROVE  <<t.room, t.puid>> \in admitted'
    <3>1. CASE x = c
      BY <1>5, <2>1, <3>1, PublicKind DEF PublicDid, Filled
    <3>2. CASE x # c
      BY <1>1, <1>10, <2>1, <3>2, PublicKind, AdminKind DEF adminVars
    <3> QED
      BY <3>1, <3>2
  <2> QED
    BY <1>1, <2>1 DEF Truthful, revokeVars
<1>14. cut' \subseteq ID /\ crashes' \in 0..MaxCrashes
  BY <1>1, ServiceTypes
<1> QED
  BY <1>5, <1>6, <1>8, <1>11, <1>12, <1>13, <1>14, StepKeeps

LEMMA ServeAdminInv ==
  ASSUME ServiceInv, NEW a \in Admin, ServeAdmin(a)
  PROVE  ServiceInv' /\ AdminDid(a)
<1>1. /\ AdminHandler(a) /\ a \notin cut /\ UNCHANGED <<cut, crashes, over>>
      /\ UNCHANGED publicVars /\ UNCHANGED revokeVars
  BY DEF ServeAdmin, GoesOn, processVars
<1>2. PICK on : on = Admin \ cut
  OBVIOUS
<1>3. AdminInvFor(on) /\ a \in on
  BY <1>1, <1>2 DEF ServiceInv
<1>4. AdminInvFor(on)'
  BY <1>1, <1>3, AdminHandlerInv
<1>5. AdminDid(a)
  BY <1>1, <1>3, AdminDoes
<1>6. AdminInvFor(Admin \ cut)'
  BY <1>1, <1>2, <1>4, AdminKept
<1>7. BackendsTypeOK' /\ SameData /\ cut \subseteq cut'
  BY <1>1, <1>4, <1>5 DEF AdminInvFor, AdminTypeOK, AdminDid
<1>8. PublicInvFor(Call \ cut)' /\ RevokeInv'
  BY <1>1, <1>7, PublicAside, RevokeElsewhere DEF ServiceInv
<1>9. a \in ID /\ PC(a) \notin {"idle", "done"} /\ \A x \in ID : a \notin over[x]
  <2>1. admin[a].pc \notin {"idle", "done"}
    BY <1>5 DEF AdminDid, AdminMoves, AdminServing
  <2> QED
    BY <1>1, <2>1, AdminKind, ServedIsNotOver, ServiceTypes
<1>10. \A d \in Admin \ {a} : admin'[d] = admin[d]
  BY <1>5, ServiceTypes DEF AdminDid, AdminMoves, AdminTypeOK
<1>11. Onwards
  <2>1. ASSUME NEW y \in ID
        PROVE  /\ Grants(y) \subseteq Grants(y)' /\ Targets(y) \subseteq Targets(y)'
               /\ (PC(y) = "idle") <=> (PC(y)' = "idle")
               /\ PC(y) = "done" => PC(y)' = "done"
    <3>1. CASE y \in Admin
      <4>1. admin'[a].pc # "idle"
        BY <1>5 DEF AdminDid, AdminMoves, AdminServing
      <4>2. adminMinted[y] \subseteq adminMinted'[y]
        BY <1>5, <3>1 DEF AdminDid
      <4>3. CASE y = a
        BY <1>9, <3>1, <4>1, <4>2, <4>3, AdminKind
      <4>4. CASE y # a
        BY <1>10, <3>1, <4>2, <4>4, AdminKind
      <4> QED
        BY <4>3, <4>4
    <3>2. CASE y \in Call
      BY <1>1, <3>2, PublicKind DEF publicVars
    <3>3. CASE y \in Revocation
      BY <1>1, <3>3, RevocationKind DEF revokeVars
    <3> QED
      BY <3>1, <3>2, <3>3 DEF ID
  <2> QED
    BY <1>1, <2>1 DEF Onwards
<1>12. Answered
  <2>1. ASSUME NEW g \in admitted' \ admitted, NEW x \in ID PROVE AdmitterOf(g, x)'
    <3>1. g \in Grants(a)'
      BY <1>5, AdminKind DEF AdminDid
    <3> QED
      BY <1>1, <1>9, <3>1 DEF AdmitterOf
  <2>2. admitted \ admitted' = {}
    BY <1>5 DEF AdminDid
  <2>3. ASSUME NEW w \in late' \ late
        PROVE  w.puids # {} /\ AskedFor(w, a)'
    <3>1. w.op = "admit" /\ w.puids # {} /\ {w.room} \X w.puids \subseteq Grants(a)'
      BY <1>5, AdminKind DEF AdminDid
    <3> QED
      BY <3>1 DEF AskedFor
  <2> QED
    BY <1>9, <2>1, <2>2, <2>3 DEF Answered
<1>13. Truthful
  <2>1. ASSUME NEW x \in Call \cup Admin, NEW t \in Tokens(x)' \ Tokens(x)
        PROVE  <<t.room, t.puid>> \in admitted'
    <3>1. CASE x = a
      BY <1>5, <2>1, <3>1, AdminKind DEF AdminDid
    <3>2. CASE x # a
      BY <1>1, <1>10, <2>1, <3>2, PublicKind, AdminKind DEF publicVars
    <3> QED
      BY <3>1, <3>2
  <2> QED
    BY <1>1, <2>1 DEF Truthful, revokeVars
<1>14. cut' \subseteq ID /\ crashes' \in 0..MaxCrashes
  BY <1>1, ServiceTypes
<1> QED
  BY <1>5, <1>6, <1>8, <1>11, <1>12, <1>13, <1>14, StepKeeps

\* What a revocation is out to remove, it stays out to remove.
LEMMA StillUndoing ==
  ASSUME NEW v \in Revocation, RevokeDid(v)
  PROVE  /\ Undoing(revoke[v]) \subseteq Undoing(revoke'[v])
         /\ revoke[v].pc \notin {"idle", "done"} /\ revoke'[v].pc # "idle"
<1>1. CASE RevokeLinked(revoke[v]) = {}
  BY <1>1 DEF RevokeDid, RevokeServing, Undoing
<1>2. CASE revoke'[v].puids = revoke[v].puids
  BY <1>2 DEF RevokeDid, RevokeServing, Undoing, RevokeLinked
<1> QED
  BY <1>1, <1>2 DEF RevokeDid

LEMMA ServeRevocationInv ==
  ASSUME ServiceInv, NEW v \in Revocation, ServeRevocation(v)
  PROVE  ServiceInv' /\ RevokeDid(v)
<1>1. /\ RevokeHandler(v) /\ v \notin cut /\ UNCHANGED <<cut, crashes, over>>
      /\ UNCHANGED publicVars /\ UNCHANGED adminVars
  BY DEF ServeRevocation, GoesOn, processVars
<1>2. RevokeInv' /\ RevokeDid(v)
  BY <1>1, ServiceTypes, RevokeHandlerInv, RevokeDoes
<1>3. BackendsTypeOK' /\ SameData /\ cut \subseteq cut'
  BY <1>1, <1>2 DEF RevokeInv, RevokeTypeOK, RevokeDid
<1>4. PublicInvFor(Call \ cut)' /\ AdminInvFor(Admin \ cut)'
  BY <1>1, <1>3, PublicAside, AdminAside DEF ServiceInv
<1>5. v \in ID /\ PC(v) \notin {"idle", "done"} /\ \A x \in ID : v \notin over[x]
  BY <1>1, <1>2, RevocationKind, StillUndoing, ServedIsNotOver, ServiceTypes
<1>6. \A d \in Revocation \ {v} : revoke'[d] = revoke[d]
  BY <1>2, ServiceTypes DEF RevokeDid, RevokeTypeOK
<1>7. Undoing(revoke[v]) \subseteq Targets(v)'
  BY <1>2, RevocationKind, StillUndoing
<1>8. Onwards
  <2>1. ASSUME NEW y \in ID
        PROVE  /\ Grants(y) \subseteq Grants(y)' /\ Targets(y) \subseteq Targets(y)'
               /\ (PC(y) = "idle") <=> (PC(y)' = "idle")
               /\ PC(y) = "done" => PC(y)' = "done"
    <3>1. CASE y \in Revocation
      <4>1. CASE y = v
        BY <1>2, <1>7, <4>1, RevocationKind, StillUndoing
      <4>2. CASE y # v
        BY <1>6, <3>1, <4>2, RevocationKind
      <4> QED
        BY <4>1, <4>2
    <3>2. CASE y \in Call
      BY <1>1, <3>2, PublicKind DEF publicVars
    <3>3. CASE y \in Admin
      BY <1>1, <3>3, AdminKind DEF adminVars
    <3> QED
      BY <3>1, <3>2, <3>3 DEF ID
  <2> QED
    BY <1>1, <2>1 DEF Onwards
<1>9. Answered
  <2>1. ASSUME NEW g \in admitted \ admitted', NEW x \in ID PROVE RemoverOf(g, x)'
    <3>1. g \in Targets(v)'
      BY <1>2, <1>7 DEF RevokeDid
    <3> QED
      BY <1>1, <1>5, <3>1 DEF RemoverOf
  <2>2. admitted' \ admitted = {}
    BY <1>2 DEF RevokeDid
  <2>3. ASSUME NEW w \in late' \ late
        PROVE  w.puids # {} /\ AskedFor(w, v)'
    <3>1. w.op = "remove" /\ w.puids # {} /\ {w.room} \X w.puids \subseteq Undoing(revoke[v])
      BY <1>2 DEF RevokeDid
    <3>2. {w.room} \X w.puids \subseteq Targets(v)'
      BY <1>7, <3>1
    <3> QED
      BY <3>1, <3>2 DEF AskedFor
  <2> QED
    BY <1>5, <2>1, <2>2, <2>3 DEF Answered
<1>10. Truthful
  <2>1. ASSUME NEW x \in Call \cup Admin PROVE Tokens(x)' = Tokens(x)
    BY <1>1, PublicKind, AdminKind DEF publicVars, adminVars
  <2>2. ASSUME NEW r \in Revocation, NEW u \in Settled(revoke'[r])
        PROVE  \/ <<revoke'[r].req.room, revoke'[r].puids[u]>> \notin admitted'
               \/ /\ u \in Settled(revoke[r])
                  /\ revoke'[r].req = revoke[r].req /\ revoke'[r].puids = revoke[r].puids
    <3>1. CASE r = v
      BY <1>2, <2>2, <3>1 DEF RevokeDid
    <3>2. CASE r # v
      BY <1>6, <2>2, <3>2
    <3> QED
      BY <3>1, <3>2
  <2> QED
    BY <2>1, <2>2 DEF Truthful
<1>11. cut' \subseteq ID /\ crashes' \in 0..MaxCrashes
  BY <1>1, ServiceTypes
<1> QED
  BY <1>2, <1>4, <1>8, <1>9, <1>10, <1>11, StepKeeps

-----------------------------------------------------------------------------
(* The end of the process, and the world. *)

\* Ending calls, if any, is all that is done.
LEMMA NothingDone ==
  ASSUME ServiceInv, UNCHANGED backendVars, UNCHANGED publicVars, UNCHANGED adminVars,
         UNCHANGED revokeVars, over' = over, crashes' \in 0..MaxCrashes,
         cut \subseteq cut', \A x \in cut' \ cut : x \in ID /\ PC(x) # "idle"
  PROVE  ServiceInv'
<1>1. BackendsTypeOK' /\ SameData /\ cut' \subseteq ID
  BY ServiceTypes DEF backendVars, SameData, BackendsTypeOK
<1>2. PublicInvFor(Call \ cut)' /\ AdminInvFor(Admin \ cut)' /\ RevokeInv'
  BY <1>1, ServiceTypes, PublicAside, AdminAside, RevokeElsewhere DEF ServiceInv
<1>3. ASSUME NEW y \in ID
      PROVE  Grants(y)' = Grants(y) /\ Targets(y)' = Targets(y) /\ PC(y)' = PC(y)
  <2>1. CASE y \in Call
    BY <2>1, PublicKind DEF publicVars
  <2>2. CASE y \in Admin
    BY <2>2, AdminKind DEF adminVars
  <2>3. CASE y \in Revocation
    BY <2>3, RevocationKind DEF revokeVars
  <2> QED
    BY <2>1, <2>2, <2>3 DEF ID
<1>4. Onwards
  BY <1>3 DEF Onwards
<1>5. Answered
  BY DEF Answered, backendVars
<1>6. Truthful
  <2>1. ASSUME NEW x \in Call \cup Admin PROVE Tokens(x)' = Tokens(x)
    BY PublicKind, AdminKind DEF publicVars, adminVars
  <2> QED
    BY <2>1 DEF Truthful, revokeVars
<1> QED
  BY <1>1, <1>2, <1>4, <1>5, <1>6, StepKeeps

LEMMA CrashInv ==
  ASSUME ServiceInv, Crash
  PROVE  ServiceInv'
<1>1. /\ UNCHANGED backendVars /\ UNCHANGED publicVars /\ UNCHANGED adminVars
      /\ UNCHANGED revokeVars /\ over' = over
      /\ cut' = cut \cup {x \in ID : UnderWay(x)}
      /\ crashes < MaxCrashes /\ crashes' = crashes + 1
  BY DEF Crash
<1>2. crashes' \in 0..MaxCrashes
  BY <1>1, ServiceTypes, ServiceAssumption
<1>3. cut \subseteq cut' /\ \A x \in cut' \ cut : x \in ID /\ PC(x) # "idle"
  BY <1>1 DEF UnderWay
<1> QED
  BY <1>1, <1>2, <1>3, NothingDone

\* The calls under way are those whose histories are kept.
LEMMA UnderWayCalls ==
  ASSUME ServiceInv
  PROVE  /\ \A c \in Call : UnderWay(c) <=> c \in Call \ cut /\ call[c].pc \in PublicServing
         /\ \A a \in Admin : UnderWay(a) <=> a \in Admin \ cut /\ admin[a].pc \in AdminServing
<1>1. ASSUME NEW c \in Call
      PROVE  UnderWay(c) <=> c \in Call \ cut /\ call[c].pc \in PublicServing
  <2>1. call[c] \in CallState \cup {PublicIdle}
    BY ServiceTypes DEF PublicTypeOK
  <2>2. call[c].pc \in PublicServing \cup {"done", "idle"}
    BY <2>1 DEF CallState, PublicIdle
  <2> QED
    BY <2>2, PublicKind DEF UnderWay, PublicServing
<1>2. ASSUME NEW a \in Admin
      PROVE  UnderWay(a) <=> a \in Admin \ cut /\ admin[a].pc \in AdminServing
  <2>1. admin[a] \in AdminState \cup {AdminIdle}
    BY ServiceTypes DEF AdminTypeOK
  <2>2. admin[a].pc \in AdminServing \cup {"done", "idle"}
    BY <2>1 DEF AdminState, AdminIdle
  <2> QED
    BY <2>2, AdminKind DEF UnderWay, AdminServing
<1> QED
  BY <1>1, <1>2

\* Of what Epic does late, some call that was not over when x began is the
\* author, whatever x.
LEMMA Authors ==
  ASSUME ServiceInv, NEW w \in late, NEW g \in {w.room} \X w.puids, NEW x \in ID
  PROVE  /\ w.op = "admit" => AdmitterOf(g, x)
         /\ w.op # "admit" => RemoverOf(g, x)
<1>1. PICK y \in ID \ over[x] : AskedFor(w, y)
  BY DEF ServiceInv, LateInv
<1>2. CASE w.op = "admit"
  <2>1. g \in Grants(y)
    BY <1>1, <1>2 DEF AskedFor
  <2> QED
    BY <1>1, <1>2, <2>1, OutTo DEF AdmitterOf
<1>3. CASE w.op # "admit"
  <2>1. g \in Targets(y)
    BY <1>1, <1>3 DEF AskedFor
  <2> QED
    BY <1>1, <1>3, <2>1, OutTo DEF RemoverOf
<1> QED
  BY <1>2, <1>3

\* The data changes and the rooms do not, or something late happens.
LEMMA ChangeIs ==
  ASSUME BackendsChange
  PROVE  \/ UNCHANGED <<admitted, late>>
         \/ SameData /\ \E w \in late : Land(w)
BY DEF BackendsChange, ChangeRoster, ChangeTeam, Disband, ChangeLink, Land, SameData

LEMMA WorldInv ==
  ASSUME ServiceInv, World
  PROVE  ServiceInv'
<1>1. PICK cs : cs = {c \in Call : UnderWay(c)}
  OBVIOUS
<1>2. PICK as : as = {a \in Admin : UnderWay(a)}
  OBVIOUS
<1>3. /\ BackendsChange /\ PublicWatch(cs) /\ AdminWatch(as) /\ RevokeWatch
      /\ UNCHANGED <<revoke, tried>> /\ UNCHANGED <<cut, crashes, over>>
  BY <1>1, <1>2 DEF World, processVars
<1>4. BackendsTypeOK'
  BY <1>3, ServiceTypes, BackendsChangeType
<1>5. PublicInvFor(Call \ cut)'
  <2>1. PICK on : on = Call \ cut
    OBVIOUS
  <2>2. PublicInvFor(on)
    BY <2>1 DEF ServiceInv
  <2>3. \A c \in Call : c \in cs <=> c \in on /\ call[c].pc \in PublicServing
    BY <1>1, <2>1, UnderWayCalls
  <2>4. PublicInvFor(on)'
    BY <1>3, <1>4, <2>2, <2>3, PublicWatchInv
  <2>5. Call \ cut' \subseteq on
    BY <1>3, <2>1
  <2> QED
    BY <2>4, <2>5, PublicKept
<1>6. AdminInvFor(Admin \ cut)'
  <2>1. PICK on : on = Admin \ cut
    OBVIOUS
  <2>2. AdminInvFor(on)
    BY <2>1 DEF ServiceInv
  <2>3. \A a \in Admin : a \in as <=> a \in on /\ admin[a].pc \in AdminServing
    BY <1>2, <2>1, UnderWayCalls
  <2>4. AdminInvFor(on)'
    BY <1>3, <1>4, <2>2, <2>3, AdminWatchInv
  <2>5. Admin \ cut' \subseteq on
    BY <1>3, <2>1
  <2> QED
    BY <2>4, <2>5, AdminKept
<1>7. RevokeInv'
  BY <1>3, <1>4, ServiceTypes, RevokeWatchInv
<1>8. /\ UNCHANGED <<call, minted>> /\ UNCHANGED <<admin, adminMinted>>
  BY <1>3 DEF PublicWatch, AdminWatch
<1>9. ASSUME NEW y \in ID
      PROVE  Grants(y)' = Grants(y) /\ Targets(y)' = Targets(y) /\ PC(y)' = PC(y)
  BY <1>3, <1>8, <1>9, PublicKind, AdminKind, RevocationKind DEF ID
<1>10. Onwards
  BY <1>3, <1>9 DEF Onwards
<1>11. Answered
  <2>1. CASE UNCHANGED <<admitted, late>>
    BY <2>1 DEF Answered
  <2>2. ASSUME NEW w \in late, Land(w) PROVE Answered
    <3>1. late' \subseteq late
      BY <2>2 DEF Land
    <3>2. ASSUME NEW g \in admitted' \ admitted, NEW x \in ID PROVE AdmitterOf(g, x)'
      <4>1. w.op = "admit" /\ g \in {w.room} \X w.puids
        BY <2>2, <3>2 DEF Land, Done
      <4> QED
        BY <1>10, <4>1, Authors, StillOutTo
    <3>3. ASSUME NEW g \in admitted \ admitted', NEW x \in ID PROVE RemoverOf(g, x)'
      <4>1. w.op # "admit" /\ g \in {w.room} \X w.puids
        BY <2>2, <3>3 DEF Land, Done
      <4> QED
        BY <1>10, <4>1, Authors, StillOutTo
    <3> QED
      BY <3>1, <3>2, <3>3 DEF Answered
  <2> QED
    BY <1>3, <2>1, <2>2, ChangeIs
<1>12. Truthful
  <2>1. ASSUME NEW x \in Call \cup Admin PROVE Tokens(x)' = Tokens(x)
    BY <1>8, PublicKind, AdminKind
  <2> QED
    BY <1>3, <2>1 DEF Truthful
<1>13. cut' \subseteq ID /\ crashes' \in 0..MaxCrashes
  BY <1>3, ServiceTypes
<1> QED
  BY <1>5, <1>6, <1>7, <1>10, <1>11, <1>12, <1>13, StepKeeps

-----------------------------------------------------------------------------
(* A call is taken up. *)

\* Nothing is asked of Epic, and the call has nothing to show yet.
TakenUp(x) ==
  /\ x \in ID /\ PC(x) = "idle" /\ PC(x)' # "idle"
  /\ Takes(x)
  /\ UNCHANGED backendVars
  /\ \A y \in ID \ {x} : PC(y)' = PC(y)
  /\ \A y \in ID : Grants(y)' = Grants(y) /\ Targets(y)' = Targets(y)
  /\ \A y \in Call \cup Admin : Tokens(y)' = IF y = x THEN {} ELSE Tokens(y)
  /\ \A v \in Revocation : IF v = x THEN RevokeLinked(revoke'[v]) = {} ELSE revoke'[v] = revoke[v]

\* Who has asked for something late is not over.
LEMMA AskerIsNotOver ==
  ASSUME NEW w \in late, w.puids # {}, NEW y \in ID, AskedFor(w, y)
  PROVE  ~Over(y)
<1>1. PICK g : g \in {w.room} \X w.puids
  <2>1. PICK p \in w.puids : TRUE
    OBVIOUS
  <2>2. <<w.room, p>> \in {w.room} \X w.puids
    BY <2>1
  <2> QED
    BY <2>2
<1>2. ({w.room} \X w.puids) \cap (IF w.op = "admit" THEN Grants(y) ELSE Targets(y)) # {}
  BY <1>1 DEF AskedFor
<1> QED
  BY <1>2 DEF Over

LEMMA BeginKeeps ==
  ASSUME ServiceInv, NEW x, TakenUp(x),
         PublicInvFor(Call \ cut)', AdminInvFor(Admin \ cut)', RevokeInv'
  PROVE  ServiceInv'
<1>1. /\ x \in ID /\ PC(x) = "idle" /\ PC(x)' # "idle"
      /\ over' = [over EXCEPT ![x] = {y \in ID : Over(y)}]
      /\ cut' = cut /\ crashes' = crashes /\ admitted' = admitted /\ late' = late
  BY DEF TakenUp, Takes, processVars, backendVars
<1>2. over \in [ID -> SUBSET ID]
  BY DEF ServiceInv, TypeOK
<1>3. /\ \A z \in ID \ {x} : over'[z] = over[z]
      /\ over'[x] = {y \in ID : Over(y)}
      /\ over' \in [ID -> SUBSET ID]
  BY <1>1, <1>2
<1>4. TypeOK'
  BY <1>1, <1>3, ServiceTypes DEF TypeOK, PublicInvFor, AdminInvFor, RevokeInv
<1>5. ProcessInv'
  <2>1. ASSUME NEW z \in cut' PROVE PC(z)' # "idle"
    BY <1>1, <2>1, ServiceTypes DEF ProcessInv, TakenUp
  <2>2. ASSUME NEW z \in ID, NEW y \in over'[z] PROVE PC(y)' = "done" \/ y \in cut'
    <3>1. y \in ID /\ (PC(y) = "done" \/ y \in cut)
      <4>1. CASE z = x
        BY <1>3, <2>2, <4>1 DEF Over
      <4>2. CASE z # x
        BY <1>2, <1>3, <2>2, <4>2, ServiceTypes DEF ProcessInv
      <4> QED
        BY <4>1, <4>2
    <3> QED
      BY <1>1, <3>1 DEF TakenUp
  <2> QED
    BY <2>1, <2>2 DEF ProcessInv
<1>6. LateInv'
  <2>1. ASSUME NEW w \in late
        PROVE  /\ w.puids # {}
               /\ \E y \in ID : AskedFor(w, y)'
               /\ \A z \in ID : \E y \in ID \ over'[z] : AskedFor(w, y)'
    <3>1. /\ w.puids # {}
          /\ \E y \in ID : AskedFor(w, y)
          /\ \A z \in ID : \E y \in ID \ over[z] : AskedFor(w, y)
      BY DEF ServiceInv, LateInv
    <3>2. ASSUME NEW y \in ID, AskedFor(w, y) PROVE AskedFor(w, y)' /\ y \notin over'[x]
      BY <1>3, <3>1, <3>2, AskerIsNotOver DEF TakenUp, AskedFor
    <3>3. ASSUME NEW z \in ID PROVE \E y \in ID \ over'[z] : AskedFor(w, y)'
      <4>1. CASE z = x
        BY <3>1, <3>2, <4>1
      <4>2. CASE z # x
        BY <1>3, <3>1, <3>2, <4>2
      <4> QED
        BY <4>1, <4>2
    <3> QED
      BY <3>1, <3>2, <3>3
  <2> QED
    BY <1>1, <2>1 DEF LateInv
<1>7. TokensKept'
  <2>1. SUFFICES ASSUME NEW z \in Call \cup Admin, PC(z)' # "idle", NEW t \in Tokens(z)'
                 PROVE  <<t.room, t.puid>> \in admitted' \/ RemoverOf(<<t.room, t.puid>>, z)'
    BY DEF TokensKept
  <2>2. z # x /\ t \in Tokens(z) /\ z \in ID /\ PC(z) # "idle"
    BY <2>1 DEF TakenUp, ID
  <2>3. <<t.room, t.puid>> \in admitted \/ RemoverOf(<<t.room, t.puid>>, z)
    BY <2>2 DEF ServiceInv, TokensKept
  <2>4. ASSUME NEW g, RemoverOf(g, z) PROVE RemoverOf(g, z)'
    BY <1>3, <2>2, <2>4 DEF RemoverOf, TakenUp, ID
  <2> QED
    BY <1>1, <2>3, <2>4
<1>8. RemovedStayOut'
  <2>1. SUFFICES ASSUME NEW v \in Revocation, PC(v)' # "idle", NEW u \in Settled(revoke'[v]),
                        NEW g \in admitted', g = <<revoke'[v].req.room, revoke'[v].puids[u]>>
                 PROVE  AdmitterOf(g, v)'
    BY DEF RemovedStayOut, Settled
  <2>2. v # x /\ revoke'[v] = revoke[v] /\ v \in ID /\ PC(v) # "idle"
    BY <2>1 DEF TakenUp, ID, Settled
  <2>3. AdmitterOf(g, v)
    BY <1>1, <2>1, <2>2 DEF ServiceInv, RemovedStayOut, Settled
  <2> QED
    BY <1>3, <2>2, <2>3 DEF AdmitterOf, TakenUp, ID
<1> QED
  BY <1>4, <1>5, <1>6, <1>7, <1>8 DEF ServiceInv

\* What a call that is taken up leaves as it is, whichever kind it is.
LEMMA OthersAtBegin ==
  ASSUME NEW x \in ID, PC(x) = "idle", x \notin cut,
         \A y \in ID \ {x} : /\ PC(y)' = PC(y) /\ Grants(y)' = Grants(y)
                             /\ Targets(y)' = Targets(y),
         PC(x)' # "idle", Grants(x)' = Grants(x), Targets(x)' = Targets(x),
         Takes(x), UNCHANGED backendVars,
         \A y \in Call \cup Admin : Tokens(y)' = IF y = x THEN {} ELSE Tokens(y),
         \A v \in Revocation : IF v = x THEN RevokeLinked(revoke'[v]) = {}
           ELSE revoke'[v] = revoke[v]
  PROVE  TakenUp(x) /\ SameData /\ cut \subseteq cut'
BY DEF TakenUp, Takes, processVars, backendVars, SameData

LEMMA BeginPublicInv ==
  ASSUME ServiceInv, NEW c \in Call, BeginPublic(c)
  PROVE  ServiceInv' /\ TakenUp(c)
<1>1. PICK r \in Request \cap Asks : PublicBegin(c, r)
  BY DEF BeginPublic
<1>2. Takes(c) /\ UNCHANGED adminVars /\ UNCHANGED revokeVars /\ cut' = cut
  BY DEF BeginPublic, Takes, processVars
<1>3. c \in ID /\ PC(c) = "idle" /\ c \notin cut
  BY <1>1, PublicKind, ServiceTypes DEF PublicBegin, PublicAt, ProcessInv
<1>4. /\ UNCHANGED backendVars /\ minted' = minted
      /\ call'[c].pc # "idle" /\ call'[c].tokens = {}
      /\ \A d \in Call \ {c} : call'[d] = call[d]
  BY <1>1, ServiceTypes DEF PublicBegin, PublicTypeOK
<1>5. ASSUME NEW y \in ID \ {c}
      PROVE  PC(y)' = PC(y) /\ Grants(y)' = Grants(y) /\ Targets(y)' = Targets(y)
  <2>1. CASE y \in Call
    BY <1>4, <1>5, <2>1, PublicKind
  <2>2. CASE y \in Admin
    BY <1>2, <2>2, AdminKind DEF adminVars
  <2>3. CASE y \in Revocation
    BY <1>2, <2>3, RevocationKind DEF revokeVars
  <2> QED
    BY <2>1, <2>2, <2>3 DEF ID
<1>6. PC(c)' # "idle" /\ Grants(c)' = Grants(c) /\ Targets(c)' = Targets(c)
  BY <1>4, PublicKind
<1>7. ASSUME NEW y \in Call \cup Admin PROVE Tokens(y)' = IF y = c THEN {} ELSE Tokens(y)
  <2>1. CASE y = c
    BY <1>4, <2>1, PublicKind DEF Filled
  <2>2. CASE y # c
    BY <1>2, <1>4, <1>7, <2>2, PublicKind, AdminKind DEF adminVars
  <2> QED
    BY <2>1, <2>2
<1>8. ASSUME NEW v \in Revocation
      PROVE  IF v = c THEN RevokeLinked(revoke'[v]) = {} ELSE revoke'[v] = revoke[v]
  BY <1>2, PublicKind DEF revokeVars
<1>9. TakenUp(c) /\ SameData
  BY <1>2, <1>3, <1>4, <1>5, <1>6, <1>7, <1>8, OthersAtBegin
<1>10. PublicInvFor(Call \ cut)'
  <2>1. PICK on : on = Call \ cut
    OBVIOUS
  <2>2. PublicInvFor(on) /\ c \in on
    BY <1>3, <2>1 DEF ServiceInv
  <2>3. r \in Request
    OBVIOUS
  <2>4. PublicInvFor(on)'
    BY <1>1, <2>2, <2>3, PublicBeginInv
  <2> QED
    BY <1>2, <2>1, <2>4, PublicKept
<1>11. BackendsTypeOK' /\ cut \subseteq cut'
  BY <1>2, <1>10 DEF PublicInvFor, PublicTypeOK
<1>12. AdminInvFor(Admin \ cut)' /\ RevokeInv'
  BY <1>2, <1>9, <1>11, ServiceTypes, AdminAside, RevokeElsewhere DEF ServiceInv
<1> QED
  BY <1>9, <1>10, <1>12, BeginKeeps

LEMMA BeginAdminInv ==
  ASSUME ServiceInv, NEW a \in Admin, BeginAdmin(a)
  PROVE  ServiceInv' /\ TakenUp(a)
<1>1. PICK r \in AdminRequest \cap Asks : AdminBegin(a, r)
  BY DEF BeginAdmin
<1>2. Takes(a) /\ UNCHANGED publicVars /\ UNCHANGED revokeVars /\ cut' = cut
  BY DEF BeginAdmin, Takes, processVars
<1>3. a \in ID /\ PC(a) = "idle" /\ a \notin cut
  BY <1>1, AdminKind, ServiceTypes DEF AdminBegin, AdminAt, ProcessInv
<1>4. /\ UNCHANGED backendVars /\ adminMinted' = adminMinted
      /\ admin'[a].pc # "idle" /\ admin'[a].tokens = {}
      /\ \A d \in Admin \ {a} : admin'[d] = admin[d]
  BY <1>1, ServiceTypes DEF AdminBegin, AdminTypeOK
<1>5. ASSUME NEW y \in ID \ {a}
      PROVE  PC(y)' = PC(y) /\ Grants(y)' = Grants(y) /\ Targets(y)' = Targets(y)
  <2>1. CASE y \in Call
    BY <1>2, <2>1, PublicKind DEF publicVars
  <2>2. CASE y \in Admin
    BY <1>4, <1>5, <2>2, AdminKind
  <2>3. CASE y \in Revocation
    BY <1>2, <2>3, RevocationKind DEF revokeVars
  <2> QED
    BY <2>1, <2>2, <2>3 DEF ID
<1>6. PC(a)' # "idle" /\ Grants(a)' = Grants(a) /\ Targets(a)' = Targets(a)
  BY <1>4, AdminKind
<1>7. ASSUME NEW y \in Call \cup Admin PROVE Tokens(y)' = IF y = a THEN {} ELSE Tokens(y)
  BY <1>2, <1>4, <1>7, PublicKind, AdminKind DEF publicVars
<1>8. ASSUME NEW v \in Revocation
      PROVE  IF v = a THEN RevokeLinked(revoke'[v]) = {} ELSE revoke'[v] = revoke[v]
  BY <1>2, AdminKind DEF revokeVars
<1>9. TakenUp(a) /\ SameData
  BY <1>2, <1>3, <1>4, <1>5, <1>6, <1>7, <1>8, OthersAtBegin
<1>10. AdminInvFor(Admin \ cut)'
  <2>1. PICK on : on = Admin \ cut
    OBVIOUS
  <2>2. AdminInvFor(on) /\ a \in on
    BY <1>3, <2>1 DEF ServiceInv
  <2>3. r \in AdminRequest
    OBVIOUS
  <2>4. AdminInvFor(on)'
    BY <1>1, <2>2, <2>3, AdminBeginInv
  <2> QED
    BY <1>2, <2>1, <2>4, AdminKept
<1>11. BackendsTypeOK' /\ cut \subseteq cut'
  BY <1>2, <1>10 DEF AdminInvFor, AdminTypeOK
<1>12. PublicInvFor(Call \ cut)' /\ RevokeInv'
  BY <1>2, <1>9, <1>11, ServiceTypes, PublicAside, RevokeElsewhere DEF ServiceInv
<1> QED
  BY <1>9, <1>10, <1>12, BeginKeeps

LEMMA BeginRevocationInv ==
  ASSUME ServiceInv, NEW v \in Revocation, BeginRevocation(v)
  PROVE  ServiceInv' /\ TakenUp(v)
<1>1. PICK r \in RevokeRequest \cap Asks : RevokeBegin(v, r)
  BY DEF BeginRevocation
<1>2. Takes(v) /\ UNCHANGED publicVars /\ UNCHANGED adminVars /\ cut' = cut
  BY DEF BeginRevocation, Takes, processVars
<1>3. v \in ID /\ PC(v) = "idle" /\ v \notin cut
  BY <1>1, RevocationKind, ServiceTypes DEF RevokeBegin, RevokeAt, ProcessInv
<1>4. /\ UNCHANGED backendVars
      /\ revoke'[v].pc # "idle" /\ RevokeLinked(revoke'[v]) = {}
      /\ \A d \in Revocation \ {v} : revoke'[d] = revoke[d]
  BY <1>1, ServiceTypes DEF RevokeBegin, RevokeTypeOK, RevokeLinked
<1>5. ASSUME NEW y \in ID \ {v}
      PROVE  PC(y)' = PC(y) /\ Grants(y)' = Grants(y) /\ Targets(y)' = Targets(y)
  <2>1. CASE y \in Call
    BY <1>2, <2>1, PublicKind DEF publicVars
  <2>2. CASE y \in Admin
    BY <1>2, <2>2, AdminKind DEF adminVars
  <2>3. CASE y \in Revocation
    BY <1>4, <1>5, <2>3, RevocationKind
  <2> QED
    BY <2>1, <2>2, <2>3 DEF ID
<1>6. PC(v)' # "idle" /\ Grants(v)' = Grants(v) /\ Targets(v)' = Targets(v)
  <2>1. Undoing(revoke'[v]) = {}
    BY <1>4 DEF Undoing
  <2> QED
    BY <1>3, <1>4, <2>1, RevocationKind
<1>7. ASSUME NEW y \in Call \cup Admin PROVE Tokens(y)' = IF y = v THEN {} ELSE Tokens(y)
  BY <1>2, <1>7, PublicKind, AdminKind DEF publicVars, adminVars
<1>8. ASSUME NEW z \in Revocation
      PROVE  IF z = v THEN RevokeLinked(revoke'[z]) = {} ELSE revoke'[z] = revoke[z]
  BY <1>4
<1>9. TakenUp(v) /\ SameData
  BY <1>2, <1>3, <1>4, <1>5, <1>6, <1>7, <1>8, OthersAtBegin
<1>10. RevokeInv'
  <2>1. r \in RevokeRequest
    OBVIOUS
  <2> QED
    BY <1>1, <2>1, ServiceTypes, RevokeBeginInv
<1>11. BackendsTypeOK' /\ cut \subseteq cut'
  BY <1>2, <1>10 DEF RevokeInv, RevokeTypeOK
<1>12. PublicInvFor(Call \ cut)' /\ AdminInvFor(Admin \ cut)'
  BY <1>2, <1>9, <1>11, PublicAside, AdminAside DEF ServiceInv
<1> QED
  BY <1>9, <1>10, <1>12, BeginKeeps

-----------------------------------------------------------------------------
(* The theorems about the safety properties. *)

LEMMA ServiceInitInv == Init => ServiceInv
<1>1. SUFFICES ASSUME Init PROVE ServiceInv
  OBVIOUS
<1>2. /\ PublicInvFor(Call) /\ AdminInvFor(Admin) /\ RevokeInv
      /\ cut = {} /\ crashes = 0 /\ over = [x \in ID |-> {}] /\ late = {}
  BY <1>1, PublicInitInv, AdminInitInv, RevokeInitInv
     DEF Init, PublicInv, AdminInv, PublicInit, BackendsInit, DataInit
<1>3. TypeOK
  BY <1>2, ServiceAssumption DEF TypeOK, PublicInvFor, AdminInvFor, RevokeInv
<1>4. PublicInvFor(Call \ cut) /\ AdminInvFor(Admin \ cut)
  BY <1>2 DEF PublicInvFor, AdminInvFor
<1>5. ASSUME NEW x \in ID PROVE PC(x) = "idle"
  <2>1. CASE x \in Call
    BY <1>1, <2>1, PublicKind DEF Init, PublicInit, PublicIdle
  <2>2. CASE x \in Admin
    BY <1>1, <2>2, AdminKind DEF Init, AdminInit, AdminIdle
  <2>3. CASE x \in Revocation
    BY <1>1, <2>3, RevocationKind DEF Init, RevokeInit, RevokeIdle
  <2> QED
    BY <2>1, <2>2, <2>3 DEF ID
<1>6. ProcessInv /\ LateInv
  BY <1>2 DEF ProcessInv, LateInv
<1>7. TokensKept /\ RemovedStayOut
  BY <1>5 DEF TokensKept, RemovedStayOut, ID
<1> QED
  BY <1>2, <1>3, <1>4, <1>6, <1>7 DEF ServiceInv

LEMMA ServiceNextInv == ServiceInv /\ [Next]_vars => ServiceInv'
<1> SUFFICES ASSUME ServiceInv, [Next]_vars PROVE ServiceInv'
  OBVIOUS
<1>1. CASE UNCHANGED vars
  <2>1. /\ UNCHANGED backendVars /\ UNCHANGED publicVars /\ UNCHANGED adminVars
        /\ UNCHANGED revokeVars /\ over' = over /\ crashes' = crashes /\ cut' = cut
    BY <1>1 DEF vars, processVars
  <2> QED
    BY <2>1, ServiceTypes, NothingDone
<1>2. ASSUME NEW c \in Call, BeginPublic(c) \/ ServePublic(c) PROVE ServiceInv'
  BY <1>2, BeginPublicInv, ServePublicInv
<1>3. ASSUME NEW a \in Admin, BeginAdmin(a) \/ ServeAdmin(a) PROVE ServiceInv'
  BY <1>3, BeginAdminInv, ServeAdminInv
<1>4. ASSUME NEW v \in Revocation, BeginRevocation(v) \/ ServeRevocation(v) PROVE ServiceInv'
  BY <1>4, BeginRevocationInv, ServeRevocationInv
<1>5. CASE Crash
  BY <1>5, CrashInv
<1>6. CASE World
  BY <1>6, WorldInv
<1> QED
  BY <1>1, <1>2, <1>3, <1>4, <1>5, <1>6 DEF Next

\* The invariant of the service holds.
THEOREM ServiceInductive == Spec => []ServiceInv
<1>1. Init => ServiceInv
  BY ServiceInitInv
<1>2. ServiceInv /\ [Next]_vars => ServiceInv'
  BY ServiceNextInv
<1> QED
  BY <1>1, <1>2, PTL DEF Spec

\* Type correctness of the service as a whole.
THEOREM ServiceTypeCorrect == Spec => []TypeOK
<1>1. ServiceInv => TypeOK
  BY DEF ServiceInv
<1> QED
  BY <1>1, ServiceInductive, PTL

\* What a success reply of RevokeToken is worth in the presence of other calls,
\* late answers, changes of memberships and links, and ends of the process.
THEOREM RevocationsHold == Spec => []RevocationHolds
<1>1. ServiceInv => RevocationHolds
  <2>1. SUFFICES ASSUME ServiceInv, NEW v \in Revocation,
                        revoke[v].pc = "done", revoke[v].reply = "OK",
                        NEW g \in Targets(v) \cap admitted
                 PROVE  \/ \E c \in Call \ over[v] : g \in minted[c] /\ g[1] \in seen[c].held
                        \/ \E a \in Admin \ over[v] : g \in adminMinted[a] /\
                             \E u \in User : <<g[1], u>> \in adminSeen[a].eligible
    BY DEF RevocationHolds, RevokeAt
  <2>2. g \in Undoing(revoke[v]) /\ PC(v) # "idle"
    BY <2>1, RevocationKind
  <2>3. revoke[v].left = {} /\ revoke[v].errors = {}
    BY <2>1, RevokeMiddle DEF ServiceInv, RevokeCallInv
  <2>4. PICK u \in RevokeLinked(revoke[v]) : g = <<revoke[v].req.room, revoke[v].puids[u]>>
    BY <2>2 DEF Undoing
  <2>5. AdmitterOf(g, v)
    BY <2>1, <2>2, <2>3, <2>4 DEF ServiceInv, RemovedStayOut
  <2>6. PICK y \in (Call \cup Admin) \ over[v] : g \in Grants(y)
    BY <2>5 DEF AdmitterOf
  <2>7. CASE y \in Call
    <3>1. g \in minted[y]
      BY <2>6, <2>7, PublicKind
    <3>2. g[1] \in seen[y].held
      BY <2>1, <2>7, <3>1 DEF ServiceInv, PublicInvFor, PublicCallInv
    <3> QED
      BY <2>6, <2>7, <3>1, <3>2
  <2>8. CASE y \in Admin
    <3>1. g \in adminMinted[y]
      BY <2>6, <2>8, AdminKind
    <3>2. \E x \in User : <<g[1], x>> \in adminSeen[y].eligible
      BY <2>1, <2>8, <3>1 DEF ServiceInv, AdminInvFor, AdminCallInv
    <3> QED
      BY <2>6, <2>8, <3>1, <3>2
  <2> QED
    BY <2>6, <2>7, <2>8
<1> QED
  BY <1>1, ServiceInductive, PTL

\* A token that was handed out is good until a revocation that names its holder
\* interferes.
THEOREM TokensStandUp == Spec => []TokensStand
<1>1. ServiceInv => TokensStand
  <2>1. SUFFICES ASSUME ServiceInv, NEW x \in Call \cup Admin, PC(x) = "done", NEW t \in Tokens(x)
                 PROVE  <<t.room, t.puid>> \in admitted \/
                          \E v \in Revocation \ over[x] : ~RevokeAt(v, "idle")
                            /\ revoke[v].req.room = t.room
                            /\ \E u \in revoke[v].req.users : revoke[v].puids[u] = t.puid
    BY DEF TokensStand
  <2>2. CASE RemoverOf(<<t.room, t.puid>>, x)
    <3>1. PICK v \in Revocation \ over[x] : <<t.room, t.puid>> \in Targets(v)
      BY <2>2 DEF RemoverOf
    <3>2. revoke[v].pc # "idle" /\ <<t.room, t.puid>> \in Undoing(revoke[v])
      BY <3>1, RevocationKind
    <3>3. PICK u \in RevokeLinked(revoke[v]) :
            revoke[v].req.room = t.room /\ revoke[v].puids[u] = t.puid
      BY <3>2 DEF Undoing
    <3>4. u \in revoke[v].req.users
      BY <2>1, <3>2, RevokeMiddle DEF ServiceInv, RevokeCallInv, LoopInv
    <3> QED
      BY <3>2, <3>3, <3>4 DEF RevokeAt
  <2> QED
    BY <2>1, <2>2 DEF ServiceInv, TokensKept
<1> QED
  BY <1>1, ServiceInductive, PTL

\* What the handlers promise of each call on its own they keep in the service, to
\* calls that are cut as well: public calls ...
THEOREM ServiceKeepsPublic ==
  Spec => /\ []GrantOnlyToListed /\ []GrantIdentity /\ []AskedOnlyForMembers
          /\ []ReplyAccountsForChannels
          /\ [](LostMayBeRetried => RefusalLeavesNoGrant)
          /\ [](UpstreamNeverRefuses => RefusalJustified)
<1>1. ServiceInv => /\ GrantOnlyToListed /\ GrantIdentity /\ AskedOnlyForMembers
                    /\ ReplyAccountsForChannels
                    /\ LostMayBeRetried => RefusalLeavesNoGrant
                    /\ UpstreamNeverRefuses => RefusalJustified
  <2>1. SUFFICES ASSUME ServiceInv
                 PROVE  /\ GrantOnlyToListed /\ GrantIdentity /\ AskedOnlyForMembers
                        /\ ReplyAccountsForChannels
                        /\ LostMayBeRetried => RefusalLeavesNoGrant
                        /\ UpstreamNeverRefuses => RefusalJustified
    OBVIOUS
  <2>2. PICK on : on = Call \ cut
    OBVIOUS
  <2>3. PublicInvFor(on)
    BY <2>1, <2>2 DEF ServiceInv
  <2> QED
    BY <2>3, PublicPromises
<1> QED
  BY <1>1, ServiceInductive, PTL

\* ... admin calls ...
THEOREM ServiceKeepsAdmin ==
  Spec => []GrantOnlyToEligible /\ []SuccessIsComplete /\ []OneNotificationEach
<1>1. ServiceInv => GrantOnlyToEligible /\ SuccessIsComplete /\ OneNotificationEach
  <2>1. SUFFICES ASSUME ServiceInv
                 PROVE  GrantOnlyToEligible /\ SuccessIsComplete /\ OneNotificationEach
    OBVIOUS
  <2>2. PICK on : on = Admin \ cut
    OBVIOUS
  <2>3. AdminInvFor(on)
    BY <2>1, <2>2 DEF ServiceInv
  <2> QED
    BY <2>3, AdminPromises
<1> QED
  BY <1>1, ServiceInductive, PTL

\* ... and revocations.
THEOREM ServiceKeepsRevocations ==
  Spec => /\ []SuccessRemoves /\ []EveryLinkedUserTriedOnce
          /\ [](PlainErrors => NotFoundMeansAbsent)
<1>1. ServiceInv => /\ SuccessRemoves /\ EveryLinkedUserTriedOnce
                    /\ PlainErrors => NotFoundMeansAbsent
  BY RevokePromises DEF ServiceInv
<1> QED
  BY <1>1, ServiceInductive, PTL

-----------------------------------------------------------------------------
(* The service implements VoiceRooms. *)

RoomsServed == [Rooms!Next]_(Rooms!roomsVars)

\* What a revocation with the variables r may take out of its room.
RemovalRights(r) == {r.req.room} \X ({r.puids[u] : u \in r.req.users} \cap Puid)

LEMMA RevocationRights ==
  ASSUME NEW x \in Revocation
  PROVE  /\ Rights(x) = IF revoke[x].pc = "idle" THEN {} ELSE RemovalRights(revoke[x])
         /\ Rights(x)' = IF revoke'[x].pc = "idle" THEN {} ELSE RemovalRights(revoke'[x])
<1>1. x \notin Call /\ x \notin Admin
  BY RevocationKind
<1>2. Rights(x) = IF revoke[x].pc = "idle" THEN {} ELSE RemovalRights(revoke[x])
  BY <1>1 DEF Rights, RevokeAt, RemovalRights
<1>3. Rights(x)' = IF revoke'[x].pc = "idle" THEN {} ELSE RemovalRights(revoke'[x])
  BY <1>1 DEF Rights, RevokeAt, RemovalRights
<1> QED
  BY <1>2, <1>3

LEMMA RequestsAreCalls == Rooms!Request = ID
BY DEF Rooms!Request, ID

LEMMA ServiceStageOf ==
  ASSUME NEW x \in ID
  PROVE  /\ ServiceStage[x] = IF PC(x) = "idle" THEN "idle"
                              ELSE IF PC(x) = "done" \/ x \in cut THEN "closed" ELSE "open"
         /\ ServiceStage'[x] = IF PC(x)' = "idle" THEN "idle"
                               ELSE IF PC(x)' = "done" \/ x \in cut' THEN "closed" ELSE "open"
         /\ ServiceRights[x] = Rights(x) /\ ServiceRights'[x] = Rights(x)'
BY DEF ServiceStage, ServiceRights, UnderWay

\* Calls that the step leaves alone keep their rights.
LEMMA RightsKept ==
  /\ UNCHANGED publicVars => \A x \in Call : Rights(x)' = Rights(x)
  /\ UNCHANGED adminVars => \A x \in Admin : Rights(x)' = Rights(x)
  /\ revoke' = revoke => \A x \in Revocation : Rights(x)' = Rights(x)
<1>1. ASSUME UNCHANGED publicVars, NEW x \in Call PROVE Rights(x)' = Rights(x)
  BY <1>1, PublicKind DEF PublicRights, PublicAt, publicVars
<1>2. ASSUME UNCHANGED adminVars, NEW x \in Admin PROVE Rights(x)' = Rights(x)
  BY <1>2, AdminKind DEF AdminRights, adminVars
<1>3. ASSUME revoke' = revoke, NEW x \in Revocation PROVE Rights(x)' = Rights(x)
  BY <1>3, RevocationRights
<1> QED
  BY <1>1, <1>2, <1>3

\* A call that is being served goes on, or is answered.
LEMMA OneMoves ==
  ASSUME NEW x \in ID, x \notin cut, cut' = cut, PC(x) \notin {"idle", "done"}, PC(x)' # "idle",
         \A y \in ID \ {x} : PC(y)' = PC(y), \A y \in ID : Rights(y)' = Rights(y)
  PROVE  /\ ServiceStage[x] = "open" /\ UNCHANGED ServiceRights
         /\ UNCHANGED ServiceStage \/ Rooms!Close({x})
<1>1. ServiceStage[x] = "open"
  BY ServiceStageOf
<1>2. UNCHANGED ServiceRights
  BY DEF ServiceRights
<1>3. \A y \in ID \ {x} : ServiceStage'[y] = ServiceStage[y]
  BY ServiceStageOf
<1>4. CASE PC(x)' = "done"
  <2>1. ServiceStage'[x] = "closed"
    BY <1>4, ServiceStageOf
  <2>2. ServiceStage' = [y \in ID |-> IF y \in {x} THEN "closed" ELSE ServiceStage[y]]
    BY <1>3, <2>1 DEF ServiceStage
  <2>3. Rooms!Close({x})
    BY <1>1, <1>2, <2>2, RequestsAreCalls DEF Rooms!Close
  <2> QED
    BY <1>1, <1>2, <2>3
<1>5. CASE PC(x)' # "done"
  <2>1. ServiceStage'[x] = "open"
    BY <1>5, ServiceStageOf
  <2>2. UNCHANGED ServiceStage
    BY <1>1, <1>3, <2>1 DEF ServiceStage
  <2> QED
    BY <1>1, <1>2, <2>2
<1> QED
  BY <1>4, <1>5

LEMMA ServePublicStep ==
  ASSUME ServiceInv, NEW c \in Call, ServePublic(c)
  PROVE  RoomsServed
<1>1. PublicDid(c)
  BY ServePublicInv
<1>2. c \notin cut /\ cut' = cut /\ UNCHANGED adminVars /\ UNCHANGED revokeVars
  BY DEF ServePublic, GoesOn, processVars
<1>3. /\ call[c].pc \notin {"idle", "done"} /\ call'[c].pc # "idle" /\ call'[c].req = call[c].req
      /\ UNCHANGED seen /\ \A d \in Call \ {c} : call'[d] = call[d]
  BY <1>1, ServiceTypes DEF PublicDid, Moves, PublicServing, PublicTypeOK
<1>4. ASSUME NEW y \in ID \ {c} PROVE PC(y)' = PC(y)
  BY <1>2, <1>3, <1>4, PublicKind, AdminKind, RevocationKind DEF ID, adminVars, revokeVars
<1>5. ASSUME NEW y \in ID PROVE Rights(y)' = Rights(y)
  <2>1. CASE y = c
    <3>1. PublicRights(c)' = PublicRights(c)
      BY <1>3, SameRights
    <3> QED
      BY <2>1, <3>1, PublicKind
  <2>2. CASE y \in Call /\ y # c
    <3>1. PublicRights(y)' = PublicRights(y)
      BY <1>3, <2>2 DEF PublicRights, PublicAt
    <3> QED
      BY <2>2, <3>1, PublicKind
  <2>3. CASE y \in Admin \cup Revocation
    BY <1>2, <2>3, RightsKept DEF revokeVars
  <2> QED
    BY <2>1, <2>2, <2>3 DEF ID
<1>6. c \in ID /\ PC(c) \notin {"idle", "done"} /\ PC(c)' # "idle"
  BY <1>3, PublicKind
<1>7. /\ ServiceStage[c] = "open" /\ UNCHANGED ServiceRights
      /\ UNCHANGED ServiceStage \/ Rooms!Close({c})
  BY <1>2, <1>4, <1>5, <1>6, OneMoves
<1>8. admitted \subseteq admitted' /\ admitted' \ admitted \subseteq ServiceRights[c]
  BY <1>1, <1>6, PublicKind, ServiceStageOf DEF PublicDid
<1>9. Rooms!Grant(c)
  BY <1>7, <1>8 DEF Rooms!Grant
<1> QED
  BY <1>9 DEF Rooms!Next, RoomsServed

LEMMA ServeAdminStep ==
  ASSUME ServiceInv, NEW a \in Admin, ServeAdmin(a)
  PROVE  RoomsServed
<1>1. AdminDid(a)
  BY ServeAdminInv
<1>2. a \notin cut /\ cut' = cut /\ UNCHANGED publicVars /\ UNCHANGED revokeVars
  BY DEF ServeAdmin, GoesOn, processVars
<1>3. /\ admin[a].pc \notin {"idle", "done"} /\ admin'[a].pc # "idle"
      /\ UNCHANGED adminSeen /\ \A d \in Admin \ {a} : admin'[d] = admin[d]
  BY <1>1, ServiceTypes DEF AdminDid, AdminMoves, AdminServing, AdminTypeOK
<1>4. ASSUME NEW y \in ID \ {a} PROVE PC(y)' = PC(y)
  BY <1>2, <1>3, <1>4, PublicKind, AdminKind, RevocationKind DEF ID, publicVars, revokeVars
<1>5. ASSUME NEW y \in ID PROVE Rights(y)' = Rights(y)
  <2>1. CASE y \in Admin
    <3>1. AdminRights(y)' = AdminRights(y)
      BY <1>3 DEF AdminRights
    <3> QED
      BY <2>1, <3>1, AdminKind
  <2>2. CASE y \in Call \cup Revocation
    BY <1>2, <2>2, RightsKept DEF revokeVars
  <2> QED
    BY <2>1, <2>2 DEF ID
<1>6. a \in ID /\ PC(a) \notin {"idle", "done"} /\ PC(a)' # "idle"
  BY <1>3, AdminKind
<1>7. /\ ServiceStage[a] = "open" /\ UNCHANGED ServiceRights
      /\ UNCHANGED ServiceStage \/ Rooms!Close({a})
  BY <1>2, <1>4, <1>5, <1>6, OneMoves
<1>8. admitted \subseteq admitted' /\ admitted' \ admitted \subseteq ServiceRights[a]
  BY <1>1, <1>6, AdminKind, ServiceStageOf DEF AdminDid
<1>9. Rooms!Grant(a)
  BY <1>7, <1>8 DEF Rooms!Grant
<1> QED
  BY <1>9 DEF Rooms!Next, RoomsServed

\* A successful look-up is what entitles a revocation; its other steps remove
\* somebody, or nobody.
LEMMA ServeRevocationStep ==
  ASSUME ServiceInv, NEW v \in Revocation, ServeRevocation(v)
  PROVE  RoomsServed
<1>1. RevokeDid(v)
  BY ServeRevocationInv
<1>2. v \notin cut /\ cut' = cut /\ UNCHANGED publicVars /\ UNCHANGED adminVars
  BY DEF ServeRevocation, GoesOn, processVars
<1>3. /\ revoke[v].pc \notin {"idle", "done"} /\ revoke'[v].pc # "idle"
      /\ revoke'[v].req = revoke[v].req /\ \A d \in Revocation \ {v} : revoke'[d] = revoke[d]
  BY <1>1, StillUndoing, ServiceTypes DEF RevokeDid, RevokeTypeOK
<1>4. ASSUME NEW y \in ID \ {v} PROVE PC(y)' = PC(y) /\ Rights(y)' = Rights(y)
  <2>1. CASE y \in Call
    BY <1>2, <2>1, PublicKind, RightsKept DEF publicVars
  <2>2. CASE y \in Admin
    BY <1>2, <2>2, AdminKind, RightsKept DEF adminVars
  <2>3. CASE y \in Revocation
    BY <1>3, <1>4, <2>3, RevocationKind, RevocationRights
  <2> QED
    BY <2>1, <2>2, <2>3 DEF ID
<1>5. v \in ID /\ PC(v) \notin {"idle", "done"} /\ PC(v)' # "idle"
  BY <1>3, RevocationKind
<1>6. CASE revoke'[v].puids = revoke[v].puids
  <2>1. Rights(v)' = Rights(v)
    <3>1. RemovalRights(revoke'[v]) = RemovalRights(revoke[v])
      BY <1>3, <1>6 DEF RemovalRights
    <3> QED
      BY <1>3, <3>1, RevocationRights
  <2>2. \A y \in ID : Rights(y)' = Rights(y)
    BY <1>4, <2>1
  <2>3. /\ ServiceStage[v] = "open" /\ UNCHANGED ServiceRights
        /\ UNCHANGED ServiceStage \/ Rooms!Close({v})
    BY <1>2, <1>4, <1>5, <2>2, OneMoves
  <2>4. Undoing(revoke[v]) \subseteq ServiceRights[v]
    BY <1>3, <1>5, OutTo, RevocationKind, ServiceStageOf
  <2>5. admitted' \subseteq admitted /\ admitted \ admitted' \subseteq ServiceRights[v]
    BY <1>1, <2>4 DEF RevokeDid
  <2>6. Rooms!Revoke(v)
    BY <2>3, <2>5 DEF Rooms!Revoke
  <2> QED
    BY <2>6 DEF Rooms!Next, RoomsServed
<1>7. CASE RevokeLinked(revoke[v]) = {} /\ admitted' = admitted /\ revoke'[v].pc = "remove"
  <2>1. ServiceStage[v] = "open" /\ ServiceStage'[v] = "open"
    BY <1>2, <1>5, <1>7, RevocationKind, ServiceStageOf
  <2>2. UNCHANGED ServiceStage
    <3>1. \A y \in ID : ServiceStage'[y] = ServiceStage[y]
      BY <1>2, <1>4, <2>1, ServiceStageOf
    <3> QED
      BY <3>1 DEF ServiceStage
  <2>3. Rights(v) = {}
    <3>1. revoke[v] \in RevokeState
      BY <1>3, ServiceTypes, RevokeMiddle
    <3>2. \A u \in revoke[v].req.users : revoke[v].puids[u] = NoPuid
      BY <1>7, <3>1 DEF RevokeLinked, RevokeState, RevokeRequest
    <3>3. {revoke[v].puids[u] : u \in revoke[v].req.users} \cap Puid = {}
      BY <3>2, BackendsAssumption
    <3> QED
      BY <1>3, <3>3, RevocationRights DEF RemovalRights
  <2>4. ASSUME NEW y \in ID
        PROVE  \/ ServiceRights'[y] = ServiceRights[y]
               \/ ServiceStage[y] = "open" /\ ServiceRights[y] \subseteq ServiceRights'[y]
    BY <1>4, <2>1, <2>3, ServiceStageOf
  <2>5. Rooms!Entitle
    BY <1>7, <2>2, <2>4, RequestsAreCalls DEF Rooms!Entitle
  <2> QED
    BY <2>5 DEF Rooms!Next, RoomsServed
<1> QED
  BY <1>1, <1>6, <1>7 DEF RevokeDid

LEMMA BeginIsOpen ==
  ASSUME ServiceInv, NEW x, TakenUp(x), \A y \in ID \ {x} : Rights(y)' = Rights(y)
  PROVE  RoomsServed
<1>1. /\ x \in ID /\ PC(x) = "idle" /\ PC(x)' # "idle" /\ cut' = cut /\ admitted' = admitted
      /\ \A y \in ID \ {x} : PC(y)' = PC(y)
  BY DEF TakenUp, Takes, processVars, backendVars
<1>2. ServiceStage[x] = "idle" /\ ServiceStage'[x] \in {"open", "closed"}
  BY <1>1, ServiceStageOf
<1>3. ASSUME NEW y \in ID \ {x}
      PROVE  ServiceStage'[y] = ServiceStage[y] /\ ServiceRights'[y] = ServiceRights[y]
  BY <1>1, ServiceStageOf
<1>4. ServiceStage' = [ServiceStage EXCEPT ![x] = ServiceStage'[x]]
  BY <1>1, <1>3 DEF ServiceStage
<1>5. Rooms!Open(x)
  BY <1>1, <1>2, <1>3, <1>4, RequestsAreCalls DEF Rooms!Open
<1> QED
  BY <1>1, <1>5, RequestsAreCalls DEF Rooms!Next, RoomsServed

LEMMA BeginPublicStep ==
  ASSUME ServiceInv, NEW c \in Call, BeginPublic(c)
  PROVE  RoomsServed
<1>1. UNCHANGED adminVars /\ UNCHANGED revokeVars
  BY DEF BeginPublic
<1>2. ASSUME NEW y \in ID \ {c} PROVE Rights(y)' = Rights(y)
  <2>1. CASE y \in Call
    <3>1. call'[y] = call[y] /\ seen'[y] = seen[y]
      BY <1>2, <2>1, ServiceTypes DEF BeginPublic, PublicBegin, PublicTypeOK
    <3>2. PublicRights(y)' = PublicRights(y)
      BY <3>1 DEF PublicRights, PublicAt
    <3> QED
      BY <2>1, <3>2, PublicKind
  <2>2. CASE y \in Admin \cup Revocation
    BY <1>1, <2>2, RightsKept DEF revokeVars
  <2> QED
    BY <2>1, <2>2 DEF ID
<1> QED
  BY <1>2, BeginPublicInv, BeginIsOpen

LEMMA BeginAdminStep ==
  ASSUME ServiceInv, NEW a \in Admin, BeginAdmin(a)
  PROVE  RoomsServed
<1>1. UNCHANGED publicVars /\ UNCHANGED revokeVars
  BY DEF BeginAdmin
<1>2. ASSUME NEW y \in ID \ {a} PROVE Rights(y)' = Rights(y)
  <2>1. CASE y \in Admin
    <3>1. adminSeen'[y] = adminSeen[y]
      BY <1>2, <2>1, ServiceTypes DEF BeginAdmin, AdminBegin, AdminTypeOK
    <3>2. AdminRights(y)' = AdminRights(y)
      BY <3>1 DEF AdminRights
    <3> QED
      BY <2>1, <3>2, AdminKind
  <2>2. CASE y \in Call \cup Revocation
    BY <1>1, <2>2, RightsKept DEF revokeVars
  <2> QED
    BY <2>1, <2>2 DEF ID
<1> QED
  BY <1>2, BeginAdminInv, BeginIsOpen

LEMMA BeginRevocationStep ==
  ASSUME ServiceInv, NEW v \in Revocation, BeginRevocation(v)
  PROVE  RoomsServed
<1>1. UNCHANGED publicVars /\ UNCHANGED adminVars
  BY DEF BeginRevocation
<1>2. ASSUME NEW y \in ID \ {v} PROVE Rights(y)' = Rights(y)
  <2>1. CASE y \in Revocation
    <3>1. revoke'[y] = revoke[y]
      BY <1>2, <2>1, ServiceTypes DEF BeginRevocation, RevokeBegin, RevokeTypeOK
    <3> QED
      BY <2>1, <3>1, RevocationRights
  <2>2. CASE y \in Call \cup Admin
    BY <1>1, <2>2, RightsKept
  <2> QED
    BY <2>1, <2>2 DEF ID
<1> QED
  BY <1>2, BeginRevocationInv, BeginIsOpen

LEMMA CrashStep ==
  ASSUME ServiceInv, Crash
  PROVE  RoomsServed
<1>1. /\ UNCHANGED publicVars /\ UNCHANGED adminVars /\ revoke' = revoke /\ admitted' = admitted
      /\ cut' = cut \cup {x \in ID : UnderWay(x)}
  BY DEF Crash, backendVars, revokeVars
<1>2. UNCHANGED ServiceRights
  <2>1. \A y \in ID : Rights(y)' = Rights(y)
    BY <1>1, RightsKept DEF ID
  <2> QED
    BY <2>1 DEF ServiceRights
<1>3. PICK xs : xs = {x \in ID : UnderWay(x)}
  OBVIOUS
<1>4. \A x \in xs : ServiceStage[x] = "open"
  BY <1>3 DEF ServiceStage, UnderWay
<1>5. ASSUME NEW y \in ID
      PROVE  ServiceStage'[y] = IF y \in xs THEN "closed" ELSE ServiceStage[y]
  <2>1. PC(y)' = PC(y)
    <3>1. CASE y \in Call
      BY <1>1, <3>1, PublicKind DEF publicVars
    <3>2. CASE y \in Admin
      BY <1>1, <3>2, AdminKind DEF adminVars
    <3>3. CASE y \in Revocation
      BY <1>1, <3>3, RevocationKind
    <3> QED
      BY <3>1, <3>2, <3>3 DEF ID
  <2>2. y \in xs <=> PC(y) \notin {"idle", "done"} /\ y \notin cut
    BY <1>3 DEF UnderWay
  <2>3. y \in cut' <=> y \in cut \/ y \in xs
    BY <1>1, <1>3
  <2> QED
    BY <2>1, <2>2, <2>3, ServiceStageOf
<1>6. ServiceStage' = [y \in ID |-> IF y \in xs THEN "closed" ELSE ServiceStage[y]]
  BY <1>5 DEF ServiceStage
<1>7. Rooms!Close(xs)
  BY <1>2, <1>4, <1>6, RequestsAreCalls DEF Rooms!Close
<1>8. xs \in SUBSET ID
  BY <1>3
<1> QED
  BY <1>1, <1>7, <1>8, RequestsAreCalls DEF Rooms!Next, RoomsServed

LEMMA WorldServes ==
  ASSUME ServiceInv, World
  PROVE  RoomsServed
<1>1. PICK cs : cs = {c \in Call : UnderWay(c)}
  OBVIOUS
<1>2. PICK as : as = {a \in Admin : UnderWay(a)}
  OBVIOUS
<1>3. /\ BackendsChange /\ PublicWatch(cs) /\ AdminWatch(as)
      /\ revoke' = revoke /\ cut' = cut
  BY <1>1, <1>2 DEF World, processVars
<1>4. call' = call /\ admin' = admin
  BY <1>3 DEF PublicWatch, AdminWatch
<1>5. UNCHANGED ServiceStage
  <2>1. ASSUME NEW y \in ID PROVE PC(y)' = PC(y)
    BY <1>3, <1>4, PublicKind, AdminKind, RevocationKind DEF ID
  <2>2. \A y \in ID : ServiceStage'[y] = ServiceStage[y]
    BY <1>3, <2>1, ServiceStageOf
  <2> QED
    BY <2>2 DEF ServiceStage
<1>6. ASSUME NEW y \in ID
      PROVE  /\ \/ Rights(y)' = Rights(y)
                \/ UnderWay(y) /\ Rights(y) \subseteq Rights(y)'
             /\ SameData => Rights(y)' = Rights(y)
  <2>1. CASE y \in Call
    <3>1. PICK on : on = Call \ cut
      OBVIOUS
    <3>2. PublicInvFor(on) /\ (y \in cs => y \in on /\ call[y].pc \in PublicServing)
      BY <1>1, <2>1, <3>1, UnderWayCalls DEF ServiceInv
    <3>3. /\ y \notin cs => PublicRights(y)' = PublicRights(y)
          /\ PublicRights(y) \subseteq PublicRights(y)'
          /\ SameData => PublicRights(y)' = PublicRights(y)
      BY <1>3, <2>1, <3>2, RightsGrow
    <3> QED
      BY <1>1, <2>1, <3>3, PublicKind
  <2>2. CASE y \in Admin
    <3>1. PICK on : on = Admin \ cut
      OBVIOUS
    <3>2. AdminInvFor(on) /\ (y \in as => y \in on /\ admin[y].pc \in AdminServing)
      BY <1>2, <2>2, <3>1, UnderWayCalls DEF ServiceInv
    <3>3. /\ y \notin as => AdminRights(y)' = AdminRights(y)
          /\ AdminRights(y) \subseteq AdminRights(y)'
          /\ SameData => AdminRights(y)' = AdminRights(y)
      BY <1>3, <2>2, <3>2, AdminRightsGrow
    <3> QED
      BY <1>2, <2>2, <3>3, AdminKind
  <2>3. CASE y \in Revocation
    BY <1>3, <2>3, RightsKept
  <2> QED
    BY <2>1, <2>2, <2>3 DEF ID
<1>7. CASE UNCHANGED <<admitted, late>>
  <2>1. \A y \in ID : UnderWay(y) => ServiceStage[y] = "open"
    BY DEF ServiceStage, UnderWay
  <2>2. ASSUME NEW y \in ID
        PROVE  \/ ServiceRights'[y] = ServiceRights[y]
               \/ ServiceStage[y] = "open" /\ ServiceRights[y] \subseteq ServiceRights'[y]
    BY <1>6, <2>1, ServiceStageOf
  <2>3. Rooms!Entitle
    BY <1>5, <1>7, <2>2, RequestsAreCalls DEF Rooms!Entitle
  <2> QED
    BY <2>3 DEF Rooms!Next, RoomsServed
<1>8. ASSUME SameData, NEW w \in late, Land(w) PROVE RoomsServed
  <2>1. UNCHANGED ServiceRights
    <3>1. \A y \in ID : Rights(y)' = Rights(y)
      BY <1>6, <1>8
    <3> QED
      BY <3>1 DEF ServiceRights
  <2>2. PICK y \in ID : AskedFor(w, y)
    BY DEF ServiceInv, LateInv
  <2>3. PICK g : g \in {w.room} \X w.puids
    <3>1. PICK p \in w.puids : TRUE
      BY DEF ServiceInv, LateInv
    <3>2. <<w.room, p>> \in {w.room} \X w.puids
      BY <3>1
    <3> QED
      BY <3>2
  <2>4. CASE w.op = "admit"
    <3>1. {w.room} \X w.puids \subseteq Grants(y)
      BY <2>2, <2>4 DEF AskedFor
    <3>2. /\ y \in Call \cup Admin /\ ServiceStage[y] # "idle"
          /\ {w.room} \X w.puids \subseteq ServiceRights[y]
      BY <2>3, <3>1, OutTo, ServiceStageOf
    <3>3. admitted' = admitted \cup ({w.room} \X w.puids)
      BY <1>8, <2>4 DEF Land, Done
    <3>4. Rooms!Grant(y)
      BY <1>5, <2>1, <3>2, <3>3 DEF Rooms!Grant
    <3> QED
      BY <3>2, <3>4 DEF Rooms!Next, RoomsServed
  <2>5. CASE w.op # "admit"
    <3>1. {w.room} \X w.puids \subseteq Targets(y)
      BY <2>2, <2>5 DEF AskedFor
    <3>2. /\ y \in Revocation /\ ServiceStage[y] # "idle"
          /\ {w.room} \X w.puids \subseteq ServiceRights[y]
      BY <2>3, <3>1, OutTo, ServiceStageOf
    <3>3. admitted' = admitted \ ({w.room} \X w.puids)
      BY <1>8, <2>5 DEF Land, Done
    <3>4. Rooms!Revoke(y)
      BY <1>5, <2>1, <3>2, <3>3 DEF Rooms!Revoke
    <3> QED
      BY <3>2, <3>4 DEF Rooms!Next, RoomsServed
  <2> QED
    BY <2>4, <2>5
<1> QED
  BY <1>3, <1>7, <1>8, ChangeIs

LEMMA StutterServes ==
  ASSUME UNCHANGED vars
  PROVE  RoomsServed
<1>1. /\ admitted' = admitted /\ UNCHANGED publicVars /\ UNCHANGED adminVars
      /\ revoke' = revoke /\ cut' = cut
  BY DEF vars, backendVars, revokeVars, processVars
<1>2. ASSUME NEW y \in ID PROVE Rights(y)' = Rights(y) /\ PC(y)' = PC(y)
  <2>1. CASE y \in Call
    BY <1>1, <2>1, PublicKind, RightsKept DEF publicVars
  <2>2. CASE y \in Admin
    BY <1>1, <2>2, AdminKind, RightsKept DEF adminVars
  <2>3. CASE y \in Revocation
    BY <1>1, <2>3, RevocationKind, RightsKept
  <2> QED
    BY <2>1, <2>2, <2>3 DEF ID
<1>3. UNCHANGED ServiceRights
  BY <1>2 DEF ServiceRights
<1>4. UNCHANGED ServiceStage
  <2>1. \A y \in ID : ServiceStage'[y] = ServiceStage[y]
    BY <1>1, <1>2, ServiceStageOf
  <2> QED
    BY <2>1 DEF ServiceStage
<1> QED
  BY <1>1, <1>3, <1>4 DEF Rooms!roomsVars, RoomsServed

\* Whatever calls interleave, whatever comes late and whenever the process ends,
\* Epic's rooms gain and lose nobody but by right of a request: the service
\* implements VoiceRooms.
THEOREM ServiceImplementsRooms == Spec => ImplementsRooms
<1>1. Init => Rooms!Init
  <2>1. SUFFICES ASSUME Init PROVE Rooms!Init
    OBVIOUS
  <2>2. ASSUME NEW x \in ID PROVE PC(x) = "idle" /\ Rights(x) = {}
    <3>1. CASE x \in Call
      <4>1. call[x].pc = "idle"
        BY <2>1, <3>1 DEF Init, PublicInit, PublicIdle
      <4> QED
        BY <3>1, <4>1, PublicKind DEF PublicRights, PublicAt
    <3>2. CASE x \in Admin
      <4>1. admin[x].pc = "idle" /\ adminSeen[x].eligible = {}
        BY <2>1, <3>2 DEF Init, AdminInit, AdminIdle
      <4> QED
        BY <3>2, <4>1, AdminKind DEF AdminRights
    <3>3. CASE x \in Revocation
      <4>1. revoke[x].pc = "idle"
        BY <2>1, <3>3 DEF Init, RevokeInit, RevokeIdle
      <4> QED
        BY <3>3, <4>1, RevocationKind, RevocationRights
    <3> QED
      BY <3>1, <3>2, <3>3 DEF ID
  <2>3. \A x \in ID : ServiceStage[x] = "idle" /\ ServiceRights[x] = {}
    BY <2>2, ServiceStageOf
  <2> QED
    BY <2>3, RequestsAreCalls DEF Rooms!Init, ServiceStage, ServiceRights
<1>2. ServiceInv /\ [Next]_vars => [Rooms!Next]_(Rooms!roomsVars)
  <2> SUFFICES ASSUME ServiceInv, [Next]_vars PROVE RoomsServed
    BY DEF RoomsServed
  <2>1. CASE UNCHANGED vars
    BY <2>1, StutterServes
  <2>2. ASSUME NEW c \in Call, BeginPublic(c) \/ ServePublic(c) PROVE RoomsServed
    BY <2>2, BeginPublicStep, ServePublicStep
  <2>3. ASSUME NEW a \in Admin, BeginAdmin(a) \/ ServeAdmin(a) PROVE RoomsServed
    BY <2>3, BeginAdminStep, ServeAdminStep
  <2>4. ASSUME NEW v \in Revocation, BeginRevocation(v) \/ ServeRevocation(v) PROVE RoomsServed
    BY <2>4, BeginRevocationStep, ServeRevocationStep
  <2>5. Crash => RoomsServed
    BY CrashStep
  <2>6. World => RoomsServed
    BY WorldServes
  <2> QED
    BY <2>1, <2>2, <2>3, <2>4, <2>5, <2>6 DEF Next
<1> QED
  BY <1>1, <1>2, ServiceInductive, PTL DEF Spec, ImplementsRooms, Rooms!Spec
=============================================================================
