---------------------------- MODULE VoiceService ----------------------------
(***************************************************************************)
(* The service as a whole: public, admin and revocation calls served side  *)
(* by side on the same parties, sessions, links and rooms, by a process    *)
(* that may end under them (main.go returns without waiting for the calls  *)
(* under way) and come up again.  A caller that repeats a call makes a new *)
(* one: the program does not know that it has seen the request before.     *)
(***************************************************************************)
EXTENDS PublicTokens, AdminTokens, RevokeTokens

CONSTANTS
  Asks,       \* bound: the requests that are made
  MaxCrashes  \* bound: ends of the process

VARIABLES
  cut,      \* the calls that were under way when the process ended
  crashes,  \* how often it has ended
  over      \* history, over[x]: the calls that were over when call x began

ID == Call \cup Admin \cup Revocation

ASSUME ServiceAssumption ==
  /\ Call \cap Admin = {} /\ Call \cap Revocation = {} /\ Admin \cap Revocation = {}
  /\ MaxCrashes \in Nat

processVars == <<cut, crashes>>
vars == <<backendVars, publicVars, adminVars, revokeVars, processVars, over>>

TypeOK ==
  /\ PublicTypeOK /\ AdminTypeOK /\ RevokeTypeOK
  /\ cut \subseteq ID
  /\ crashes \in 0..MaxCrashes
  /\ over \in [ID -> SUBSET ID]

Init ==
  /\ PublicInit /\ AdminInit /\ RevokeInit
  /\ cut = {} /\ crashes = 0
  /\ over = [x \in ID |-> {}]

-----------------------------------------------------------------------------
(* Calls of either kind. *)

PC(x) == IF x \in Call THEN call[x].pc ELSE IF x \in Admin THEN admin[x].pc ELSE revoke[x].pc

UnderWay(x) == PC(x) \notin {"idle", "done"} /\ x \notin cut

\* The admissions call x has brought about, and the room and PUIDs that a
\* revocation has set out to part.
Grants(x) ==
  IF x \in Call THEN minted[x] ELSE IF x \in Admin THEN adminMinted[x] ELSE {}
Targets(v) ==
  IF v \notin Revocation \/ RevokeAt(v, "idle") THEN {} ELSE {revoke[v].req.room} \X Resolved(v)

\* Nothing that x has asked of Epic can happen any more.
Over(x) ==
  /\ PC(x) = "done" \/ x \in cut
  /\ \A w \in late :
       ({w.room} \X w.puids) \cap (IF w.op = "admit" THEN Grants(x) ELSE Targets(x)) = {}

-----------------------------------------------------------------------------
(* Steps *)

\* The process takes up call x, or goes on with it.
Takes(x) == over' = [over EXCEPT ![x] = {y \in ID : Over(y)}] /\ UNCHANGED processVars
GoesOn(x) == x \notin cut /\ UNCHANGED <<processVars, over>>

BeginPublic(c) ==
  /\ \E r \in Request \cap Asks : PublicBegin(c, r)
  /\ Takes(c)
  /\ UNCHANGED <<adminVars, revokeVars>>

BeginAdmin(a) ==
  /\ \E r \in AdminRequest \cap Asks : AdminBegin(a, r)
  /\ Takes(a)
  /\ UNCHANGED <<publicVars, revokeVars>>

BeginRevocation(v) ==
  /\ \E r \in RevokeRequest \cap Asks : RevokeBegin(v, r)
  /\ Takes(v)
  /\ UNCHANGED <<publicVars, adminVars>>

ServePublic(c) == PublicHandler(c) /\ GoesOn(c) /\ UNCHANGED <<adminVars, revokeVars>>
ServeAdmin(a) == AdminHandler(a) /\ GoesOn(a) /\ UNCHANGED <<publicVars, revokeVars>>
ServeRevocation(v) == RevokeHandler(v) /\ GoesOn(v) /\ UNCHANGED <<publicVars, adminVars>>

\* The process ends and is started again.  The calls under way are gone; what
\* they have asked of Epic stands, or is late.
Crash ==
  /\ crashes < MaxCrashes /\ crashes' = crashes + 1
  /\ cut' = cut \cup {x \in ID : UnderWay(x)}
  /\ UNCHANGED <<backendVars, publicVars, adminVars, revokeVars, over>>

World ==
  /\ BackendsChange
  /\ PublicWatch({c \in Call : UnderWay(c)})
  /\ AdminWatch({a \in Admin : UnderWay(a)})
  /\ RevokeWatch
  /\ UNCHANGED <<revoke, tried, processVars, over>>

Next ==
  \/ \E c \in Call : BeginPublic(c) \/ ServePublic(c)
  \/ \E a \in Admin : BeginAdmin(a) \/ ServeAdmin(a)
  \/ \E v \in Revocation : BeginRevocation(v) \/ ServeRevocation(v)
  \/ Crash
  \/ World

\* Every upstream request of a handler returns: the HTTP clients time out.
Fairness ==
  /\ \A c \in Call : WF_vars(ServePublic(c))
  /\ \A a \in Admin : WF_vars(ServeAdmin(a))
  /\ \A v \in Revocation : WF_vars(ServeRevocation(v))

Spec == Init /\ [][Next]_vars /\ Fairness

-----------------------------------------------------------------------------
(* Properties. *)

\* The rights of a call: a caller's to the rooms that have listed it since the
\* call began, for the PUID given with the request or else one linked to it
\* since then; an admin call's for the users that have been eligible; a
\* revocation's to take from its room the PUIDs of the users it names.
Rights(x) ==
  CASE x \in Call -> PublicRights(x)
    [] x \in Admin -> AdminRights(x)
    [] x \in Revocation /\ RevokeAt(x, "idle") -> {}
    [] OTHER -> {revoke[x].req.room} \X ({revoke[x].puids[u] : u \in revoke[x].req.users} \cap Puid)

ServiceStage ==
  [x \in ID |-> CASE PC(x) = "idle" -> "idle" [] UnderWay(x) -> "open" [] OTHER -> "closed"]
ServiceRights == [x \in ID |-> Rights(x)]

Rooms == INSTANCE VoiceRooms WITH
  Granting <- Call \cup Admin, Revoking <- Revocation, rooms <- admitted,
  state <- ServiceStage, may <- ServiceRights

\* All that Epic's rooms gain or lose, they do by right of a call that was being
\* served when it asked for it: no interleaving of calls, changes of the data,
\* lost or late answers and crashes lets anybody in or out otherwise.
ImplementsRooms == Rooms!Spec

\* After a success reply of a revocation, a PUID that Epic had linked to one of
\* its users is in the room only because of a token request that was not over
\* when the revocation began, made for someone the room has listed since that
\* request began.  So a revocation that follows the user's removal from the
\* party settles the matter once the requests in flight are over, and it clears
\* up after calls that were cut, or reported as failed, but did admit.
RevocationHolds ==
  \A v \in Revocation : RevokeAt(v, "done") /\ revoke[v].reply = "OK" =>
    \A g \in Targets(v) \cap admitted :
      \/ \E c \in Call \ over[v] : g \in minted[c] /\ g[1] \in seen[c].held
      \/ \E a \in Admin \ over[v] : g \in adminMinted[a] /\
           \E u \in User : <<g[1], u>> \in adminSeen[a].eligible

\* The tokens that call x has obtained: what Epic left blank, and a public reply
\* passes on, is none.
Filled(tokens) == {t \in tokens : ~t.blank}
Tokens(x) == IF x \in Call THEN Filled(call[x].tokens) ELSE admin[x].tokens

\* A token that a reply carried is good for as long as no revocation that names
\* its holder interferes: one that was not over when the call began.
TokensStand ==
  \A x \in Call \cup Admin : PC(x) = "done" =>
    \A t \in Tokens(x) : <<t.room, t.puid>> \in admitted \/
      \E v \in Revocation \ over[x] : ~RevokeAt(v, "idle") /\ revoke[v].req.room = t.room
        /\ \E u \in revoke[v].req.users : revoke[v].puids[u] = t.puid

\* A call that the process has taken up is answered, whatever the services
\* answer and the other calls do, or the process ends under it.
EveryCallEnds == \A x \in ID : UnderWay(x) ~> PC(x) = "done" \/ x \in cut

-----------------------------------------------------------------------------
(* The inductive invariant behind the safety properties.                   *)

\* Calls that are over when another begins, do not begin, nor are cut, later.
ProcessInv ==
  /\ \A x \in cut : PC(x) # "idle"
  /\ \A x \in ID : \A y \in over[x] : PC(y) = "done" \/ y \in cut

\* Call y has asked Epic for w.
AskedFor(w, y) == {w.room} \X w.puids \subseteq (IF w.op = "admit" THEN Grants(y) ELSE Targets(y))

\* All that is late has been asked for, and by a call that was not over when
\* any one call began.
LateInv ==
  \A w \in late :
    /\ w.puids # {}
    /\ \E y \in ID : AskedFor(w, y)
    /\ \A x \in ID : \E y \in ID \ over[x] : AskedFor(w, y)

\* Call y is out to admit, or to remove, g; it was not over when x began.
AdmitterOf(g, x) == \E y \in (Call \cup Admin) \ over[x] : g \in Grants(y)
RemoverOf(g, x) == \E v \in Revocation \ over[x] : g \in Targets(v)

\* The tokens that a call has obtained so far are good, or taken back.
TokensKept ==
  \A x \in Call \cup Admin : PC(x) # "idle" =>
    \A t \in Tokens(x) : <<t.room, t.puid>> \in admitted \/ RemoverOf(<<t.room, t.puid>>, x)

\* Those whose removal Epic has confirmed to a revocation stay away, or are let
\* in again.
RemovedStayOut ==
  \A v \in Revocation : PC(v) # "idle" =>
    \A u \in RevokeLinked(revoke[v]) \ (revoke[v].left \cup revoke[v].errors) :
      \A g \in admitted : g = <<revoke[v].req.room, revoke[v].puids[u]>> => AdmitterOf(g, v)

ServiceInv ==
  /\ TypeOK
  /\ PublicInvFor(Call \ cut) /\ AdminInvFor(Admin \ cut) /\ RevokeInv
  /\ ProcessInv /\ LateInv /\ TokensKept /\ RemovedStayOut
=============================================================================
