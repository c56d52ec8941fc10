------------------------ MODULE VoiceBackendsProofs ------------------------
(***************************************************************************)
(* Facts about the error classification and the backends that the proofs   *)
(* about the handlers use.                                                 *)
(***************************************************************************)
EXTENDS VoiceBackends, TLAPS

\* A handler's step changes neither the memberships nor the links.
SameData == UNCHANGED <<live, roster, teams, link>>

\* Every custom error code is answered with a gRPC code other than OK.
LEMMA GRPCStatusType == ASSUME NEW e PROVE ToGRPCStatus(e) \in Codes \ {"OK"}
BY DEF ToGRPCStatus, Codes

\* Whatever its text, an upstream failure is answered with an error: the
\* cascade has a first family that matches, or a default.
LEMMA ParseHTTPErrorType ==
  ASSUME NEW e, NEW context
  PROVE  ParseHTTPError(e, context) \in Codes \ {"OK"}
<1> DEFINE hits == {i \in 1..5 : Families[i] \cap e # {}}
           first == CHOOSE i \in hits : \A j \in hits : i <= j
<1>1. ASSUME hits # {} PROVE first \in 1..5
  <2>1. \E i \in hits : \A j \in hits : i <= j
    <3>1. hits \subseteq 1..5
      OBVIOUS
    <3>2. PICK k \in hits : TRUE
      BY <1>1
    <3> HIDE DEF hits
    <3>3. CASE 1 \in hits
      BY <3>1, <3>3
    <3>4. CASE 1 \notin hits /\ 2 \in hits
      BY <3>1, <3>4
    <3>5. CASE 1 \notin hits /\ 2 \notin hits /\ 3 \in hits
      BY <3>1, <3>5
    <3>6. CASE 1 \notin hits /\ 2 \notin hits /\ 3 \notin hits /\ 4 \in hits
      BY <3>1, <3>6
    <3>7. CASE 1 \notin hits /\ 2 \notin hits /\ 3 \notin hits /\ 4 \notin hits
      <4>1. \A j \in hits : j = 5
        <5>1. SUFFICES ASSUME NEW j \in hits PROVE j = 5
          OBVIOUS
        <5>2. j \in 1..5 /\ j # 1 /\ j # 2 /\ j # 3 /\ j # 4
          BY <3>1, <3>7
        <5> QED
          BY <5>2
      <4> QED
        BY <3>2, <4>1
    <3> QED
      BY <3>3, <3>4, <3>5, <3>6, <3>7
  <2>2. first \in hits
    BY <2>1
  <2> QED
    BY <2>2
<1>2. \A i \in 1..5 : FamilyCode[i] \in Codes \ {"OK"}
  BY GRPCStatusType DEF FamilyCode, Codes
<1>3. NotFoundByContext(context) \in Codes \ {"OK"}
  BY GRPCStatusType DEF NotFoundByContext, Codes
<1>4. DefaultByContext(context) \in Codes \ {"OK"}
  BY GRPCStatusType DEF DefaultByContext
<1>5. CASE hits = {}
  BY <1>4, <1>5 DEF ParseHTTPError
<1>6. CASE hits # {}
  BY <1>1, <1>2, <1>3, <1>6 DEF ParseHTTPError
<1> QED
  BY <1>5, <1>6

\* The cascade's codes are none of a handler's own "no error".
LEMMA ErrorCodes == NoCode \notin Codes /\ "OK" \in Codes
BY DEF NoCode, Codes

\* The rooms that list a user are rooms.
LEMMA RoomsListingType ==
  ASSUME NEW u
  PROVE  RoomsListing(u) \subseteq Room
BY DEF RoomsListing, Room, RoomID, Group

\* Epic's rooms stay rooms of PUIDs whatever it is asked to do.
LEMMA DoneType ==
  ASSUME BackendsTypeOK, NEW w \in Work
  PROVE  Done(w) \subseteq Room \X Puid
BY DEF BackendsTypeOK, Work, Done

\* A request to Epic keeps the types, whenever it takes effect.
LEMMA AskedType ==
  ASSUME BackendsTypeOK, NEW w \in Work, NEW effect, Asked(w, effect)
  PROVE  BackendsTypeOK'
BY DoneType DEF BackendsTypeOK, Asked

\* The backends' own changes keep their types.
LEMMA BackendsChangeType ==
  ASSUME BackendsTypeOK, BackendsChange
  PROVE  BackendsTypeOK'
<1> USE BackendsAssumption DEF BackendsTypeOK
<1>0. changes' \in 0..MaxChanges
  BY DEF BackendsChange, ChangeRoster, ChangeTeam, Disband, ChangeLink, Land, Counted
<1>1. CASE \E g \in Group, u \in User : ChangeRoster(g, u)
  <2>1. PICK g \in Group, u \in User, st \in Status \cup {Unlisted} :
          roster' = [roster EXCEPT ![g] = [@ EXCEPT ![u] = st]]
    BY <1>1 DEF ChangeRoster
  <2>2. roster' \in [Group -> [User -> Status \cup {Unlisted}]]
    BY <2>1
  <2> QED
    BY <1>0, <1>1, <2>2 DEF ChangeRoster
<1>2. CASE \E s \in Session, t \in TeamID, u \in User : ChangeTeam(s, t, u)
  <2>1. PICK s \in Session, t \in TeamID, u \in User : ChangeTeam(s, t, u)
    BY <1>2
  <2>2. PICK ids \in {teams[s][t] \ {u}, teams[s][t] \cup {u}} :
          teams' = [teams EXCEPT ![s] = [@ EXCEPT ![t] = ids]]
    BY <2>1 DEF ChangeTeam
  <2>3. ids \in SUBSET User
    <3>1. teams[s][t] \in SUBSET User
      OBVIOUS
    <3> QED
      BY <2>2, <3>1
  <2>4. teams' \in [Session -> [TeamID -> SUBSET User]]
    BY <2>2, <2>3
  <2> QED
    BY <1>0, <2>1, <2>4 DEF ChangeTeam
<1>3. CASE \E g \in Group : Disband(g)
  BY <1>0, <1>3 DEF Disband
<1>4. CASE \E u \in User : ChangeLink(u)
  <2>1. PICK u \in User, p \in Puid \cup {NoPuid} : link' = [link EXCEPT ![u] = p]
    BY <1>4 DEF ChangeLink
  <2> QED
    BY <1>0, <1>4, <2>1 DEF ChangeLink
<1>5. CASE \E w \in late : Land(w)
  <2>1. PICK w \in late : Land(w)
    BY <1>5
  <2>2. w \in Work
    OBVIOUS
  <2>3. admitted' \subseteq Room \X Puid
    BY <2>1, <2>2, DoneType DEF Land
  <2>4. late' \subseteq Work
    BY <2>1 DEF Land
  <2> QED
    BY <1>0, <2>1, <2>3, <2>4 DEF Land
<1> QED
  BY <1>1, <1>2, <1>3, <1>4, <1>5 DEF BackendsChange
=============================================================================
