----------------------------- MODULE VoiceRooms -----------------------------
(***************************************************************************)
(* What the service promises of Epic's rooms, whatever happens around it:  *)
(* a room gains and loses participants only by right of a request.  A      *)
(* request gains rights while it is being served, from the memberships and *)
(* links of that time, and none afterwards; what it has asked of Epic may  *)
(* happen after its end.  The specifications of the handlers implement     *)
(* this one, and say in their refinement mappings what the rights are.     *)
(***************************************************************************)
CONSTANTS
  Granting,  \* the requests for tokens
  Revoking   \* the revocations

VARIABLES
  rooms,  \* <<room, puid>>: Epic lets puid take part in room
  state,  \* state[x]: "idle", "open", "closed"
  may     \* may[x]: the elements of rooms that x may add, or remove

Request == Granting \cup Revoking

roomsVars == <<rooms, state, may>>

Init ==
  /\ state = [x \in Request |-> "idle"]
  /\ may = [x \in Request |-> {}]

\* A request comes in; it may be refused at once.
Open(x) ==
  /\ state[x] = "idle"
  /\ \E s \in {"open", "closed"} : state' = [state EXCEPT ![x] = s]
  /\ \A y \in Request \ {x} : may'[y] = may[y]
  /\ UNCHANGED rooms

\* Time passes: requests being served gain rights and lose none.
Entitle ==
  /\ \A x \in Request : \/ may'[x] = may[x]
                        \/ state[x] = "open" /\ may[x] \subseteq may'[x]
  /\ UNCHANGED <<rooms, state>>

\* The requests xs end.
Close(xs) ==
  /\ \A x \in xs : state[x] = "open"
  /\ state' = [x \in Request |-> IF x \in xs THEN "closed" ELSE state[x]]
  /\ UNCHANGED may

Grant(x) ==
  /\ state[x] # "idle"
  /\ rooms \subseteq rooms' /\ rooms' \ rooms \subseteq may[x]
  /\ UNCHANGED <<state, may>> \/ Close({x})

Revoke(x) ==
  /\ state[x] # "idle"
  /\ rooms' \subseteq rooms /\ rooms \ rooms' \subseteq may[x]
  /\ UNCHANGED <<state, may>> \/ Close({x})

Next ==
  \/ \E x \in Request : Open(x)
  \/ Entitle
  \/ UNCHANGED rooms /\ \E xs \in SUBSET Request : Close(xs)
  \/ \E x \in Granting : Grant(x)
  \/ \E x \in Revoking : Revoke(x)

Spec == Init /\ [][Next]_roomsVars
=============================================================================
