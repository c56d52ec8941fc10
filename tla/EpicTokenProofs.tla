-------------------------- MODULE EpicTokenProofs --------------------------
(***************************************************************************)
(* The safety properties of EpicToken for every period, life and time-out  *)
(* that satisfy EpicTokenAssumption, any number of requests and any number *)
(* of failed refreshes.                                                    *)
(***************************************************************************)
EXTENDS EpicToken, TLAPS

LEMMA InitInv == Init => Inv
<1> SUFFICES ASSUME Init PROVE Inv
  OBVIOUS
<1>1. TypeOK
  <2>1. Unsent \in RequestState
    BY EpicTokenAssumption DEF Unsent, RequestState
  <2>2. req \in [Request -> RequestState]
    BY <2>1 DEF Init
  <2> QED
    <3>1. /\ life = 0 /\ issued = 0 /\ spent = 0 /\ toTick = Period
          /\ fails = 0 /\ down = 0 /\ late = 0
      BY DEF Init
    <3>2. /\ life \in 0..TTL /\ issued \in 0..TTL /\ spent \in 0..Timeout
          /\ toTick \in 1..Period /\ fails \in 0..MaxFailures /\ down \in Nat /\ late \in Nat
      BY <3>1, EpicTokenAssumption
    <3> QED
      BY <2>2, <3>2 DEF Init, TypeOK, Loops, Running
<1>2. Punctual /\ Fresh /\ UsedUp
  BY DEF Init, Punctual, Fresh, UsedUp
<1>3. ASSUME NEW r \in Request PROVE CarriesFresh(r)
  BY DEF Init, CarriesFresh, Unsent
<1> QED
  BY <1>1, <1>2, <1>3 DEF Inv

\* While the goroutine runs and its last refresh brought a token, the token has
\* more than one time-out left.
LEMMA MoreThanTimeoutLeft ==
  ASSUME Inv, loop \in Running, fails = 0
  PROVE  life + 2 * Timeout + Period >= TTL /\ life > Timeout
<1>1. /\ life \in Nat /\ spent \in 0..Timeout /\ toTick \in 1..Period /\ tick \in BOOLEAN
      /\ Punctual /\ Fresh
  BY EpicTokenAssumption DEF Inv, TypeOK
<1>2. CASE loop = "select"
  <2>1. life + Timeout + Period >= TTL
    BY <1>1, <1>2, EpicTokenAssumption DEF Fresh, Elapsed
  <2> QED
    BY <1>1, <2>1, EpicTokenAssumption
<1>3. CASE loop = "auth"
  <2>1. life + Timeout + Period + spent >= TTL
    BY <1>3, <1>1 DEF Fresh
  <2> QED
    BY <1>1, <2>1, EpicTokenAssumption
<1> QED
  BY <1>2, <1>3 DEF Running

-----------------------------------------------------------------------------
(* authenticate *)

LEMMA IssueInv == Inv /\ Issue => Inv'
<1> SUFFICES ASSUME Inv, Issue PROVE Inv'
  OBVIOUS
<1>1. /\ loop \in {"new", "auth"} /\ issued' = TTL
      /\ UNCHANGED <<life, loop, spent, toTick, tick, stopping, req, fails, down, late>>
  BY DEF Issue, Authenticating
<1>2. TypeOK'
  BY <1>1, EpicTokenAssumption DEF Inv, TypeOK
<1>3. Punctual' /\ UsedUp'
  BY <1>1 DEF Inv, Punctual, Elapsed, UsedUp
<1>4. Fresh'
  BY <1>1, EpicTokenAssumption DEF Inv, TypeOK, Fresh, Elapsed
<1>5. \A r \in Request : CarriesFresh(r)'
  BY <1>1 DEF Inv, CarriesFresh
<1> QED
  BY <1>2, <1>3, <1>4, <1>5 DEF Inv

\* What is the same for every outcome of an authentication.
LEMMA OverInv ==
  ASSUME Inv, NEW ok \in BOOLEAN, Over(ok), life' \in 0..TTL,
         fails' \in 0..MaxFailures, down' \in Nat
  PROVE  /\ TypeOK' /\ Punctual' /\ UsedUp'
         /\ \A r \in Request : CarriesFresh(r)'
<1>1. /\ loop \in {"new", "auth"} /\ loop' \in {"gone", "select"}
      /\ issued' = 0 /\ spent' = 0
      /\ toTick' = IF loop = "new" THEN Period ELSE toTick
      /\ UNCHANGED <<tick, stopping, req, late>>
  BY DEF Over, Authenticating
<1>2. TypeOK'
  BY <1>1, EpicTokenAssumption DEF Inv, TypeOK, Loops, Running
<1>3. Punctual' /\ UsedUp'
  BY <1>1 DEF Inv, Punctual, UsedUp
<1>4. \A r \in Request : CarriesFresh(r)'
  BY <1>1 DEF Inv, CarriesFresh
<1> QED
  BY <1>2, <1>3, <1>4

LEMMA StoreInv == Inv /\ Store => Inv'
<1> SUFFICES ASSUME Inv, Store PROVE Inv'
  OBVIOUS
<1>1. /\ Over(TRUE) /\ issued > 0 /\ life' = issued /\ fails' = 0 /\ down' = 0
      /\ issued' = 0 /\ loop \in {"new", "auth"} /\ loop' = "select" /\ tick' = tick
      /\ toTick' = IF loop = "new" THEN Period ELSE toTick
  BY DEF Store, Over, Authenticating
<1>2. /\ issued \in 0..TTL /\ spent \in 0..Timeout /\ toTick \in 1..Period
      /\ issued + spent >= TTL /\ ~tick /\ (loop = "auth" => spent = Period - toTick)
  BY <1>1 DEF Inv, TypeOK, Fresh, Punctual, Elapsed
<1>3. Fresh'
  <2>1. life' + Timeout + (Period - toTick') >= TTL
    BY <1>1, <1>2, EpicTokenAssumption
  <2> QED
    BY <1>1, <1>2, <2>1 DEF Fresh, Elapsed
<1>4. fails' \in 0..MaxFailures /\ down' \in Nat
  BY <1>1, EpicTokenAssumption
<1> QED
  BY <1>1, <1>2, <1>3, <1>4, OverInv DEF Inv

LEMMA StoreEmptyInv == Inv /\ StoreEmpty => Inv'
<1> SUFFICES ASSUME Inv, StoreEmpty PROVE Inv'
  OBVIOUS
<1>1. /\ Over(TRUE) /\ life' = 0 /\ fails' = fails + 1 /\ down' = down /\ issued' = 0
      /\ fails < MaxFailures /\ loop' # "auth"
  BY DEF StoreEmpty, Over
<1>2. fails \in 0..MaxFailures /\ down \in Nat
  BY DEF Inv, TypeOK
<1>3. life' \in 0..TTL /\ fails' \in 0..MaxFailures /\ fails' # 0
  BY <1>1, <1>2, EpicTokenAssumption
<1>4. Fresh'
  BY <1>1, <1>3 DEF Fresh
<1> QED
  BY <1>1, <1>2, <1>3, <1>4, OverInv DEF Inv

LEMMA FailInv == Inv /\ Fail => Inv'
<1> SUFFICES ASSUME Inv, Fail PROVE Inv'
  OBVIOUS
<1>1. /\ Over(FALSE) /\ life' = life /\ fails' = fails + 1 /\ down' = down /\ issued' = 0
      /\ fails < MaxFailures /\ loop' # "auth"
  BY DEF Fail, Over
<1>2. fails \in 0..MaxFailures /\ down \in Nat /\ life \in 0..TTL
  BY DEF Inv, TypeOK
<1>3. fails' \in 0..MaxFailures /\ fails' # 0
  BY <1>1, <1>2, EpicTokenAssumption
<1>4. Fresh'
  BY <1>1, <1>3 DEF Fresh
<1> QED
  BY <1>1, <1>2, <1>3, <1>4, OverInv DEF Inv

-----------------------------------------------------------------------------
(* The goroutine and Shutdown *)

LEMMA TakeTickInv == Inv /\ TakeTick => Inv'
<1> SUFFICES ASSUME Inv, TakeTick PROVE Inv'
  OBVIOUS
<1>1. /\ loop = "select" /\ tick /\ loop' = "auth" /\ tick' = FALSE /\ spent' = 0
      /\ late' = IF stopping THEN late + 1 ELSE late
      /\ UNCHANGED <<life, issued, toTick, stopping, req, fails, down>>
  BY DEF TakeTick
<1>2. /\ toTick = Period /\ issued = 0 /\ late = 0
      /\ fails = 0 => life + Timeout + Period >= TTL
  BY <1>1 DEF Inv, TypeOK, Punctual, Fresh, UsedUp
<1>3. TypeOK'
  <2>1. late' \in Nat
    BY <1>1, <1>2
  <2> QED
    <3>1. 0 \in 0..Timeout /\ "auth" \in Loops
      BY EpicTokenAssumption DEF Loops, Running
    <3>2. spent' \in 0..Timeout /\ loop' \in Loops /\ tick' \in BOOLEAN
      BY <1>1, <3>1
    <3> QED
      BY <1>1, <2>1, <3>2 DEF Inv, TypeOK
<1>4. Punctual' /\ Fresh'
  BY <1>1, <1>2, <1>3, EpicTokenAssumption DEF Punctual, Fresh, Elapsed, TypeOK
<1>5. UsedUp'
  BY <1>1, <1>2 DEF UsedUp
<1>6. \A r \in Request : CarriesFresh(r)'
  BY <1>1 DEF Inv, CarriesFresh
<1> QED
  BY <1>3, <1>4, <1>5, <1>6 DEF Inv

LEMMA StopInv == Inv /\ (TakeDone \/ Shutdown) => Inv'
<1> SUFFICES ASSUME Inv, TakeDone \/ Shutdown PROVE Inv'
  OBVIOUS
<1>1. CASE TakeDone
  <2>1. /\ loop = "select" /\ loop' = "stopped"
        /\ UNCHANGED <<life, issued, spent, toTick, tick, stopping, req, fails, down, late>>
    BY <1>1 DEF TakeDone
  <2>2. TypeOK'
    BY <2>1 DEF Inv, TypeOK, Loops
  <2>3. Punctual' /\ Fresh' /\ UsedUp' /\ \A r \in Request : CarriesFresh(r)'
    BY <2>1 DEF Inv, Punctual, Fresh, UsedUp, CarriesFresh
  <2> QED
    BY <2>2, <2>3 DEF Inv
<1>2. CASE Shutdown
  <2>1. /\ loop \in Running /\ ~stopping /\ stopping' = TRUE
        /\ UNCHANGED <<life, issued, loop, spent, toTick, tick, req, fails, down, late>>
    BY <1>2 DEF Shutdown
  <2>2. TypeOK'
    BY <2>1 DEF Inv, TypeOK
  <2>3. Punctual' /\ Fresh'
    BY <2>1 DEF Inv, Punctual, Fresh, Elapsed, Running
  <2>4. UsedUp' /\ \A r \in Request : CarriesFresh(r)'
    BY <2>1 DEF Inv, UsedUp, CarriesFresh
  <2> QED
    BY <2>2, <2>3, <2>4 DEF Inv
<1> QED
  BY <1>1, <1>2

-----------------------------------------------------------------------------
(* The requests *)

\* A step that changes one request and nothing else.
LEMMA RequestStep ==
  ASSUME Inv, NEW r \in Request, NEW q \in RequestState, req' = [req EXCEPT ![r] = q],
         q.trusted => /\ q.pc \in {"sent", "accepted"}
                      /\ q.pc = "sent" => q.life + q.spent + 2 * Timeout + Period >= TTL,
         UNCHANGED <<life, issued, loop, spent, toTick, tick, stopping, fails, down, late>>
  PROVE  Inv'
<1>1. TypeOK'
  BY DEF Inv, TypeOK
<1>2. Punctual' /\ Fresh' /\ UsedUp'
  BY DEF Inv, Punctual, Fresh, UsedUp, Elapsed
<1>3. ASSUME NEW s \in Request PROVE CarriesFresh(s)'
  <2>1. CASE s = r
    BY <2>1 DEF Inv, TypeOK, CarriesFresh
  <2>2. CASE s # r
    <3>1. req'[s] = req[s]
      BY <2>2 DEF Inv, TypeOK
    <3> QED
      BY <3>1 DEF Inv, CarriesFresh
  <2> QED
    BY <2>1, <2>2
<1> QED
  BY <1>1, <1>2, <1>3 DEF Inv

LEMMA SendInv == ASSUME Inv, NEW r \in Request, Send(r) PROVE Inv'
<1> DEFINE q == [pc |-> "sent", life |-> life, spent |-> 0, trusted |-> fails = 0]
<1>1. /\ loop \in Running /\ req' = [req EXCEPT ![r] = q]
      /\ UNCHANGED <<life, issued, loop, spent, toTick, tick, stopping, fails, down, late>>
  BY DEF Send
<1>2. q \in RequestState
  BY EpicTokenAssumption DEF Inv, TypeOK, RequestState
<1>3. fails = 0 => life + 0 + 2 * Timeout + Period >= TTL
  BY <1>1, MoreThanTimeoutLeft, EpicTokenAssumption DEF Inv, TypeOK
<1> QED
  BY <1>1, <1>2, <1>3, RequestStep

\* A request that carries a fresh token reaches Epic before the token runs out.
LEMMA ArriveInv == ASSUME Inv, NEW r \in Request, Arrive(r) PROVE Inv'
<1> DEFINE q == [req[r] EXCEPT !.pc = IF req[r].life > 0 THEN "accepted" ELSE "rejected"]
<1>1. /\ req[r].pc = "sent" /\ req' = [req EXCEPT ![r] = q]
      /\ UNCHANGED <<life, issued, loop, spent, toTick, tick, stopping, fails, down, late>>
  BY DEF Arrive
<1>2. req[r] \in RequestState /\ CarriesFresh(r)
  BY DEF Inv, TypeOK
<1>3. q \in RequestState /\ q.trusted = req[r].trusted
      /\ q.pc = IF req[r].life > 0 THEN "accepted" ELSE "rejected"
  BY <1>2 DEF RequestState
<1>4. req[r].trusted => req[r].life > 0
  <2>1. req[r].life \in 0..TTL /\ req[r].spent \in 0..Timeout
    BY <1>2 DEF RequestState
  <2>2. req[r].trusted => req[r].life + req[r].spent + 2 * Timeout + Period >= TTL
    BY <1>1, <1>2 DEF CarriesFresh
  <2> QED
    BY <2>1, <2>2, EpicTokenAssumption
<1> HIDE DEF q
<1> QED
  BY <1>1, <1>3, <1>4, RequestStep

LEMMA ForgetInv == ASSUME Inv, NEW r \in Request, Forget(r) PROVE Inv'
<1>1. Unsent \in RequestState /\ Unsent.trusted = FALSE
  BY EpicTokenAssumption DEF Unsent, RequestState
<1> QED
  BY <1>1, RequestStep DEF Forget

-----------------------------------------------------------------------------
(* Time *)

LEMMA PassInv == Inv /\ Pass => Inv'
<1> SUFFICES ASSUME Inv, Pass PROVE Inv'
  OBVIOUS
<1>0. Period \in Nat /\ TTL \in Nat /\ Timeout \in Nat /\ Timeout < Period
  BY EpicTokenAssumption
<1>1. /\ CanPass /\ life' = Less(life) /\ issued' = Less(issued)
      /\ spent' = IF Authenticating THEN spent + 1 ELSE spent
      /\ UNCHANGED <<loop, stopping, fails, late>>
  BY DEF Pass
<1>2. /\ life \in 0..TTL /\ issued \in 0..TTL /\ spent \in 0..Timeout /\ toTick \in 1..Period
      /\ tick \in BOOLEAN /\ down \in Nat /\ Punctual /\ Fresh /\ UsedUp
  BY DEF Inv, TypeOK
<1>3. /\ loop \in {"new", "select", "auth"} /\ ~tick
      /\ loop = "select" => ~stopping
      /\ loop \in {"new", "auth"} => spent < Timeout
  BY <1>1, <1>2 DEF CanPass, Running, Punctual, Authenticating
<1>4. /\ life' \in 0..TTL /\ issued' \in 0..TTL /\ spent' \in 0..Timeout
      /\ life' >= life - 1 /\ issued' >= issued - 1 /\ (issued' > 0 => issued > 0)
      /\ issued = 0 => issued' = 0
      /\ spent' = IF loop = "select" THEN spent ELSE spent + 1
  BY <1>0, <1>1, <1>2, <1>3 DEF Less, Authenticating
<1>5. /\ toTick' = IF loop = "new" \/ toTick = 1 THEN Period ELSE toTick - 1
      /\ tick' <=> loop # "new" /\ toTick = 1
      /\ tick' \in BOOLEAN
  <2>1. /\ tick' = (tick \/ (loop # "new" /\ toTick = 1))
        /\ toTick' = CASE loop = "new" -> Period
                       [] loop # "new" /\ toTick = 1 -> Period
                       [] OTHER -> toTick - 1
    BY DEF Pass
  <2>2. toTick' = IF loop = "new" \/ toTick = 1 THEN Period ELSE toTick - 1
    BY <2>1
  <2> QED
    BY <1>3, <2>1, <2>2
\* The ticker does not fire during an authentication.
<1>6. /\ loop = "auth" => toTick > 1
      /\ loop = "new" => toTick = Period
  BY <1>0, <1>2, <1>3 DEF Punctual, Elapsed
<1>7. down' \in Nat /\ toTick' \in 1..Period
  <2>1. down' = IF loop # "new" /\ life' = 0 THEN down + 1 ELSE down
    BY DEF Pass
  <2> QED
    BY <1>0, <1>2, <1>5, <2>1
<1>8. ASSUME NEW r \in Request
      PROVE  /\ req'[r] \in RequestState
             /\ req'[r].trusted = req[r].trusted /\ req'[r].pc = req[r].pc
             /\ req[r].pc = "sent" =>
                  req'[r].life + req'[r].spent >= req[r].life + req[r].spent
  <2>1. req[r] \in RequestState
    BY DEF Inv, TypeOK
  <2>2. req'[r] = IF req[r].pc = "sent"
                  THEN [req[r] EXCEPT !.life = Less(req[r].life), !.spent = req[r].spent + 1]
                  ELSE req[r]
    BY DEF Pass
  <2>3. CASE req[r].pc = "sent"
    <3>1. req[r].spent < Timeout
      BY <1>1, <2>3 DEF CanPass
    <3>2. /\ req[r].life \in 0..TTL /\ req[r].spent \in 0..Timeout
      BY <2>1 DEF RequestState
    <3> DEFINE l == Less(req[r].life)
               s == req[r].spent + 1
               q == [req[r] EXCEPT !.life = l, !.spent = s]
    <3>3. /\ l \in 0..TTL /\ l >= req[r].life - 1
          /\ s \in 0..Timeout
      BY <1>0, <3>1, <3>2 DEF Less
    <3>4. l + s >= req[r].life + req[r].spent
      BY <1>0, <3>2, <3>3
    <3>5. req'[r] = q
      BY <2>2, <2>3
    <3> HIDE DEF l, s
    <3>6. /\ q \in RequestState /\ q.life = l /\ q.spent = s
          /\ q.trusted = req[r].trusted /\ q.pc = req[r].pc
      BY <2>1, <3>3 DEF RequestState
    <3> HIDE DEF q
    <3> QED
      BY <3>4, <3>5, <3>6
  <2>4. CASE req[r].pc # "sent"
    BY <2>1, <2>2, <2>4
  <2> QED
    BY <2>3, <2>4
<1>9. TypeOK'
  <2>1. req' \in [Request -> RequestState]
    <3>1. DOMAIN req' = Request
      BY DEF Pass
    <3>2. req' = [r \in Request |-> req'[r]]
      BY <3>1 DEF Pass
    <3> QED
      BY <1>8, <3>2
  <2> QED
    BY <1>1, <1>4, <1>5, <1>7, <2>1 DEF Inv, TypeOK
<1>10. Punctual'
  <2>1. loop = "new" => toTick' = Period /\ ~tick' /\ ~stopping
    BY <1>2, <1>5 DEF Punctual
  <2>2. loop = "select" => spent' = 0 /\ issued' = 0 /\ (tick' => toTick' = Period)
    BY <1>2, <1>4, <1>5 DEF Punctual
  <2>3. loop = "auth" => spent' = Period - toTick'
    BY <1>0, <1>2, <1>4, <1>5, <1>6 DEF Punctual, Elapsed
  <2>4. loop = "auth" => ~tick'
    BY <1>2, <1>5, <1>6
  <2> QED
    BY <1>1, <2>1, <2>2, <2>3, <2>4 DEF Punctual, Elapsed
<1>11. Fresh'
  <2>1. /\ life \in Int /\ issued \in Int /\ spent \in Int /\ toTick \in Int
        /\ Period \in Int /\ TTL \in Int /\ Timeout \in Int
    BY <1>0, <1>2
  <2>2. PICK l \in Int : life' = l /\ l >= life - 1
    BY <1>4
  <2>3. PICK i \in Int : issued' = i /\ i >= issued - 1 /\ (i > 0 => issued > 0)
                        /\ (issued = 0 => i = 0)
    BY <1>4
  <2>4. PICK s \in Int : spent' = s /\ s = IF loop = "select" THEN spent ELSE spent + 1
    BY <1>2, <1>4
  <2>5. ASSUME i > 0 PROVE i + s >= TTL
    <3>1. loop # "select" /\ issued + spent >= TTL
      BY <1>2, <2>3, <2>5 DEF Fresh, Punctual
    <3> QED
      BY <2>1, <2>3, <2>4, <3>1
  <2>6. ASSUME loop = "select", fails = 0
        PROVE  l + Timeout + (IF tick' THEN Period ELSE Period - toTick') >= TTL
    <3>1. life + Timeout + (Period - toTick) >= TTL
      BY <1>2, <1>3, <2>6 DEF Fresh, Elapsed
    <3>2. CASE tick'
      <4>1. toTick = 1
        BY <1>5, <3>2
      <4>2. l + Timeout + Period >= TTL
        BY <2>1, <2>2, <3>1, <4>1
      <4> QED
        BY <3>2, <4>2
    <3>3. CASE ~tick'
      <4>1. toTick' = toTick - 1
        BY <1>5, <2>6, <3>3
      <4>2. l + Timeout + (Period - (toTick - 1)) >= TTL
        BY <2>1, <2>2, <3>1
      <4> QED
        BY <3>3, <4>1, <4>2
    <3> QED
      BY <3>2, <3>3
  <2>7. ASSUME loop = "auth", fails = 0 PROVE l + Timeout + Period + s >= TTL
    <3>1. life + Timeout + Period + spent >= TTL
      BY <1>2, <2>7 DEF Fresh
    <3> QED
      BY <2>1, <2>2, <2>4, <2>7, <3>1
  <2> QED
    BY <1>1, <2>2, <2>3, <2>4, <2>5, <2>6, <2>7 DEF Fresh, Elapsed
<1>12. ASSUME NEW r \in Request PROVE CarriesFresh(r)'
  <2>1. CarriesFresh(r) /\ req[r] \in RequestState /\ req'[r] \in RequestState
    BY <1>8 DEF Inv, TypeOK
  <2>2. /\ req[r].life \in Nat /\ req[r].spent \in Nat
        /\ req'[r].life \in Nat /\ req'[r].spent \in Nat
    BY <2>1 DEF RequestState
  <2> QED
    BY <1>0, <1>8, <2>1, <2>2 DEF CarriesFresh
\* After Shutdown and a late tick the goroutine is not in select while time
\* passes, and no tick comes while it authenticates.
<1>13. UsedUp'
  BY <1>1, <1>2, <1>3, <1>5, <1>6 DEF UsedUp, Punctual
<1> QED
  BY <1>9, <1>10, <1>11, <1>12, <1>13 DEF Inv

-----------------------------------------------------------------------------
(* The theorems. *)

LEMMA NextInv == Inv /\ [Next]_vars => Inv'
<1> SUFFICES ASSUME Inv, [Next]_vars PROVE Inv'
  OBVIOUS
<1>1. CASE UNCHANGED vars
  BY <1>1 DEF vars, Inv, TypeOK, Punctual, Fresh, CarriesFresh, UsedUp, Elapsed
<1>2. CASE Next
  BY <1>2, IssueInv, StoreInv, StoreEmptyInv, FailInv, TakeTickInv, StopInv, SendInv,
     ArriveInv, ForgetInv, PassInv DEF Next
<1> QED
  BY <1>1, <1>2

\* The invariant that the properties follow from is inductive.
THEOREM Inductive == Spec => []Inv
<1>1. Inv /\ [Next]_vars => Inv'
  BY NextInv
<1> QED
  BY <1>1, InitInv, PTL DEF Spec

\* The client's fields and the goroutine's variables stay within their types.
THEOREM TypeCorrect == Spec => []TypeOK
<1>1. Inv => TypeOK
  BY DEF Inv
<1> QED
  BY <1>1, Inductive, PTL

\* While the goroutine runs and its last refresh brought a token, Epic accepts
\* the token the program holds.
THEOREM TokenValid == Spec => []ValidUnlessRefreshFailed
<1>1. Inv => ValidUnlessRefreshFailed
  <2> SUFFICES ASSUME Inv, loop \in Running, fails = 0 PROVE life > 0
    BY DEF ValidUnlessRefreshFailed
  <2>1. life > Timeout /\ life \in 0..TTL
    BY MoreThanTimeoutLeft DEF Inv, TypeOK
  <2> QED
    BY <2>1, EpicTokenAssumption
<1> QED
  BY <1>1, Inductive, PTL

\* A request sent while the last refresh had brought a token is never rejected
\* for its token, however long it is under way.
THEOREM RequestsAccepted == Spec => []TrustedRequestsAccepted
<1>1. Inv => TrustedRequestsAccepted
  BY DEF Inv, CarriesFresh, TrustedRequestsAccepted
<1> QED
  BY <1>1, Inductive, PTL

\* Shutdown is followed by at most one new authentication.
THEOREM OneLateRefresh == Spec => []AtMostOneLateRefresh
<1>1. Inv => AtMostOneLateRefresh
  BY DEF Inv, UsedUp, AtMostOneLateRefresh
<1> QED
  BY <1>1, Inductive, PTL

-----------------------------------------------------------------------------
(* Outages. *)

LEMMA Periods ==
  ASSUME NEW f \in 0..MaxFailures
  PROVE  /\ f * Period \in Nat /\ MaxFailures * Period \in Nat
         /\ (f + 1) * Period = f * Period + Period
         /\ f * Period <= MaxFailures * Period
         /\ f > 0 => Period <= f * Period
<1>1. Period \in Nat /\ f \in Nat /\ MaxFailures \in Nat
  BY EpicTokenAssumption
<1>2. f * Period \in Nat /\ MaxFailures * Period \in Nat
  BY <1>1
<1>3. (f + 1) * Period = f * Period + Period
  BY <1>1
<1>4. PICK d \in Nat : MaxFailures = f + d
  <2>1. MaxFailures - f \in Nat /\ MaxFailures = f + (MaxFailures - f)
    BY <1>1
  <2> QED
    BY <2>1
<1>5. MaxFailures * Period = f * Period + d * Period /\ d * Period >= 0
  BY <1>1, <1>4
<1>6. f * Period <= MaxFailures * Period
  BY <1>1, <1>2, <1>5
<1>7. f > 0 => Period <= f * Period
  <2>1. ASSUME f > 0 PROVE Period <= f * Period
    <3>1. PICK e \in Nat : f = e + 1
      <4>1. f - 1 \in Nat /\ f = (f - 1) + 1
        BY <1>1, <2>1
      <4> QED
        BY <4>1
    <3>2. f * Period = e * Period + Period /\ e * Period >= 0
      BY <1>1, <3>1
    <3> QED
      BY <1>1, <3>2
  <2> QED
    BY <2>1
<1> QED
  BY <1>2, <1>3, <1>6, <1>7

\* What the invariant says of the variables that an outage is about.
LEMMA OutageTypes ==
  ASSUME Inv
  PROVE  /\ life \in Nat /\ spent \in 0..Timeout /\ toTick \in 1..Period /\ tick \in BOOLEAN
         /\ fails \in 0..MaxFailures /\ fails \in Nat /\ down \in Nat
         /\ Period \in Nat /\ Timeout \in Nat \ {0} /\ TTL \in Nat
         /\ loop = "auth" => ~tick /\ spent = Period - toTick
         /\ loop = "new" => toTick = Period /\ ~tick
BY EpicTokenAssumption DEF Inv, TypeOK, Punctual, Elapsed

\* A refresh that brings no token.
LEMMA OutageFails ==
  ASSUME Inv, Outage, Over(TRUE) \/ Over(FALSE), fails < MaxFailures,
         fails' = fails + 1, down' = down
  PROVE  Outage'
<1>1. /\ loop \in {"new", "auth"} /\ loop' \in {"gone", "select"} /\ tick' = tick
      /\ toTick' = IF loop = "new" THEN Period ELSE toTick
  BY DEF Over, Authenticating
<1>2. (fails + 1) * Period = fails * Period + Period /\ fails * Period \in Nat
  BY OutageTypes, Periods
<1>3. down' <= fails * Period + (Period - toTick')
  <2>1. CASE fails = 0
    BY <1>1, <1>2, <2>1, OutageTypes DEF Outage
  <2>2. CASE fails > 0 /\ loop = "auth"
    BY <1>1, <2>2, OutageTypes DEF Outage
  <2> QED
    BY <1>1, <2>1, <2>2, OutageTypes DEF Outage
<1> QED
  BY <1>1, <1>2, <1>3, OutageTypes DEF Outage, Elapsed, OutageBounded

LEMMA OutagePass ==
  ASSUME Inv, Outage, Pass
  PROVE  Outage'
<1>1. /\ loop \in {"select", "auth", "new"} /\ loop' = loop /\ fails' = fails
      /\ life' = Less(life)
      /\ loop = "select" => ~tick
      /\ loop = "auth" => spent < Timeout /\ spent' = spent + 1
      /\ loop # "new" => toTick' = IF toTick = 1 THEN Period ELSE toTick - 1
      /\ tick' = (tick \/ (loop # "new" /\ toTick = 1))
      /\ down' = IF loop # "new" /\ life' = 0 THEN down + 1 ELSE down
  BY DEF Pass, CanPass, Running, Authenticating
<1>2. fails * Period \in Nat /\ fails * Period <= MaxFailures * Period
        /\ MaxFailures * Period \in Nat
  BY OutageTypes, Periods
<1>3. fails > 0 => Period <= fails * Period
  BY OutageTypes, Periods
<1>4. CASE loop = "new"
  BY <1>1, <1>4 DEF Outage, OutageBounded
<1>5. CASE loop # "new" /\ fails = 0
  <2>1. life > Timeout
    BY <1>1, <1>5, MoreThanTimeoutLeft DEF Running
  <2>2. life' # 0
    BY <1>1, <2>1, OutageTypes DEF Less
  <2> QED
    BY <1>1, <1>5, <2>2, OutageTypes DEF Outage, OutageBounded
<1>6. CASE loop = "select" /\ fails > 0
  <2>1. down + Period <= fails * Period + (Period - toTick) /\ ~tick
    BY <1>1, <1>6 DEF Outage, Elapsed
  <2>2. down' + Period <= fails * Period + (IF tick' THEN Period ELSE Period - toTick')
    <3>1. PICK k \in Nat : k = fails * Period
      BY <1>2
    <3>2. down + Period <= k + (Period - toTick) /\ down' <= down + 1 /\ down' \in Nat
      BY <1>1, <2>1, <3>1, OutageTypes
    <3>3. CASE toTick = 1
      <4>1. tick'
        BY <1>1, <1>6, <3>3
      <4>2. down' + Period <= k + Period
        BY <3>2, <3>3, OutageTypes
      <4> QED
        BY <3>1, <4>1, <4>2
    <3>4. CASE toTick # 1
      <4>1. ~tick' /\ toTick' = toTick - 1
        BY <1>1, <1>6, <2>1, <3>4
      <4>2. down' + Period <= k + (Period - toTick')
        BY <3>2, <3>4, <4>1, OutageTypes
      <4> QED
        BY <3>1, <4>1, <4>2
    <3> QED
      BY <3>3, <3>4
  <2>3. down' <= MaxFailures * Period + Timeout
    BY <1>1, <1>2, <1>6, <2>1, OutageTypes
  <2> QED
    BY <1>1, <1>6, <2>2, <2>3, OutageTypes DEF Outage, OutageBounded, Elapsed
<1>7. CASE loop = "auth" /\ fails > 0
  <2>1. down <= fails * Period + spent
    BY <1>7 DEF Outage
  <2>2. down' <= fails * Period + spent' /\ spent' <= Timeout
    BY <1>1, <1>2, <1>7, <2>1, OutageTypes
  <2>3. down' <= MaxFailures * Period + Timeout
    BY <1>1, <1>2, <1>7, <2>2, OutageTypes
  <2> QED
    BY <1>1, <1>7, <2>2, <2>3, OutageTypes DEF Outage, OutageBounded
<1> QED
  BY <1>1, <1>4, <1>5, <1>6, <1>7, OutageTypes

LEMMA OutageNext == Inv /\ Outage /\ [Next]_vars => Outage'
<1> SUFFICES ASSUME Inv, Outage, [Next]_vars PROVE Outage'
  OBVIOUS
<1>1. ASSUME UNCHANGED <<loop, spent, toTick, tick, fails, down>> PROVE Outage'
  BY <1>1 DEF Outage, OutageBounded, Elapsed
<1>2. CASE Issue \/ Shutdown \/ UNCHANGED vars
  BY <1>1, <1>2 DEF Issue, Shutdown, vars
<1>3. CASE \E r \in Request : Send(r) \/ Arrive(r) \/ Forget(r)
  BY <1>1, <1>3 DEF Send, Arrive, Forget
<1>4. CASE TakeDone
  BY <1>4 DEF TakeDone, Outage, OutageBounded
<1>5. CASE Store
  <2>1. fails' = 0 /\ down' = 0 /\ loop' # "auth"
    BY <1>5 DEF Store, Over
  <2>2. MaxFailures * Period + Timeout \in Nat
    BY EpicTokenAssumption
  <2> QED
    BY <2>1, <2>2 DEF Outage, OutageBounded
<1>6. CASE StoreEmpty \/ Fail
  BY <1>6, OutageFails DEF StoreEmpty, Fail
<1>7. CASE TakeTick
  <2>1. /\ loop = "select" /\ tick /\ loop' = "auth" /\ spent' = 0
        /\ fails' = fails /\ down' = down
    BY <1>7 DEF TakeTick
  <2>2. fails * Period \in Nat
    BY OutageTypes, Periods
  <2> QED
    BY <2>1, <2>2, OutageTypes DEF Outage, OutageBounded
<1>8. CASE Pass
  BY <1>8, OutagePass
<1> QED
  BY <1>2, <1>3, <1>4, <1>5, <1>6, <1>7, <1>8 DEF Next

\* However often refreshes fail in a row, an outage of the token lasts no longer
\* than that many periods and one time-out.
THEOREM OutagesAreBounded == Spec => []OutageBounded
<1>1. Init => Outage
  <2>1. MaxFailures * Period + Timeout \in Nat
    BY EpicTokenAssumption
  <2> QED
    BY <2>1 DEF Init, Outage, OutageBounded
<1>2. Inv /\ Outage /\ [Next]_vars => Outage'
  BY OutageNext
<1>3. Outage => OutageBounded
  BY DEF Outage
<1> QED
  BY <1>1, <1>2, <1>3, Inductive, PTL DEF Spec
=============================================================================
