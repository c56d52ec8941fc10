---------------------------- MODULE ServerProofs ----------------------------
(***************************************************************************)
(* Type correctness and the safety properties of Server, for any number of *)
(* calls.                                                                  *)
(***************************************************************************)
EXTENDS Server, TLAPS

LEMMA InitInv == Init => Inv
<1> SUFFICES ASSUME Init PROVE Inv
  OBVIOUS
<1>1. NewCall \in CallState /\ NewCall.pc = "none" /\ NewCall.user = NoSubject
  <2>1. <<>> \in [1..0 -> Token] /\ 0 \in 0..MaxValues
    BY ServerAssumption
  <2>2. <<>> \in Credentials
    BY <2>1 DEF Credentials
  <2> QED
    BY <2>2 DEF NewCall, CallState, Method
<1>2. TypeOK
  BY <1>1 DEF Init, TypeOK, Starting
<1>3. Progress /\ Reached /\ Checked
  BY <1>1 DEF Init, Progress, Reached, Checked, Ending, Servers
<1> QED
  BY <1>2, <1>3 DEF Inv

\* The process can end in any way, at any time, except that it ends well only
\* where main returns.
LEMMA ExitInv ==
  ASSUME Inv, NEW how \in {"ok", "error", "signal"}, how = "ok" => main = "cancel", Exit(how),
         UNCHANGED <<main, auth, validator, iam, epic, flushed, notified>>
  PROVE  Inv'
<1>1. TypeOK'
  <2>1. \A c \in Call : call'[c] \in CallState
    BY DEF Inv, TypeOK, Exit, CallState, Ended
  <2> QED
    BY <2>1 DEF Inv, TypeOK, Exit
<1>2. Progress'
  BY DEF Inv, Progress, Exit
<1>3. \A c \in Call :
        /\ call'[c].pc \notin {"gateway", "interceptor", "handler", "acting"}
        /\ call'[c].pc = call[c].pc \/ call'[c].pc = "cut"
        /\ call'[c].method = call[c].method /\ call'[c].creds = call[c].creds
        /\ call'[c].user = call[c].user
  BY DEF Inv, TypeOK, Exit, CallState
<1>4. Reached' /\ Checked'
  BY <1>3 DEF Inv, Reached, Checked, Exit, Servers
<1> QED
  BY <1>1, <1>2, <1>4 DEF Inv

\* main's steps that neither end the process nor touch the servers or calls.
LEMMA MainInv ==
  ASSUME Inv,
         \/ ReadEnvironment \/ SetUpAuth \/ Login \/ StartEpic \/ StartTracer \/ Notify
         \/ Awaited \/ Stop \/ Flush \/ ShutdownEpic
  PROVE  Inv'
<1> USE DEF Inv, ReadEnvironment, SetUpAuth, Login, StartEpic, StartTracer, Notify, Awaited,
            Stop, Flush, ShutdownEpic, At
<1>1. TypeOK'
  <2>1. CASE ReadEnvironment \/ SetUpAuth \/ Login \/ StartEpic
    BY <2>1 DEF TypeOK, Starting
  <2>2. CASE StartTracer \/ Notify \/ Awaited
    BY <2>2 DEF TypeOK, Starting, Ending
  <2>3. CASE Stop \/ Flush \/ ShutdownEpic
    BY <2>3 DEF TypeOK, Ending
  <2> QED
    BY <2>1, <2>2, <2>3
<1>2. Progress'
  BY DEF Progress, TypeOK, Starting, Ending, Running
<1>3. Reached' /\ Checked'
  BY DEF Reached, Checked, Up, Ending
<1> QED
  BY <1>1, <1>2, <1>3

LEMMA StartsInv ==
  ASSUME Inv,
         Starts("gateway", "metrics", "http") \/ Starts("metrics", "tracer", "metrics")
           \/ Starts("listen", "notify", "grpc")
  PROVE  Inv'
<1> USE DEF Inv, Starts, At
<1>1. TypeOK'
  BY DEF TypeOK, Starting, Servers
<1>2. Progress'
  BY DEF Progress, Ending, Running
<1>3. Reached' /\ Checked'
  BY DEF Reached, Checked, TypeOK, Servers, Up, Ending
<1> QED
  BY <1>1, <1>2, <1>3

LEMMA ServesInv ==
  ASSUME Inv, NEW s \in Servers, Serves(s)
  PROVE  Inv'
<1> USE DEF Inv, Serves
<1>1. TypeOK'
  BY DEF TypeOK
<1>2. Progress' /\ Checked'
  BY DEF Progress, Checked
<1>3. Reached'
  BY DEF Reached, TypeOK, Up, Servers
<1> QED
  BY <1>1, <1>2, <1>3

LEMMA SignalInv == ASSUME Inv, Signal PROVE Inv'
<1>1. CASE main \in {"wait", "stop"} /\ notified' = TRUE
            /\ UNCHANGED <<main, exit, auth, validator, iam, epic, flushed, port, call>>
  BY <1>1 DEF Inv, TypeOK, Progress, Reached, Checked, Up
<1>2. CASE main \notin {"wait", "stop"} /\ Exit("signal")
            /\ UNCHANGED <<main, auth, validator, iam, epic, flushed, notified>>
  BY <1>2, ExitInv
<1> QED
  BY <1>1, <1>2 DEF Signal

-----------------------------------------------------------------------------
(* The steps of a call. *)

\* What Checked says of a call in state k.
CheckedOf(k) ==
  /\ auth /\ k.method \in Admin \cup Public /\ k.pc \in {"handler", "acting", "replied"} =>
       Given(k.creds) /\ Entitled(k.method, k.creds[1])
  /\ k.user # NoSubject => /\ k.method \in Public /\ k.pc \in {"acting", "replied", "cut"}
                           /\ k.user = UserID(k.creds)
                           /\ auth => Entitled(k.method, k.creds[1])

LEMMA MovesInv ==
  ASSUME Inv, NEW c \in Call, NEW state \in CallState, Moves(c, state),
         state.pc \in {"interceptor", "handler", "acting"} => Up,
         CheckedOf(state)
  PROVE  Inv'
<1>1. \A d \in Call : call'[d] = IF d = c THEN state ELSE call[d]
  BY DEF Inv, TypeOK, Moves
<1>2. TypeOK'
  BY DEF Inv, TypeOK, Moves
<1>3. Progress'
  BY DEF Inv, Progress, Moves, Running
<1>4. Reached'
  BY <1>1 DEF Inv, Reached, Moves, Up
<1>5. Checked'
  <2> SUFFICES ASSUME NEW d \in Call PROVE CheckedOf(call[d])'
    BY DEF Checked, CheckedOf
  <2>1. CheckedOf(call[d])
    BY DEF Inv, Checked, CheckedOf
  <2>2. CASE d = c
    BY <1>1, <2>2 DEF CheckedOf, Moves
  <2>3. CASE d # c
    BY <1>1, <2>1, <2>3 DEF CheckedOf, Moves
  <2> QED
    BY <2>2, <2>3
<1> QED
  BY <1>2, <1>3, <1>4, <1>5 DEF Inv

LEMMA ArriveInv == ASSUME Inv, NEW c \in Call, Arrive(c) PROVE Inv'
<1>1. PICK m \in Method, a \in Credentials, p \in {"gateway", "interceptor"} :
        /\ Moves(c, [NewCall EXCEPT !.pc = p, !.method = m, !.creds = a])
        /\ p = "interceptor" => port["grpc"] = "serving"
  BY DEF Arrive
<1> DEFINE state == [NewCall EXCEPT !.pc = p, !.method = m, !.creds = a]
<1>2. state \in CallState /\ state.pc = p /\ state.user = NoSubject
  BY DEF NewCall, CallState
<1>3. p = "interceptor" => Up
  BY <1>1 DEF Inv, Reached
<1> HIDE DEF state
<1>4. CheckedOf(state)
  BY <1>2 DEF CheckedOf
<1>5. Moves(c, state)
  BY <1>1 DEF state
<1> QED
  BY <1>2, <1>3, <1>4, <1>5, MovesInv

\* Before a call is at its handler, nothing is claimed of it.
LEMMA Waiting ==
  ASSUME Inv, NEW c \in Call, call[c].pc \in {"none", "gateway", "interceptor"}
  PROVE  call[c] \in CallState /\ call[c].user = NoSubject
BY DEF Inv, TypeOK, Checked

LEMMA RelayInv == ASSUME Inv, NEW c \in Call, Relay(c) PROVE Inv'
<1>1. PICK p \in {"interceptor", "unavailable"} :
        /\ Moves(c, [call[c] EXCEPT !.pc = p])
        /\ p = "interceptor" => port["grpc"] = "serving"
  BY DEF Relay
<1> DEFINE state == [call[c] EXCEPT !.pc = p]
<1>2. state \in CallState /\ state.pc = p /\ state.user = NoSubject
  BY Waiting DEF Relay, CallState, Ended
<1>3. p = "interceptor" => Up
  BY <1>1 DEF Inv, Reached
<1>4. Moves(c, state)
  BY <1>1
<1> HIDE DEF state
<1>5. CheckedOf(state)
  BY <1>2 DEF CheckedOf
<1> QED
  BY <1>2, <1>3, <1>4, <1>5, MovesInv

\* The checks let only entitled calls pass.
LEMMA ChecksEntitle ==
  ASSUME NEW c \in Call, "" \in Checks(c)
  PROVE  Given(call[c].creds) /\ Entitled(call[c].method, call[c].creds[1])
<1> DEFINE a == call[c].creds
<1>1. Given(a) /\ Validates(a[1], Permission(call[c].method))
  BY DEF Checks
<1>2. a[1].good /\ Permission(call[c].method) \in a[1].grants \cup {NoPermission}
  BY <1>1 DEF Validates
<1> QED
  BY <1>1, <1>2 DEF Entitled, Permission, NoPermission

LEMMA InterceptInv == ASSUME Inv, NEW c \in Call, Intercept(c) PROVE Inv'
<1>1. PICK answer \in (IF Guarded(c) THEN Checks(c) ELSE {""}) :
        Moves(c, [call[c] EXCEPT !.answer = answer,
                                 !.pc = IF answer = "" THEN "handler" ELSE "refused"])
  BY DEF Intercept
<1> DEFINE state == [call[c] EXCEPT !.answer = answer,
                                    !.pc = IF answer = "" THEN "handler" ELSE "refused"]
<1>2. answer \in {"", "Unauthenticated", "PermissionDenied", "Internal"}
  BY DEF Checks
<1>3. call[c] \in CallState /\ call[c].user = NoSubject
  BY Waiting DEF Intercept
<1>4. /\ state \in CallState
      /\ state.pc = IF answer = "" THEN "handler" ELSE "refused"
      /\ state.method = call[c].method /\ state.creds = call[c].creds
      /\ state.user = NoSubject
  BY <1>2, <1>3 DEF CallState, Ended
<1>5. Up
  BY DEF Inv, Reached, Intercept
<1>6. auth /\ answer = "" /\ call[c].method \in Admin \cup Public =>
        Given(call[c].creds) /\ Entitled(call[c].method, call[c].creds[1])
  <2>1. CASE Guarded(c)
    BY <2>1, ChecksEntitle
  <2>2. CASE ~Guarded(c)
    BY <2>2 DEF Guarded, RequireToken
  <2> QED
    BY <2>1, <2>2
<1>7. Moves(c, state)
  BY <1>1
<1> HIDE DEF state
<1>8. CheckedOf(state)
  BY <1>4, <1>6 DEF CheckedOf
<1> QED
  BY <1>4, <1>5, <1>7, <1>8, MovesInv

\* The handler reads what the interceptor has checked.
LEMMA IdentifyInv == ASSUME Inv, NEW c \in Call, Identify(c) PROVE Inv'
<1> DEFINE k == call[c]
           user == UserID(k.creds)
<1>1. /\ k.pc = "handler" /\ k.method \in Public /\ k \in CallState /\ k.user = NoSubject
      /\ auth => Given(k.creds) /\ Entitled(k.method, k.creds[1])
  BY DEF Identify, Inv, TypeOK, Checked
<1>2. user \in Subject \cup {NoSubject}
  <2>1. PICK n \in 0..MaxValues : k.creds \in [1..n -> Token]
    BY <1>1 DEF CallState, Credentials
  <2>2. CASE Given(k.creds)
    <3>1. k.creds[1] \in Token
      BY <2>1, <2>2 DEF Given
    <3>2. k.creds[1].sub \in Subject \cup {NoSubject}
      BY <3>1, ServerAssumption DEF TokenState
    <3> QED
      BY <2>2, <3>2 DEF UserID
  <2>3. CASE ~Given(k.creds)
    BY <2>3 DEF UserID
  <2> QED
    BY <2>2, <2>3
<1>3. Up
  BY <1>1 DEF Inv, Reached
<1> HIDE DEF user
<1>4. CASE user # NoSubject /\ Moves(c, [k EXCEPT !.pc = "acting", !.user = user])
  <2> DEFINE state == [k EXCEPT !.pc = "acting", !.user = user]
  <2>1. /\ state \in CallState /\ state.pc = "acting" /\ state.user = user
        /\ state.method = k.method /\ state.creds = k.creds
    BY <1>1, <1>2 DEF CallState, Ended
  <2> HIDE DEF state
  <2>2. CheckedOf(state)
    BY <1>1, <2>1 DEF CheckedOf, user
  <2>3. Moves(c, state)
    BY <1>4 DEF state
  <2> QED
    BY <1>3, <2>1, <2>2, <2>3, MovesInv
<1>5. CASE Moves(c, [k EXCEPT !.pc = "replied", !.answer = "Unauthenticated"])
  <2> DEFINE state == [k EXCEPT !.pc = "replied", !.answer = "Unauthenticated"]
  <2>1. /\ state \in CallState /\ state.pc = "replied" /\ state.user = NoSubject
        /\ state.method = k.method /\ state.creds = k.creds
    BY <1>1 DEF CallState, Ended
  <2> HIDE DEF state
  <2>2. CheckedOf(state)
    BY <1>1, <2>1 DEF CheckedOf
  <2>3. Moves(c, state)
    BY <1>5 DEF state
  <2> QED
    BY <1>3, <2>1, <2>2, <2>3, MovesInv
<1> QED
  BY <1>4, <1>5 DEF Identify, user

LEMMA ReplyInv == ASSUME Inv, NEW c \in Call, Reply(c) PROVE Inv'
<1> DEFINE k == call[c]
           state == [k EXCEPT !.pc = "replied"]
<1>1. k.pc \in {"handler", "acting"} /\ k \in CallState /\ CheckedOf(k)
  BY DEF Reply, Inv, TypeOK, Checked, CheckedOf
<1>2. /\ state \in CallState /\ state.pc = "replied" /\ state.user = k.user
      /\ state.method = k.method /\ state.creds = k.creds
  BY <1>1 DEF CallState, Ended
<1>3. Moves(c, state)
  BY DEF Reply
<1> HIDE DEF state
<1>4. CheckedOf(state)
  BY <1>1, <1>2 DEF CheckedOf
<1> QED
  BY <1>2, <1>3, <1>4, MovesInv

-----------------------------------------------------------------------------
(* The theorems. *)

LEMMA NextInv == Inv /\ [Next]_vars => Inv'
<1> SUFFICES ASSUME Inv, [Next]_vars PROVE Inv'
  OBVIOUS
<1>1. CASE UNCHANGED vars
  BY <1>1 DEF vars, Inv, TypeOK, Progress, Reached, Checked, Up, Running
<1>2. CASE Startup
  BY <1>2, MainInv, StartsInv DEF Startup, StartGateway, StartMetrics, StartGRPC
<1>3. CASE Teardown \/ Fail
  BY <1>3, MainInv, ExitInv DEF Teardown, Return, Fail
<1>4. CASE \E s \in Servers : ServerFails(s)
  BY <1>4, ExitInv DEF ServerFails
<1> QED
  BY <1>1, <1>2, <1>3, <1>4, SignalInv, ServesInv, ArriveInv, RelayInv, InterceptInv, IdentifyInv,
     ReplyInv
     DEF Next

\* What main has done and how far calls have come agree, for any number of calls.
THEOREM Inductive == Spec => []Inv
<1>1. Inv /\ [Next]_vars => Inv'
  BY NextInv
<1> QED
  BY <1>1, InitInv, PTL DEF Spec

\* The process's and the calls' variables stay within their types.
THEOREM TypeCorrect == Spec => []TypeOK
<1>1. Inv => TypeOK
  BY DEF Inv
<1> QED
  BY <1>1, Inductive, PTL

\* No call is served before main has logged in, to IAM and to Epic, and set the
\* validator.
THEOREM Ready == Spec => []ReadyWhenServed
<1>1. Inv => ReadyWhenServed
  BY DEF Inv, Progress, Reached, ReadyWhenServed, Up, Ending
<1> QED
  BY <1>1, Inductive, PTL

\* With auth enabled, no handler is entered without the token and the permission
\* that its method declares.
THEOREM Authorised == Spec => []OnlyAuthorised
<1>1. Inv => OnlyAuthorised
  BY DEF Inv, Checked, OnlyAuthorised, Given
<1> QED
  BY <1>1, Inductive, PTL

\* With auth enabled, a public handler acts for the holder of a good token, for
\* any number of values in the metadata of a call.
THEOREM OneIdentity == Spec => []ActsForTokenHolder
<1>1. Inv => ActsForTokenHolder
  <2> SUFFICES ASSUME Inv, NEW c \in Call, auth, call[c].user # NoSubject
               PROVE  \E i \in DOMAIN call[c].creds :
                        call[c].creds[i].good /\ call[c].creds[i].sub = call[c].user
    BY DEF ActsForTokenHolder
  <2>1. call[c].user = UserID(call[c].creds) /\ Entitled(call[c].method, call[c].creds[1])
    BY DEF Inv, Checked
  <2>2. 1 \in DOMAIN call[c].creds /\ call[c].user = call[c].creds[1].sub
    BY <2>1 DEF UserID, Given
  <2> QED
    BY <2>1, <2>2 DEF Entitled
<1> QED
  BY <1>1, Inductive, PTL

\* The process ends well only after a signal, flushed and with Epic's token no
\* longer refreshed.
THEOREM Orderly == Spec => []OrderlyExit
<1>1. Inv => OrderlyExit
  BY DEF Inv, Progress, OrderlyExit, Ending
<1> QED
  BY <1>1, Inductive, PTL
=============================================================================
