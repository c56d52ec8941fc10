----------------------------- MODULE EpicToken -----------------------------
(***************************************************************************)
(* The service's own Epic OAuth token: NewEpicGamesClient, authenticate,   *)
(* StartTokenRefresh, GetAccessToken and Shutdown of                       *)
(* pkg/service/epicClient.go, with the requests that read the token.       *)
(*                                                                         *)
(* Nothing in the program looks at expiresAt: the token stays good only    *)
(* because the ticker fires soon enough.  So time is explicit, in ticks of *)
(* an arbitrary unit, and kept relative: lives and countdowns, no clock.   *)
(* The goroutine that the runtime makes ready is assumed to run within a   *)
(* unit: time does not advance past a select that has a ready case.        *)
(***************************************************************************)
EXTENDS Integers

CONSTANTS
  Period,       \* of the ticker: 50 minutes
  TTL,          \* life of a token when Epic issues it: about 60 minutes
  Timeout,      \* of the HTTP client: 30 seconds
  MaxFailures,  \* bound: refreshes in a row that bring no token
  EmptyAnswers, \* Epic may answer a 200 that holds no access_token
  Request       \* the requests that use the token

ASSUME EpicTokenAssumption ==
  /\ Period \in Nat /\ TTL \in Nat /\ Timeout \in Nat \ {0} /\ MaxFailures \in Nat
  /\ EmptyAnswers \in BOOLEAN
  /\ Timeout < Period
  /\ Period + 3 * Timeout < TTL

VARIABLES
  life,     \* how long Epic will still accept accessToken, 0 if it does not
  issued,   \* the same for a token issued to the authenticate in progress
  loop,     \* where the refresh goroutine is
  spent,    \* time spent in the authenticate in progress
  toTick,   \* time to the ticker's next tick
  tick,     \* a tick is in the ticker's channel, which holds one
  stopping, \* Shutdown has cancelled the context
  req,      \* req[r]: the request r and the token it was sent with
  \* History, read by properties and bounds only:
  fails,    \* refreshes that brought no token since the last that did
  down,     \* for how long accessToken has been unusable
  late      \* authentications begun after Shutdown

vars == <<life, issued, loop, spent, toTick, tick, stopping, req, fails, down, late>>

\* "new": NewEpicGamesClient is authenticating; "gone": it returned an error.
Running == {"select", "auth"}
Loops == Running \cup {"new", "gone", "stopped"}

Unsent == [pc |-> "unsent", life |-> 0, spent |-> 0, trusted |-> FALSE]

\* trusted: when the request was sent, the last refresh had brought a token.
RequestState ==
  [pc : {"unsent", "sent", "accepted", "rejected"}, life : 0..TTL, spent : 0..Timeout,
   trusted : BOOLEAN]

TypeOK ==
  /\ life \in 0..TTL
  /\ issued \in 0..TTL
  /\ loop \in Loops
  /\ spent \in 0..Timeout
  /\ toTick \in 1..Period
  /\ tick \in BOOLEAN
  /\ stopping \in BOOLEAN
  /\ req \in [Request -> RequestState]
  /\ fails \in 0..MaxFailures
  /\ down \in Nat
  /\ late \in Nat

\* NewEpicGamesClient has sent its first authentication.
Init ==
  /\ life = 0 /\ issued = 0 /\ loop = "new" /\ spent = 0
  /\ toTick = Period /\ tick = FALSE /\ stopping = FALSE
  /\ req = [r \in Request |-> Unsent]
  /\ fails = 0 /\ down = 0 /\ late = 0

-----------------------------------------------------------------------------
(* authenticate *)

Authenticating == loop \in {"new", "auth"}

\* Epic issues a token for the authentication in progress.
Issue ==
  /\ Authenticating
  /\ issued = 0
  /\ issued' = TTL
  /\ UNCHANGED <<life, loop, spent, toTick, tick, stopping, req, fails, down, late>>

\* Mutant: the goroutine returns when a refresh fails.
OverGivingUp(ok) ==
  /\ Authenticating
  /\ issued' = 0 /\ spent' = 0
  /\ loop' = IF ok THEN "select" ELSE "gone"
  /\ toTick' = IF loop = "new" THEN Period ELSE toTick
  /\ UNCHANGED <<tick, stopping, req, late>>

\* Mutant: a failed refresh resets the ticker.
OverResetting(ok) ==
  /\ Authenticating
  /\ issued' = 0 /\ spent' = 0
  /\ loop' = IF loop = "new" /\ ~ok THEN "gone" ELSE "select"
  /\ toTick' = IF loop = "new" \/ ~ok THEN Period ELSE toTick
  /\ UNCHANGED <<tick, stopping, req, late>>

\* authenticate is over.  The constructor then starts the ticker, or gives up.
Over(ok) ==
  /\ Authenticating
  /\ issued' = 0 /\ spent' = 0
  /\ loop' = IF loop = "new" /\ ~ok THEN "gone" ELSE "select"
  /\ toTick' = IF loop = "new" THEN Period ELSE toTick
  /\ UNCHANGED <<tick, stopping, req, late>>

\* Mutant: only the constructor keeps the token.
StoreOnce ==
  /\ issued > 0
  /\ Over(TRUE)
  /\ life' = (IF loop = "new" THEN issued ELSE life) /\ fails' = 0 /\ down' = 0

\* The answer holds a token: it replaces the old one under the mutex.
Store ==
  /\ issued > 0
  /\ Over(TRUE)
  /\ life' = issued /\ fails' = 0 /\ down' = 0

\* A 200 whose body decodes but holds no access_token is stored all the same.
StoreEmpty ==
  /\ EmptyAnswers
  /\ fails < MaxFailures
  /\ Over(TRUE)
  /\ life' = 0 /\ fails' = fails + 1 /\ UNCHANGED down

\* Another HTTP status, no answer, or a body that does not decode: the old
\* token stays, and the goroutine goes back to waiting for the next tick.
Fail ==
  /\ fails < MaxFailures
  /\ Over(FALSE)
  /\ fails' = fails + 1 /\ UNCHANGED <<life, down>>

-----------------------------------------------------------------------------
(* The goroutine of StartTokenRefresh, and Shutdown *)

\* Mutant: the tick is seen but not received.
TakeTickPeeking ==
  /\ loop = "select" /\ tick
  /\ loop' = "auth" /\ spent' = 0
  /\ late' = IF stopping THEN late + 1 ELSE late
  /\ UNCHANGED <<life, issued, toTick, tick, stopping, req, fails, down>>

\* select takes either ready case.
TakeTick ==
  /\ loop = "select" /\ tick
  /\ loop' = "auth" /\ tick' = FALSE /\ spent' = 0
  /\ late' = IF stopping THEN late + 1 ELSE late
  /\ UNCHANGED <<life, issued, toTick, stopping, req, fails, down>>

\* Mutant: the loop goes on after the context is done.
TakeDoneContinuing == loop = "select" /\ stopping /\ UNCHANGED vars

TakeDone ==
  /\ loop = "select" /\ stopping
  /\ loop' = "stopped"
  /\ UNCHANGED <<life, issued, spent, toTick, tick, stopping, req, fails, down, late>>

Shutdown ==
  /\ loop \in Running /\ ~stopping
  /\ stopping' = TRUE
  /\ UNCHANGED <<life, issued, loop, spent, toTick, tick, req, fails, down, late>>

-----------------------------------------------------------------------------
(* The requests: each reads the token once, when it is sent. *)

\* Mutant: the request carries a copy of the token made up to a period ago.
SendCached(r) ==
  /\ loop \in Running
  /\ req[r].pc = "unsent"
  /\ \E age \in 0..Period :
       req' = [req EXCEPT ![r] =
         [pc |-> "sent", life |-> IF life > age THEN life - age ELSE 0, spent |-> 0,
          trusted |-> fails = 0]]
  /\ UNCHANGED <<life, issued, loop, spent, toTick, tick, stopping, fails, down, late>>

Send(r) ==
  /\ loop \in Running
  /\ req[r].pc = "unsent"
  /\ req' = [req EXCEPT ![r] =
       [pc |-> "sent", life |-> life, spent |-> 0, trusted |-> fails = 0]]
  /\ UNCHANGED <<life, issued, loop, spent, toTick, tick, stopping, fails, down, late>>

\* Epic decides about the token when the request reaches it.
Arrive(r) ==
  /\ req[r].pc = "sent"
  /\ req' = [req EXCEPT ![r].pc = IF req[r].life > 0 THEN "accepted" ELSE "rejected"]
  /\ UNCHANGED <<life, issued, loop, spent, toTick, tick, stopping, fails, down, late>>

\* The goroutine serves another call.
Forget(r) ==
  /\ req[r].pc \in {"accepted", "rejected"}
  /\ req' = [req EXCEPT ![r] = Unsent]
  /\ UNCHANGED <<life, issued, loop, spent, toTick, tick, stopping, fails, down, late>>

-----------------------------------------------------------------------------
(* Time *)

Less(n) == IF n > 0 THEN n - 1 ELSE 0

\* Mutant: the HTTP client has no time-out.
CanPassUntimed ==
  /\ loop \in Running \cup {"new"}
  /\ loop = "select" => ~tick /\ ~stopping

\* Nothing that is due would be overtaken.
CanPass ==
  /\ loop \in Running \cup {"new"}
  /\ Authenticating => spent < Timeout
  /\ loop = "select" => ~tick /\ ~stopping
  /\ \A r \in Request : req[r].pc = "sent" => req[r].spent < Timeout

Pass ==
  /\ CanPass
  /\ life' = Less(life) /\ issued' = Less(issued)
  /\ spent' = IF Authenticating THEN spent + 1 ELSE spent
  /\ toTick' = CASE loop = "new" -> Period
                 [] loop # "new" /\ toTick = 1 -> Period
                 [] OTHER -> toTick - 1
  /\ tick' = (tick \/ (loop # "new" /\ toTick = 1))
  /\ req' = [r \in Request |->
       IF req[r].pc = "sent" THEN [req[r] EXCEPT !.life = Less(@), !.spent = @ + 1] ELSE req[r]]
  /\ down' = IF loop # "new" /\ life' = 0 THEN down + 1 ELSE down
  /\ UNCHANGED <<loop, stopping, fails, late>>

Next ==
  \/ Issue \/ Store \/ StoreEmpty \/ Fail
  \/ TakeTick \/ TakeDone \/ Shutdown
  \/ \E r \in Request : Send(r) \/ Arrive(r) \/ Forget(r)
  \/ Pass

\* Time passes, the goroutine runs, Epic goes on issuing tokens, and an
\* authentication that is attempted again and again succeeds in the end.
Fairness ==
  /\ WF_vars(Pass) /\ WF_vars(TakeTick \/ TakeDone)
  /\ WF_vars(Issue) /\ WF_vars(Store \/ StoreEmpty \/ Fail) /\ SF_vars(Store)
  /\ \A r \in Request : WF_vars(Arrive(r))

Spec == Init /\ [][Next]_vars /\ Fairness

-----------------------------------------------------------------------------
(* Properties. *)

\* While the refresh goroutine runs and its last refresh brought a token,
\* accessToken is one that Epic accepts, although nobody ever looks at its
\* expiry: the period of the ticker and the time-out keep ahead of it.
ValidUnlessRefreshFailed ==
  loop \in Running /\ fails = 0 => life > 0

\* A request sent then is still accepted when it reaches Epic, although the
\* token is read before the request is sent and may be replaced, or run out,
\* on its way.
TrustedRequestsAccepted ==
  \A r \in Request : req[r].trusted => req[r].pc # "rejected"

\* However often refreshes fail in a row (at most MaxFailures times), the
\* token is unusable no longer than that many periods and one time-out.
OutageBounded == down <= MaxFailures * Period + Timeout

\* select may prefer a waiting tick to the cancelled context, but once only:
\* Shutdown is followed by at most one new authentication.
AtMostOneLateRefresh == late <= 1

\* Shutdown ends the goroutine.
ShutdownStops == stopping ~> loop = "stopped"

\* An outage ends: the goroutine never gives up before Shutdown.
OutageEnds == loop \in Running /\ life = 0 ~> life > 0 \/ stopping

\* docs/architecture.md: the service "maintains a valid Epic OAuth token at
\* all times without manual intervention or service interruptions".
TokenAlwaysValid == loop \in Running => life > 0

-----------------------------------------------------------------------------
(* The inductive invariant behind the properties.                          *)

\* Time since the ticker's last tick, or since it was started.
Elapsed == Period - toTick

\* A tick is taken at once and the authentication is over before the next.
Punctual ==
  /\ loop = "new" => toTick = Period /\ ~tick /\ ~stopping
  /\ loop = "select" => spent = 0 /\ issued = 0 /\ (tick => toTick = Period)
  /\ loop = "auth" => ~tick /\ spent = Elapsed

\* The token in use has been issued no longer than a period and two time-outs
\* ago, the one being fetched since the authentication began.
Fresh ==
  /\ issued > 0 => issued + spent >= TTL
  /\ loop = "select" /\ fails = 0 =>
       life + Timeout + (IF tick THEN Period ELSE Elapsed) >= TTL
  /\ loop = "auth" /\ fails = 0 => life + Timeout + Period + spent >= TTL

\* The same of the token that a request on its way carries.
CarriesFresh(r) ==
  req[r].trusted =>
    /\ req[r].pc \in {"sent", "accepted"}
    /\ req[r].pc = "sent" => req[r].life + req[r].spent + 2 * Timeout + Period >= TTL

\* The tick that outlived Shutdown has been used up.
UsedUp ==
  /\ late > 0 => stopping /\ ~tick
  /\ late <= 1

\* An outage begins no earlier than the first refresh that fails, and each
\* failure adds a period to it.
Outage ==
  /\ loop = "new" => fails = 0
  /\ fails = 0 => down = 0
  /\ fails > 0 /\ loop = "select" =>
       down + Period <= fails * Period + (IF tick THEN Period ELSE Elapsed)
  /\ fails > 0 /\ loop = "auth" => down <= fails * Period + spent
  /\ OutageBounded

Inv == TypeOK /\ Punctual /\ Fresh /\ (\A r \in Request : CarriesFresh(r)) /\ UsedUp
=============================================================================
