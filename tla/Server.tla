------------------------------- MODULE Server -------------------------------
(***************************************************************************)
(* The process around the handlers: main.go from the logins to the exit,   *)
(* and the way of a call through the HTTP gateway and the authorization    *)
(* interceptors of pkg/common/authServerInterceptor.go to its handler.     *)
(*                                                                         *)
(* What a handler does is the subject of the other modules: here it is     *)
(* entered, makes out the user it acts for, and ends.  os.Exit and a       *)
(* signal that nobody has asked for end the process at once, whatever its  *)
(* goroutines are doing.                                                   *)
(***************************************************************************)
EXTENDS Naturals

CONSTANTS
  Call,
  Subject,   \* user ids in the "sub" claims of tokens
  NoSubject, \* an empty claim, or a text that is no JWT with such a claim
  Token,     \* the texts that calls present as tokens
  MaxValues  \* bound: values of the authorization metadata of a call

\* Methods by what pkg/proto/service.proto declares for them: an action of the
\* permission CUSTOM:ADMIN:NAMESPACE:{namespace}:VOICE, Bearer alone, or nothing.
\* Reflection and the health service's Watch are the streaming methods served.
Admin == {"GenerateAdminSessionToken", "RevokeToken"}
Public == {"GeneratePartyToken", "GenerateSessionToken"}
Streaming == {"ServerReflectionInfo", "Watch"}
Method == Admin \cup Public \cup Streaming \cup {"HealthCheck"}

Action == {"CREATE", "DELETE"}
NoPermission == "none"

\* Of a token, whether it is good, which actions of that permission it grants,
\* and the user it was issued to: anybody can write a text that names a user.
TokenState == [good : BOOLEAN, grants : SUBSET Action, sub : Subject \cup {NoSubject}]

ASSUME ServerAssumption ==
  /\ NoSubject \notin Subject
  /\ Token \subseteq TokenState
  /\ MaxValues \in Nat

\* The values of the authorization metadata of a call.  The gateway makes one
\* of each Authorization and Grpc-Metadata-Authorization header, in any order.
Credentials == UNION {[1..n -> Token] : n \in 0..MaxValues}

Given(a) == 1 \in DOMAIN a

VARIABLES
  main,      \* the next thing that main does
  exit,      \* "running", or how the process ended
  auth,      \* PLUGIN_GRPC_SERVER_AUTH_ENABLED
  validator, \* common.Validator has been set
  iam,       \* LoginClient has succeeded
  epic,      \* the Epic client: "none", "refreshing" its token, "stopped"
  flushed,   \* the tracer provider has been shut down
  port,      \* port[s]: the server s is "closed", "starting" or "serving"
  notified,  \* the context of NotifyContext is done
  call       \* call[c]: the call c

vars == <<main, exit, auth, validator, iam, epic, flushed, port, notified, call>>

Servers == {"http", "metrics", "grpc"}
Starting == {"env", "auth", "login", "epic", "gateway", "metrics", "tracer", "listen", "notify"}
Ending == {"stop", "flush", "shutdown", "cancel"}
Ended == {"replied", "refused", "unavailable", "cut"}

NewCall == [pc |-> "none", method |-> "HealthCheck", answer |-> "",
            creds |-> <<>>, user |-> NoSubject]

\* user is the one that a public handler acts for.
CallState ==
  [pc : {"none", "gateway", "interceptor", "handler", "acting"} \cup Ended, method : Method,
   answer : {"", "Unauthenticated", "PermissionDenied", "Internal"}, creds : Credentials,
   user : Subject \cup {NoSubject}]

TypeOK ==
  /\ main \in Starting \cup {"wait"} \cup Ending
  /\ exit \in {"running", "ok", "error", "signal"}
  /\ auth \in BOOLEAN /\ validator \in BOOLEAN /\ iam \in BOOLEAN
  /\ flushed \in BOOLEAN /\ notified \in BOOLEAN
  /\ epic \in {"none", "refreshing", "stopped"}
  /\ port \in [Servers -> {"closed", "starting", "serving"}]
  /\ call \in [Call -> CallState]

Init ==
  /\ main = "env" /\ exit = "running"
  /\ auth \in BOOLEAN
  /\ validator = FALSE /\ iam = FALSE /\ epic = "none"
  /\ flushed = FALSE /\ notified = FALSE
  /\ port = [s \in Servers |-> "closed"]
  /\ call = [c \in Call |-> NewCall]

Running == exit = "running"

\* The process is gone, with its sockets and the calls under way.
Exit(how) ==
  /\ exit' = how
  /\ port' = [s \in Servers |-> "closed"]
  /\ call' = [c \in Call |->
       IF call[c].pc \in {"gateway", "interceptor", "handler", "acting"}
         THEN [call[c] EXCEPT !.pc = "cut"] ELSE call[c]]

-----------------------------------------------------------------------------
(* main, up to the signal *)

\* A step of main that continues with next.
At(here, next) == Running /\ main = here /\ main' = next

\* The steps of main that call os.Exit(1) when they fail: no deferred function
\* runs then.
MayFail == {"env", "login", "epic", "gateway", "tracer", "listen", "flush"}

Fail ==
  /\ Running /\ main \in MayFail /\ Exit("error")
  /\ UNCHANGED <<main, auth, validator, iam, epic, flushed, notified>>

\* GetBasePath, before main: it insists on a BASE_PATH with a leading slash.
ReadEnvironment ==
  /\ At("env", "auth")
  /\ UNCHANGED <<exit, auth, validator, iam, epic, flushed, port, notified, call>>

\* The validator is set whether or not its Initialize fails, which is logged.
SetUpAuth ==
  /\ At("auth", "login")
  /\ validator' = auth
  /\ UNCHANGED <<exit, auth, iam, epic, flushed, port, notified, call>>

\* Mutant: a failed login is logged and start-up goes on.
LoginLogged ==
  /\ At("login", "epic")
  /\ iam' \in BOOLEAN
  /\ UNCHANGED <<exit, auth, validator, epic, flushed, port, notified, call>>

Login ==
  /\ At("login", "epic")
  /\ iam' = TRUE
  /\ UNCHANGED <<exit, auth, validator, epic, flushed, port, notified, call>>

\* NewEpicGamesClient: see EpicToken.
StartEpic ==
  /\ At("epic", "gateway")
  /\ epic' = "refreshing"
  /\ UNCHANGED <<exit, auth, validator, iam, flushed, port, notified, call>>

\* go func() around a server that is to listen by itself
Starts(here, next, server) ==
  /\ At(here, next)
  /\ port' = [port EXCEPT ![server] = "starting"]
  /\ UNCHANGED <<exit, auth, validator, iam, epic, flushed, notified, call>>

StartGateway == Starts("gateway", "metrics", "http")
StartMetrics == Starts("metrics", "tracer", "metrics")

StartTracer ==
  /\ At("tracer", "listen")
  /\ UNCHANGED <<exit, auth, validator, iam, epic, flushed, port, notified, call>>

\* net.Listen, then Serve in a goroutine
StartGRPC == Starts("listen", "notify", "grpc")

Notify ==
  /\ At("notify", "wait")
  /\ UNCHANGED <<exit, auth, validator, iam, epic, flushed, port, notified, call>>

-----------------------------------------------------------------------------
(* The servers' goroutines *)

Serves(s) ==
  /\ Running /\ port[s] = "starting"
  /\ port' = [port EXCEPT ![s] = "serving"]
  /\ UNCHANGED <<main, exit, auth, validator, iam, epic, flushed, notified, call>>

\* A server that cannot listen, or stops serving, takes the process with it.
ServerFails(s) ==
  /\ Running /\ port[s] # "closed"
  /\ Exit("error")
  /\ UNCHANGED <<main, auth, validator, iam, epic, flushed, notified>>

-----------------------------------------------------------------------------
(* Signals, and main after them *)

\* SIGTERM or interrupt: it cancels the context of NotifyContext while that is
\* registered, and ends the process before that and after stop().
Signal ==
  /\ Running
  /\ \/ /\ main \in {"wait", "stop"} /\ notified' = TRUE
        /\ UNCHANGED <<main, exit, auth, validator, iam, epic, flushed, port, call>>
     \/ /\ main \notin {"wait", "stop"} /\ Exit("signal")
        /\ UNCHANGED <<main, auth, validator, iam, epic, flushed, notified>>

Awaited ==
  /\ notified
  /\ At("wait", "stop")
  /\ UNCHANGED <<exit, auth, validator, iam, epic, flushed, port, notified, call>>

\* The deferred functions, last first: stop, the tracer provider's Shutdown,
\* the Epic client's Shutdown, cancel.
Stop ==
  /\ At("stop", "flush")
  /\ UNCHANGED <<exit, auth, validator, iam, epic, flushed, port, notified, call>>

\* Mutant: a failure to flush is only logged.
FlushLogged ==
  /\ At("flush", "shutdown")
  /\ flushed' \in BOOLEAN
  /\ UNCHANGED <<exit, auth, validator, iam, epic, port, notified, call>>

Flush ==
  /\ At("flush", "shutdown")
  /\ flushed' = TRUE
  /\ UNCHANGED <<exit, auth, validator, iam, epic, port, notified, call>>

ShutdownEpic ==
  /\ At("shutdown", "cancel")
  /\ epic' = "stopped"
  /\ UNCHANGED <<exit, auth, validator, iam, flushed, port, notified, call>>

\* Mutant: main waits for the calls under way (GracefulStop).
ReturnDrained ==
  /\ Running /\ main = "cancel"
  /\ \A c \in Call : call[c].pc \notin {"interceptor", "handler", "acting"}
  /\ Exit("ok")
  /\ UNCHANGED <<main, auth, validator, iam, epic, flushed, notified>>

\* cancel, which closes the gateway's connection, and the end of main.
Return ==
  /\ Running /\ main = "cancel"
  /\ Exit("ok")
  /\ UNCHANGED <<main, auth, validator, iam, epic, flushed, notified>>

-----------------------------------------------------------------------------
(* The way of a call *)

Moves(c, state) ==
  /\ Running
  /\ call' = [call EXCEPT ![c] = state]
  /\ UNCHANGED <<main, exit, auth, validator, iam, epic, flushed, port, notified>>

\* A call comes in over HTTP, which has no streaming methods, or over gRPC.
Arrive(c) ==
  /\ call[c].pc = "none"
  /\ \E m \in Method, a \in Credentials :
       \/ /\ port["http"] = "serving" /\ m \notin Streaming
          /\ Moves(c, [NewCall EXCEPT !.pc = "gateway", !.method = m, !.creds = a])
       \/ /\ port["grpc"] = "serving"
          /\ Moves(c, [NewCall EXCEPT !.pc = "interceptor", !.method = m, !.creds = a])

\* The gateway's connection is made when it is first used, and made again, with
\* a backoff, when it failed: a call may find it down after the server is up.
Relay(c) ==
  /\ call[c].pc = "gateway"
  /\ \/ /\ port["grpc"] = "serving"
        /\ Moves(c, [call[c] EXCEPT !.pc = "interceptor"])
     \/ Moves(c, [call[c] EXCEPT !.pc = "unavailable"])

\* extractAuthRequirement
RequireToken(m) == m \in Admin \cup Public
Permission(m) ==
  CASE m = "GenerateAdminSessionToken" -> "CREATE"
    [] m = "RevokeToken" -> "DELETE"
    [] OTHER -> NoPermission

\* The SDK's validator may reject any token, for want of keys for one thing.
Validates(a, p) == a.good /\ p \in a.grants \cup {NoPermission}

\* Mutant: the permission is not handed to the validator.
ChecksTokenOnly(c) ==
  LET a == call[c].creds IN
  CASE ~validator -> {"Internal"}
    [] validator /\ ~Given(a) -> {"Unauthenticated"}
    [] validator /\ Given(a) ->
         {"PermissionDenied"} \cup {x \in {""} : Validates(a[1], NoPermission)}

\* Mutant: the validator's error is returned as it is, which gRPC calls Unknown.
ChecksBare(c) ==
  LET a == call[c].creds IN
  CASE ~validator -> {"Internal"}
    [] validator /\ ~Given(a) -> {"Unauthenticated"}
    [] validator /\ Given(a) ->
         {"Unknown"} \cup {x \in {""} : Validates(a[1], Permission(call[c].method))}

\* checkAuthorizationMetadata looks at the first value: the answers it may give,
\* "" for no error.
Checks(c) ==
  LET a == call[c].creds IN
  CASE ~validator -> {"Internal"}
    [] validator /\ ~Given(a) -> {"Unauthenticated"}
    [] validator /\ Given(a) ->
         {"PermissionDenied"} \cup {x \in {""} : Validates(a[1], Permission(call[c].method))}

\* The unary and the stream interceptor, installed when auth is enabled.
Guarded(c) ==
  auth /\ (RequireToken(call[c].method) \/ Permission(call[c].method) # NoPermission)

Intercept(c) ==
  /\ call[c].pc = "interceptor"
  /\ \E answer \in (IF Guarded(c) THEN Checks(c) ELSE {""}) :
       Moves(c, [call[c] EXCEPT !.answer = answer,
                                !.pc = IF answer = "" THEN "handler" ELSE "refused"])

\* Mutant: the last value is taken for the token.
UserIDLast(a) ==
  IF Given(a) THEN a[CHOOSE n \in DOMAIN a : \A m \in DOMAIN a : m <= n].sub ELSE NoSubject

\* GetUserIDFromContext reads the first value, and does not verify it.
UserID(a) == IF Given(a) THEN a[1].sub ELSE NoSubject

\* A public handler makes out its user.
Identify(c) ==
  LET user == UserID(call[c].creds)
  IN /\ call[c].pc = "handler" /\ call[c].method \in Public
     /\ \/ /\ user # NoSubject
           /\ Moves(c, [call[c] EXCEPT !.pc = "acting", !.user = user])
        \/ /\ user = NoSubject
           /\ Moves(c, [call[c] EXCEPT !.pc = "replied", !.answer = "Unauthenticated"])

\* A handler ends, a public one before it has looked for its user if the request
\* lacks an id; a stream ends when its client closes it.
Reply(c) ==
  /\ call[c].pc \in {"handler", "acting"}
  /\ Moves(c, [call[c] EXCEPT !.pc = "replied"])

-----------------------------------------------------------------------------
Startup ==
  ReadEnvironment \/ SetUpAuth \/ Login \/ StartEpic \/ StartGateway \/ StartMetrics \/ StartTracer
    \/ StartGRPC \/ Notify

Teardown == Awaited \/ Stop \/ Flush \/ ShutdownEpic \/ Return

Next ==
  \/ Startup \/ Teardown \/ Fail \/ Signal
  \/ \E s \in Servers : Serves(s) \/ ServerFails(s)
  \/ \E c \in Call : Arrive(c) \/ Relay(c) \/ Intercept(c) \/ Identify(c) \/ Reply(c)

\* main and the servers' goroutines run; a unary handler ends (its requests
\* have time-outs).  Nobody has to close a stream.
Fairness ==
  /\ WF_vars(Startup \/ Teardown \/ Fail)
  /\ \A s \in Servers : WF_vars(Serves(s))
  /\ \A c \in Call :
       /\ WF_vars(Relay(c)) /\ WF_vars(Intercept(c)) /\ WF_vars(Identify(c))
       /\ WF_vars(Reply(c) /\ call[c].method \notin Streaming)

Spec == Init /\ [][Next]_vars /\ Fairness

-----------------------------------------------------------------------------
(* Properties. *)

\* A call that is served finds the service complete: main has logged in to IAM
\* and to Epic, and set the validator, although start-up, the servers'
\* goroutines and the calls run concurrently.
ReadyWhenServed ==
  \A c \in Call : call[c].pc \in {"interceptor", "handler", "acting"} =>
    iam /\ epic # "none" /\ (auth => validator)

\* What the documents ask of the token t of a call.
Entitled(m, t) ==
  /\ t.good
  /\ m = "GenerateAdminSessionToken" => "CREATE" \in t.grants
  /\ m = "RevokeToken" => "DELETE" \in t.grants

\* With auth enabled, the handlers are entered only with a good token, and the
\* admin ones only with the permission that the proto file declares for them,
\* over HTTP or gRPC (docs/architecture.md, How Authorization Works).
OnlyAuthorised ==
  \A c \in Call :
    auth /\ call[c].method \in Admin \cup Public /\ call[c].pc \in {"handler", "acting", "replied"} =>
      \E i \in DOMAIN call[c].creds : Entitled(call[c].method, call[c].creds[i])

\* "For public endpoints, the service extracts the user ID from the validated
\* token's sub claim" (docs/architecture.md): with auth enabled, the user a
\* public handler acts for is the one to whom a good token of the call was
\* issued, although the interceptor and the handler each read the metadata for
\* themselves, and the handler verifies nothing.
ActsForTokenHolder ==
  \A c \in Call : auth /\ call[c].user # NoSubject =>
    \E i \in DOMAIN call[c].creds :
      call[c].creds[i].good /\ call[c].creds[i].sub = call[c].user

\* The process ends well only after a signal, with its traces flushed and the
\* refresh of Epic's token stopped, whatever else fails or arrives meanwhile.
OrderlyExit == exit = "ok" => notified /\ flushed /\ epic = "stopped"

\* A signal that is awaited ends the process, even with streams that nobody
\* closes: main does not wait for the calls under way.
SignalEndsProcess == notified ~> ~Running

-----------------------------------------------------------------------------
(* The inductive invariant behind the properties.                          *)

\* main has started the gRPC server.
Up == main \in {"notify", "wait"} \cup Ending

\* What main has done by the time it is where it is.
Progress ==
  /\ main \notin {"env", "auth"} => validator = auth
  /\ main \notin {"env", "auth", "login"} => iam
  /\ main \notin {"env", "auth", "login", "epic"} => epic # "none"
  /\ main \in Ending => notified
  /\ main \in {"shutdown", "cancel"} => flushed
  /\ main = "cancel" => epic = "stopped"
  /\ exit = "ok" => main = "cancel"

\* The server is not up before main has started it, and no call is served
\* before the server is up.
Reached ==
  /\ port["grpc"] # "closed" => Up
  /\ \A c \in Call : call[c].pc \in {"interceptor", "handler", "acting"} => Up

\* The token that has been checked is the one that names the user.
Checked ==
  \A c \in Call :
    LET k == call[c] IN
    /\ auth /\ k.method \in Admin \cup Public /\ k.pc \in {"handler", "acting", "replied"} =>
         Given(k.creds) /\ Entitled(k.method, k.creds[1])
    /\ k.user # NoSubject => /\ k.method \in Public /\ k.pc \in {"acting", "replied", "cut"}
                             /\ k.user = UserID(k.creds)
                             /\ auth => Entitled(k.method, k.creds[1])

Inv == TypeOK /\ Progress /\ Reached /\ Checked
=============================================================================
