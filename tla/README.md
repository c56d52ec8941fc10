# Verification of the EOS voice token service

TLA+ models, model-checking runs and machine-checked proofs for the Go service
in `src/`: a gRPC service (with an HTTP gateway in front) that hands out Epic
Online Services voice tokens to the members of AccelByte (AGS) parties and game
sessions. Paths below are relative to `src/`.

The service keeps almost no state of its own. What can go wrong in it happens
*between* the upstream requests of one call: memberships, teams and account
links change, requests fail, are answered too late, or take effect without an
answer. The models therefore make every upstream request an action of its own
and let the data behind it change between any two of them.

## 1. Inventory

| Part | Where | State | Operations | Correct when |
|---|---|---|---|---|
| Public tokens | `pkg/service/eosService.go` `GeneratePartyToken`, `GenerateSessionToken` | local variables of one call | checks, membership, PUID, team, one or two room requests, reply | only members are admitted, to the rooms that list them, under one PUID of their own; the reply tells the truth |
| Validator | `pkg/service/sessionValidator.go` | none | party and session membership, team look-up, PUID look-up | each fetch is a fresh snapshot; an error says which precondition failed |
| Admin tokens | `eosService.go` `GenerateAdminSessionToken`, `createRoomTokens`, `sendVoiceTokenNotification` | local variables of one call, with a snapshot of the session | filter by status, PUID look-up, session room, team rooms, notifications | only eligible users are admitted; a success is complete; users are notified once |
| Revocation | `eosService.go` `RevokeToken` | local variables of one call | PUID look-up, loop of removals, reply | a success means that the users were out of the room, NotFound that they already were |
| Epic client | `pkg/service/epicClient.go` | `accessToken` (RWMutex), ticker, cancellable context | `authenticate`, `StartTokenRefresh`, `GetAccessToken`, `Shutdown`, three API requests | the token is one that Epic accepts whenever a request is made |
| Error mapping | `pkg/service/errors.go` | none | `ToGRPCStatus`, `WrapError`, `ParseHTTPError` | the gRPC code tells a client whether to retry |
| Auth interceptors | `pkg/common/authServerInterceptor.go` | validator (SDK), set once by `main` | permission from the method's annotation, token check | no call reaches a handler without the permission its annotation asks for |
| Start-up, shutdown | `main.go` | the process: `main`, three servers' goroutines, deferred functions | logins, servers, signal | nothing is served before the service is complete; an orderly end flushes traces and stops the refresh; a signal always ends it |
| Helpers | `pkg/common/utils.go`, `gateway.go`, `tracerProvider.go`, `logging.go` | none | user id and client IP from the context, gateway, tracing, logging | - |
| Left-overs, generated | `pkg/service/myService.go`, `pkg/service/mocks/`, `pkg/pb/` | - | - | - |
| The whole | `main.go`, `eosService.go` | calls under way, admissions at Epic | calls of all kinds side by side, end and restart of the process | rooms change only by right of a request; a revocation's OK and a token are worth something to who gets them |
| AGS session service, Epic | not in the repository | parties, sessions, members, teams; links, room admissions | see `VoiceBackends` | - |

How they interact: a gRPC call passes the interceptors and runs in a goroutine
of its own. The handler calls the validator (AGS session service; Epic for the
PUID) and the Epic client (RTC rooms) one after the other. All goroutines share
the Epic client, whose access token a background goroutine replaces every 50
minutes. There are no locks besides the one around that token, no queues and no
database: an admission at Epic is the only lasting effect of a call.

What is hard: a check and the request it protects are different requests to
different services; a session is fetched twice for a team token; a request may
take effect although the program sees an error; one of two tokens or one of
several rooms fails; errors are classified by phrases anywhere in their text;
the token refresh depends on timing alone, and nothing reads `expiresAt`.
`PROJECT.json` lists each of these under `hazards`, at its line.

## 2. Modules

| Module | Models | Remarks |
|---|---|---|
| `VoiceErrors` | `errors.go` | pure operators; an error is the set of tell-tale phrases in its text |
| `VoiceBackends` | AGS session service and Epic, as used by the program | external, except `RoomID`, `Voice` and the answers of `CreateRoomToken` and `RemoveParticipant` |
| `PublicTokens` | the public handlers and the validator | extends `VoiceBackends` |
| `AdminTokens` | `GenerateAdminSessionToken` | extends `VoiceBackends` |
| `RevokeTokens` | `RevokeToken` | extends `VoiceBackends` |
| `VoiceRooms` | what the service promises of Epic's rooms | abstract: requests gain rights while they are served, rooms change by right of one |
| `VoiceService` | the handlers side by side in a process that may end | extends `PublicTokens`, `AdminTokens` and `RevokeTokens`, which share the backends; implements `VoiceRooms` |
| `EpicToken` | the access token of the Epic client | explicit relative time |
| `Server` | `main.go`, the gateway's relay, the interceptors | handlers are entered and end, nothing more |
| `MC...` | instances for TLC | constants only |
| `VoiceBackendsProofs`, `PublicTokensProofs`, `PublicRoomsProofs`, `AdminTokensProofs`, `RevokeTokensProofs`, `VoiceServiceProofs`, `EpicTokenProofs`, `ServerProofs` | theorems | |

`VoiceService` extends the three handlers' modules, and its proofs cite theirs, so
what all three have carries its module's prefix: `PublicBegin`, `AdminBegin` and
`RevokeBegin` are the handlers' entries, `PublicSpec`, `AdminSpec` and `RevokeSpec`
their specifications when they are alone with the backends. The text leaves the
prefix out where it speaks of one module.

### How state and actions correspond to the code

*`VoiceBackends`.* `live`, `roster`, `teams`, `link` are the data of the two
services, `admitted` who may take part in which of Epic's rooms. An answer to a
room request says what it does to the room (`effect`): something now, nothing,
or, after a request that was given up, something `late`: it is put aside, and
`Land` does it at any later time. `RoomAnswers` and `RemoveAnswers` are the
answers Epic may give. What a handler makes of them is the handler's own:
`PublicRoomCode` looks only whether there is a participant, `AdminRoomCode` wants
a token for each.

*`PublicTokens`.* `call[c]` holds the local variables of the handler serving `c`;
its `pc` is the next upstream request. `Begin` is the entry of the handler with
all checks before the first request (`Refusal`), in their order. `Validate` is
`ValidateUserInParty` or `ValidateUserInSession`; `Resolve` is `resolvePUID`;
`PartyToken` is the rest of `GeneratePartyToken`; `GetTeam` and `TeamToken` are
the two requests of `generateTeamTokenInternal`; `SessionToken` is
`generateSessionTokenInternal`; `Finish` the end of `GenerateSessionToken`. An
entry of a reply (`TokenFor`) is `blank` if Epic's answer left its token empty. A
request's answer and what the code does with it up to the next request are one
step, since the code in between touches local variables only. The implementation
of `VoiceRooms` reads: a call is open while it is being served, and its rights are
the rooms that have listed its user since it began, under its own PUIDs. The validator's
methods and the Epic look-up are operators that give the set of results possible
in the current state. `minted`, `asked` and `seen` are history: which admissions
a call caused, whether it asked Epic anything, and what held at some instant
since it began.

*`AdminTokens`.* The same for the admin call. `Fetch` is `GetSession` with the
filter on `StatusV2`; `Lookup` the PUID request for all eligible members;
`SessionRoom` and `TeamRoom` are `createRoomTokens` for one room; `NoTeams` the
early return when the session has no teams; `TeamsDone`, `Notify`, `NotifyDone`
the notifications. The teams are a set: their order in the answer is AGS's.

*`RevokeTokens`.* `Lookup`, then `Remove(v, u)` for the users in any order (Go
ranges over a map), then `Finish`. Initially any admissions may exist, from
earlier calls, and other calls go on admitting (`OthersAdmit`).

*`VoiceService`.* The variables of the three handlers' modules side by side, their
actions unchanged, on the same backends' variables. `Crash` is the end of
the process and its restart: `main` returns after the signal without waiting for
the calls under way, and a second signal, a failing server or a kill do the same.
The calls under way are `cut`; what they have asked of Epic stands or is late. A
caller that tries again makes a new call, as the program does not know that it
has seen the request before. `over` is history: which calls could not do anything
any more when another began.

*`EpicToken`.* `life`, `issued` and the requests' `life` are the times for which
Epic still accepts a token. `loop` is the place of the goroutine, `tick` the
ticker's channel of capacity one, `stopping` the cancelled context. `Store`,
`StoreEmpty` and `Fail` are the outcomes of `authenticate`: a token, a 200 that
decodes without one (stored all the same; only if `EmptyAnswers`), anything else. `Pass` lets one unit
of time pass; it is blocked while a time-out is due or a `select` has a ready
case, which says that the HTTP client's time-out fires and that a ready
goroutine runs within a unit.

*`Server`.* `main` is the next thing that `main` does: an action per step that can
fail or that another goroutine can notice, in the order of the code; `Fail` is
`os.Exit(1)` in any of those that may. `port` tells how far the three servers'
goroutines are; `ServerFails` is the `os.Exit(1)` in each. After the signal the
deferred functions are steps of their own (`Stop`, `Flush`, `ShutdownEpic`,
`Return`), last first, since a second signal or a failing server may end the
process between them. `Exit` cuts the calls under way. A call comes in over
the gateway or over gRPC (`Arrive`), passes `Relay` and `Intercept` and is then in
its handler, which takes the user id from the metadata once more (`Identify`);
`Permission` and `RequireToken` are what
`extractAuthRequirement` reads from `pkg/proto/service.proto`, `Checks` is
`checkAuthorizationMetadata`. The metadata is a sequence of values, as gRPC allows
several under one key: the interceptor verifies the first and the handler reads,
without verifying, the first of its own look-up (`UserID`).
`ReadEnvironment` is the exit for a base path without a slash.

### Abstractions

- A text is a model value, an error text a set of phrases. Phrases tested
  together in one branch are one phrase.
- A room id is a pair. The code concatenates with a colon; ids hold none. A team
  may be called `Voice`.
- hardMuted, client IP, base URL, token text, log records and the notification's
  JSON are left out.
- An upstream request is atomic at the instant its effect happens; that its
  answer is lost is a separate outcome (`LostErrors`), with its effect now, late
  or never. Equal requests that are late are not told apart, so one may land
  several times. A cancelled context and an undecodable body are such outcomes too.
- `"empty"` stands for a 200 without a participant, `"blank"` for one with a
  participant whose token is missing or empty; whether Epic has admitted anybody
  then is left open. The public handlers take the first participant of an answer
  as theirs; that Epic answers about the participants it was asked about is
  assumed.
- Members without an id are not members. A nil `StatusV2` is a status that is not
  eligible.
- Group ids are not reused after a party or session has ended.
- The SDK's token validator is external: it never accepts a token that is not
  good or lacks the permission, and may reject any token (no keys, no
  connection). The gRPC health service's `Check` is a method like `HealthCheck`; its
  `Watch` is a stream like the reflection's.
- Definitions under a comment `Mutant:` are variants of the definition below
  them with a plausible bug, used to see that the properties notice it. Nothing
  refers to them.

## 3. Runs

| Run | Checks | Bounds | Size |
|---|---|---|---|
| `PublicSafety` | `GrantOnlyToListed`, `GrantIdentity`, `AskedOnlyForMembers`, `RefusalLeavesNoGrant`, `ReplyAccountsForChannels` | 1 call, 1 user, 2 PUIDs, 1 party, 1 session, 2 teams, all kinds of errors, 2 changes | 1.7 M states, 1 min |
| `PublicTransient` | `RefusalJustified`, `EveryCallReplies`, `PublicImplementsRooms` | transient errors only, late effects, a team called `Voice`, 1 change | 169 k |
| `PublicTeamRefusal` | `FailedPreconditionMeant` - violated | transient errors only, 1 team, 1 change | |
| `ServiceParty` | `RevocationHolds`, `TokensStand`, `ImplementsRooms` | 1 party call, 1 revocation, 2 users, 2 PUIDs, own or linked, late effects, 1 change, 1 crash | 579 k, 1 min |
| `ServiceAdmin` | `RevocationHolds`, `TokensStand`, `ImplementsRooms`, `EveryCallEnds` | 1 admin call, 1 revocation, 1 user, 1 session, 1 team, late effects, 1 change, 1 crash | 382 k, 1.5 min |
| `EpicRefresh` | `ValidUnlessRefreshFailed`, `TrustedRequestsAccepted`, `OutageBounded`, `AtMostOneLateRefresh`, `ShutdownStops`, `OutageEnds` | unit 2.5 min: period 20, life 24, time-out 1; 2 failures in a row, empty answers too, 1 request | 60 k |
| `EpicOutage` | `TokenAlwaysValid` - violated | same, no empty answers | |
| `RevokeRace` | `SuccessRemoves`, `EveryLinkedUserTriedOnce`, `NotFoundMeansAbsent` | 2 revocations, 2 users, 2 PUIDs, 1 room, late effects, 2 changes | 705 k, 0.5 min |
| `Revoke404` | `NotFoundMeansAbsent` - violated | 1 revocation, lost answers that quote a URL with 404 | |
| `AdminSafety` | `GrantOnlyToEligible`, `SuccessIsComplete`, `OneNotificationEach` | 1 call, 2 users, 2 PUIDs, 2 teams, 3 statuses, 1 change | 2.2 M, 1.5 min |
| `AdminFailFast` | `FailFast` - violated | 1 user, 1 team, 1 change | |
| `ServerLife` | `ReadyWhenServed`, `OnlyAuthorised`, `ActsForTokenHolder`, `OrderlyExit`, `SignalEndsProcess` | 1 call, auth on or off, all methods, up to 2 authorization values out of 4 texts | 56 k |

Each module's type invariant is checked in its safety run. Every property of
a passing run has a mutant of the code that breaks it.

*Why these bounds are enough.* The program shares nothing between calls but the
Epic access token, so the interference a public call can meet is that of the
backends' data; one call with all possible interference shows as much as many
(and the theorems cover any number). Two changes are enough for leaving one
group and joining another, or for a link that is changed and changed back
between two requests. Two PUIDs tell a relinked account from the old one; two
teams give a member a team to be moved to. Two revocations are the least that
race for one participant. In the runs of `VoiceService` the calls share Epic's
rooms: one token request and one revocation are the least that race for a
participant, one crash cuts either of them anywhere, and late effects, which have
no bound, may come before, between and after. Two users with two PUIDs let one
user bring the PUID that is linked to the other. The requests made there are
those that are not refused at once, since the others touch nothing. Two users and two teams are the least for partial
failure of the admin call in a later room, for a user in two teams, and for a
user whom only one team names. Calls share nothing in `Server` but the process, so
one call shows all that can happen to any. In `EpicRefresh` two failures in a row show that
the outage grows by a period each.

*Deadlock.* Each call is served once and the data changes a bounded number of
times, so every behaviour of the request models ends; the refresh goroutine ends
at `Shutdown`, the process by a signal or an error. Deadlock checking is therefore off; that a call
is not stuck is what `EveryCallReplies` and `EveryCallEnds` say.

*Symmetry* is used in safety runs only, over values that are compared for
equality only.

*Fairness.* `WF(Handler(c))` for each call, in `VoiceService` as long as the process lives: a handler that has sent a request
gets an answer or an error, since the HTTP client of the Epic client times out
after 30 s (`epicClient.go:74`) and the SDK's requests to AGS have a time-out of
their own. Nothing is assumed of the backends' changes or of what the answers
are. In `EpicToken`: time passes, the runtime runs a goroutine that is ready,
and an authentication that is tried again and again succeeds in the end; the
last is an assumption about Epic, without which no liveness of the token holds,
and `OutageEnds` says that the goroutine then recovers by itself. In `Server`, `main` and
the servers' goroutines run and a unary handler ends; nobody has to close a
stream, which is why `SignalEndsProcess` says something: it fails as soon as
`main` waits for the calls under way. Nothing is assumed to succeed.

## 4. Findings

Four runs are expected to find a violation: what a document or comment says is
not what the code does.

1. `FailedPreconditionMeant` (`docs/operations.md:263`): every failure of
   the team look-up, transient ones included, is answered with
   `FailedPrecondition` (`eosService.go:285`), which the document tells clients
   never to retry and to read as "link Epic account first". The property also
   accepts it for a caller without a team, as `eosService_test.go:453` does. In the
   run's counterexample the caller is linked and in a team of the session all the
   time and nothing changes; only the second fetch of the session fails. Also, "user not in
   team" (40304) is documented as PermissionDenied (`docs/operations.md:236`) but
   arrives as FailedPrecondition.
2. `TokenAlwaysValid` (`docs/architecture.md:244`): a failed refresh is retried
   only after 50 more minutes (`epicClient.go:157`), some 40 of them without a
   valid token. In the counterexample the first token is stored, the refresh at the
   first tick fails with an error, and the token runs out ten minutes later. Empty
   answers are left out of this run (`EmptyAnswers`), as one would lose the token
   at once and show nothing about the ticker.
3. `NotFoundMeansAbsent` with error texts that quote the URL
   (`eosService.go:544` against the comment in line 554): the digits 404 in a room
   id or PUID make a time-out look like a 404.
4. `FailFast` (`docs/architecture.md:226`): the admin handler finds out that there
   are no teams, or that nobody in a team is linked, after it has created the
   session room's tokens, which are then lost (`eosService.go:457`, `594`).

Noted while modelling, no run yet: the public handlers do not look at `StatusV2`,
so an invited member counts as a member (`sessionValidator.go:102`, `120`); a
rejected access token (401 from Epic) reaches clients as Unauthenticated, which
`docs/operations.md` tells them to answer with a new login token; two rate-limited
requests of one call are answered with Internal; a revocation looks at linked
PUIDs only, so a user who gave a `puid` of their own is not named by it;
a public handler accepts an answer whose first participant has an empty token, and
replies OK with it (`eosService.go:156`, `306`, `341`), where the admin handler
refuses it (`618`). The models have this (`blank`), so what the properties of public
replies say of tokens, they say of entries that hold one.

What holds of revocations, in the words of `RevocationHolds`: after an OK, a PUID
that was linked when the revocation looked is in the room only because of a token
request that was not over when the revocation began, made for someone whom the
room has listed since that request began. To remove a user from the party first
and to revoke afterwards is therefore enough as soon as the requests in flight
have ended and nothing is late. It also covers what a call left at Epic that was
cut by the end of the process. `TokensStand` is the other side: a token handed
out is good unless a revocation of its room names its PUID; an entry of a public
reply that Epic left blank is no token.

## 5. Proofs

All proof modules are checked by TLAPS without gaps.

`VoiceBackendsProofs`: lemmas on types of codes, rooms and backend changes that
the other proofs rest on.

`PublicTokensProofs`: `TypeOK`, `GrantOnlyToListed`, `GrantIdentity`,
`AskedOnlyForMembers`, `RefusalLeavesNoGrant`, `RefusalJustified` and
`ReplyAccountsForChannels` for any numbers of calls, users, PUIDs, groups, teams,
error texts and changes. But for `TypeOK` none is inductive as it stands: that a room
is granted rightly in `TeamToken` depends on what `GetTeam` saw two requests
earlier, and what the reply may say depends on how each request on the way ended.
The invariant therefore states for each place in the handler what has been
established on the way there:

- `PublicCallInv`: the request is complete, the main room has listed the caller,
  the PUID is the caller's own, the team has named it;
- `PublicReplyInv`: the tokens are admissions, unless blank, of different channels
  (`TokensInv`);
  of the channels whose requests are done (`Behind`) each has a token or an error
  (`ChannelsInv`); as long as there are only errors that must not be retried there
  is no admission (`CleanInv`); and a reply is what these make of it (`AnswerInv`);
- `UpToDate`: the history of a call being served includes the present, so that
  what a request sees now is in the history. A change of the backends' data could
  break it, and `World` records the new state for that reason.

`StepOfCall` reduces an action to the one call it is about; `LocalStep`,
`ReturnInv` and `TokenStep` treat the three kinds of steps; each action has a
lemma; `NextInv` collects them. `PublicPromises` derives the six properties from
the invariant once, for the handlers alone and for the whole service. The
assumptions are `BackendsAssumption` and `PublicAssumption`: the empty ids differ
from the others, parties are not sessions. Two theorems have a hypothesis on
error texts. `RefusalLeavesNoGrant` needs that no lost answer's text reads like
an error that must not be retried (`LostMayBeRetried`): `ParseHTTPError` goes by
phrases, and an error after which the effect is unknown would be replied as
NotFound if its text held "not found". The digits 404 in a quoted URL are no such
phrase, and the lost answers of the run `PublicSafety` hold them.
`RefusalJustified` needs that no upstream error reads like a refusal
(`UpstreamNeverRefuses`), which is what it means that failures are transient; the
texts of the run `PublicTransient` satisfy it.

`PublicRoomsProofs`: `PublicImplementsRooms`, that `PublicTokens` implements
`VoiceRooms`, with the same generality. Every step of a handler opens or closes
its request or adds to the rooms by its right, which the invariant gives; a change
of the backends only adds to the histories, hence to the rights; and an admission
that lands late is one that some call has a right to, which is `PublicLateInv`.

`RevokeTokensProofs`: `TypeOK`, `SuccessRemoves`, `EveryLinkedUserTriedOnce` for
any number of revocations, users, PUIDs and rooms, among other admissions and late
effects, and `NotFoundMeansAbsent` for error texts of which only the answer for an
unknown participant reads like a 404 (`PlainErrors`; the run `Revoke404` shows
that this is needed). `RevokeCallInv` says of the loop what is true between two of its
turns: a user is tried once it is no longer `left`, and one that is neither left nor
among the errors has been out of the room since the call began (`LoopInv`).

`AdminTokensProofs`: `TypeOK`, `GrantOnlyToEligible`, `SuccessIsComplete` and
`OneNotificationEach` for any number of calls, users, PUIDs, teams and changes.
That a team's room is granted rightly depends on the snapshot taken two requests
or more earlier, so `AdminCallInv` says that the members of the snapshot have been
eligible for the rooms it names (`SnapshotInv`) and that the PUIDs looked up have
been theirs (`LinksInv`); that the tokens collected are the admissions made, and
nobody's who has not asked (`TokensInv`); and which rooms are finished
(`SessionDone`, and `TeamsDoneBut` those that the loop has not reached), from
which completeness follows when nothing is left. `NotifiedInv` counts a user's
notifications by whether the second loop has reached them. `UpToDate` has the
part it has in `PublicTokens`. The assumptions are `BackendsAssumption` and
`AdminAssumption`, that the empty session id is not a session's.

`VoiceServiceProofs`: `TypeOK`, `RevocationHolds`, `TokensStand` and
`ImplementsRooms` of the whole service, for any number of calls of the three kinds,
changes, late effects and crashes; and that all that is proved of the handlers by
themselves they keep in it (`ServiceKeepsPublic`, `ServiceKeepsAdmin`,
`ServiceKeepsRevocations`), for calls that a crash has cut as well. `ServiceInv` is
the handlers' invariants and four parts of its own:

- The histories of calls that are cut are no longer kept, so `UpToDate` is
  claimed of the others only: `PublicInvFor(Call \ cut)`, `AdminInvFor(Admin \ cut)`.
  This is why the handlers' lemmas have the set `on` of calls as a parameter.
- `ProcessInv`: a call that was over when another began stays over.
- `LateInv`: whatever may still come has been asked for, and for every call x by a
  call that was not over when x began. Without it a request left behind by a call
  long over could let somebody in after a revocation, with nobody to answer for it.
  It is inductive because `Over` asks that nothing of a call be late: the calls that
  are over when x begins have nothing late then, and cannot ask later.
- `TokensKept`: the tokens a call has *so far*, blank ones aside, are good, or a revocation that was
  not over when it began is out to remove them; not only those of the reply.
- `RemovedStayOut`: in the middle of a revocation's loop, whoever it has removed is
  out, or let in again by a call that was not over when it began.

A step keeps the last three if it leaves the calls' purposes alone (`Onwards`), if
all that it does to the rooms and puts aside is the work of calls that are not over
for anybody (`Answered`), and if what it reports as obtained or removed is so
(`Truthful`): `StepKeeps`. Each action is shown to be such a step, the handlers' by
their own lemmas. A call that is taken up (`BeginKeeps`) sets its `over` afresh,
and that nobody who has asked for something late is in it is `AskerIsNotOver`.
For `ImplementsRooms` the invariant gives each step's right: a late admission's or
removal's from `LateInv`, the others' from the handlers' invariants; a crash closes
several requests at once and changes no room. The assumptions are those of the
modules extended, and `ServiceAssumption`, that the three kinds of calls differ.

`EpicTokenProofs`: `TypeOK`, `ValidUnlessRefreshFailed`, `OutageBounded`,
`TrustedRequestsAccepted` and `AtMostOneLateRefresh` for all periods, lives and
time-outs with `Period + 3 * Timeout < TTL` and `Timeout < Period`, any number of
requests and failures. The code has 50 min + 3 * 30 s < 60 min. The three
time-outs are: the first token may have been issued a time-out before the ticker
was started; a refresh may take one; a request may be under way for one. `Inv`
says that a tick is taken at once and an authentication is over before the next
tick (`Punctual`), bounds the age of the token by the time since the last tick
(`Fresh`), and the same for the token in each request under way (`CarriesFresh`);
`UsedUp` says that a late refresh has used up the only tick there can be.
`OutageBounded` needs `Outage` besides: an outage begins no earlier than the first
refresh that fails, and is never longer than a period for each failure so far and
the time since the last tick.

`ServerProofs`: `TypeOK`, `ReadyWhenServed`, `OnlyAuthorised`, `ActsForTokenHolder` and
`OrderlyExit` for any number of calls and authorization values. The assumption is
that the empty user id is not that of a subject, that the texts of tokens are
among those the validator knows, and that the number of values is bounded. `Inv`
adds what `main` has done by the time it is where it is (`Progress`), and that
neither the gRPC server nor a call is ahead of `main` (`Reached`):
`ReadyWhenServed` follows from the two together.
`ExitInv` treats all the ways in which the process may end, `MovesInv` all steps of
a call.

*Only model-checked.* Every safety property of a passing run, and both
refinements, are theorems. Liveness under fairness is out of the prover's reach:
`EveryCallReplies`, `EveryCallEnds`, `ShutdownStops`, `OutageEnds` and
`SignalEndsProcess` stay with TLC, and so do the properties of the four runs that
expect a violation.

## 6. Plan

Done: all modules of the table above, with the theorems of section 5.

Left, in this order:

1. Proofs: the steps behind the liveness properties that need no fairness, such as
   that a handler's requests lead to its end in a bounded number of steps, which TLC
   checks only as `EveryCallReplies`; action properties of the histories.
2. The Epic client against an abstract token with a bounded outage, and the
   handlers with a token that has run out.
3. A larger `VoiceService`: two token requests, admin and public calls together.

## 7. Not modelled

- `tracerProvider.go`, `logging.go`, the metrics endpoint, the Swagger handlers:
  no state and no decisions of their own.
- The SDK's validator and its refresh of keys and revocations: not in the
  repository.
- `ExtractClientIP` and `GetEnv` of `utils.go`: string handling that no property
  tells apart. A client IP is passed on to Epic.
- `myService.go` is registered nowhere; `mocks/` and `pb/` are generated.
- A panic on a nil member or team in an answer of AGS (`sessionValidator.go:103`,
  `180`; the admin handler checks for nil). The answers modelled hold none.
- A user id for a PUID that was given with the request: the program records none,
  so no property says that a revocation removes such a user.
