---------------------------- MODULE VoiceErrors ----------------------------
(***************************************************************************)
(* The error vocabulary of pkg/service/errors.go and its classification of *)
(* upstream failures.                                                      *)
(*                                                                         *)
(* The program decides what an upstream failure means by looking for       *)
(* phrases in its text, so an upstream error is modelled as the set of     *)
(* those phrases that its text contains.  Phrases that the program always  *)
(* tests together are one element: "forbidden" stands for "status 403",    *)
(* "forbidden" and "Forbidden".  "404" stands for the bare digits, which   *)
(* only RevokeToken looks for; "status 404" is the text the Epic client    *)
(* writes for an HTTP status.                                              *)
(***************************************************************************)
EXTENDS Naturals

Phrases == {"404", "status 404", "not found", "NotFound", "forbidden",
            "rate limit", "bad request", "unauthorized"}

\* What error texts can look like: the digits are part of "status 404".
ErrorText == {e \in SUBSET Phrases : "status 404" \in e => "404" \in e}

Codes == {"OK", "InvalidArgument", "Unauthenticated", "PermissionDenied",
          "FailedPrecondition", "NotFound", "ResourceExhausted", "Internal",
          "Unknown"}

\* No error so far, no reply yet.
NoCode == "none"

\* The codes docs/operations.md tells clients never to retry.
NoRetry == {"InvalidArgument", "NotFound", "PermissionDenied", "FailedPrecondition"}

ErrUserNotInParty == "40301"
ErrUserNotInSession == "40302"
ErrEpicAccountNotLinked == "40303"
ErrUserNotInTeam == "40304"
ErrPartyNotFound == "40401"
ErrSessionNotFound == "40402"
ErrUserNotFound == "40403"
ErrRateLimitExceeded == "42901"
ErrEpicRTCAPI == "50002"
ErrAccelByteAPI == "50003"

\* VoiceError.ToGRPCStatus; the codes outside the switch become Unknown.
ToGRPCStatus(e) ==
  CASE e \in {"40301", "40302", "40304"} -> "PermissionDenied"
    [] e = "40303"                       -> "FailedPrecondition"
    [] e \in {"40401", "40402", "40403"} -> "NotFound"
    [] e = "42901"                       -> "ResourceExhausted"
    [] e \in {"50001", "50002", "50003"} -> "Internal"
    [] OTHER                             -> "Unknown"

\* Mutant: the bare digits count as a 404, as they do in RevokeToken.
FamiliesBareDigits == << {"404", "not found", "NotFound"}, {"forbidden"},
                         {"rate limit"}, {"bad request"}, {"unauthorized"} >>

\* The cascade of ParseHTTPError: the phrase families in the order in which
\* they are tested, and what the first family found is answered with.
Families == << {"status 404", "not found", "NotFound"}, {"forbidden"},
               {"rate limit"}, {"bad request"}, {"unauthorized"} >>

FamilyCode == << "NotFound", "PermissionDenied", ToGRPCStatus(ErrRateLimitExceeded),
                 "InvalidArgument", "Unauthenticated" >>

NotFoundByContext(context) ==
  CASE context = "party"              -> ToGRPCStatus(ErrPartyNotFound)
    [] context = "session"            -> ToGRPCStatus(ErrSessionNotFound)
    [] context \in {"user", "epic_puid"} -> ToGRPCStatus(ErrUserNotFound)
    [] OTHER                          -> "NotFound"

\* Mutant: the VoiceError is returned as it is, without ToGRPCStatus.
DefaultByContextUnmapped(context) ==
  IF context \in {"epic_rtc", "epic_puid"} THEN ErrEpicRTCAPI ELSE ErrAccelByteAPI

DefaultByContext(context) ==
  IF context \in {"epic_rtc", "epic_puid"}
  THEN ToGRPCStatus(ErrEpicRTCAPI) ELSE ToGRPCStatus(ErrAccelByteAPI)

ParseHTTPError(e, context) ==
  LET hits == {i \in 1..5 : Families[i] \cap e # {}}
      first == CHOOSE i \in hits : \A j \in hits : i <= j
  IN CASE hits = {}   -> DefaultByContext(context)
       [] hits # {} /\ first = 1 -> NotFoundByContext(context)
       [] OTHER       -> FamilyCode[first]
=============================================================================
