--------------------------- MODULE MCRevokeTokens ---------------------------
(* Instances of RevokeTokens for TLC. *)
EXTENDS RevokeTokens, TLC

\* Statuses Epic answers with for a participant it knows.
AnyStatus == { {"forbidden"}, {"rate limit"}, {"unauthorized"}, {} }
\* No answer; the text holds no digits 404.
PlainLost == { {} }
\* No answer; the text quotes the request's URL, whose ids hold the digits.
QuotedLost == { {"404"} }

Interchangeable == Permutations(Puid) \cup Permutations(User) \cup Permutations(Revocation)
=============================================================================
