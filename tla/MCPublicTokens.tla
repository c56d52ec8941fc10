--------------------------- MODULE MCPublicTokens ---------------------------
(* Instances of PublicTokens for TLC. *)
EXTENDS PublicTokens, TLC

\* Texts of errors that are an HTTP status: one of each family the program
\* tells apart, one of no family (a 5xx), a 5xx whose body says "not found".
AnyStatus == { {"404", "status 404"}, {"forbidden"}, {"rate limit"}, {"bad request"},
               {"unauthorized"}, {}, {"not found"} }

\* The failures that go away by themselves: rate limiting and 5xx.
TransientStatus == { {"rate limit"}, {} }

\* No answer: the text quotes the URL, whose ids may hold the digits 404.
AnyLost == { {}, {"404"} }

\* PUIDs and team ids are only compared for equality.
Interchangeable == Permutations(Puid) \cup Permutations(Team)
=============================================================================
