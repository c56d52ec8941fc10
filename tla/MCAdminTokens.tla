--------------------------- MODULE MCAdminTokens ---------------------------
(* Instances of AdminTokens for TLC. *)
EXTENDS AdminTokens, TLC

\* StatusV2: an invited member, an active one, and one who has left.
MemberStatus == {"INVITED", "JOINED", "LEFT"}

\* Texts of errors that are an HTTP status, and of no answer.
AnyStatus == { {"404", "status 404"}, {} }
AnyLost == { {} }

Interchangeable == Permutations(Puid) \cup Permutations(User) \cup Permutations(Team)
=============================================================================
