--------------------------- MODULE MCVoiceService ---------------------------
(* Instances of VoiceService for TLC. *)
EXTENDS VoiceService, TLC

\* An HTTP status that is no refusal, and no answer.
AnyStatus == { {} }
AnyLost == { {} }

\* Requests that are not refused at once: the others touch nothing, and the
\* instances of PublicTokens, AdminTokens and RevokeTokens have them all.
PublicAsks ==
  {r \in Request : Refusal(r) = NoCode /\ r.puid # BlankPuid}
RevokeAsks ==
  {r \in RevokeRequest : r.room # NoRoom /\ r.users # {}}
AdminAsks ==
  {r \in AdminRequest : r.sessionID # NoSession /\ (r.team \/ r.session)
       /\ ~r.allowPending /\ r.notify}
AllAsks == PublicAsks \cup RevokeAsks \cup AdminAsks

Interchangeable == Permutations(Puid) \cup Permutations(User) \cup Permutations(Call)
  \cup Permutations(Admin)
=============================================================================
