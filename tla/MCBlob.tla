------------------------------ MODULE MCBlob -------------------------------
(* Model-checking instance of Blob: the plans clients declare, the sets    *)
(* whose members are interchangeable, and two settings in one run.  Two    *)
(* streams race with an abort of one user, or one stream meets an abort    *)
(* and a download, each of either user.                                    *)
EXTENDS Blob, TLC

CONSTANT u1

\* Two chunks of different sizes, each within the chunk size.
TwoChunks == {[chunks |-> 2, size |-> 3, limit |-> 2]}

\* One chunk, smaller than some payloads clients send.
OneChunk == {[chunks |-> 1, size |-> 1, limit |-> 1]}

Symmetry == Permutations(Streams)

RacingStreams ==
  /\ \A c \in Calls : user[c] \in {u1, None}
  /\ \A u \in Uploads : session[u] = None \/ session[u].owner = u1
  /\ \A u \in Uploads : ~ expired[u]
  /\ \A d \in Downloads : phase[d] = "idle"

OtherUsers == \E s \in Streams : phase[s] = "idle"

SpecSettings == Init /\ [][Next /\ (RacingStreams' \/ OtherUsers')]_vars

=============================================================================
