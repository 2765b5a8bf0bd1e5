----------------------------- MODULE MCRelease -----------------------------
(* Release for TLC: two images of one repository and one of another team. *)
EXTENDS Release

\* Every image was built from a commit of its own.
MCCommitOf(image) == <<"commit", image>>
MCCandidateCommit == MCCommitOf(Candidate)
=============================================================================
