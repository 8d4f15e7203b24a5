-------------------------- MODULE MCImmobilization --------------------------
(***************************************************************************)
(* Small instances of Immobilization for TLC.                              *)
(***************************************************************************)
EXTENDS Immobilization, TLC

\* Replicas are interchangeable; intents are not, they are ordered by createdAt.
Interchangeable == Permutations(Replica)
=============================================================================
