-------------------------- MODULE MCAgreementScorer --------------------------
(* Bounded instance of AgreementScorer; see the .cfg files for the values. *)
EXTENDS AgreementScorer
=============================================================================
