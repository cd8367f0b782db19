---------------------------- MODULE MCRemediation ----------------------------
(* Remediation with the instances its configurations give. *)
EXTENDS Remediation
=============================================================================
