----------------------------- MODULE MCApproval -----------------------------
(* Approval with the bounds its configuration gives. *)
EXTENDS Approval
=============================================================================
