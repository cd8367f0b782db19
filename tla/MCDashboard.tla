----------------------------- MODULE MCDashboard -----------------------------
(* Dashboard with the bounds its configurations give. *)
EXTENDS Dashboard
=============================================================================
