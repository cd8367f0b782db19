----------------------------- MODULE MCEndpoints -----------------------------
(* Instances of Endpoints for TLC.                                           *)
EXTENDS Endpoints
=============================================================================
