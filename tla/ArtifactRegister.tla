-------------------------- MODULE ArtifactRegister --------------------------
(***************************************************************************)
(* What the remediation writer promises: one artifact name that holds the   *)
(* rendering of one approval at a time, and receipts about it.              *)
(*                                                                          *)
(* An approval is published in one step that also tells whether it          *)
(* overwrote an artifact, and acknowledged while it is still the artifact   *)
(* and once no power loss can bring back an older one.                      *)
(***************************************************************************)
CONSTANTS Requests, Absent, Prior, Special

VARIABLES
  artifact,   \* what a reader of the artifact name finds
  survivors,  \* what a reader may find after a power loss
  anchored,   \* the place the artifact lives in survives a power loss
  stage,      \* how far each approval is
  overwrote   \* did the approval replace an artifact?

vars == <<artifact, survivors, anchored, stage, overwrote>>

Init ==
  /\ artifact \in {Absent, Prior, Special}
  /\ survivors = {artifact}
  /\ anchored \in BOOLEAN
  /\ stage = [r \in Requests |-> "pending"]
  /\ overwrote = [r \in Requests |-> FALSE]

Publish(r) ==
  /\ stage[r] = "pending"
  /\ artifact # Special
  /\ artifact' = r
  /\ survivors' = survivors \cup {r}
  /\ stage' = [stage EXCEPT ![r] = "published"]
  /\ overwrote' = [overwrote EXCEPT ![r] = artifact # Absent]
  /\ UNCHANGED anchored

\* The receipt is given for the artifact in force, which alone survives now.
Acknowledge(r) ==
  /\ stage[r] = "published"
  /\ artifact = r
  /\ survivors' = {r}
  /\ stage' = [stage EXCEPT ![r] = "created"]
  /\ UNCHANGED <<artifact, anchored, overwrote>>

\* An approval may fail before or after it was published; it has no receipt.
Refuse(r) ==
  /\ stage[r] \in {"pending", "published"}
  /\ \E s \in {"failed", "rejected"} : stage' = [stage EXCEPT ![r] = s]
  /\ stage[r] = "published" => stage'[r] = "failed"
  /\ UNCHANGED <<artifact, survivors, anchored, overwrote>>

\* A power loss reverts to an artifact no acknowledged one has superseded.
Revert ==
  /\ artifact' \in survivors
  /\ survivors' = {artifact'}
  /\ anchored' \in {anchored, TRUE}
  /\ UNCHANGED <<stage, overwrote>>

\* A power loss takes the place itself, if it was not anchored yet.
Vanish ==
  /\ ~anchored
  /\ artifact' = Absent
  /\ survivors' = {Absent}
  /\ UNCHANGED <<anchored, stage, overwrote>>

Next ==
  \/ \E r \in Requests : Publish(r) \/ Acknowledge(r) \/ Refuse(r)
  \/ Revert
  \/ Vanish

Spec == Init /\ [][Next]_vars
=============================================================================
