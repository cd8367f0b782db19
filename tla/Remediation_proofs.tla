------------------------- MODULE Remediation_proofs -------------------------
(* Proofs about the remediation writer, for any set of approvals, any number *)
(* of chunks and any number of crashes.                                      *)
EXTENDS Remediation, TLAPS


\* No step takes a variable out of its type.
LEMMA TypeStep == TypeOK /\ [Next]_vars => TypeOK'
<1> SUFFICES ASSUME TypeOK, [Next]_vars PROVE TypeOK'
  OBVIOUS
<1> USE DEF TypeOK, Locations, InFlight, Critical, Outcomes, Targets,
            threadVars, dataVars, diskVars, historyVars
<1>1. ASSUME NEW r \in Requests, Admit(r) PROVE TypeOK'
  BY <1>1 DEF Admit
<1>2. ASSUME NEW r \in Requests, Reject(r) PROVE TypeOK'
  BY <1>2 DEF Reject
<1>3. ASSUME NEW r \in Requests, Acquire(r) PROVE TypeOK'
  BY <1>3 DEF Acquire
<1>4. ASSUME NEW r \in Requests, Writer(r) PROVE TypeOK'
  <2>1. CASE Mkdir(r)  BY <2>1 DEF Mkdir, Step
  <2>2. CASE Open(r)  BY <2>2 DEF Open, Step
  <2>3. CASE Stat(r)  BY <2>3 DEF Stat, Step
  <2>4. CASE Create(r)  BY <2>4 DEF Create, Step
  <2>5. CASE Write(r)  BY <2>5 DEF Write, Step
  <2>6. CASE SyncFile(r)  BY <2>6 DEF SyncFile, Step
  <2>7. CASE Replace(r)  BY <2>7 DEF Replace, Step
  <2>8. CASE SyncDirectory(r)  BY <2>8 DEF SyncDirectory, Leave
  <2>9. CASE Fail(r)  BY <2>9 DEF Fail, Leave
  <2>10. CASE FailWithTemporary(r)  BY <2>10 DEF FailWithTemporary, Step
  <2>11. CASE Cleanup(r)  BY <2>11 DEF Cleanup, Leave
  <2> QED
    BY <1>4, <2>1, <2>2, <2>3, <2>4, <2>5, <2>6, <2>7, <2>8, <2>9, <2>10, <2>11
       DEF Writer
<1>5. ASSUME NEW r \in Requests, Respond(r) PROVE TypeOK'
  BY <1>5 DEF Respond
<1>6. CASE Crash
  BY <1>6, MaxCrashesAssumption DEF Crash, LoseThreads
<1>7. CASE PowerLoss
  BY <1>7, MaxCrashesAssumption DEF PowerLoss, LoseThreads
<1>8. CASE PowerLossTakesDirectory
  BY <1>8, MaxCrashesAssumption DEF PowerLossTakesDirectory, LoseThreads
<1>9. CASE UNCHANGED vars
  BY <1>9 DEF vars
<1> QED
  BY <1>1, <1>2, <1>3, <1>4, <1>5, <1>6, <1>7, <1>8, <1>9
     DEF Next, Thread, Environment

\* The initial values have their types.
LEMMA InitTypeOK == Init => TypeOK
<1> SUFFICES ASSUME Init PROVE TypeOK
  OBVIOUS
<1>1. target \in Targets /\ diskTargets \in SUBSET Targets
  BY DEF Init, Targets
<1>2. crashes \in 0 .. MaxCrashes
  BY MaxCrashesAssumption DEF Init
<1>3. /\ written \in [Requests -> 0 .. Chunks]
      /\ synced \in [Requests -> 0 .. Chunks]
  BY ChunksAssumption DEF Init
<1> QED
  BY <1>1, <1>2, <1>3
     DEF Init, TypeOK, Locations, InFlight, Critical, Outcomes

\* Every variable keeps its type.
THEOREM TypeCorrect == Spec => []TypeOK
<1> QED
  BY InitTypeOK, TypeStep, PTL DEF Spec

\* What stat saw is recorded; the target stays as it is and is not Special.
LEMMA StatRecords ==
  ASSUME NEW r \in Requests, replaced \in [Requests -> BOOLEAN], Stat(r)
  PROVE  /\ target # Special
         /\ target' = target
         /\ replaced'[r] <=> target # Absent
<1>1. target # Special /\ target' = target
  BY DEF Stat
<1>2. replaced' = [replaced EXCEPT ![r] = target # Absent]
  BY DEF Stat
<1>3. replaced'[r] <=> target # Absent
  BY <1>2, Zenon
<1> QED
  BY <1>1, <1>3

\* Every step of the system preserves the inductive invariant.
LEMMA InvariantStep == IInv /\ [Next]_vars => IInv'
<1> SUFFICES ASSUME IInv, [Next]_vars PROVE IInv'
  OBVIOUS
<1>t. TypeOK'
  BY TypeStep DEF IInv
<1> USE NamesAssumption, ChunksAssumption
<1> USE DEF IInv, TypeOK, LockHeld, ThreadsInStep, FilesSafe, StatHolds, DiskUpToDate,
            SpecialAlone, DirectoryKnown, NoStrayTemporary,
            Locations, InFlight, BeforeAnswer, Critical, Outcomes, Targets,
            threadVars, dataVars, diskVars, historyVars
<1>1. ASSUME NEW r \in Requests, Admit(r) PROVE IInv'
  BY <1>1, <1>t DEF Admit
<1>2. ASSUME NEW r \in Requests, Reject(r) PROVE IInv'
  BY <1>2, <1>t DEF Reject
<1>3. ASSUME NEW r \in Requests, Acquire(r) PROVE IInv'
  BY <1>3, <1>t DEF Acquire
<1>4. ASSUME NEW r \in Requests, Mkdir(r) PROVE IInv'
  BY <1>4, <1>t DEF Mkdir, Step
<1>5. ASSUME NEW r \in Requests, Open(r) PROVE IInv'
  BY <1>5, <1>t DEF Open, Step
<1>6. ASSUME NEW r \in Requests, Stat(r) PROVE IInv'
  <2> USE <1>6, <1>t DEF Stat, Step
  <2>1. LockHeld' /\ ThreadsInStep' /\ FilesSafe' /\ NoStrayTemporary'
    OBVIOUS
  <2>2. DiskUpToDate' /\ SpecialAlone' /\ DirectoryKnown'
    OBVIOUS
  <2>3. StatHolds'
    <3> SUFFICES ASSUME NEW q \in Requests, pc'[q] \in {"create", "write", "replace"}
                 PROVE  target' # Special /\ (replaced'[q] <=> target' # Absent)
      OBVIOUS
    <3>1. CASE q = r
      BY <3>1, StatRecords
    <3>2. CASE q # r
      BY <3>2
    <3> QED
      BY <3>1, <3>2
  <2> QED
    BY <2>1, <2>2, <2>3
<1>7. ASSUME NEW r \in Requests, Create(r) PROVE IInv'
  BY <1>7, <1>t DEF Create, Step
<1>8. ASSUME NEW r \in Requests, Write(r) PROVE IInv'
  BY <1>8, <1>t DEF Write, Step
<1>9. ASSUME NEW r \in Requests, SyncFile(r) PROVE IInv'
  <2> USE <1>9 DEF SyncFile, Step
  <2>1. synced'[r] = Chunks
    OBVIOUS
  <2>2. FilesSafe'
    BY <2>1
  <2> QED
    BY <2>2, <1>t
<1>10. ASSUME NEW r \in Requests, Replace(r) PROVE IInv'
  <2> USE <1>10 DEF Replace, Step
  <2>1. /\ \A q \in Requests : pc'[q] \in Critical <=> lock' = q
        /\ \A q \in Requests \ {r} : pc[q] \notin Critical
    OBVIOUS
  <2>2. ThreadsInStep'
    BY <2>1
  <2>3. synced[r] = Chunks /\ FilesSafe'
    OBVIOUS
  <2>4. StatHolds'
    BY <2>1
  \* r comes after every acknowledged approval, and is not acknowledged yet.
  <2>5. DiskUpToDate'
    OBVIOUS
  \* stat found no special file, so it is not among the survivors either.
  <2>6. Special \notin diskTargets'
    OBVIOUS
  <2> QED
    BY <1>t, <2>1, <2>2, <2>3, <2>4, <2>5, <2>6
<1>11. ASSUME NEW r \in Requests, SyncDirectory(r) PROVE IInv'
  <2> USE <1>11 DEF SyncDirectory, Leave
  <2>1. target = r /\ diskTargets' = {r}
    OBVIOUS
  \* Whoever was acknowledged before has an earlier turn than what survives.
  <2>2. DiskUpToDate'
    BY <2>1
  <2>3. LockHeld' /\ ThreadsInStep' /\ StatHolds'
    OBVIOUS
  <2> QED
    BY <1>t, <2>1, <2>2, <2>3
<1>12. ASSUME NEW r \in Requests, Fail(r) PROVE IInv'
  BY <1>12, <1>t DEF Fail, Leave
<1>13. ASSUME NEW r \in Requests, FailWithTemporary(r) PROVE IInv'
  BY <1>13, <1>t DEF FailWithTemporary, Step
<1>14. ASSUME NEW r \in Requests, Cleanup(r) PROVE IInv'
  BY <1>14, <1>t DEF Cleanup, Leave
<1>15. ASSUME NEW r \in Requests, Respond(r) PROVE IInv'
  BY <1>15, <1>t DEF Respond
<1>16. CASE Crash
  BY <1>16, <1>t DEF Crash, LoseThreads
<1>17. CASE PowerLoss
  <2> USE <1>17 DEF PowerLoss, LoseThreads
  <2>2. LockHeld' /\ ThreadsInStep' /\ StatHolds'
    OBVIOUS
  \* Files lose only what was not synced; every survivor was synced whole.
  <2>3. \A q \in Requests : synced[q] <= synced'[q] /\ synced'[q] = written'[q]
    OBVIOUS
  <2>4. FilesSafe'
    BY <1>t, <2>3
  <2>5. DiskUpToDate' /\ SpecialAlone' /\ DirectoryKnown'
    OBVIOUS
  <2> QED
    BY <1>t, <2>2, <2>4, <2>5
<1>18. CASE PowerLossTakesDirectory
  BY <1>18, <1>t DEF PowerLossTakesDirectory, LoseThreads
<1>19. CASE UNCHANGED vars
  BY <1>19 DEF vars
<1> QED
  BY <1>1, <1>2, <1>3, <1>4, <1>5, <1>6, <1>7, <1>8, <1>9, <1>10, <1>11, <1>12, <1>13, <1>14, <1>15, <1>16, <1>17, <1>18, <1>19
     DEF Next, Thread, Writer, Environment

\* The inductive invariant holds in every reachable state.
THEOREM Invariance == Spec => []IInv
<1>1. Init => IInv
  <2> SUFFICES ASSUME Init PROVE IInv
    OBVIOUS
  <2>1. TypeOK
    BY InitTypeOK
  <2>2. /\ LockHeld /\ ThreadsInStep /\ NoStrayTemporary /\ StatHolds
    BY NamesAssumption
       DEF Init, LockHeld, ThreadsInStep, NoStrayTemporary, StatHolds, BeforeAnswer, Critical
  <2>3. FilesSafe /\ DiskUpToDate
    BY NamesAssumption DEF Init, FilesSafe, DiskUpToDate
  <2>4. dirDurable <=> dir # "missing"
    BY Zenon DEF Init
  <2>5. target = Special => dir = "present"
    BY NamesAssumption DEF Init
  <2>6. SpecialAlone /\ DirectoryKnown
    BY <2>4, <2>5 DEF Init, SpecialAlone, DirectoryKnown
  <2> QED
    BY <2>1, <2>2, <2>3, <2>6 DEF IInv
<1> QED
  BY <1>1, InvariantStep, PTL DEF Spec

\* Nobody ever opens a partial artifact, whatever interrupts its writing.
THEOREM ArtifactAlwaysWhole == Spec => []ArtifactWhole
<1>1. IInv => ArtifactWhole
  BY ChunksAssumption DEF IInv, TypeOK, FilesSafe, ArtifactWhole
<1> QED
  BY <1>1, Invariance, PTL

\* A receipt outlives every crash and power loss that spares the directory:
\* the artifact is the acknowledged one or a later one.
THEOREM ReceiptsDurable == Spec => []ReceiptDurable
<1>1. IInv => ReceiptDurable
  BY DEF IInv, DiskUpToDate, ReceiptDurable
<1> QED
  BY <1>1, Invariance, PTL

\* Only a crash or a failed unlink leaves a temporary file behind.
THEOREM TemporariesAccounted == Spec => []NoStrayTemporary
<1>1. IInv => NoStrayTemporary
  BY DEF IInv
<1> QED
  BY <1>1, Invariance, PTL

\* replaced_existing is still true of the directory when os.replace runs.
THEOREM ReplacementsReported == Spec => ReplacementReported
<1>1. IInv /\ [Next]_vars =>
        [\A r \in Requests : Replace(r) => (replaced[r] <=> target # Absent)]_vars
  BY DEF IInv, StatHolds, Replace, Step
<1> QED
  BY <1>1, Invariance, PTL DEF Spec, ReplacementReported

-----------------------------------------------------------------------------
(* The refinement of ArtifactRegister.                                       *)

\* os.replace publishes.
LEMMA ReplacePublishes ==
  ASSUME IInv, NEW r \in Requests, Replace(r)
  PROVE  Register!Publish(r)
<1> USE DEF Replace, Step, IInv, TypeOK
<1>1. outcome[r] = "none" /\ turn[r] = 0 /\ target # Special
  BY DEF ThreadsInStep, StatHolds, BeforeAnswer, Critical
<1>2. turn' = [turn EXCEPT ![r] = replaces + 1] /\ replaces + 1 # 0
  OBVIOUS
<1>3. Stage[r] = "pending"
  BY <1>1 DEF Stage
<1>4. Stage' = [Stage EXCEPT ![r] = "published"]
  BY <1>1, <1>2 DEF Stage
<1>5. replaced[r] <=> target # Absent
  BY DEF StatHolds
<1>6. Overwrote' = [Overwrote EXCEPT ![r] = target # Absent]
  BY <1>2, <1>5 DEF Overwrote
<1> QED
  BY <1>1, <1>3, <1>4, <1>6 DEF Register!Publish

\* The fsync of the directory acknowledges.
LEMMA SyncAcknowledges ==
  ASSUME IInv, NEW r \in Requests, SyncDirectory(r)
  PROVE  Register!Acknowledge(r)
<1> USE DEF SyncDirectory, Leave, IInv, TypeOK
<1>1. outcome[r] = "none" /\ turn[r] # 0 /\ target = r
  BY DEF ThreadsInStep, BeforeAnswer, Critical
<1>2. Stage[r] = "published"
  BY <1>1 DEF Stage
<1>3. Stage' = [Stage EXCEPT ![r] = "created"]
  BY DEF Stage, historyVars
<1>4. Overwrote' = Overwrote
  BY DEF Overwrote, historyVars
<1> QED
  BY <1>1, <1>2, <1>3, <1>4 DEF Register!Acknowledge

\* A rejected or failing request has no receipt.
LEMMA FailureRefuses ==
  ASSUME IInv, NEW r \in Requests, Reject(r) \/ Fail(r) \/ Cleanup(r)
  PROVE  Register!Refuse(r)
<1> USE DEF IInv, TypeOK, Leave
<1>1. outcome[r] = "none"
  BY DEF Reject, Fail, Cleanup, ThreadsInStep, BeforeAnswer, Critical
<1>2. /\ UNCHANGED <<target, diskTargets, dirDurable, turn, replaced>>
  BY DEF Reject, Fail, Cleanup, historyVars, diskVars
<1>3. Overwrote' = Overwrote
  BY <1>2 DEF Overwrote
<1>4. PICK o \in {"failed", "rejected"} :
        /\ outcome' = [outcome EXCEPT ![r] = o]
        /\ turn[r] # 0 => o = "failed"
  BY DEF Reject, Fail, Cleanup, ThreadsInStep, BeforeAnswer, Critical
<1>5. Stage' = [Stage EXCEPT ![r] = o]
  <2>1. outcome'[r] = o /\ o # "none"
    BY <1>4
  <2>2. \A q \in Requests \ {r} : outcome'[q] = outcome[q]
    BY <1>4
  <2> QED
    BY <1>2, <2>1, <2>2 DEF Stage
<1>6. Stage[r] = IF turn[r] # 0 THEN "published" ELSE "pending"
  BY <1>1 DEF Stage
<1>7. Stage'[r] = o
  BY <1>5 DEF Stage
<1> QED
  BY <1>2, <1>3, <1>4, <1>5, <1>6, <1>7 DEF Register!Refuse

\* The other steps of a thread do not show.
LEMMA OtherStepsStutter ==
  ASSUME IInv, NEW r \in Requests,
         \/ Admit(r) \/ Acquire(r) \/ Mkdir(r) \/ Open(r) \/ Stat(r) \/ Create(r)
         \/ Write(r) \/ SyncFile(r) \/ FailWithTemporary(r) \/ Respond(r)
  PROVE  UNCHANGED <<target, diskTargets, dirDurable, Stage, Overwrote>>
<1>1. UNCHANGED <<target, diskTargets, dirDurable, turn, outcome>>
  BY DEF Admit, Acquire, Mkdir, Open, Stat, Create, Write, SyncFile,
         FailWithTemporary, Respond, Step, historyVars, diskVars
<1>2. Stage' = Stage
  BY <1>1 DEF Stage
<1>3. \A q \in Requests : turn[q] # 0 => replaced'[q] = replaced[q]
  BY DEF Admit, Acquire, Mkdir, Open, Stat, Create, Write, SyncFile,
         FailWithTemporary, Respond, Step, IInv, TypeOK, ThreadsInStep, BeforeAnswer,
         Critical
<1>4. Overwrote' = Overwrote
  BY <1>1, <1>3 DEF Overwrote
<1> QED
  BY <1>1, <1>2, <1>4

\* A crash does not show, and a power loss reverts to a survivor.
LEMMA CrashesRevert ==
  ASSUME IInv, Environment
  PROVE  \/ Register!Revert
         \/ Register!Vanish
         \/ UNCHANGED <<target, diskTargets, dirDurable, Stage, Overwrote>>
<1>1. UNCHANGED <<outcome, turn, replaced>>
  BY DEF Environment, Crash, PowerLoss, PowerLossTakesDirectory, LoseThreads
<1>2. UNCHANGED <<Stage, Overwrote>>
  BY <1>1 DEF Stage, Overwrote
<1>3. CASE Crash
  BY <1>2, <1>3 DEF Crash, diskVars
<1>4. CASE PowerLoss
  <2>1. dirDurable' \in {dirDurable, TRUE}
    BY <1>4 DEF PowerLoss, IInv, TypeOK, DirectoryKnown
  <2> QED
    BY <1>2, <1>4, <2>1 DEF PowerLoss, Register!Revert
<1>5. CASE PowerLossTakesDirectory
  BY <1>2, <1>5 DEF PowerLossTakesDirectory, Register!Vanish
<1> QED
  BY <1>3, <1>4, <1>5 DEF Environment

\* The writer implements the atomic, durable register.
THEOREM RegisterImplemented == Spec => ImplementsRegister
<1>1. Init => Register!Init
  BY NamesAssumption DEF Init, Register!Init, Stage, Overwrote
<1>2. IInv /\ [Next]_vars => [Register!Next]_(Register!vars)
  <2> SUFFICES ASSUME IInv, [Next]_vars PROVE [Register!Next]_(Register!vars)
    OBVIOUS
  <2>1. ASSUME NEW r \in Requests, Admit(r) \/ Reject(r) \/ Thread(r)
        PROVE  [Register!Next]_(Register!vars)
    BY <2>1, ReplacePublishes, SyncAcknowledges, FailureRefuses, OtherStepsStutter
       DEF Thread, Writer, Register!Next, Register!vars
  <2>2. CASE Environment
    BY <2>2, CrashesRevert DEF Register!Next, Register!vars
  <2>3. CASE UNCHANGED vars
    BY <2>3 DEF vars, Stage, Overwrote, Register!vars
  <2> QED
    BY <2>1, <2>2, <2>3 DEF Next
<1> QED
  BY <1>1, <1>2, Invariance, PTL DEF Spec, ImplementsRegister, Register!Spec
=============================================================================
