----------------------------- MODULE Remediation -----------------------------
(***************************************************************************)
(* The approval-gated artifact writer: execute_playbook (web/app.py) runs   *)
(* generate_firewall_remediation (web/remediation.py) in a thread pool, one *)
(* thread per approval.  The threads share the process-wide _ARTIFACT_LOCK, *)
(* one directory and one artifact name.                                     *)
(*                                                                          *)
(* The content of an artifact is abstracted to the approval it was rendered *)
(* for (every rendering carries a fresh receipt id) and to how many of its  *)
(* Chunks are in the file.  The file system is modelled twice: what the     *)
(* running system sees, and what a power loss may leave of it.  A file's    *)
(* data is safe once fsync'ed, a directory entry once the directory is.     *)
(***************************************************************************)
EXTENDS Naturals

CONSTANTS
  Requests,    \* approvals the server receives; each is handled once
  Chunks,      \* os.write calls a whole artifact takes
  MaxCrashes,  \* bound on process crashes and power losses
  Absent,      \* the artifact name is not in the directory
  Prior,       \* a regular artifact written before the modelled period
  Special,     \* a symlink or other non-regular file under the artifact name
  None         \* nobody holds the lock

ASSUME ChunksAssumption == Chunks \in Nat \ {0}
ASSUME MaxCrashesAssumption == MaxCrashes \in Nat
ASSUME NamesAssumption ==
  /\ Requests \cap {Absent, Prior, Special, None} = {}
  /\ Absent # Prior
  /\ Absent # Special
  /\ Prior # Special

VARIABLES
  pc,          \* where each request's thread is
  lock,        \* holder of _ARTIFACT_LOCK
  outcome,     \* what generate_firewall_remediation returned or raised
  replaced,    \* the local replaced_existing of each thread
  dir,         \* the remediation directory: missing, present or unsafe
  target,      \* what the artifact name refers to
  temps,       \* temporary names in the directory (named by their request)
  written,     \* chunks in each request's file
  synced,      \* chunks of it that a power loss cannot take
  diskTargets, \* what the artifact name may refer to after a power loss
  diskTemps,   \* temporary names that may be there after a power loss
  dirDurable,  \* the remediation directory's own entry survives a power loss
  crashes,     \* process crashes and power losses so far
  replaces,    \* history: number of replaces so far
  turn,        \* history: position of each request's replace, 0 if none
  abandoned,   \* history: temporary names a crash or a failed unlink left
  vanished     \* history: a power loss took the remediation directory

threadVars == <<pc, lock, outcome, replaced>>
dataVars == <<written, synced>>
diskVars == <<diskTargets, diskTemps, dirDurable>>
historyVars == <<replaces, turn, abandoned, vanished>>
vars == <<pc, lock, outcome, replaced, dir, target, temps, written, synced,
          diskTargets, diskTemps, dirDurable, crashes, replaces, turn,
          abandoned, vanished>>

\* Locations inside `with _ARTIFACT_LOCK`.
Critical == {"mkdir", "open", "stat", "create", "write", "replace", "syncdir", "cleanup"}
InFlight == Critical \cup {"waiting", "answering"}
Locations == InFlight \cup {"idle", "answered", "lost"}
Outcomes == {"none", "created", "failed", "rejected"}

\* The values the artifact name can have.
Targets == Requests \cup {Absent, Prior, Special}

Init ==
  /\ pc = [r \in Requests |-> "idle"]
  /\ lock = None
  /\ outcome = [r \in Requests |-> "none"]
  /\ replaced = [r \in Requests |-> FALSE]
  /\ dir \in {"missing", "present", "unsafe"}
  /\ target \in IF dir = "present" THEN {Absent, Prior, Special} ELSE {Absent}
  /\ temps = {}
  /\ written = [r \in Requests |-> 0]
  /\ synced = [r \in Requests |-> 0]
  /\ diskTargets = {target}
  /\ diskTemps = {}
  /\ dirDurable = (dir # "missing")
  /\ crashes = 0
  /\ replaces = 0
  /\ turn = [r \in Requests |-> 0]
  /\ abandoned = {}
  /\ vanished = FALSE
-----------------------------------------------------------------------------
(* Before the lock: the request is validated and its targets derived.        *)

\* Every check passed: the script is rendered and the thread wants the lock.
Admit(r) ==
  /\ pc[r] = "idle"
  /\ pc' = [pc EXCEPT ![r] = "waiting"]
  /\ UNCHANGED <<lock, outcome, replaced, dir, target, temps, dataVars,
                 diskVars, crashes, historyVars>>

\* A relative AUTOSOC_DATA_DIR fails the request; no eligible target, or more
\* than fifty, rejects it.  Neither touches the lock or the file system.
Reject(r) ==
  /\ pc[r] = "idle"
  /\ pc' = [pc EXCEPT ![r] = "answering"]
  /\ \E o \in {"failed", "rejected"} : outcome' = [outcome EXCEPT ![r] = o]
  /\ UNCHANGED <<lock, replaced, dir, target, temps, dataVars, diskVars,
                 crashes, historyVars>>

\* Faulty variant: the lock is not waited for.
AcquireUnlocked(r) ==
  /\ pc[r] = "waiting"
  /\ lock' = r
  /\ pc' = [pc EXCEPT ![r] = "mkdir"]
  /\ UNCHANGED <<outcome, replaced, dir, target, temps, dataVars, diskVars,
                 crashes, historyVars>>

Acquire(r) ==
  /\ pc[r] = "waiting"
  /\ lock = None
  /\ lock' = r
  /\ pc' = [pc EXCEPT ![r] = "mkdir"]
  /\ UNCHANGED <<outcome, replaced, dir, target, temps, dataVars, diskVars,
                 crashes, historyVars>>

-----------------------------------------------------------------------------
(* Under the lock: _atomic_write_artifact, one action per system call.       *)

\* The thread goes on to its next system call.
Step(r, from, to) ==
  /\ pc[r] = from
  /\ pc' = [pc EXCEPT ![r] = to]
  /\ UNCHANGED <<lock, outcome, crashes>>

\* Faulty variant: an exception leaves the block with the lock still held.
LeaveLocked(r, o) ==
  /\ pc' = [pc EXCEPT ![r] = "answering"]
  /\ lock' = IF o = "created" THEN None ELSE lock
  /\ outcome' = [outcome EXCEPT ![r] = o]
  /\ UNCHANGED crashes

\* The `with` block is left and the lock released, by return or by exception.
Leave(r, o) ==
  /\ pc' = [pc EXCEPT ![r] = "answering"]
  /\ lock' = None
  /\ outcome' = [outcome EXCEPT ![r] = o]
  /\ UNCHANGED crashes

\* FileExistsError is ignored; the parent is never fsync'ed, so a directory
\* made here has no durable entry.
Mkdir(r) ==
  /\ Step(r, "mkdir", "open")
  /\ dir' = IF dir = "missing" THEN "present" ELSE dir
  /\ UNCHANGED <<replaced, target, temps, dataVars, diskVars, historyVars>>

Open(r) ==
  /\ dir = "present"
  /\ Step(r, "open", "stat")
  /\ UNCHANGED <<replaced, dir, target, temps, dataVars, diskVars, historyVars>>

Stat(r) ==
  /\ target # Special
  /\ Step(r, "stat", "create")
  /\ replaced' = [replaced EXCEPT ![r] = target # Absent]
  /\ UNCHANGED <<dir, target, temps, dataVars, diskVars, historyVars>>

Create(r) ==
  /\ Step(r, "create", "write")
  /\ temps' = temps \cup {r}
  /\ diskTemps' = diskTemps \cup {r}
  /\ UNCHANGED <<replaced, dir, target, dataVars, diskTargets, dirDurable,
                 historyVars>>

\* One os.write: any positive number of the chunks that are left.
Write(r) ==
  /\ Step(r, "write", "write")
  /\ \E n \in written[r] + 1 .. Chunks : written' = [written EXCEPT ![r] = n]
  /\ UNCHANGED <<replaced, dir, target, temps, synced, diskVars, historyVars>>

\* Faulty variant: the file is renamed without an fsync of its data.
SyncFileSkipped(r) ==
  /\ written[r] = Chunks
  /\ Step(r, "write", "replace")
  /\ UNCHANGED <<replaced, dir, target, temps, dataVars, diskVars, historyVars>>

SyncFile(r) ==
  /\ written[r] = Chunks
  /\ Step(r, "write", "replace")
  /\ synced' = [synced EXCEPT ![r] = written[r]]
  /\ UNCHANGED <<replaced, dir, target, temps, written, diskVars, historyVars>>

Replace(r) ==
  /\ Step(r, "replace", "syncdir")
  /\ target' = r
  /\ temps' = temps \ {r}
  /\ diskTargets' = diskTargets \cup {r}
  /\ replaces' = replaces + 1
  /\ turn' = [turn EXCEPT ![r] = replaces + 1]
  /\ UNCHANGED <<replaced, dir, dataVars, diskTemps, dirDurable, abandoned, vanished>>

\* Faulty variant: the directory is not fsync'ed before the receipt.
SyncDirectorySkipped(r) ==
  /\ pc[r] = "syncdir"
  /\ Leave(r, "created")
  /\ UNCHANGED <<replaced, dir, target, temps, dataVars, diskVars, historyVars>>

SyncDirectory(r) ==
  /\ pc[r] = "syncdir"
  /\ diskTargets' = {target}
  /\ diskTemps' = temps
  /\ Leave(r, "created")
  /\ UNCHANGED <<replaced, dir, target, temps, dataVars, dirDurable, historyVars>>

\* A system call fails, a symlink or a non-regular file is met, or another
\* exception is raised: before the temporary file exists, or after it became
\* the artifact, nothing is left to clean up.
Fail(r) ==
  /\ pc[r] \in {"mkdir", "open", "stat", "create", "syncdir"}
  /\ Leave(r, "failed")
  /\ UNCHANGED <<replaced, dir, target, temps, dataVars, diskVars, historyVars>>

\* Faulty variant: a failing write or replace skips the clean-up.
FailForgetting(r) ==
  /\ pc[r] \in {"write", "replace"}
  /\ Leave(r, "failed")
  /\ UNCHANGED <<replaced, dir, target, temps, dataVars, diskVars, historyVars>>

FailWithTemporary(r) ==
  /\ \E from \in {"write", "replace"} : Step(r, from, "cleanup")
  /\ UNCHANGED <<replaced, dir, target, temps, dataVars, diskVars, historyVars>>

\* The `finally` clause; an unlink that fails is ignored.
Cleanup(r) ==
  /\ pc[r] = "cleanup"
  /\ \/ /\ temps' = temps \ {r}
        /\ UNCHANGED abandoned
     \/ /\ abandoned' = abandoned \cup {r}
        /\ UNCHANGED temps
  /\ Leave(r, "failed")
  /\ UNCHANGED <<replaced, dir, target, dataVars, diskVars, replaces, turn, vanished>>

-----------------------------------------------------------------------------
\* execute_playbook answers 201 with the receipt, 422 or 500.
Respond(r) ==
  /\ pc[r] = "answering"
  /\ pc' = [pc EXCEPT ![r] = "answered"]
  /\ UNCHANGED <<lock, outcome, replaced, dir, target, temps, dataVars,
                 diskVars, crashes, historyVars>>

\* The process ends: every thread is gone, and the lock with them.
LoseThreads ==
  /\ crashes < MaxCrashes
  /\ crashes' = crashes + 1
  /\ pc' = [r \in Requests |-> IF pc[r] \in InFlight THEN "lost" ELSE pc[r]]
  /\ lock' = None
  /\ UNCHANGED <<outcome, replaced, replaces, turn>>

\* The process is killed and restarted: what it wrote stays in the page cache.
Crash ==
  /\ LoseThreads
  /\ abandoned' = abandoned \cup temps
  /\ UNCHANGED <<dir, target, temps, dataVars, diskVars, vanished>>

\* The host loses power: files keep at least what was fsync'ed, and the
\* directory is one its unsynced changes may have left.
PowerLoss ==
  /\ LoseThreads
  /\ \E kept \in [Requests -> 0 .. Chunks] :
       /\ \A r \in Requests : synced[r] <= kept[r] /\ kept[r] <= written[r]
       /\ written' = kept
       /\ synced' = kept
  /\ target' \in diskTargets
  /\ temps' \in SUBSET (diskTemps \ {target'})
  /\ diskTargets' = {target'}
  /\ diskTemps' = temps'
  /\ abandoned' = abandoned \cup temps'
  /\ dirDurable' = (dir # "missing")
  /\ UNCHANGED <<dir, vanished>>

\* The same, and the directory's own entry had not reached the disk.
PowerLossTakesDirectory ==
  /\ LoseThreads
  /\ dir = "present"
  /\ ~dirDurable
  /\ dir' = "missing"
  /\ target' = Absent
  /\ temps' = {}
  /\ diskTargets' = {Absent}
  /\ diskTemps' = {}
  /\ vanished' = TRUE
  /\ UNCHANGED <<dataVars, dirDurable, abandoned>>

Writer(r) ==
  \/ Mkdir(r) \/ Open(r) \/ Stat(r) \/ Create(r) \/ Write(r) \/ SyncFile(r)
  \/ Replace(r) \/ SyncDirectory(r)
  \/ Fail(r) \/ FailWithTemporary(r) \/ Cleanup(r)

Thread(r) == Acquire(r) \/ Writer(r) \/ Respond(r)

Environment == Crash \/ PowerLoss \/ PowerLossTakesDirectory

Next ==
  \/ \E r \in Requests : Admit(r) \/ Reject(r) \/ Thread(r)
  \/ Environment

\* A thread keeps running; nothing makes a client send or a host fail.
Fairness == \A r \in Requests : WF_vars(Thread(r))

Spec == Init /\ [][Next]_vars
FairSpec == Spec /\ Fairness
-----------------------------------------------------------------------------
TypeOK ==
  /\ pc \in [Requests -> Locations]
  /\ lock \in Requests \cup {None}
  /\ outcome \in [Requests -> Outcomes]
  /\ replaced \in [Requests -> BOOLEAN]
  /\ dir \in {"missing", "present", "unsafe"}
  /\ target \in Targets
  /\ temps \in SUBSET Requests
  /\ written \in [Requests -> 0 .. Chunks]
  /\ synced \in [Requests -> 0 .. Chunks]
  /\ diskTargets \in SUBSET Targets
  /\ diskTemps \in SUBSET Requests
  /\ dirDurable \in BOOLEAN
  /\ crashes \in 0 .. MaxCrashes
  /\ replaces \in Nat
  /\ turn \in [Requests -> Nat]
  /\ abandoned \in SUBSET Requests
  /\ vanished \in BOOLEAN

\* Whoever opens the artifact finds one whole rendering, in every state: while
\* another approval is being written, after a failed write, and after a power
\* loss at any point of one (fsync, then os.replace, L282-291).
ArtifactWhole ==
  target \in Requests => written[target] = Chunks

\* An approval answered with a receipt stays in force: the artifact is its own
\* or that of a later replace, also after a power loss (os.fsync of the
\* directory, L293), unless the directory itself was lost.
ReceiptDurable ==
  \A r \in Requests :
    outcome[r] = "created" /\ ~vanished =>
      target \in Requests /\ turn[r] <= turn[target]

\* A temporary name is in the directory only while its writer is between its
\* creation and its removal, or because a crash or a failed unlink left it:
\* no failing path forgets the clean-up (L273, L292, L302-306).
NoStrayTemporary ==
  \A r \in temps : pc[r] \in {"write", "replace", "cleanup"} \/ r \in abandoned

\* The receipt's replaced_existing tells whether the replace it reports
\* overwrote a regular artifact: what a thread saw in stat (L257) still holds
\* when it calls os.replace (L286), whatever the other threads do.
ReplacementReported ==
  [][\A r \in Requests : Replace(r) => (replaced[r] <=> target # Absent)]_vars

\* Every approval whose thread has started is answered, unless the process is
\* killed: no path leaves the lock held or loses a thread.
EveryApprovalAnswered ==
  \A r \in Requests : pc[r] \in InFlight ~> pc[r] \in {"answered", "lost"}

\* "returns `201 Created` only after it safely writes the artifact"
\* (docs/architecture.md:313-314), read without the exception ReceiptDurable
\* makes for the directory: os.mkdir (L171) is not followed by an fsync of the
\* data directory, so the first receipt's artifact can still be lost.
ReceiptSafelyWritten ==
  \A r \in Requests : outcome[r] = "created" => target \in Requests

-----------------------------------------------------------------------------
(* The inductive invariant behind the properties above.                      *)

BeforeAnswer == {"idle", "waiting"} \cup Critical

\* The lock and the locations agree.
LockHeld == \A r \in Requests : pc[r] \in Critical <=> lock = r

\* Outcome and turn follow the location; what was just replaced is in place.
ThreadsInStep ==
  \A r \in Requests :
    /\ pc[r] \in BeforeAnswer => outcome[r] = "none"
    /\ pc[r] \in BeforeAnswer \ {"syncdir"} => turn[r] = 0
    /\ pc[r] = "syncdir" => turn[r] # 0 /\ target = r
    /\ turn[r] <= replaces

\* Whatever is, or may come back as, the artifact is whole and on disk.
FilesSafe ==
  \A r \in Requests :
    /\ synced[r] <= written[r]
    /\ pc[r] = "replace" \/ r = target \/ r \in diskTargets => synced[r] = Chunks

\* From stat to os.replace the artifact name is what the thread saw.
StatHolds ==
  \A r \in Requests :
    pc[r] \in {"create", "write", "replace"} =>
      target # Special /\ (replaced[r] <=> target # Absent)

\* No artifact a power loss may bring back is older than an acknowledged one.
DiskUpToDate ==
  /\ target \in diskTargets
  /\ \A r \in Requests, t \in diskTargets :
       outcome[r] = "created" /\ ~vanished => t \in Requests /\ turn[r] <= turn[t]

\* A non-regular target is in a directory that lasts, and the only survivor.
SpecialAlone ==
  Special \in diskTargets =>
    diskTargets = {Special} /\ dirDurable /\ dir # "missing"

DirectoryKnown == dir = "missing" => ~dirDurable

\* Together these are preserved by every step and imply the properties above;
\* none of the properties is preserved on its own, because none mentions the
\* lock or what a power loss may leave.
IInv ==
  /\ TypeOK
  /\ LockHeld
  /\ ThreadsInStep
  /\ FilesSafe
  /\ StatHolds
  /\ DiskUpToDate
  /\ SpecialAlone
  /\ DirectoryKnown
  /\ NoStrayTemporary

-----------------------------------------------------------------------------
(* The protocol above implements an atomic, durable register.                *)

Stage == [r \in Requests |->
           IF outcome[r] # "none" THEN outcome[r]
           ELSE IF turn[r] # 0 THEN "published" ELSE "pending"]

Overwrote == [r \in Requests |-> turn[r] # 0 /\ replaced[r]]

Register == INSTANCE ArtifactRegister WITH
  artifact <- target,
  survivors <- diskTargets,
  anchored <- dirDurable,
  stage <- Stage,
  overwrote <- Overwrote

\* The lock, the temporary files and the system calls are invisible: to a
\* reader of the artifact and its receipts every approval takes effect at once.
ImplementsRegister == Register!Spec
=============================================================================
