\* Reports of up to three events, and caps that three sources exceed.
SPECIFICATION Spec
CONSTANTS
  Hosts <- MCHosts
  NoIP = NoIP
  MaxEvents = 3
  MaxCommands = 1
  MaxTargets = 2
INVARIANTS
  TypeOK
  SourcesAccounted
  ApprovalCoversPreview
  ArtifactWholeOrNone
CHECK_DEADLOCK FALSE
