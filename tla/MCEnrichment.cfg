\* One finding, and a provider that answers with an infinite score.
SPECIFICATION Spec
CONSTANTS
  publicV4 = publicV4
  publicV6 = publicV6
  private = private
  NoIP = NoIP
  Sources <- MCSources
  GlobalUnicast <- MCGlobalUnicast
  GlobalIPv4 <- MCGlobalIPv4
  MaxFindings = 1
  Profiles <- MCProfiles
  AbuseScores <- MCAbuseScores
INVARIANT
  InvalidResponsesNeutral
CHECK_DEADLOCK FALSE
