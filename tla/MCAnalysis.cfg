\* Logs of up to three records, every mix of keys and provider answers.
SPECIFICATION AnalysisSpec
CONSTANTS
  publicV4 = publicV4
  publicV6 = publicV6
  private = private
  NoIP = NoIP
  Sources = {publicV4, publicV6, private}
  GlobalUnicast = {publicV4, publicV6}
  GlobalIPv4 = {publicV4}
  MaxFindings = 0
  Profiles <- MCProfiles
  AbuseScores <- MCAbuseScores
  Files <- MCFiles
  Formats = {"auto", "json", "nginx"}
INVARIANTS
  AnalysisTypeOK
  AskedOnce
  ClientsHeld
  NeutralUnlessLive
  LoweredOnlyByNoise
  AllOrNothing
  FindingsComplete
  ReportBuilt
