CONSTANTS
  Originals <- MCOriginals
  Unsupported <- MCUnsupported
  Signatures <- MCSignatures
  Programs <- MCPrograms
  Outcomes <- MCOutcomes
  NoSignature = none
  MaxAttempts = 30
  Computed <- LsTimeField
  Campaigns <- MCCampaigns
SPECIFICATION FuzzSpec
CHECK_DEADLOCK FALSE
INVARIANTS
  MinimalRepro
  LocalMinimum
  CasesLaunch
PROPERTIES
  Smaller
  StaysInScope
  ArgumentsFit
