CONSTANTS
  Originals <- ListingOriginals
  Unsupported <- MCUnsupported
  Signatures = {stdout}
  Programs <- ListingPrograms
  Outcomes <- MCOutcomes
  NoSignature = none
  MaxAttempts = 5
  Computed <- LsTimeField
  Campaigns <- ListingCampaigns
SPECIFICATION FuzzSpec
CHECK_DEADLOCK FALSE
INVARIANT LinksResolve
