SPECIFICATION FairSpec
CONSTANTS
  NoZone = NoZone
  ZoneId = NoZone
  Domains <- TwoDomains
  Zones <- OneZone
  Issues = {1, 2, 3, 4}
  Lifetime = 7
  Window = 6
  CheckInterval = 2
  FirstBackoff = 1
  MaxBackoff = 2
INVARIANTS
  RecordsCleanedUp
  ServedPairMatches
  RestartKeepsCertificate
  RenewalKeepsPace
PROPERTY
  RenewalIsTried
