SPECIFICATION FairSpec
CONSTANTS
  ads = ads
  NoDoc = NoDoc
  Domains <- MCDomains
  Tasks = {t1, t2, t3}
  Lists <- OneList
  Kind <- OneKind
  Docs <- MCDocs
INVARIANTS
 SnapshotReflectsLists
 DecisionsFollowLists
PROPERTY
  FetchedIsPublished
