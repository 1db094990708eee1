SPECIFICATION StoreSpec
CONSTANTS
  Collections = {"decompound", "stopword"}
  Keys = {"noun1", "noun2", "stop"}
  CollectionOf <- ExactCollectionOf
  Words <- ExactWords
  Contents <- ExactContents
  KeyEditable = {}
  Admins = {admin}
  Writers = {writer}
  NoOne = NoOne
  Unset = Unset
  Requests = {r1, r2}
  CreateStatuses = {"DRAFT"}
  UpdateStatuses = {"APPROVED", "REJECTED"}
  OneCreatePerKey = TRUE
  MaxDocs = 3
INVARIANTS TypeOK UniqueKey LookupFresh ApprovalRecorded
PROPERTY IndexStable
