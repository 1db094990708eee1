SPECIFICATION StoreSpec
CONSTANTS
  Collections = {"synonym"}
  Keys = {"a", "b", "ab"}
  CollectionOf <- SynonymCollectionOf
  Words <- SynonymWords
  Contents <- SynonymContents
  KeyEditable = {"synonym"}
  Admins = {admin}
  Writers = {writer}
  NoOne = NoOne
  Unset = Unset
  Requests = {r1}
  CreateStatuses = {"DRAFT"}
  UpdateStatuses = {"APPROVED"}
  OneCreatePerKey = TRUE
  MaxDocs = 3
INVARIANTS UniqueIndex
