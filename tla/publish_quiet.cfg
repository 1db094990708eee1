SPECIFICATION Spec
CONSTANTS
  Admins = {admin}
  CollectionOf <- MCCollectionOf
  CollectionSeq <- MCSeqNouns
  Collections = {"user", "decompound"}
  Contents <- MCContents
  CreateStatuses = {"DRAFT"}
  EditsWhilePublishing = FALSE
  FileOf <- MCFileOf
  KeyEditable = {}
  Keys = {"noun1", "name1"}
  Kinds = {"block"}
  Lineless <- MCLineless
  MaxDocs = 2
  MaxFaults = 1
  MaxTime = 1
  Missing = Missing
  NoFolder = {}
  NoOne = NoOne
  NumFiles = 1
  NumServers = 1
  OneCreatePerKey = TRUE
  Publishers = {p1, p2}
  Requests = {r1}
  Torn = Torn
  Unkeyed = {""}
  Unset = Unset
  UpdateStatuses = {"APPROVED"}
  Words <- MCWords
  WorkerOf <- OwnWorker
  Workers = {p1, p2}
  Writers = {}
INVARIANT DeployTypeOK
INVARIANT AppliedServed
INVARIANT ShippedWasValidated
PROPERTY EntriesLive
SYMMETRY PublisherSymmetry
