SPECIFICATION Spec
CONSTANTS
  Admins = {admin}
  CollectionOf <- MCCollectionOf
  CollectionSeq <- MCSeqNoun
  Collections = {"decompound"}
  Contents <- MCContents1
  CreateStatuses = {"DRAFT"}
  EditsWhilePublishing = TRUE
  FileOf <- MCFileOf
  KeyEditable = {}
  Keys = {"noun1"}
  Kinds = {"block", "stream"}
  Lineless <- MCLineless
  MaxDocs = 1
  MaxFaults = 1
  MaxTime = 1
  Missing = Missing
  NoFolder = {}
  NoOne = NoOne
  NumFiles = 1
  NumServers = 2
  OneCreatePerKey = TRUE
  Publishers = {p1}
  Requests = {r1}
  Torn = Torn
  Unkeyed = {""}
  Unset = Unset
  UpdateStatuses = {"APPROVED", "REJECTED"}
  Words <- MCWords
  WorkerOf <- OneWorker
  Workers = {"w1"}
  Writers = {}
PROPERTY AppliedFromApproved
