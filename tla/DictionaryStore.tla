-------------------------- MODULE DictionaryStore --------------------------
(***************************************************************************)
(* The dictionary collections in MongoDB and the requests that edit them.  *)
(*                                                                         *)
(* The five services of dictionary_service.py are one program with other   *)
(* key fields, so one sequence of documents stands for all collections: a  *)
(* key belongs to one collection, and position order is MongoDB's natural  *)
(* order, the one in which find_one and update_one look for a match.       *)
(*                                                                         *)
(* A call to MongoDB is atomic and each await lets other requests run:     *)
(* create() takes two or three such steps, so a create in progress is      *)
(* kept in "creates" between them; update() and delete() take one.         *)
(***************************************************************************)
EXTENDS Integers, Sequences, FiniteSets

CONSTANTS
  Collections,      \* the collections: user, decompound, synonym, correction, stopword
  Keys,             \* the values of the key fields
  CollectionOf,     \* the collection a key belongs to
  Words,            \* the words a key is made of: several for a synonym group
  Contents,         \* Contents[k]: what an entry of key k can hold beside its key
  KeyEditable,      \* the collections whose update request carries the key (synonym)
  Admins, Writers,  \* the users of role ADMIN and WRITER
  NoOne,            \* approver = None
  Unset,            \* a field the update request leaves out
  Requests,         \* the create requests that can be in progress together
  CreateStatuses,   \* the statuses clients put in create requests
  UpdateStatuses,   \* the statuses clients put in update requests
  OneCreatePerKey,  \* clients never send two overlapping creates of one key
  MaxDocs           \* bound on the number of documents

Statuses  == {"DRAFT", "APPROVED", "REJECTED", "APPLIED"}
Decisions == {"APPROVED", "REJECTED"}
Users     == Admins \cup Writers

ASSUME StoreAssumption ==
  /\ CollectionOf \in [Keys -> Collections]
  /\ KeyEditable \subseteq Collections
  /\ Unset \notin Statuses /\ Unset \notin Keys
  /\ \A k \in Keys : Unset \notin Contents[k]
  /\ NoOne \notin Admins
  /\ CreateStatuses \subseteq Statuses
  /\ UpdateStatuses \subseteq Statuses
  /\ OneCreatePerKey \in BOOLEAN
  /\ MaxDocs \in Nat

(* What an entry may hold, whatever its key. *)
AllContents == UNION {Contents[k] : k \in Keys}

VARIABLES
  docs,     \* the documents, soft-deleted ones included, in natural order
  creates   \* the create requests between two of their MongoDB calls

storeVars == <<docs, creates>>

Doc == [key : Keys, content : AllContents, index : Nat \ {0}, delete_yn : {"N", "Y"},
        status : Statuses, approver : Users \cup {NoOne}]

Create == [id : Requests, key : Keys, content : AllContents, status : CreateStatuses,
           step : {"number", "insert", "restore"}, at : Nat, index : Nat]

-----------------------------------------------------------------------------
(* The queries: sets of positions, and the first of them in natural order. *)

First(S) == CHOOSE i \in S : \A j \in S : i <= j

Same(k) == {i \in DOMAIN docs : docs[i].key = k}

Active == {i \in DOMAIN docs : docs[i].delete_yn = "N"}

(* Mutant: the lookup asks for active entries only. *)
CoveringActiveOnly(k) ==
  {i \in Active : /\ CollectionOf[docs[i].key] = CollectionOf[k]
                  /\ Words[k] # {}
                  /\ Words[k] \subseteq Words[docs[i].key]}

(* The lookup of create(): equality of the key, which for a synonym group is *)
(* "$all": a stored group that has every word asked for.                     *)
Covering(k) ==
  {i \in DOMAIN docs : /\ CollectionOf[docs[i].key] = CollectionOf[k]
                       /\ Words[k] # {}
                       /\ Words[k] \subseteq Words[docs[i].key]}

ByStatus(c, st) ==
  {i \in Active : CollectionOf[docs[i].key] = c /\ docs[i].status = st}

Indexes(c) == {docs[i].index : i \in {j \in DOMAIN docs : CollectionOf[docs[j].key] = c}}

(* Mutants: indexes from 0; one more than the number of active entries. *)
NextIndexFromZero(c) ==
  IF Indexes(c) = {} THEN 0
  ELSE 1 + CHOOSE m \in Indexes(c) : \A n \in Indexes(c) : n <= m

NextIndexOfActive(c) ==
  Cardinality({j \in Active : CollectionOf[docs[j].key] = c}) + 1

(* The index of a new entry: one above the highest, deleted entries counted. *)
NextIndex(c) ==
  IF Indexes(c) = {} THEN 1
  ELSE 1 + CHOOSE m \in Indexes(c) : \A n \in Indexes(c) : n <= m

-----------------------------------------------------------------------------
StoreInit == docs = <<>> /\ creates = {}

(* Mutant: an entry found is restored, deleted or not. *)
AnyRestorable(d) == TRUE

Restorable(d) == d.delete_yn = "Y"

(* create() looks the key up, in active and deleted entries alike: an active *)
(* one ends the request with a 400, a deleted one will be restored.          *)
Lookup(r, k, c, st) ==
  LET found == Covering(k)
      Begin(step, at, index) ==
        creates' = creates \cup
          {[id |-> r, key |-> k, content |-> c, status |-> st,
            step |-> step, at |-> at, index |-> index]}
  IN  /\ \A y \in creates : y.id # r /\ (OneCreatePerKey => y.key # k)
      /\ Len(docs) + Cardinality(creates) < MaxDocs
      /\ \/ found = {} /\ Begin("number", 0, 0)
         \/ /\ found # {} /\ Restorable(docs[First(found)])
            /\ Begin("restore", First(found), docs[First(found)].index)
      /\ UNCHANGED docs

(* BaseMongoRepository.create reads the highest index ... *)
Number(x) ==
  /\ x.step = "number"
  /\ creates' = (creates \ {x}) \cup
       {[x EXCEPT !.step = "insert", !.index = NextIndex(CollectionOf[x.key])]}
  /\ UNCHANGED docs

(* ... and inserts the entry, with the status of the request. *)
Insert(x) ==
  /\ x.step = "insert"
  /\ docs' = Append(docs, [key |-> x.key, content |-> x.content, index |-> x.index,
                           delete_yn |-> "N", status |-> x.status, approver |-> NoOne])
  /\ creates' = creates \ {x}

(* Mutant: a restored entry is numbered like a new one. *)
RenumberedDoc(x) ==
  [key |-> x.key, content |-> x.content, index |-> NextIndex(CollectionOf[x.key]),
   delete_yn |-> "N", status |-> "DRAFT", approver |-> NoOne]

(* The entity of the request with the index the lookup found. *)
RestoredDoc(x) ==
  [key |-> x.key, content |-> x.content, index |-> x.index,
   delete_yn |-> "N", status |-> "DRAFT", approver |-> NoOne]

(* replace_one by _id: whatever has become of the document since the lookup. *)
Restore(x) ==
  /\ x.step = "restore"
  /\ docs' = [docs EXCEPT ![x.at] = RestoredDoc(x)]
  /\ creates' = creates \ {x}

(* A MongoDB error, a cancelled request or a crash of the worker. *)
CreateFails(x) == creates' = creates \ {x} /\ UNCHANGED docs

UpdateReqs == [status : UpdateStatuses \cup {Unset}, content : AllContents \cup {Unset},
               key : Keys \cup {Unset}]

Given(value, current) == IF value = Unset THEN current ELSE value

(* Mutant: any user decides. *)
AnyoneDecides(u, req) == TRUE

MayUpdate(u, req) == req.status \in Decisions => u \in Admins

Edited(d, u, req) ==
  [d EXCEPT !.status   = IF req.status = Unset THEN "DRAFT" ELSE req.status,
            !.approver = IF req.status \in Decisions THEN u ELSE @,
            !.content  = Given(req.content, @),
            !.key      = Given(req.key, @)]

(* The update endpoint: only an ADMIN decides; any other edit goes back to   *)
(* DRAFT unless the request names a status.                                  *)
Update(u, k, req) ==
  /\ MayUpdate(u, req)
  /\ req.content # Unset => req.content \in Contents[k]
  /\ req.key # Unset => /\ CollectionOf[k] \in KeyEditable
                        /\ CollectionOf[req.key] = CollectionOf[k]
  /\ LET hit == Same(k) \cap Active
     IN  /\ hit # {}
         /\ docs' = [docs EXCEPT ![First(hit)] = Edited(@, u, req)]
  /\ UNCHANGED creates

DeletedDoc(d) == [d EXCEPT !.delete_yn = "Y", !.status = "DRAFT", !.approver = NoOne]

(* delete() does not ask for an active entry: the first match is taken. *)
Delete(k) ==
  /\ Same(k) # {}
  /\ docs' = [docs EXCEPT ![First(Same(k))] = DeletedDoc(@)]
  /\ UNCHANGED creates

(* Mutant: the filter does not name the key. *)
SetStatusOfAll(k, st) ==
  docs' = [i \in DOMAIN docs |->
             IF i \in Active THEN [docs[i] EXCEPT !.status = st] ELSE docs[i]]

(* update_status(), called by the deployment only: it selects by key and by  *)
(* delete_yn, whatever the status and the content have become.               *)
SetStatus(k, st) ==
  docs' = IF Same(k) \cap Active = {} THEN docs
          ELSE [docs EXCEPT ![First(Same(k) \cap Active)].status = st]

StoreNext ==
  \/ \E r \in Requests, k \in Keys, st \in CreateStatuses :
       \E c \in Contents[k] : Lookup(r, k, c, st)
  \/ \E x \in creates : Number(x)
  \/ \E x \in creates : Insert(x)
  \/ \E x \in creates : Restore(x)
  \/ \E x \in creates : CreateFails(x)
  \/ \E u \in Users, k \in Keys, req \in UpdateReqs : Update(u, k, req)
  \/ \E k \in Keys : Delete(k)

StoreSpec == StoreInit /\ [][StoreNext]_storeVars
-----------------------------------------------------------------------------
(* Documents and creates in progress have the fields the code gives them. *)
TypeOK ==
  /\ docs \in Seq(Doc)
  /\ creates \subseteq Create
  /\ \A x \in creates : /\ x.step = "restore" => x.at \in DOMAIN docs /\ x.index > 0
                        /\ x.step = "insert" => x.index > 0

(* No two documents of a collection have one key: create() looks the key up  *)
(* in active and deleted entries and restores instead of inserting.          *)
UniqueKey ==
  \A i, j \in DOMAIN docs : docs[i].key = docs[j].key => i = j

(* The index, the number entries are listed by, is used once in a collection *)
(* although the highest one is read in one call and used in another.         *)
UniqueIndex ==
  \A i, j \in DOMAIN docs :
    /\ docs[i].index = docs[j].index
    /\ CollectionOf[docs[i].key] = CollectionOf[docs[j].key]
    => i = j

(* What create() learned in its lookup is still so when it writes, whatever  *)
(* other requests did in between: there is still no entry of the key, or the *)
(* entry to be replaced is still this key's, deleted, and of that index.     *)
LookupFresh ==
  \A x \in creates :
    IF x.step = "restore"
    THEN /\ docs[x.at].key = x.key
         /\ docs[x.at].delete_yn = "Y"
         /\ docs[x.at].index = x.index
    ELSE Same(x.key) = {}

(* An APPROVED entry, deleted or not, names the ADMIN who approved it: no    *)
(* order of edits, deletions and restorations leaves the status of one       *)
(* approval with the approver of another state.                              *)
ApprovalRecorded ==
  \A i \in DOMAIN docs : docs[i].status = "APPROVED" => docs[i].approver \in Admins

(* Documents are never removed, and one keeps its index and its collection   *)
(* through edits, deletion and restoration, even by overlapping requests.    *)
IndexStable ==
  [][\A i \in DOMAIN docs :
       /\ i \in DOMAIN docs'
       /\ docs'[i].index = docs[i].index
       /\ CollectionOf[docs'[i].key] = CollectionOf[docs[i].key]]_storeVars
=============================================================================
