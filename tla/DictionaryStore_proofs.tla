----------------------- MODULE DictionaryStore_proofs -----------------------
(***************************************************************************)
(* Proofs about DictionaryStore, for every set of keys, users, requests    *)
(* and statuses and every bound.                                           *)
(*                                                                         *)
(* Whatever a step does, it leaves the documents alone, appends one, or    *)
(* replaces one by an edited, deleted or restored version of it: the       *)
(* lemmas on shapes say so, and the invariants are proved from them.       *)
(***************************************************************************)
EXTENDS DictionaryStore, SequenceTheorems, WellFoundedInduction, TLAPS

-----------------------------------------------------------------------------
(* Least and greatest elements, which First and NextIndex choose.            *)

Less == {ss \in Nat \X Nat : ss[1] < ss[2]}

(* A set of natural numbers that is not empty has a least element. *)
LEMMA LeastExists ==
  ASSUME NEW S, S \subseteq Nat, S # {}
  PROVE  \E i \in S : \A j \in S : i <= j
<1>1. IsWellFoundedOn(Less, Nat)
  BY NatLessThanWellFounded DEF OpToRel, Less
<1>2. PICK x \in S : \A y \in S : ~ (<<y, x>> \in Less)
  BY <1>1, WFMin
<1>3. ASSUME NEW y \in S PROVE x <= y
  <2>1. x \in Nat /\ y \in Nat
    OBVIOUS
  <2>2. <<y, x>> \in Less <=> y < x
    BY <2>1 DEF Less
  <2>3. QED
    BY <1>2, <2>1, <2>2
<1>4. QED
  BY <1>3

(* First returns an element of a set of positions. *)
LEMMA FirstInSet ==
  ASSUME NEW S, S \subseteq Nat, S # {}
  PROVE  First(S) \in S
BY LeastExists DEF First

(* A set of natural numbers with an upper bound has a greatest element. *)
LEMMA GreatestExists ==
  ASSUME NEW S, S \subseteq Nat, S # {}, NEW b \in Nat, \A i \in S : i <= b
  PROVE  \E m \in S : \A n \in S : n <= m
<1> DEFINE T == {b - i : i \in S}
<1>1. T \subseteq Nat /\ T # {}
  <2>1. ASSUME NEW i \in S PROVE b - i \in Nat
    OBVIOUS
  <2>2. QED
    BY <2>1
<1>2. PICK t \in T : \A u \in T : t <= u
  BY <1>1, LeastExists
<1>3. PICK m \in S : t = b - m
  OBVIOUS
<1>4. ASSUME NEW n \in S PROVE n <= m
  <2>1. b - n \in T
    OBVIOUS
  <2>2. b - m <= b - n
    BY <1>2, <1>3, <2>1
  <2>3. QED
    BY <2>2
<1>5. QED
  BY <1>4

-----------------------------------------------------------------------------
(* Type correctness.  An index is chosen above all others, so the type       *)
(* invariant needs that there is a highest one.                              *)

IndexBounded == \E b \in Nat : \A i \in DOMAIN docs : docs[i].index <= b

TypeInv == TypeOK /\ IndexBounded

(* A document of the sequence is a document. *)
LEMMA DocType ==
  ASSUME docs \in Seq(Doc), NEW i \in DOMAIN docs
  PROVE  docs[i] \in Doc
BY ElementOfSeq, LenProperties

(* NextIndex returns an index above all indexes of the collection. *)
LEMMA NextIndexAbove ==
  ASSUME TypeInv, NEW c
  PROVE  /\ NextIndex(c) \in Nat \ {0}
         /\ \A n \in Indexes(c) : n < NextIndex(c)
<1>1. ASSUME NEW i \in DOMAIN docs PROVE docs[i].index \in Nat \ {0}
  <2>1. docs[i] \in Doc
    BY DocType DEF TypeInv, TypeOK
  <2>2. QED
    BY <2>1 DEF Doc
<1>2. Indexes(c) \subseteq Nat \ {0}
  BY <1>1 DEF Indexes
<1>3. PICK b \in Nat : \A i \in DOMAIN docs : docs[i].index <= b
  BY DEF TypeInv, IndexBounded
<1>4. \A n \in Indexes(c) : n <= b
  BY <1>3 DEF Indexes
<1>5. CASE Indexes(c) = {}
  BY <1>5 DEF NextIndex
<1>6. CASE Indexes(c) # {}
  <2> DEFINE top == CHOOSE m \in Indexes(c) : \A n \in Indexes(c) : n <= m
  <2>1. \E m \in Indexes(c) : \A n \in Indexes(c) : n <= m
    BY <1>2, <1>4, <1>6, GreatestExists
  <2>2. top \in Indexes(c) /\ \A n \in Indexes(c) : n <= top
    BY <2>1
  <2>3. NextIndex(c) = 1 + top
    BY <1>6 DEF NextIndex
  <2>4. QED
    BY <1>2, <2>2, <2>3
<1>7. QED
  BY <1>5, <1>6

(* A step that replaces one document ... *)
LEMMA DocReplaced ==
  ASSUME docs \in Seq(Doc), NEW p \in DOMAIN docs, NEW e \in Doc,
         docs' = [docs EXCEPT ![p] = e]
  PROVE  /\ docs' \in Seq(Doc)
         /\ DOMAIN docs' = DOMAIN docs
         /\ \A i \in DOMAIN docs : docs'[i] = IF i = p THEN e ELSE docs[i]
<1>1. p \in 1 .. Len(docs) /\ DOMAIN docs = 1 .. Len(docs)
  BY LenProperties
<1>2. docs' \in Seq(Doc) /\ Len(docs') = Len(docs)
  BY <1>1, ExceptSeq
<1>3. DOMAIN docs' = 1 .. Len(docs)
  BY <1>2, LenProperties
<1>4. QED
  BY <1>1, <1>2, <1>3, ExceptSeq

(* ... and one that appends a document. *)
LEMMA DocAppended ==
  ASSUME docs \in Seq(Doc), NEW e \in Doc, docs' = Append(docs, e)
  PROVE  /\ docs' \in Seq(Doc)
         /\ DOMAIN docs' = DOMAIN docs \cup {Len(docs) + 1}
         /\ Len(docs) + 1 \notin DOMAIN docs
         /\ docs'[Len(docs) + 1] = e
         /\ \A i \in DOMAIN docs : docs'[i] = docs[i]
<1>1. /\ Len(docs) \in Nat /\ DOMAIN docs = 1 .. Len(docs)
      /\ docs' \in Seq(Doc) /\ Len(docs') = Len(docs) + 1
  BY LenProperties
<1>2. DOMAIN docs' = 1 .. Len(docs) + 1
  BY <1>1, LenProperties
<1>3. QED
  BY <1>1, <1>2

(* An update replaces an active document of the key by its edited version. *)
LEMMA UpdateShape ==
  ASSUME TypeOK, NEW u \in Users, NEW k \in Keys, NEW req \in UpdateReqs,
         Update(u, k, req)
  PROVE  \E p \in Active :
           /\ docs[p].key = k
           /\ Edited(docs[p], u, req) \in Doc
           /\ docs' = [docs EXCEPT ![p] = Edited(docs[p], u, req)]
           /\ creates' = creates
<1> DEFINE hit == Same(k) \cap Active
           p   == First(hit)
<1>1. hit \subseteq DOMAIN docs /\ DOMAIN docs \subseteq Nat
  BY LenProperties DEF TypeOK, Same
<1>2. hit # {} /\ docs' = [docs EXCEPT ![p] = Edited(docs[p], u, req)] /\ creates' = creates
  BY DEF Update
<1>3. p \in hit
  BY <1>1, <1>2, FirstInSet
<1>4. docs[p] \in Doc
  BY <1>1, <1>3, DocType DEF TypeOK
<1>5. Edited(docs[p], u, req) \in Doc
  <2>1. /\ req.status \in Statuses \cup {Unset}
        /\ req.content \in AllContents \cup {Unset}
        /\ req.key \in Keys \cup {Unset}
    BY StoreAssumption DEF UpdateReqs
  <2>2. /\ Given(req.content, docs[p].content) \in AllContents
        /\ Given(req.key, docs[p].key) \in Keys
    BY <1>4, <2>1 DEF Given, Doc
  <2>3. (IF req.status = Unset THEN "DRAFT" ELSE req.status) \in Statuses
    BY <2>1 DEF Statuses
  <2>4. (IF req.status \in Decisions THEN u ELSE docs[p].approver) \in Users \cup {NoOne}
    BY <1>4 DEF Doc
  <2>5. QED
    BY <1>4, <2>2, <2>3, <2>4 DEF Edited, Doc
<1>6. QED
  BY <1>2, <1>3, <1>5 DEF Same

(* A deletion replaces a document of the key by its deleted version. *)
LEMMA DeleteShape ==
  ASSUME TypeOK, NEW k \in Keys, Delete(k)
  PROVE  \E p \in DOMAIN docs :
           /\ docs[p].key = k
           /\ DeletedDoc(docs[p]) \in Doc
           /\ docs' = [docs EXCEPT ![p] = DeletedDoc(docs[p])]
           /\ creates' = creates
<1> DEFINE p == First(Same(k))
<1>1. Same(k) \subseteq DOMAIN docs /\ DOMAIN docs \subseteq Nat
  BY LenProperties DEF TypeOK, Same
<1>2. Same(k) # {} /\ docs' = [docs EXCEPT ![p] = DeletedDoc(docs[p])] /\ creates' = creates
  BY DEF Delete
<1>3. p \in Same(k)
  BY <1>1, <1>2, FirstInSet
<1>4. docs[p] \in Doc
  BY <1>1, <1>3, DocType DEF TypeOK
<1>5. DeletedDoc(docs[p]) \in Doc
  BY <1>4 DEF DeletedDoc, Doc, Statuses
<1>6. QED
  BY <1>1, <1>2, <1>3, <1>5 DEF Same

(* A restore replaces the document found by the restored version of it. *)
LEMMA RestoreShape ==
  ASSUME TypeOK, NEW x \in creates, Restore(x)
  PROVE  /\ x.at \in DOMAIN docs
         /\ RestoredDoc(x) \in Doc
         /\ docs' = [docs EXCEPT ![x.at] = RestoredDoc(x)]
         /\ creates' = creates \ {x}
<1>1. x \in Create /\ x.at \in DOMAIN docs /\ x.index \in Nat \ {0}
  BY DEF TypeOK, Restore, Create
<1>2. RestoredDoc(x) \in Doc
  BY <1>1 DEF RestoredDoc, Doc, Create, Statuses
<1>3. QED
  BY <1>1, <1>2 DEF Restore

(* An insertion appends a document with the fields of the request. *)
LEMMA InsertShape ==
  ASSUME TypeOK, NEW x \in creates, Insert(x)
  PROVE  \E e \in Doc :
           /\ e.key = x.key /\ e.index = x.index /\ e.status = x.status
           /\ e.delete_yn = "N"
           /\ docs' = Append(docs, e)
           /\ creates' = creates \ {x}
<1> DEFINE e == [key |-> x.key, content |-> x.content, index |-> x.index,
                 delete_yn |-> "N", status |-> x.status, approver |-> NoOne]
<1>1. x \in Create /\ x.index \in Nat \ {0}
  BY DEF TypeOK, Insert, Create
<1>2. e \in Doc
  BY <1>1, StoreAssumption DEF Doc, Create
<1>3. QED
  BY <1>2 DEF Insert

(* The position a lookup finds is that of a document of the collection. *)
LEMMA FoundPosition ==
  ASSUME TypeOK, NEW k \in Keys, Covering(k) # {}
  PROVE  First(Covering(k)) \in Covering(k) /\ Covering(k) \subseteq DOMAIN docs
<1>1. Covering(k) \subseteq DOMAIN docs /\ DOMAIN docs \subseteq Nat
  BY LenProperties DEF TypeOK, Covering
<1>2. QED
  BY <1>1, FirstInSet

(* A replaced document leaves the documents well typed when the new version  *)
(* has the index of the old one.                                             *)
LEMMA ReplacedKeepsBound ==
  ASSUME docs \in Seq(Doc), IndexBounded, NEW p \in DOMAIN docs, NEW e \in Doc,
         docs' = [docs EXCEPT ![p] = e]
  PROVE  docs' \in Seq(Doc) /\ DOMAIN docs' = DOMAIN docs /\ IndexBounded'
<1>1. /\ docs' \in Seq(Doc)
      /\ DOMAIN docs' = DOMAIN docs
      /\ \A i \in DOMAIN docs : docs'[i] = IF i = p THEN e ELSE docs[i]
  BY DocReplaced
<1>2. PICK b \in Nat : \A i \in DOMAIN docs : docs[i].index <= b
  BY DEF IndexBounded
<1>3. e.index \in Nat
  BY DEF Doc
<1>4. \A i \in DOMAIN docs : docs[i].index \in Nat
  <2>1. ASSUME NEW i \in DOMAIN docs PROVE docs[i] \in Doc
    BY DocType
  <2>2. QED
    BY <2>1 DEF Doc
<1>5. b + e.index \in Nat /\ \A i \in DOMAIN docs' : docs'[i].index <= b + e.index
  BY <1>1, <1>2, <1>3, <1>4
<1>6. QED
  BY <1>1, <1>5 DEF IndexBounded

LEMMA AppendedKeepsBound ==
  ASSUME docs \in Seq(Doc), IndexBounded, NEW e \in Doc, docs' = Append(docs, e)
  PROVE  docs' \in Seq(Doc) /\ DOMAIN docs \subseteq DOMAIN docs' /\ IndexBounded'
<1>1. /\ docs' \in Seq(Doc)
      /\ DOMAIN docs' = DOMAIN docs \cup {Len(docs) + 1}
      /\ docs'[Len(docs) + 1] = e
      /\ \A i \in DOMAIN docs : docs'[i] = docs[i]
  BY DocAppended
<1>2. PICK b \in Nat : \A i \in DOMAIN docs : docs[i].index <= b
  BY DEF IndexBounded
<1>3. e.index \in Nat
  BY DEF Doc
<1>4. ASSUME NEW i \in DOMAIN docs PROVE docs[i].index \in Nat
  <2>1. docs[i] \in Doc
    BY DocType
  <2>2. QED
    BY <2>1 DEF Doc
<1>5. ASSUME NEW i \in DOMAIN docs' PROVE docs'[i].index <= b + e.index
  <2>1. CASE i \in DOMAIN docs
    BY <1>1, <1>2, <1>3, <1>4, <2>1
  <2>2. CASE i = Len(docs) + 1
    BY <1>1, <1>2, <1>3, <2>2
  <2>3. QED
    BY <1>1, <2>1, <2>2
<1>6. b + e.index \in Nat
  BY <1>2, <1>3
<1>7. QED
  BY <1>1, <1>5, <1>6 DEF IndexBounded

(* Every step of a request keeps the documents and the creates well typed. *)
LEMMA TypeStep ==
  ASSUME TypeInv, [StoreNext]_storeVars
  PROVE  TypeInv'
<1> USE DEF TypeInv
<1>1. ASSUME NEW r \in Requests, NEW k \in Keys, NEW st \in CreateStatuses,
             NEW c \in Contents[k], Lookup(r, k, c, st)
      PROVE  TypeInv'
  <2>1. docs' = docs
    BY <1>1 DEF Lookup
  <2>2. c \in AllContents
    BY DEF AllContents
  <2>3. CASE Covering(k) = {}
    <3> DEFINE new == [id |-> r, key |-> k, content |-> c, status |-> st,
                       step |-> "number", at |-> 0, index |-> 0]
    <3>1. creates' = creates \cup {new}
      BY <1>1, <2>3 DEF Lookup
    <3>2. new \in Create
      BY <2>2 DEF Create
    <3>3. QED
      BY <2>1, <3>1, <3>2 DEF TypeOK, IndexBounded
  <2>4. CASE Covering(k) # {}
    <3> DEFINE p   == First(Covering(k))
               new == [id |-> r, key |-> k, content |-> c, status |-> st,
                       step |-> "restore", at |-> p, index |-> docs[p].index]
    <3>1. creates' = creates \cup {new}
      BY <1>1, <2>4 DEF Lookup
    <3>2. p \in DOMAIN docs /\ p \in Nat
      BY <2>4, FoundPosition, LenProperties DEF TypeOK
    <3>3. docs[p] \in Doc
      BY <3>2, DocType DEF TypeOK
    <3>4. docs[p].index \in Nat \ {0}
      BY <3>3 DEF Doc
    <3>5. new \in Create
      BY <2>2, <3>2, <3>4 DEF Create
    <3>6. QED
      BY <2>1, <3>1, <3>2, <3>4, <3>5 DEF TypeOK, IndexBounded
  <2>5. QED
    BY <2>3, <2>4
<1>2. ASSUME NEW x \in creates, Number(x) PROVE TypeInv'
  <2> DEFINE new == [x EXCEPT !.step = "insert", !.index = NextIndex(CollectionOf[x.key])]
  <2>1. docs' = docs /\ creates' = (creates \ {x}) \cup {new}
    BY <1>2 DEF Number
  <2>2. NextIndex(CollectionOf[x.key]) \in Nat \ {0}
    BY NextIndexAbove
  <2>3. new \in Create /\ new.index > 0
    <3>1. x \in Create
      BY DEF TypeOK
    <3>2. /\ NextIndex(CollectionOf[x.key]) \in Nat
          /\ NextIndex(CollectionOf[x.key]) > 0
      BY <2>2
    <3>3. QED
      BY <3>1, <3>2 DEF Create
  <2>4. new.step = "insert"
    BY DEF TypeOK, Create
  <2>5. QED
    BY <2>1, <2>3, <2>4 DEF TypeOK, IndexBounded
<1>3. ASSUME NEW x \in creates, Insert(x) PROVE TypeInv'
  <2>1. PICK e \in Doc : docs' = Append(docs, e) /\ creates' = creates \ {x}
    BY <1>3, InsertShape
  <2>2. docs' \in Seq(Doc) /\ DOMAIN docs \subseteq DOMAIN docs' /\ IndexBounded'
    BY <2>1, AppendedKeepsBound DEF TypeOK
  <2>3. QED
    BY <2>1, <2>2 DEF TypeOK
<1>4. ASSUME NEW x \in creates, Restore(x) PROVE TypeInv'
  <2>1. /\ x.at \in DOMAIN docs /\ RestoredDoc(x) \in Doc
        /\ docs' = [docs EXCEPT ![x.at] = RestoredDoc(x)]
        /\ creates' = creates \ {x}
    BY <1>4, RestoreShape
  <2>2. docs' \in Seq(Doc) /\ DOMAIN docs' = DOMAIN docs /\ IndexBounded'
    BY <2>1, ReplacedKeepsBound DEF TypeOK
  <2>3. QED
    BY <2>1, <2>2 DEF TypeOK
<1>5. ASSUME NEW x \in creates, CreateFails(x) PROVE TypeInv'
  BY <1>5 DEF CreateFails, TypeOK, IndexBounded
<1>6. ASSUME NEW u \in Users, NEW k \in Keys, NEW req \in UpdateReqs, Update(u, k, req)
      PROVE  TypeInv'
  <2>1. PICK p \in Active : /\ Edited(docs[p], u, req) \in Doc
                            /\ docs' = [docs EXCEPT ![p] = Edited(docs[p], u, req)]
                            /\ creates' = creates
    BY <1>6, UpdateShape
  <2>2. docs' \in Seq(Doc) /\ DOMAIN docs' = DOMAIN docs /\ IndexBounded'
    BY <2>1, ReplacedKeepsBound DEF TypeOK, Active
  <2>3. QED
    BY <2>1, <2>2 DEF TypeOK
<1>7. ASSUME NEW k \in Keys, Delete(k) PROVE TypeInv'
  <2>1. PICK p \in DOMAIN docs : /\ DeletedDoc(docs[p]) \in Doc
                                 /\ docs' = [docs EXCEPT ![p] = DeletedDoc(docs[p])]
                                 /\ creates' = creates
    BY <1>7, DeleteShape
  <2>2. docs' \in Seq(Doc) /\ DOMAIN docs' = DOMAIN docs /\ IndexBounded'
    BY <2>1, ReplacedKeepsBound DEF TypeOK
  <2>3. QED
    BY <2>1, <2>2 DEF TypeOK
<1>8. CASE UNCHANGED storeVars
  BY <1>8 DEF storeVars, TypeOK, IndexBounded
<1>9. QED
  BY <1>1, <1>2, <1>3, <1>4, <1>5, <1>6, <1>7, <1>8 DEF StoreNext

(* Documents and creates in progress always have the fields the code gives   *)
(* them; that there is a highest index is the part TypeOK needs itself.      *)
THEOREM StoreTypeCorrect == StoreSpec => []TypeOK
<1>1. StoreInit => TypeInv
  BY EmptySeq DEF StoreInit, TypeInv, TypeOK, IndexBounded
<1>2. TypeInv /\ [StoreNext]_storeVars => TypeInv'
  BY TypeStep
<1>3. TypeInv => TypeOK
  BY DEF TypeInv
<1>4. QED
  BY <1>1, <1>2, <1>3, PTL DEF StoreSpec

-----------------------------------------------------------------------------
(* Approvals.  Nobody but update() gives an entry the status APPROVED when   *)
(* the create requests do not, and update() records who did.                 *)

LEMMA ApprovalStep ==
  ASSUME "APPROVED" \notin CreateStatuses, TypeInv, ApprovalRecorded,
         [StoreNext]_storeVars
  PROVE  ApprovalRecorded'
<1> USE DEF TypeInv, TypeOK
<1>1. ASSUME NEW x \in creates, Insert(x) PROVE ApprovalRecorded'
  <2>1. PICK e \in Doc : e.status = x.status /\ docs' = Append(docs, e)
    BY <1>1, InsertShape
  <2>2. x.status \in CreateStatuses
    BY DEF Create
  <2>3. /\ DOMAIN docs' = DOMAIN docs \cup {Len(docs) + 1}
        /\ docs'[Len(docs) + 1] = e
        /\ \A i \in DOMAIN docs : docs'[i] = docs[i]
    BY <2>1, DocAppended
  <2>4. QED
    BY <2>1, <2>2, <2>3 DEF ApprovalRecorded
<1>2. ASSUME NEW x \in creates, Restore(x) PROVE ApprovalRecorded'
  <2>1. /\ x.at \in DOMAIN docs /\ RestoredDoc(x) \in Doc
        /\ docs' = [docs EXCEPT ![x.at] = RestoredDoc(x)]
    BY <1>2, RestoreShape
  <2>2. /\ DOMAIN docs' = DOMAIN docs
        /\ \A i \in DOMAIN docs : docs'[i] = IF i = x.at THEN RestoredDoc(x) ELSE docs[i]
    BY <2>1, DocReplaced
  <2>3. RestoredDoc(x).status = "DRAFT"
    BY DEF RestoredDoc
  <2>4. QED
    BY <2>2, <2>3 DEF ApprovalRecorded
<1>3. ASSUME NEW u \in Users, NEW k \in Keys, NEW req \in UpdateReqs, Update(u, k, req)
      PROVE  ApprovalRecorded'
  <2> DEFINE e(p) == Edited(docs[p], u, req)
  <2>1. PICK p \in Active : e(p) \in Doc /\ docs' = [docs EXCEPT ![p] = e(p)]
    BY <1>3, UpdateShape
  <2>2. p \in DOMAIN docs
    BY DEF Active
  <2>3. /\ DOMAIN docs' = DOMAIN docs
        /\ \A i \in DOMAIN docs : docs'[i] = IF i = p THEN e(p) ELSE docs[i]
    BY <2>1, <2>2, DocReplaced
  <2>4. ASSUME e(p).status = "APPROVED" PROVE e(p).approver \in Admins
    <3>1. docs[p] \in Doc
      BY <2>2, DocType
    <3>2. req.status = "APPROVED"
      BY <2>4, <3>1 DEF Edited, Doc
    <3>3. u \in Admins
      BY <1>3, <3>2 DEF Update, MayUpdate, Decisions
    <3>4. e(p).approver = u
      BY <3>1, <3>2 DEF Edited, Doc, Decisions
    <3>5. QED
      BY <3>3, <3>4
  <2>5. QED
    BY <2>3, <2>4 DEF ApprovalRecorded
<1>4. ASSUME NEW k \in Keys, Delete(k) PROVE ApprovalRecorded'
  <2>1. PICK p \in DOMAIN docs : /\ DeletedDoc(docs[p]) \in Doc
                                 /\ docs' = [docs EXCEPT ![p] = DeletedDoc(docs[p])]
    BY <1>4, DeleteShape
  <2>2. /\ DOMAIN docs' = DOMAIN docs
        /\ \A i \in DOMAIN docs : docs'[i] = IF i = p THEN DeletedDoc(docs[p]) ELSE docs[i]
    BY <2>1, DocReplaced
  <2>3. docs[p] \in Doc
    BY DocType
  <2>4. DeletedDoc(docs[p]).status = "DRAFT"
    BY <2>3 DEF DeletedDoc, Doc
  <2>5. QED
    BY <2>2, <2>4 DEF ApprovalRecorded
<1>5. ASSUME UNCHANGED docs PROVE ApprovalRecorded'
  BY <1>5 DEF ApprovalRecorded
<1>6. QED
  BY <1>1, <1>2, <1>3, <1>4, <1>5
     DEF StoreNext, storeVars, Lookup, Number, CreateFails

(* When no create request comes with the status APPROVED, an entry that has  *)
(* it always names the ADMIN who gave it: edits, deletions, restorations and *)
(* overlapping requests do not separate the status from the approver.        *)
THEOREM ApprovalsAreRecorded ==
  ASSUME "APPROVED" \notin CreateStatuses
  PROVE  StoreSpec => []ApprovalRecorded
<1>1. StoreInit => TypeInv /\ ApprovalRecorded
  BY EmptySeq DEF StoreInit, TypeInv, TypeOK, IndexBounded, ApprovalRecorded
<1>2. TypeInv /\ ApprovalRecorded /\ [StoreNext]_storeVars => TypeInv' /\ ApprovalRecorded'
  BY TypeStep, ApprovalStep
<1>3. QED
  BY <1>1, <1>2, PTL DEF StoreSpec

-----------------------------------------------------------------------------
(* Stability of the index.  A restore writes the index it read in an earlier *)
(* step, so what it carries has to stay that of the document.                *)

SameEntry(d, e) == d.index = e.index /\ CollectionOf[d.key] = CollectionOf[e.key]

Carried ==
  \A x \in creates : x.step = "restore" => SameEntry(docs[x.at], x)

Stable ==
  \A i \in DOMAIN docs : i \in DOMAIN docs' /\ SameEntry(docs'[i], docs[i])

(* A step that replaces one document by one of the same index and collection *)
(* keeps every index.                                                        *)
LEMMA ReplacedIsStable ==
  ASSUME docs \in Seq(Doc), NEW p \in DOMAIN docs, NEW e \in Doc,
         docs' = [docs EXCEPT ![p] = e], SameEntry(e, docs[p])
  PROVE  Stable
<1>1. /\ DOMAIN docs' = DOMAIN docs
      /\ \A i \in DOMAIN docs : docs'[i] = IF i = p THEN e ELSE docs[i]
  BY DocReplaced
<1>2. QED
  BY <1>1 DEF Stable, SameEntry

(* Every step keeps the index and the collection of every document. *)
LEMMA StableStep ==
  ASSUME TypeInv, Carried, [StoreNext]_storeVars
  PROVE  Stable
<1> USE DEF TypeInv, TypeOK
<1>1. ASSUME NEW x \in creates, Insert(x) PROVE Stable
  <2>1. PICK e \in Doc : docs' = Append(docs, e)
    BY <1>1, InsertShape
  <2>2. /\ DOMAIN docs \subseteq DOMAIN docs'
        /\ \A i \in DOMAIN docs : docs'[i] = docs[i]
    BY <2>1, DocAppended
  <2>3. QED
    BY <2>2 DEF Stable, SameEntry
<1>2. ASSUME NEW x \in creates, Restore(x) PROVE Stable
  <2>1. /\ x.at \in DOMAIN docs /\ RestoredDoc(x) \in Doc
        /\ docs' = [docs EXCEPT ![x.at] = RestoredDoc(x)]
    BY <1>2, RestoreShape
  <2>2. x.step = "restore"
    BY <1>2 DEF Restore
  <2>3. SameEntry(RestoredDoc(x), docs[x.at])
    BY <2>2 DEF Carried, SameEntry, RestoredDoc
  <2>4. QED
    BY <2>1, <2>3, ReplacedIsStable
<1>3. ASSUME NEW u \in Users, NEW k \in Keys, NEW req \in UpdateReqs, Update(u, k, req)
      PROVE  Stable
  <2>1. PICK p \in Active : /\ docs[p].key = k
                            /\ Edited(docs[p], u, req) \in Doc
                            /\ docs' = [docs EXCEPT ![p] = Edited(docs[p], u, req)]
    BY <1>3, UpdateShape
  <2>2. docs[p] \in Doc /\ p \in DOMAIN docs
    BY DocType DEF Active
  <2>3. req.key # Unset => CollectionOf[req.key] = CollectionOf[k]
    BY <1>3 DEF Update
  <2>4. SameEntry(Edited(docs[p], u, req), docs[p])
    BY <2>1, <2>2, <2>3 DEF SameEntry, Edited, Given, Doc
  <2>5. QED
    BY <2>1, <2>2, <2>4, ReplacedIsStable
<1>4. ASSUME NEW k \in Keys, Delete(k) PROVE Stable
  <2>1. PICK p \in DOMAIN docs : /\ DeletedDoc(docs[p]) \in Doc
                                 /\ docs' = [docs EXCEPT ![p] = DeletedDoc(docs[p])]
    BY <1>4, DeleteShape
  <2>2. docs[p] \in Doc
    BY DocType
  <2>3. SameEntry(DeletedDoc(docs[p]), docs[p])
    BY <2>2 DEF SameEntry, DeletedDoc, Doc
  <2>4. QED
    BY <2>1, <2>3, ReplacedIsStable
<1>5. ASSUME UNCHANGED docs PROVE Stable
  BY <1>5 DEF Stable, SameEntry
<1>6. QED
  BY <1>1, <1>2, <1>3, <1>4, <1>5
     DEF StoreNext, storeVars, Lookup, Number, CreateFails

(* What a restore carries stays the index and the collection of its document.*)
LEMMA CarriedStep ==
  ASSUME TypeInv, Carried, [StoreNext]_storeVars
  PROVE  Carried'
<1> USE DEF TypeInv, TypeOK
<1>1. ASSUME NEW r \in Requests, NEW k \in Keys, NEW st \in CreateStatuses,
             NEW c \in Contents[k], Lookup(r, k, c, st)
      PROVE  Carried'
  <2>1. docs' = docs
    BY <1>1 DEF Lookup
  <2>2. CASE Covering(k) = {}
    <3>1. creates' = creates \cup {[id |-> r, key |-> k, content |-> c, status |-> st,
                                    step |-> "number", at |-> 0, index |-> 0]}
      BY <1>1, <2>2 DEF Lookup
    <3>2. QED
      BY <2>1, <3>1 DEF Carried
  <2>3. CASE Covering(k) # {}
    <3> DEFINE p   == First(Covering(k))
               new == [id |-> r, key |-> k, content |-> c, status |-> st,
                       step |-> "restore", at |-> p, index |-> docs[p].index]
    <3>1. creates' = creates \cup {new}
      BY <1>1, <2>3 DEF Lookup
    <3>2. CollectionOf[docs[p].key] = CollectionOf[k]
      BY <2>3, FoundPosition DEF Covering
    <3>3. SameEntry(docs[new.at], new)
      BY <3>2 DEF SameEntry
    <3>4. QED
      BY <2>1, <3>1, <3>3 DEF Carried
  <2>4. QED
    BY <2>2, <2>3
<1>2. ASSUME NEW x \in creates, Number(x) PROVE Carried'
  <2> DEFINE new == [x EXCEPT !.step = "insert", !.index = NextIndex(CollectionOf[x.key])]
  <2>1. docs' = docs /\ creates' = (creates \ {x}) \cup {new}
    BY <1>2 DEF Number
  <2>2. new.step = "insert"
    BY DEF Create
  <2>3. QED
    BY <2>1, <2>2 DEF Carried
<1>3. ASSUME creates' \subseteq creates PROVE Carried'
  <2>1. Stable
    BY StableStep
  <2>2. ASSUME NEW x \in creates', x.step = "restore" PROVE SameEntry(docs'[x.at], x)
    <3>1. x \in creates /\ x.at \in DOMAIN docs
      BY <1>3, <2>2
    <3>2. SameEntry(docs[x.at], x) /\ SameEntry(docs'[x.at], docs[x.at])
      BY <2>1, <2>2, <3>1 DEF Carried, Stable
    <3>3. QED
      BY <3>2 DEF SameEntry
  <2>3. QED
    BY <2>2 DEF Carried
<1>4. QED
  BY <1>1, <1>2, <1>3
     DEF StoreNext, storeVars, Insert, Restore, CreateFails, Update, Delete

(* Documents stay where they are and keep their index and their collection,  *)
(* whichever edits, deletions and restorations overlap.                      *)
THEOREM IndexesAreStable == StoreSpec => IndexStable
<1>1. StoreInit => TypeInv /\ Carried
  BY EmptySeq DEF StoreInit, TypeInv, TypeOK, IndexBounded, Carried
<1>2. TypeInv /\ Carried /\ [StoreNext]_storeVars => TypeInv' /\ Carried'
  BY TypeStep, CarriedStep
<1>3. TypeInv /\ Carried /\ [StoreNext]_storeVars =>
        [\A i \in DOMAIN docs :
           /\ i \in DOMAIN docs'
           /\ docs'[i].index = docs[i].index
           /\ CollectionOf[docs'[i].key] = CollectionOf[docs[i].key]]_storeVars
  BY StableStep DEF Stable, SameEntry
<1>4. QED
  BY <1>1, <1>2, <1>3, PTL DEF StoreSpec, IndexStable

-----------------------------------------------------------------------------
(* Uniqueness of the key in the collections whose lookup is an equality,     *)
(* when clients do not overlap two creates of one key.                       *)

(* User, decompound, correction and stopword entries: a key is found by      *)
(* itself only, and an update does not change it.                            *)
ExactLookup ==
  /\ KeyEditable = {}
  /\ \A k \in Keys : Words[k] # {}
  /\ \A k, l \in Keys :
       CollectionOf[k] = CollectionOf[l] /\ Words[k] \subseteq Words[l] => k = l

OneEach == \A x, y \in creates : x.key = y.key => x = y

KeyInv == UniqueKey /\ LookupFresh /\ OneEach

(* With an exact lookup what is found is what has the key. *)
LEMMA CoveringIsSame ==
  ASSUME ExactLookup, TypeOK, NEW k \in Keys
  PROVE  Covering(k) = Same(k)
<1>1. ASSUME NEW i \in DOMAIN docs PROVE docs[i].key \in Keys
  <2>1. docs[i] \in Doc
    BY DocType DEF TypeOK
  <2>2. QED
    BY <2>1 DEF Doc
<1>2. Covering(k) \subseteq Same(k)
  BY <1>1 DEF ExactLookup, Covering, Same
<1>3. Same(k) \subseteq Covering(k)
  BY DEF ExactLookup, Covering, Same
<1>4. QED
  BY <1>2, <1>3

(* A replaced document that keeps its key and that no restore waits for, or  *)
(* that keeps its index and stays deleted, disturbs nothing.                 *)
LEMMA ReplacedKeepsKeys ==
  ASSUME TypeOK, KeyInv, NEW p \in DOMAIN docs, NEW e \in Doc,
         docs' = [docs EXCEPT ![p] = e], e.key = docs[p].key,
         creates' \subseteq creates,
         \A x \in creates' : x.step = "restore" /\ x.at = p =>
                             e.delete_yn = "Y" /\ e.index = docs[p].index
  PROVE  KeyInv'
<1>1. /\ DOMAIN docs' = DOMAIN docs
      /\ \A i \in DOMAIN docs : docs'[i] = IF i = p THEN e ELSE docs[i]
  BY DocReplaced DEF TypeOK
<1>2. \A i \in DOMAIN docs : docs'[i].key = docs[i].key
  BY <1>1
<1>3. UniqueKey'
  BY <1>1, <1>2 DEF KeyInv, UniqueKey
<1>4. ASSUME NEW k PROVE Same(k)' = Same(k)
  BY <1>1, <1>2 DEF Same
<1>5. ASSUME NEW x \in creates', x.step = "restore"
      PROVE  docs'[x.at].key = x.key /\ docs'[x.at].delete_yn = "Y"
             /\ docs'[x.at].index = x.index
  <2>1. x \in creates /\ x.at \in DOMAIN docs
    BY <1>5 DEF TypeOK
  <2>2. /\ docs[x.at].key = x.key
        /\ docs[x.at].delete_yn = "Y"
        /\ docs[x.at].index = x.index
    BY <1>5, <2>1 DEF KeyInv, LookupFresh
  <2>3. QED
    BY <1>1, <1>5, <2>1, <2>2
<1>6. ASSUME NEW x \in creates', x.step # "restore" PROVE Same(x.key)' = {}
  BY <1>4, <1>6 DEF KeyInv, LookupFresh
<1>7. LookupFresh'
  BY <1>5, <1>6 DEF LookupFresh
<1>8. OneEach'
  BY DEF KeyInv, OneEach
<1>9. QED
  BY <1>3, <1>7, <1>8 DEF KeyInv

(* Every step keeps the keys unique and the lookups of creates fresh. *)
LEMMA KeyStep ==
  ASSUME ExactLookup, OneCreatePerKey = TRUE, TypeInv, KeyInv, [StoreNext]_storeVars
  PROVE  KeyInv'
<1> USE DEF TypeInv
<1>1. ASSUME NEW r \in Requests, NEW k \in Keys, NEW st \in CreateStatuses,
             NEW c \in Contents[k], Lookup(r, k, c, st)
      PROVE  KeyInv'
  <2>1. docs' = docs /\ \A y \in creates : y.key # k
    BY <1>1 DEF Lookup
  <2>2. Covering(k) = Same(k)
    BY CoveringIsSame
  <2>3. UniqueKey' /\ \A l : Same(l)' = Same(l)
    BY <2>1 DEF KeyInv, UniqueKey, Same
  <2>4. CASE Covering(k) = {}
    <3> DEFINE new == [id |-> r, key |-> k, content |-> c, status |-> st,
                       step |-> "number", at |-> 0, index |-> 0]
    <3>1. creates' = creates \cup {new}
      BY <1>1, <2>4 DEF Lookup
    <3>2. Same(new.key)' = {} /\ new.step # "restore"
      BY <2>2, <2>3, <2>4
    <3>3. LookupFresh'
      BY <2>1, <2>3, <3>1, <3>2 DEF KeyInv, LookupFresh
    <3>4. OneEach'
      BY <2>1, <3>1 DEF KeyInv, OneEach
    <3>5. QED
      BY <2>3, <3>3, <3>4 DEF KeyInv
  <2>5. CASE Covering(k) # {}
    <3> DEFINE p   == First(Covering(k))
               new == [id |-> r, key |-> k, content |-> c, status |-> st,
                       step |-> "restore", at |-> p, index |-> docs[p].index]
    <3>1. creates' = creates \cup {new} /\ Restorable(docs[p])
      BY <1>1, <2>5 DEF Lookup
    <3>2. docs[p].key = k
      BY <2>2, <2>5, FoundPosition DEF Same
    <3>3. /\ docs'[new.at].key = new.key
          /\ docs'[new.at].delete_yn = "Y"
          /\ docs'[new.at].index = new.index
      BY <2>1, <3>1, <3>2 DEF Restorable
    <3>4. LookupFresh'
      BY <2>1, <2>3, <3>1, <3>3 DEF KeyInv, LookupFresh
    <3>5. OneEach'
      BY <2>1, <3>1 DEF KeyInv, OneEach
    <3>6. QED
      BY <2>3, <3>4, <3>5 DEF KeyInv
  <2>6. QED
    BY <2>4, <2>5
<1>2. ASSUME NEW x \in creates, Number(x) PROVE KeyInv'
  <2> DEFINE new == [x EXCEPT !.step = "insert", !.index = NextIndex(CollectionOf[x.key])]
  <2>1. docs' = docs /\ creates' = (creates \ {x}) \cup {new} /\ x.step = "number"
    BY <1>2 DEF Number
  <2>2. new.step = "insert" /\ new.key = x.key
    BY DEF TypeOK, Create
  <2>3. UniqueKey' /\ \A l : Same(l)' = Same(l)
    BY <2>1 DEF KeyInv, UniqueKey, Same
  <2>4. LookupFresh'
    BY <2>1, <2>2, <2>3 DEF KeyInv, LookupFresh
  <2>5. \A y \in creates' : y = new \/ (y \in creates /\ y # x /\ y.key # new.key)
    BY <2>1, <2>2 DEF KeyInv, OneEach
  <2>6. OneEach'
    <3> HIDE DEF new
    <3>1. \A y, z \in creates : y.key = z.key => y = z
      BY DEF KeyInv, OneEach
    <3>2. QED
      BY <2>5, <3>1 DEF OneEach
  <2>7. QED
    BY <2>3, <2>4, <2>6 DEF KeyInv
<1>3. ASSUME NEW x \in creates, Insert(x) PROVE KeyInv'
  <2>1. PICK e \in Doc : /\ e.key = x.key
                         /\ docs' = Append(docs, e)
                         /\ creates' = creates \ {x}
    BY <1>3, InsertShape
  <2>2. /\ DOMAIN docs' = DOMAIN docs \cup {Len(docs) + 1}
        /\ docs'[Len(docs) + 1] = e
        /\ \A i \in DOMAIN docs : docs'[i] = docs[i]
    BY <2>1, DocAppended DEF TypeOK
  <2>3. Same(x.key) = {}
    BY <1>3 DEF Insert, KeyInv, LookupFresh
  <2>4. \A i \in DOMAIN docs : docs[i].key # x.key
    BY <2>3 DEF Same
  <2>5. UniqueKey'
    BY <2>1, <2>2, <2>4 DEF KeyInv, UniqueKey
  <2>6. ASSUME NEW y \in creates' PROVE y \in creates /\ y.key # x.key
    BY <2>1 DEF KeyInv, OneEach
  <2>7. ASSUME NEW y \in creates', y.step # "restore" PROVE Same(y.key)' = {}
    <3>1. Same(y.key) = {}
      BY <2>6, <2>7 DEF KeyInv, LookupFresh
    <3>2. QED
      BY <2>1, <2>2, <2>6, <3>1 DEF Same
  <2>8. ASSUME NEW y \in creates', y.step = "restore"
        PROVE  /\ docs'[y.at].key = y.key
               /\ docs'[y.at].delete_yn = "Y"
               /\ docs'[y.at].index = y.index
    <3>1. y \in creates /\ y.at \in DOMAIN docs
      BY <2>6, <2>8 DEF TypeOK
    <3>2. QED
      BY <2>2, <2>8, <3>1 DEF KeyInv, LookupFresh
  <2>9. LookupFresh'
    BY <2>7, <2>8 DEF LookupFresh
  <2>10. OneEach'
    BY <2>6 DEF KeyInv, OneEach
  <2>11. QED
    BY <2>5, <2>9, <2>10 DEF KeyInv
<1>4. ASSUME NEW x \in creates, Restore(x) PROVE KeyInv'
  <2>1. /\ x.at \in DOMAIN docs /\ RestoredDoc(x) \in Doc
        /\ docs' = [docs EXCEPT ![x.at] = RestoredDoc(x)]
        /\ creates' = creates \ {x}
    BY <1>4, RestoreShape
  <2>2. docs[x.at].key = x.key
    BY <1>4 DEF Restore, KeyInv, LookupFresh
  <2>3. RestoredDoc(x).key = docs[x.at].key
    BY <2>2 DEF RestoredDoc
  <2>4. ASSUME NEW y \in creates', y.step = "restore" PROVE y.at # x.at
    <3>1. y \in creates /\ y.key # x.key /\ docs[y.at].key = y.key
      BY <2>1, <2>4 DEF KeyInv, OneEach, LookupFresh
    <3>2. QED
      BY <2>2, <3>1
  <2>5. QED
    BY <2>1, <2>3, <2>4, ReplacedKeepsKeys
<1>5. ASSUME NEW x \in creates, CreateFails(x) PROVE KeyInv'
  BY <1>5 DEF CreateFails, KeyInv, UniqueKey, LookupFresh, OneEach, Same
<1>6. ASSUME NEW u \in Users, NEW k \in Keys, NEW req \in UpdateReqs, Update(u, k, req)
      PROVE  KeyInv'
  <2>1. PICK p \in Active : /\ Edited(docs[p], u, req) \in Doc
                            /\ docs' = [docs EXCEPT ![p] = Edited(docs[p], u, req)]
                            /\ creates' = creates
    BY <1>6, UpdateShape
  <2>2. p \in DOMAIN docs /\ docs[p] \in Doc /\ docs[p].delete_yn = "N"
    BY DocType DEF Active, TypeOK
  <2>3. PICK e \in Doc : e = Edited(docs[p], u, req)
    BY <2>1
  <2>4. req.key = Unset
    BY <1>6 DEF Update, ExactLookup
  <2>5. e.key = docs[p].key
    BY <2>2, <2>3, <2>4 DEF Edited, Given, Doc
  <2>6. docs' = [docs EXCEPT ![p] = e] /\ creates' \subseteq creates
    BY <2>1, <2>3
  <2>7. ASSUME NEW x \in creates', x.step = "restore" PROVE x.at # p
    BY <2>1, <2>2, <2>7 DEF KeyInv, LookupFresh
  <2>8. \A x \in creates' : x.step = "restore" /\ x.at = p =>
                            e.delete_yn = "Y" /\ e.index = docs[p].index
    BY <2>7
  <2>9. QED
    BY <2>2, <2>5, <2>6, <2>8, ReplacedKeepsKeys
<1>7. ASSUME NEW k \in Keys, Delete(k) PROVE KeyInv'
  <2>1. PICK p \in DOMAIN docs : /\ DeletedDoc(docs[p]) \in Doc
                                 /\ docs' = [docs EXCEPT ![p] = DeletedDoc(docs[p])]
                                 /\ creates' = creates
    BY <1>7, DeleteShape
  <2>2. docs[p] \in Doc
    BY DocType DEF TypeOK
  <2>3. PICK e \in Doc : e = DeletedDoc(docs[p])
    BY <2>1
  <2>4. e.key = docs[p].key /\ e.delete_yn = "Y" /\ e.index = docs[p].index
    BY <2>2, <2>3 DEF DeletedDoc, Doc
  <2>5. docs' = [docs EXCEPT ![p] = e] /\ creates' \subseteq creates
    BY <2>1, <2>3
  <2>6. QED
    BY <2>4, <2>5, ReplacedKeepsKeys
<1>8. CASE UNCHANGED storeVars
  BY <1>8 DEF storeVars, KeyInv, UniqueKey, LookupFresh, OneEach, Same
<1>9. QED
  BY <1>1, <1>2, <1>3, <1>4, <1>5, <1>6, <1>7, <1>8 DEF StoreNext

(* Where the lookup is an equality and clients do not overlap two creates of *)
(* one key, no two documents ever have one key.                              *)
THEOREM KeysAreUnique ==
  ASSUME ExactLookup, OneCreatePerKey = TRUE
  PROVE  StoreSpec => []UniqueKey
<1>1. StoreInit => TypeInv /\ KeyInv
  BY EmptySeq DEF StoreInit, TypeInv, TypeOK, IndexBounded, KeyInv, UniqueKey,
                  LookupFresh, OneEach
<1>2. TypeInv /\ KeyInv /\ [StoreNext]_storeVars => TypeInv' /\ KeyInv'
  BY TypeStep, KeyStep
<1>3. KeyInv => UniqueKey
  BY DEF KeyInv
<1>4. QED
  BY <1>1, <1>2, <1>3, PTL DEF StoreSpec

(* ... and what a create learned in its lookup is still so when it writes,   *)
(* whatever other users edit and delete in between.                          *)
THEOREM LookupsAreFresh ==
  ASSUME ExactLookup, OneCreatePerKey = TRUE
  PROVE  StoreSpec => []LookupFresh
<1>1. StoreInit => TypeInv /\ KeyInv
  BY EmptySeq DEF StoreInit, TypeInv, TypeOK, IndexBounded, KeyInv, UniqueKey,
                  LookupFresh, OneEach
<1>2. TypeInv /\ KeyInv /\ [StoreNext]_storeVars => TypeInv' /\ KeyInv'
  BY TypeStep, KeyStep
<1>3. KeyInv => LookupFresh
  BY DEF KeyInv
<1>4. QED
  BY <1>1, <1>2, <1>3, PTL DEF StoreSpec

-----------------------------------------------------------------------------
(* Uniqueness of the index when creates do not overlap.                      *)

NumberFree ==
  \A x \in creates : x.step = "insert" =>
    \A i \in DOMAIN docs :
      CollectionOf[docs[i].key] = CollectionOf[x.key] => docs[i].index # x.index

OneCreate == \A x, y \in creates : x = y

IndexInv == UniqueIndex /\ NumberFree /\ OneCreate

(* A step that neither adds a document nor starts a create disturbs nothing. *)
LEMMA StableKeepsIndexes ==
  ASSUME IndexInv, Stable, DOMAIN docs' = DOMAIN docs, creates' \subseteq creates
  PROVE  IndexInv'
<1>1. UniqueIndex'
  BY DEF IndexInv, UniqueIndex, Stable, SameEntry
<1>2. NumberFree'
  BY DEF IndexInv, NumberFree, Stable, SameEntry
<1>3. OneCreate'
  BY DEF IndexInv, OneCreate
<1>4. QED
  BY <1>1, <1>2, <1>3 DEF IndexInv

(* Every step of a single create keeps the indexes unique. *)
LEMMA IndexStep ==
  ASSUME \A r, s \in Requests : r = s, TypeInv, Carried, IndexInv,
         [StoreNext]_storeVars
  PROVE  IndexInv'
<1> USE DEF TypeInv
<1>1. ASSUME NEW r \in Requests, NEW k \in Keys, NEW st \in CreateStatuses,
             NEW c \in Contents[k], Lookup(r, k, c, st)
      PROVE  IndexInv'
  <2>1. docs' = docs
    BY <1>1 DEF Lookup
  <2>2. creates = {}
    <3>1. ASSUME NEW y \in creates PROVE FALSE
      <4>1. y.id \in Requests
        BY DEF TypeOK, Create
      <4>2. y.id # r
        BY <1>1 DEF Lookup
      <4>3. QED
        BY <4>1, <4>2
    <3>2. QED
      BY <3>1
  <2>3. \E new : creates' = {new} /\ new.step # "insert"
    <3> DEFINE Begun(step, at, index) ==
                 [id |-> r, key |-> k, content |-> c, status |-> st,
                  step |-> step, at |-> at, index |-> index]
    <3>1. CASE Covering(k) = {}
      <4>1. creates' = {Begun("number", 0, 0)}
        BY <1>1, <2>2, <3>1 DEF Lookup
      <4>2. Begun("number", 0, 0).step # "insert"
        OBVIOUS
      <4> HIDE DEF Begun
      <4>3. QED
        BY <4>1, <4>2
    <3>2. CASE Covering(k) # {}
      <4> DEFINE p == First(Covering(k))
      <4>1. creates' = {Begun("restore", p, docs[p].index)}
        BY <1>1, <2>2, <3>2 DEF Lookup
      <4>2. Begun("restore", p, docs[p].index).step # "insert"
        OBVIOUS
      <4> HIDE DEF Begun
      <4>3. QED
        BY <4>1, <4>2
    <3>3. QED
      BY <3>1, <3>2
  <2>4. QED
    BY <2>1, <2>3 DEF IndexInv, UniqueIndex, NumberFree, OneCreate
<1>2. ASSUME NEW x \in creates, Number(x) PROVE IndexInv'
  <2> DEFINE top == NextIndex(CollectionOf[x.key])
             new == [x EXCEPT !.step = "insert", !.index = top]
  <2>1. docs' = docs /\ creates' = (creates \ {x}) \cup {new}
    BY <1>2 DEF Number
  <2>2. creates' = {new}
    BY <2>1 DEF IndexInv, OneCreate
  <2>3. new.key = x.key /\ new.index = top
    BY DEF TypeOK, Create
  <2>4. ASSUME NEW i \in DOMAIN docs, CollectionOf[docs[i].key] = CollectionOf[x.key]
        PROVE  docs[i].index # top
    <3>1. docs[i].index \in Indexes(CollectionOf[x.key])
      BY <2>4 DEF Indexes
    <3>2. docs[i].index < top /\ top \in Nat
      BY <3>1, NextIndexAbove
    <3>3. QED
      BY <3>2
  <2> HIDE DEF new, top
  <2>5. NumberFree'
    BY <2>1, <2>2, <2>3, <2>4 DEF NumberFree
  <2>6. QED
    BY <2>1, <2>2, <2>5 DEF IndexInv, UniqueIndex, OneCreate
<1>3. ASSUME NEW x \in creates, Insert(x) PROVE IndexInv'
  <2>1. PICK e \in Doc : /\ e.key = x.key /\ e.index = x.index
                         /\ docs' = Append(docs, e)
                         /\ creates' = creates \ {x}
    BY <1>3, InsertShape
  <2>2. /\ DOMAIN docs' = DOMAIN docs \cup {Len(docs) + 1}
        /\ docs'[Len(docs) + 1] = e
        /\ \A i \in DOMAIN docs : docs'[i] = docs[i]
    BY <2>1, DocAppended DEF TypeOK
  <2>3. creates' = {}
    BY <2>1 DEF IndexInv, OneCreate
  <2>4. \A i \in DOMAIN docs :
          CollectionOf[docs[i].key] = CollectionOf[e.key] => docs[i].index # e.index
    BY <1>3, <2>1 DEF Insert, IndexInv, NumberFree
  <2>5. UniqueIndex'
    BY <2>2, <2>4 DEF IndexInv, UniqueIndex
  <2>6. QED
    BY <2>3, <2>5 DEF IndexInv, NumberFree, OneCreate
<1>4. ASSUME NEW x \in creates, Restore(x) PROVE IndexInv'
  <2>1. /\ x.at \in DOMAIN docs /\ RestoredDoc(x) \in Doc
        /\ docs' = [docs EXCEPT ![x.at] = RestoredDoc(x)]
        /\ creates' = creates \ {x}
    BY <1>4, RestoreShape
  <2>2. DOMAIN docs' = DOMAIN docs /\ Stable
    BY <2>1, DocReplaced, StableStep DEF TypeOK
  <2>3. QED
    BY <2>1, <2>2, StableKeepsIndexes
<1>5. ASSUME NEW u \in Users, NEW k \in Keys, NEW req \in UpdateReqs, Update(u, k, req)
      PROVE  IndexInv'
  <2>1. PICK p \in Active : /\ Edited(docs[p], u, req) \in Doc
                            /\ docs' = [docs EXCEPT ![p] = Edited(docs[p], u, req)]
                            /\ creates' = creates
    BY <1>5, UpdateShape
  <2>2. DOMAIN docs' = DOMAIN docs /\ Stable
    BY <2>1, DocReplaced, StableStep DEF TypeOK, Active
  <2>3. QED
    BY <2>1, <2>2, StableKeepsIndexes
<1>6. ASSUME NEW k \in Keys, Delete(k) PROVE IndexInv'
  <2>1. PICK p \in DOMAIN docs : /\ DeletedDoc(docs[p]) \in Doc
                                 /\ docs' = [docs EXCEPT ![p] = DeletedDoc(docs[p])]
                                 /\ creates' = creates
    BY <1>6, DeleteShape
  <2>2. DOMAIN docs' = DOMAIN docs /\ Stable
    BY <2>1, DocReplaced, StableStep DEF TypeOK
  <2>3. QED
    BY <2>1, <2>2, StableKeepsIndexes
<1>7. ASSUME UNCHANGED docs, creates' \subseteq creates PROVE IndexInv'
  BY <1>7 DEF IndexInv, UniqueIndex, NumberFree, OneCreate
<1>8. QED
  BY <1>1, <1>2, <1>3, <1>4, <1>5, <1>6, <1>7 DEF StoreNext, storeVars, CreateFails

(* When one create at a time is in progress, the numbers of the entries of a *)
(* collection differ, although the highest one is read in one call to        *)
(* MongoDB and used in another, and whatever edits run in between.           *)
THEOREM IndexesAreUnique ==
  ASSUME \A r, s \in Requests : r = s
  PROVE  StoreSpec => []UniqueIndex
<1> DEFINE Inv == TypeInv /\ Carried /\ IndexInv
<1>1. StoreInit => Inv
  BY EmptySeq DEF StoreInit, TypeInv, TypeOK, IndexBounded, Carried, IndexInv,
                  UniqueIndex, NumberFree, OneCreate
<1>2. Inv /\ [StoreNext]_storeVars => Inv'
  BY TypeStep, CarriedStep, IndexStep
<1>3. Inv => UniqueIndex
  BY DEF IndexInv
<1>4. QED
  BY <1>1, <1>2, <1>3, PTL DEF StoreSpec
=============================================================================
