--------------------- MODULE DictionaryConverges_proofs ---------------------
(***************************************************************************)
(* Proofs of what Converges and PublishEnds of DictionaryDeploy rest on.   *)
(* Liveness itself is for TLC; what is proved here, for every instance, is *)
(* that a publish which comes to its end while editors wait settles        *)
(* everything, however many have failed before it, that nothing but an     *)
(* edit or a failure unsettles it again, and that every step of a publish  *)
(* brings it nearer to its end.                                            *)
(***************************************************************************)
EXTENDS DictionaryDeploy_proofs, FiniteSetTheorems

(* The entries a publish can bring to an end: an empty key names none.       *)
Keyed == {i \in Published : docs[i].key \notin Unkeyed}

(* A publish that has asked for the APPROVED entries of a collection will    *)
(* synchronise those that still are.                                         *)
Promised(me) ==
  /\ me.pc = "read" =>
       \A i \in Keyed : docs[i].status = "APPROVED" /\ Asked(me, i) =>
                           docs[i].key \in me.approved
  /\ me.pc \notin {"idle", "read"} =>
       \A i \in Keyed : docs[i].status = "APPROVED" => docs[i].key \in me.approved

SettleInv ==
  /\ GatherInv
  /\ \A p \in Publishers : Promised(pub[p]) /\ Delivered(pub[p])

(* A publish that does not move keeps its promise. *)
LEMMA KeptPromised ==
  ASSUME DocsKept, NEW me, Promised(me)
  PROVE  Promised(me)'
<1>1. /\ Published' = Published
      /\ \A i \in Published : /\ docs'[i].key = docs[i].key
                              /\ docs'[i].status = "APPROVED" => docs[i].status = "APPROVED"
  BY KeptPublished
<1>2. \A i \in Published : Asked(me, i)' => Asked(me, i)
  BY <1>1 DEF Asked
<1>3. QED
  BY <1>1, <1>2 DEF Promised, Keyed

LEMMA ReadPromises ==
  ASSUME GatherInv, NEW p \in Publishers, Promised(pub[p]), Read(p),
         NEW r \in Publish, ReadsTo(p, r)
  PROVE  Promised(r)
<1> DEFINE me == pub[p]
           c == CollectionSeq[me.coll]
           asked == Noted(c, "APPROVED")
<1>1. /\ me.pc = "read" /\ me.half \in {"approved", "applied"}
      /\ me.coll \in 1 .. Len(CollectionSeq) /\ Len(CollectionSeq) \in Nat
  <2>1. me \in Publish /\ me.pc = "read"
    BY DEF Read, GatherInv, PlacedInv, DeployInv, DeployTypeOK
  <2>2. QED
    BY <2>1, Bounds DEF Publish
<1>2. r.approved = IF me.half = "approved" THEN me.approved \cup asked ELSE me.approved
  BY DEF ReadsTo
<1>3. ASSUME NEW i \in Keyed, docs[i].status = "APPROVED",
             Asked(me, i) \/ (me.half = "approved" /\ CollectionOf[docs[i].key] = c)
      PROVE  docs[i].key \in r.approved
  <2>1. CASE Asked(me, i)
    BY <1>1, <1>2, <1>3, <2>1 DEF Promised
  <2>2. CASE me.half = "approved" /\ CollectionOf[docs[i].key] = c
    <3>1. docs[i].key \in asked
      BY <1>3, <2>2 DEF Noted, ByStatus, Published, Keyed
    <3>2. QED
      BY <1>2, <2>2, <3>1
  <2>3. QED
    BY <1>3, <2>1, <2>2
<1>4. CASE me.half = "approved"
  <2>1. r.pc = "read" /\ r.half = "applied" /\ r.coll = me.coll
    BY <1>4 DEF ReadsTo
  <2>2. ASSUME NEW i \in Keyed, docs[i].status = "APPROVED", Asked(r, i)
        PROVE  docs[i].key \in r.approved
    BY <1>3, <1>4, <2>1, <2>2 DEF Asked
  <2>3. QED
    BY <2>1, <2>2 DEF Promised
<1>5. CASE me.half = "applied" /\ me.coll < Len(CollectionSeq)
  <2>1. r.pc = "read" /\ r.half = "approved" /\ r.coll = me.coll + 1
    BY <1>1, <1>5 DEF ReadsTo
  <2>2. ASSUME NEW i \in Keyed, docs[i].status = "APPROVED", Asked(r, i)
        PROVE  docs[i].key \in r.approved
    <3>1. PICK n \in 1 .. Len(CollectionSeq) :
            n < me.coll + 1 /\ CollectionSeq[n] = CollectionOf[docs[i].key]
      BY <2>1, <2>2 DEF Asked
    <3>2. n < me.coll \/ n = me.coll
      BY <1>1, <3>1
    <3>3. Asked(me, i)
      BY <1>5, <2>2, <3>1, <3>2 DEF Asked
    <3>4. QED
      BY <1>3, <2>2, <3>3
  <2>3. QED
    BY <2>1, <2>2 DEF Promised
<1>6. CASE me.half = "applied" /\ me.coll = Len(CollectionSeq)
  <2>1. r.pc \in {"validate", "loaded"}
    BY <1>1, <1>6 DEF ReadsTo
  <2>2. ASSUME NEW i \in Keyed, docs[i].status = "APPROVED"
        PROVE  docs[i].key \in r.approved
    <3>1. PICK n \in 1 .. Len(CollectionSeq) : CollectionSeq[n] = CollectionOf[docs[i].key]
      BY CollectionsRead DEF Keyed, GatherInv, PlacedInv, DeployInv, DeployTypeOK
    <3>2. n < me.coll \/ n = me.coll
      BY <1>1, <1>6, <3>1
    <3>3. Asked(me, i)
      BY <1>6, <2>2, <3>1, <3>2 DEF Asked
    <3>4. QED
      BY <1>3, <2>2, <3>3
  <2>3. QED
    BY <2>1, <2>2 DEF Promised
<1>7. QED
  <2>1. me.coll < Len(CollectionSeq) \/ me.coll = Len(CollectionSeq)
    BY <1>1
  <2>2. QED
    BY <1>1, <1>4, <1>5, <1>6, <2>1


LEMMA PromisedNext ==
  ASSUME DocsKept, NEW q, NEW r, r = pub'[q], Promised(r)
  PROVE  Promised(pub[q])'
<1>1. Promised(r)'
  BY KeptPromised
<1>2. QED
  BY <1>1 DEF Promised

(* An entry that is synchronised is APPROVED no longer. *)
LEMMA SyncPromises ==
  ASSUME SettleInv, NEW p \in Publishers, NEW k \in Keys, Sync(p, k), SetStatus(k, "APPLIED")
  PROVE  Promised(pub[p])'
<1>a. GatherInv /\ PlacedInv /\ KeyInv /\ pub \in [Publishers -> Publish]
  BY DEF SettleInv, GatherInv, PlacedInv, DeployInv, DeployTypeOK
<1>1. /\ pub[p].pc = "sync" /\ k \in pub[p].approved /\ SetStatus(k, "APPLIED")
      /\ pub' = [pub EXCEPT ![p].approved = @ \ {k}]
  BY DEF Sync
<1>2. pub'[p].pc = "sync" /\ pub'[p].approved = pub[p].approved \ {k}
  BY <1>a, <1>1 DEF Publish
<1>3. PICK j \in Published : docs[j].key = k
  BY <1>a, <1>1 DEF GatherInv, Gathered
<1>4. docs' = [docs EXCEPT ![j].status = "APPLIED"] /\ DocsKept
  BY <1>a, <1>1, <1>3, SyncKeeps
<1>5. /\ Published' = Published
      /\ \A i \in Published : /\ i \in DOMAIN docs /\ docs'[i].key = docs[i].key
                              /\ docs'[i].status = "APPROVED" => docs[i].status = "APPROVED"
  BY <1>4, KeptPublished
<1>6. ASSUME NEW i \in Published, docs[i].key \notin Unkeyed, docs'[i].status = "APPROVED"
      PROVE  docs'[i].key \in pub'[p].approved
  <2>1. i # j
    <3>1. docs[j] \in Doc
      BY <1>a, <1>5, DocType DEF PlacedInv, DeployInv, DeployTypeOK, TypeOK
    <3>2. docs'[j].status = "APPLIED"
      BY <1>4, <1>5, <3>1 DEF Doc
    <3>3. QED
      BY <1>6, <3>2
  <2>2. docs[i].key # k
    BY <1>a, <1>3, <1>5, <2>1 DEF KeyInv, UniqueKey
  <2>3. docs[i].key \in pub[p].approved
    BY <1>1, <1>5, <1>6 DEF SettleInv, Promised, Keyed
  <2>4. QED
    BY <1>2, <1>5, <2>2, <2>3
<1>7. QED
  BY <1>2, <1>5, <1>6 DEF Promised, Keyed

(* An empty key is passed over, and was never promised. *)
LEMMA PassesPromises ==
  ASSUME SettleInv, NEW p \in Publishers, NEW k \in Unkeyed, Sync(p, k), UNCHANGED docs
  PROVE  Promised(pub[p])'
<1>a. GatherInv /\ pub \in [Publishers -> Publish] /\ Promised(pub[p])
  BY DEF SettleInv, GatherInv, PlacedInv, DeployInv, DeployTypeOK
<1>1. /\ pub[p].pc = "sync" /\ pub' = [pub EXCEPT ![p].approved = @ \ {k}]
  BY DEF Sync
<1>2. pub'[p].pc = "sync" /\ pub'[p].approved = pub[p].approved \ {k}
  BY <1>a, <1>1 DEF Publish
<1>3. Keyed' = Keyed
  BY DEF Keyed, Published, Active
<1>4. ASSUME NEW i \in Keyed, docs[i].status = "APPROVED" PROVE docs[i].key \in pub'[p].approved
  BY <1>a, <1>1, <1>2, <1>4 DEF Promised, Keyed
<1>5. QED
  BY <1>2, <1>3, <1>4 DEF Promised

LEMMA PromisedStep ==
  ASSUME SettleInv, [Next]_vars, ~EditorStep, NEW q \in Publishers
  PROVE  Promised(pub[q])'
<1> DEFINE Goal == Promised(pub[q])'
<1>a. /\ pub \in [Publishers -> Publish] /\ PlacedInv /\ GatherInv /\ DocsKept
      /\ \A p \in Publishers : Promised(pub[p])
  BY StoreKept DEF SettleInv, GatherInv, PlacedInv, DeployInv, DeployTypeOK
<1>b. ASSUME NEW p \in Publishers, NEW r, Promised(r), pub' = [pub EXCEPT ![p] = r]
      PROVE  Goal
  <2>1. CASE q = p
    BY <1>a, <1>b, <2>1, PromisedNext
  <2>2. CASE q # p
    <3>1. PICK m : m = pub[q]
      OBVIOUS
    <3>2. m = pub'[q] /\ Promised(m)
      BY <1>a, <1>b, <2>2, <3>1
    <3>3. QED
      BY <1>a, <3>2, PromisedNext
  <2>3. QED
    BY <2>1, <2>2
<1>1. CASE pub'[q] = pub[q]
  <2>1. PICK m : m = pub[q]
    OBVIOUS
  <2>2. m = pub'[q] /\ Promised(m)
    BY <1>a, <1>1, <2>1
  <2>3. QED
    BY <1>a, <2>2, PromisedNext
<1>2. ASSUME NEW p \in Publishers, NEW kind \in Kinds, Start(p, kind) PROVE Goal
  <2> DEFINE r == [Idle EXCEPT !.pc = "read", !.kind = kind]
  <2>1. r.pc = "read" /\ r.coll = 1 /\ r.half = "approved" /\ pub' = [pub EXCEPT ![p] = r]
    BY <1>2 DEF Start, Idle
  <2> HIDE DEF r
  <2>2. Promised(r)
    BY <2>1, Bounds DEF Promised, Asked
  <2>3. QED
    BY <1>b, <2>1, <2>2
<1>3. ASSUME NEW p \in Publishers, Read(p) PROVE Goal
  <2>1. PICK r \in Publish : ReadsTo(p, r)
    BY <1>a, <1>3, ReadType
  <2>2. Promised(r) /\ pub' = [pub EXCEPT ![p] = r]
    BY <1>a, <1>3, <2>1, ReadPromises DEF ReadsTo
  <2>3. QED
    BY <1>b, <2>2
<1>4. ASSUME NEW p \in Publishers, Validated(p) PROVE Goal
  <2> DEFINE me == pub[p]
             r == [me EXCEPT !.pc = "read", !.phase = "publish",
                             !.checked = me.lines, !.lines = {}, !.approved = {}]
  <2>1. me \in Publish /\ me.pc = "validate" /\ pub' = [pub EXCEPT ![p] = r]
    BY <1>a, <1>4 DEF Validated
  <2>2. me.coll = 1 /\ me.half = "approved"
    BY <1>a, <2>1 DEF GatherInv, Gathered
  <2>3. r.pc = "read" /\ r.coll = 1 /\ r.half = "approved"
    BY <2>1, <2>2 DEF Publish
  <2> HIDE DEF r
  <2>4. Promised(r)
    BY <2>3, Bounds DEF Promised, Asked
  <2>5. QED
    BY <1>b, <2>1, <2>4
<1>5. ASSUME NEW p \in Publishers, NEW r, pub' = [pub EXCEPT ![p] = r],
             pub[p].pc \notin {"idle", "read"}, r.pc # "read", r.approved = pub[p].approved
      PROVE  Goal
  <2>1. Promised(r)
    BY <1>a, <1>5 DEF Promised
  <2>2. QED
    BY <1>b, <1>5, <2>1
<1>6. ASSUME NEW p \in Publishers, Stamp(p) PROVE Goal
  <2> DEFINE r == [pub[p] EXCEPT !.stamp = clock,
                     !.pc = IF pub[p].kind = "block" THEN "ship" ELSE "stamped"]
  <2>1. pub[p] \in Publish /\ pub[p].pc = "loaded" /\ pub' = [pub EXCEPT ![p] = r]
    BY <1>a, <1>6 DEF Stamp
  <2>2. r.pc # "read" /\ r.approved = pub[p].approved
    BY <2>1 DEF Publish
  <2> HIDE DEF r
  <2>3. QED
    BY <1>5, <2>1, <2>2
<1>7. ASSUME NEW p \in Publishers, Resume(p) PROVE Goal
  <2> DEFINE r == [pub[p] EXCEPT !.pc = "ship"]
  <2>1. /\ pub[p] \in Publish /\ pub[p].pc \in {"stamped", "backed"}
        /\ pub' = [pub EXCEPT ![p] = r]
    BY <1>a, <1>7 DEF Resume
  <2>2. r.pc # "read" /\ r.approved = pub[p].approved
    BY <2>1 DEF Publish
  <2> HIDE DEF r
  <2>3. QED
    BY <1>5, <2>1, <2>2
<1>8. ASSUME NEW p \in Publishers, pub' = [pub EXCEPT ![p] = Idle] PROVE Goal
  <2>1. Promised(Idle)
    BY IdleType DEF Promised
  <2>2. QED
    BY <1>b, <1>8, <2>1
<1>9. ASSUME NEW p \in Publishers, BackUp(p) \/ Upload(p) \/ BackupFails(p) PROVE Goal
  <2>1. /\ pub[p].pc = "ship"
        /\ pub' = [pub EXCEPT ![p] = Advance(pub[p])] \/ pub' = [pub EXCEPT ![p] = Idle]
    BY <1>9 DEF BackUp, Upload, BackupFails, AfterFailedBackup, AtOp
  <2>2. CASE pub' = [pub EXCEPT ![p] = Advance(pub[p])]
    <3> DEFINE r == Advance(pub[p])
    <3>1. pub' = [pub EXCEPT ![p] = r]
      BY <2>2
    <3> HIDE DEF r
    <3>2. r.pc # "read" /\ r.approved = pub[p].approved
      BY <1>a, <2>1, AdvanceShape DEF r
    <3>3. QED
      BY <1>5, <2>1, <3>1, <3>2
  <2>3. QED
    BY <1>8, <2>1, <2>2
<1>10. ASSUME NEW p \in Publishers, NEW k \in Keys, Sync(p, k) PROVE Goal
  <2>1. CASE p = q
    <3>1. CASE SetStatus(k, "APPLIED")
      BY <1>10, <2>1, <3>1, SyncPromises
    <3>2. CASE k \in Unkeyed /\ UNCHANGED docs
      BY <1>10, <2>1, <3>2, PassesPromises
    <3>3. QED
      BY <1>10, <3>1, <3>2 DEF Sync
  <2>2. CASE p # q
    BY <1>1, <1>10, <1>a, <2>2 DEF Sync
  <2>3. QED
    BY <2>1, <2>2
<1>11. ASSUME NEW p \in Publishers, Finish(p) \/ Fail(p) \/ UploadFails(p) PROVE Goal
  <2>1. pub' = [pub EXCEPT ![p] = Idle]
    BY <1>11 DEF Finish, Fail, UploadFails, AfterFailedUpload
  <2>2. QED
    BY <1>8, <2>1
<1>12. QED
  <2>1. Tick \/ UNCHANGED vars => pub'[q] = pub[q]
    BY DEF Tick, vars
  <2>2. QED
    BY <1>1, <1>2, <1>3, <1>4, <1>6, <1>7, <1>9, <1>10, <1>11, <2>1 DEF Next, Proceed

LEMMA SettleStep ==
  ASSUME QuietEditors, SettleInv, [Next]_vars
  PROVE  SettleInv'
<1>1. GatherInv'
  BY GatherStep DEF SettleInv
<1>2. ASSUME NEW q \in Publishers PROVE Promised(pub[q])' /\ Delivered(pub[q])'
  <2>1. CASE EditorStep
    <3>1. pub'[q].pc = "idle"
      BY <2>1, EditorsWait
    <3>2. QED
      BY <3>1 DEF Promised, Delivered
  <2>2. CASE ~EditorStep
    BY <2>2, PromisedStep, DeliveredStep DEF SettleInv
  <2>3. QED
    BY <2>1, <2>2
<1>3. QED
  BY <1>1, <1>2 DEF SettleInv

LEMMA SettleInit == Init => SettleInv
<1>1. ASSUME Init, NEW p \in Publishers PROVE pub[p].pc = "idle"
  BY <1>1, IdleType DEF Init
<1>2. QED
  BY GatherInit, <1>1 DEF SettleInv, Promised, Delivered

-----------------------------------------------------------------------------
(* What the file f has in a settled state. *)
AppliedLines(f) == UNION {Query(d, "APPLIED") : d \in {e \in Collections : FileOf[e] = f}}

SettledOrTorn ==
  \A c \in Collections :
    /\ \A i \in ByStatus(c, "APPROVED") : docs[i].key \in Unkeyed
    /\ \A s \in Servers : live[s][FileOf[c]] \in {Torn, AppliedLines(FileOf[c])}

(* When no entry is APPROVED, what is APPLIED is all that is published: an   *)
(* entry of an empty key gives no line.                                      *)
LEMMA AllApplied ==
  ASSUME TypeOK, \A i \in Keyed : docs[i].status = "APPLIED", NEW f
  PROVE  AppliedLines(f) = Section(PublishedLines, f)
<1>1. ASSUME NEW i \in Published
      PROVE  docs[i].key \in Keys /\ CollectionOf[docs[i].key] \in Collections
  <2>1. docs[i] \in Doc
    BY DocType DEF TypeOK, Published, Active
  <2>2. QED
    BY <2>1, StoreAssumption DEF Doc
<1>2. ASSUME NEW l \in AppliedLines(f) PROVE l \in Section(PublishedLines, f)
  <2>1. PICK d \in Collections : FileOf[d] = f /\ l \in Query(d, "APPLIED")
    BY <1>2 DEF AppliedLines
  <2>2. PICK i \in ByStatus(d, "APPLIED") : l = LineOf(docs[i]) /\ GivesLine(docs[i])
    BY <2>1 DEF Query
  <2>3. i \in Published /\ CollectionOf[docs[i].key] = d /\ l.key = docs[i].key
    BY <2>2 DEF ByStatus, Published, LineOf
  <2>4. QED
    BY <2>1, <2>2, <2>3 DEF Section, PublishedLines
<1>3. ASSUME NEW l \in Section(PublishedLines, f) PROVE l \in AppliedLines(f)
  <2>1. PICK i \in Published : l = LineOf(docs[i]) /\ GivesLine(docs[i])
    BY <1>3 DEF Section, PublishedLines
  <2>0. docs[i].status = "APPLIED"
    <3>1. docs[i] \in Doc
      BY DocType DEF TypeOK, Published, Active
    <3>2. docs[i].key \notin Unkeyed
      BY <2>1, <3>1, DeployAssumption DEF Doc, GivesLine
    <3>3. QED
      BY <3>2 DEF Keyed
  <2>2. FileOf[CollectionOf[docs[i].key]] = f
    BY <1>3, <2>1 DEF Section, LineOf
  <2>3. l \in Query(CollectionOf[docs[i].key], "APPLIED")
    BY <2>0, <2>1, QueryReturns
  <2>4. QED
    BY <1>1, <2>2, <2>3 DEF AppliedLines
<1>4. QED
  BY <1>2, <1>3

LEMMA NoneApproved ==
  ASSUME TypeOK
  PROVE  (\A c \in Collections : \A i \in ByStatus(c, "APPROVED") : docs[i].key \in Unkeyed) <=>
         \A i \in Keyed : docs[i].status = "APPLIED"
<1>1. ASSUME NEW i \in Published, docs[i].status = "APPROVED"
      PROVE  \E c \in Collections : i \in ByStatus(c, "APPROVED")
  <2>1. docs[i] \in Doc
    BY DocType DEF TypeOK, Published, Active
  <2>2. CollectionOf[docs[i].key] \in Collections
    BY <2>1, StoreAssumption DEF Doc
  <2>3. QED
    BY <1>1, <2>2 DEF ByStatus, Published
<1>2. ASSUME NEW c \in Collections, NEW i \in ByStatus(c, "APPROVED")
      PROVE  i \in Published /\ docs[i].status = "APPROVED"
  BY DEF ByStatus, Published
<1>3. \A i \in Published : docs[i].status \in {"APPROVED", "APPLIED"}
  BY DEF Published
<1>4. QED
  BY <1>1, <1>2, <1>3 DEF Keyed

(* A publish with nothing left to synchronise. *)
LEMMA DoneSettles ==
  ASSUME SettleInv, NEW p \in Publishers, pub[p].pc = "sync", pub[p].approved = {}
  PROVE  /\ \A i \in Keyed : docs[i].status = "APPLIED"
         /\ pub[p].lines = PublishedLines
         /\ SettledOrTorn
<1>1. TypeOK /\ Gathered(pub[p]) /\ Promised(pub[p]) /\ Delivered(pub[p])
  BY DEF SettleInv, GatherInv, PlacedInv, DeployInv, DeployTypeOK
<1>2. \A i \in Keyed : docs[i].status = "APPLIED"
  BY <1>1 DEF Promised, Published, Keyed
<1>3. pub[p].lines = PublishedLines
  BY <1>1 DEF Gathered
<1>4. ASSUME NEW c \in Collections
      PROVE  /\ \A i \in ByStatus(c, "APPROVED") : docs[i].key \in Unkeyed
             /\ \A s \in Servers : live[s][FileOf[c]] \in {Torn, AppliedLines(FileOf[c])}
  <2>1. \A i \in ByStatus(c, "APPROVED") : docs[i].key \in Unkeyed
    BY <1>1, <1>2, NoneApproved
  <2>2. AppliedLines(FileOf[c]) = Section(PublishedLines, FileOf[c])
    BY <1>1, <1>2, AllApplied
  <2>3. FileOf[c] \in Files
    BY DeployAssumption
  <2>4. QED
    BY <1>1, <2>1, <2>2, <2>3 DEF Delivered, Serves
<1>5. QED
  BY <1>2, <1>3, <1>4 DEF SettledOrTorn

(* Settling depends on the documents and the files alone. *)
LEMMA SettledKept ==
  ASSUME UNCHANGED <<docs, live>>
  PROVE  (SettledOrTorn => SettledOrTorn') /\ (Settled => Settled')
<1>1. /\ \A c, st : ByStatus(c, st)' = ByStatus(c, st)
      /\ \A c, st : Query(c, st)' = Query(c, st)
  BY DEF ByStatus, Query, Active, LineOf, GivesLine
<1>2. \A f : AppliedLines(f)' = AppliedLines(f)
  BY <1>1 DEF AppliedLines
<1>3. SettledOrTorn => SettledOrTorn'
  BY <1>1, <1>2 DEF SettledOrTorn
<1>4. Settled => Settled'
  BY <1>1 DEF Settled
<1>5. QED
  BY <1>3, <1>4

(* A publish that comes to its end leaves no entry APPROVED, one of an empty *)
(* key excepted, and every file of every server has the lines of the APPLIED *)
(* entries and nothing else, or is one that the failure of another publish   *)
(* has truncated: for any number of publishes that overlap, fail, or have    *)
(* failed half-way before it.                                                *)
THEOREM PublishSettles ==
  ASSUME QuietEditors
  PROVE  Spec => [][\A p \in Publishers : Finish(p) => SettledOrTorn']_vars
<1>1. SettleInv /\ [Next]_vars => SettleInv'
  BY SettleStep
<1>2. SettleInv => [\A p \in Publishers : Finish(p) => SettledOrTorn']_vars
  <2>1. ASSUME SettleInv, NEW p \in Publishers, Finish(p) PROVE SettledOrTorn'
    <3>1. SettledOrTorn
      BY <2>1, DoneSettles DEF Finish
    <3>2. UNCHANGED <<docs, live>>
      BY <2>1 DEF Finish, storeVars
    <3>3. QED
      BY <3>1, <3>2, SettledKept
  <2>2. QED
    BY <2>1
<1>3. QED
  BY SettleInit, <1>1, <1>2, PTL DEF Spec

(* With one publish at a time no file is left truncated: a publish that      *)
(* comes to its end repairs what earlier ones left when they failed.         *)
THEOREM RetriedPublishSettles ==
  ASSUME QuietEditors, Alone
  PROVE  Spec => [][\A p \in Publishers : Finish(p) => Settled']_vars
<1> DEFINE Inv == SettleInv /\ ShippedInv
<1>1. Init => Inv
  BY SettleInit, PlacedInit, IdleType DEF Init, ShippedInv, Shipped
<1>2. Inv /\ [Next]_vars => Inv'
  BY SettleStep, PlacedStep, ShippedStep DEF ShippedInv
<1>3. Inv => [\A p \in Publishers : Finish(p) => Settled']_vars
  <2>1. ASSUME Inv, NEW p \in Publishers, Finish(p) PROVE Settled'
    <3>1. /\ \A i \in Keyed : docs[i].status = "APPLIED"
          /\ pub[p].lines = PublishedLines
      BY <2>1, DoneSettles DEF Finish
    <3>2. TypeOK
      BY <2>1 DEF SettleInv, GatherInv, PlacedInv, DeployInv, DeployTypeOK
    <3>3. ASSUME NEW c \in Collections, NEW s \in Servers
          PROVE  live[s][FileOf[c]] = AppliedLines(FileOf[c])
      <4>1. FileOf[c] \in Files /\ Shipped(pub[p]) /\ pub[p].pc = "sync"
        BY <2>1, DeployAssumption DEF ShippedInv, Finish
      <4>2. live[s][FileOf[c]] = Section(PublishedLines, FileOf[c])
        BY <3>1, <4>1 DEF Shipped
      <4>3. QED
        BY <3>1, <3>2, <4>2, AllApplied
    <3>4. \A c \in Collections : \A i \in ByStatus(c, "APPROVED") : docs[i].key \in Unkeyed
      BY <3>1, <3>2, NoneApproved
    <3>5. Settled
      BY <3>3, <3>4 DEF Settled, AppliedLines
    <3>6. UNCHANGED <<docs, live>>
      BY <2>1 DEF Finish, storeVars
    <3>7. QED
      BY <3>5, <3>6, SettledKept
  <2>2. QED
    BY <2>1
<1>4. QED
  BY <1>1, <1>2, <1>3, PTL DEF Spec

(* What is settled stays so until an editor or a failure intervenes, however *)
(* many publishes go on: they ship what is there and mark what is marked.    *)
THEOREM SettledStays ==
  ASSUME QuietEditors
  PROVE  Spec => [][Settled /\ ~EditorStep /\ faults' = faults => Settled']_vars
<1>1. SettleInv /\ [Next]_vars => SettleInv'
  BY SettleStep
<1>2. SettleInv /\ [Next]_vars
        => [Settled /\ ~EditorStep /\ faults' = faults => Settled']_vars
  <2> SUFFICES ASSUME SettleInv, [Next]_vars, Settled, ~EditorStep, faults' = faults
               PROVE  Settled'
    OBVIOUS
  <2>1. GatherInv /\ PlacedInv /\ KeyInv /\ TypeOK /\ docs \in Seq(Doc) /\ faults \in Nat
    <3>1. GatherInv /\ PlacedInv /\ KeyInv /\ TypeOK /\ faults \in 0 .. MaxFaults
      BY DEF SettleInv, GatherInv, PlacedInv, DeployInv, DeployTypeOK
    <3>2. QED
      BY <3>1 DEF TypeOK
  <2>2. /\ \A i \in Keyed : docs[i].status = "APPLIED"
        /\ \A c \in Collections, s \in Servers :
             live[s][FileOf[c]] = Section(PublishedLines, FileOf[c])
    <3>1. \A c \in Collections : \A i \in ByStatus(c, "APPROVED") : docs[i].key \in Unkeyed
      BY DEF Settled
    <3>2. \A i \in Keyed : docs[i].status = "APPLIED"
      BY <2>1, <3>1, NoneApproved
    <3>3. \A c \in Collections, s \in Servers : live[s][FileOf[c]] = AppliedLines(FileOf[c])
      BY DEF Settled, AppliedLines
    <3>4. QED
      BY <2>1, <3>2, <3>3, AllApplied
  <2>3. docs' = docs
    <3>1. ASSUME NEW p \in Publishers, NEW k \in Keys, Sync(p, k),
                 k \notin Unkeyed, SetStatus(k, "APPLIED")
          PROVE  docs' = docs
      <4>1. pub[p].pc = "sync" /\ k \in pub[p].approved /\ SetStatus(k, "APPLIED")
        BY <3>1 DEF Sync
      <4>2. PICK j \in Published : docs[j].key = k
        BY <2>1, <4>1 DEF GatherInv, Gathered
      <4>3. docs' = [docs EXCEPT ![j].status = "APPLIED"]
        BY <2>1, <4>1, <4>2, SyncKeeps
      <4>4. j \in DOMAIN docs /\ docs[j] \in Doc /\ docs[j].status = "APPLIED"
        BY <2>1, <2>2, <3>1, <4>2, DocType DEF Published, Active, Keyed
      <4>5. [docs[j] EXCEPT !.status = "APPLIED"] = docs[j]
        BY <4>4 DEF Doc
      <4>6. QED
        BY <2>1, <4>3, <4>4, <4>5
    <3>2. \/ docs' = docs
          \/ \E p \in Publishers, k \in Keys :
               Sync(p, k) /\ k \notin Unkeyed /\ SetStatus(k, "APPLIED")
      BY DEF Next, Proceed, Start, Read, Validated, Stamp, Resume, BackUp, Upload, Sync, Finish,
             Fail, UploadFails, BackupFails, Tick, vars, storeVars
    <3>3. QED
      BY <3>1, <3>2
  <2>4. ASSUME NEW s \in Servers, NEW f \in Files
        PROVE  live'[s][f] \in {live[s][f], Section(PublishedLines, f)}
    <3>1. ASSUME NEW p \in Publishers, Uploads(p)
          PROVE  live'[s][f] \in {live[s][f], Section(PublishedLines, f)}
      <4>1. pub[p].lines = PublishedLines
        BY <2>1, <3>1 DEF Uploads, GatherInv, Gathered
      <4>2. QED
        BY <2>1, <3>1, <4>1, UploadWrites
    <3>2. ASSUME NEW p \in Publishers, Prepares(p) \/ Enters(p) \/ BacksUp(p) PROVE live' = live
      BY <3>2 DEF Prepares, Enters, BacksUp, Untouched
    <3>3. ASSUME NEW p \in Publishers PROVE ~Ends(p)
      BY <2>1 DEF Ends
    <3>4. Pauses => live' = live
      BY DEF Pauses, Untouched
    <3>5. QED
      BY <2>1, <3>1, <3>2, <3>3, <3>4, StepShape
  <2>5. ASSUME NEW c \in Collections, NEW s \in Servers
        PROVE  live'[s][FileOf[c]] = live[s][FileOf[c]]
    <3>1. FileOf[c] \in Files
      BY DeployAssumption
    <3>2. QED
      BY <2>2, <2>4, <3>1
  <2>6. /\ \A c, st : ByStatus(c, st)' = ByStatus(c, st)
        /\ \A c, st : Query(c, st)' = Query(c, st)
    BY <2>3 DEF ByStatus, Query, Active, LineOf, GivesLine
  <2>7. QED
    BY <2>3, <2>5, <2>6 DEF Settled
<1>3. QED
  BY SettleInit, <1>1, <1>2, PTL DEF Spec

-----------------------------------------------------------------------------
(* The steps a publish has left until it synchronises, if nothing fails:     *)
(* its queries and the validation between them, the two or three times it    *)
(* enters or prepares a segment, and the files it backs up and replaces.     *)
QueriesLeft(me) ==
  LET round == 2 * (Len(CollectionSeq) - me.coll) + (IF me.half = "approved" THEN 2 ELSE 1)
  IN  IF me.pc = "validate" THEN round + 1
      ELSE IF me.pc # "read" THEN 0
      ELSE IF me.phase = "validate" THEN round + 1 + 2 * Len(CollectionSeq) ELSE round

EntriesLeft(me) ==
  IF me.pc = "ship" THEN 0
  ELSE IF me.pc \in {"stamped", "backed"} \/ me.kind = "block" THEN 1 ELSE 2

LaterFiles(srv) == (NumServers - srv) * NumFiles

TransfersLeft(me) ==
  LET files == NumFiles - me.file + 1
  IN  IF me.kind = "block"
      THEN files + 2 * LaterFiles(me.srv) + (IF me.op = "backup" THEN NumFiles ELSE 0)
      ELSE files + LaterFiles(me.srv) + (IF me.op = "backup" THEN LaterFiles(0) + 1 ELSE 0)

StepsLeft(me) ==
  IF me.pc \in {"idle", "sync"} THEN 0
  ELSE QueriesLeft(me) + EntriesLeft(me) + TransfersLeft(me)

LEMMA LaterFilesType ==
  ASSUME NEW srv \in 0 .. NumServers
  PROVE  /\ LaterFiles(srv) \in Nat
         /\ srv < NumServers => LaterFiles(srv + 1) = LaterFiles(srv) - NumFiles
         /\ LaterFiles(NumServers) = 0
<1>1. NumServers \in Nat /\ NumFiles \in Nat /\ srv \in Nat /\ srv <= NumServers
  BY Bounds
<1>2. ASSUME NEW a \in Nat, NEW b \in Nat
      PROVE  a * b \in Nat /\ (a - 1) * b = a * b - b /\ 0 * b = 0
  OBVIOUS
<1>3. NumServers - srv \in Nat /\ NumServers - (srv + 1) = (NumServers - srv) - 1
  BY <1>1
<1>4. LaterFiles(srv) \in Nat /\ LaterFiles(srv + 1) = LaterFiles(srv) - NumFiles
  BY <1>1, <1>2, <1>3 DEF LaterFiles
<1>5. NumServers - NumServers = 0
  BY <1>1
<1>6. LaterFiles(NumServers) = 0
  BY <1>1, <1>2, <1>5 DEF LaterFiles
<1>7. QED
  BY <1>4, <1>6

LEMMA StepsType ==
  ASSUME NEW me \in Publish
  PROVE  /\ TransfersLeft(me) \in Nat \ {0} /\ QueriesLeft(me) \in Nat /\ EntriesLeft(me) \in Nat
         /\ StepsLeft(me) \in Nat
         /\ me.pc \notin {"idle", "sync"} <=> StepsLeft(me) > 0
<1>1. /\ me.file \in 1 .. NumFiles /\ me.srv \in 0 .. NumServers
      /\ me.coll \in 1 .. Len(CollectionSeq)
      /\ NumFiles \in Nat /\ NumServers \in Nat /\ Len(CollectionSeq) \in Nat
  BY Bounds DEF Publish, Servers, Files
<1>2. LaterFiles(me.srv) \in Nat /\ LaterFiles(0) \in Nat
  BY <1>1, LaterFilesType
<1>3. TransfersLeft(me) \in Nat \ {0}
  <2>1. NumFiles - me.file + 1 \in Nat \ {0}
    BY <1>1
  <2>2. (IF me.op = "backup" THEN NumFiles ELSE 0) \in Nat
    BY <1>1
  <2>3. (IF me.op = "backup" THEN LaterFiles(0) + 1 ELSE 0) \in Nat
    BY <1>2
  <2>4. QED
    BY <1>2, <2>1, <2>2, <2>3 DEF TransfersLeft
<1>4. QueriesLeft(me) \in Nat
  <2> DEFINE round == 2 * (Len(CollectionSeq) - me.coll)
                        + (IF me.half = "approved" THEN 2 ELSE 1)
  <2>1. round \in Nat
    BY <1>1
  <2>2. QueriesLeft(me) \in {round + 1, 0, round + 1 + 2 * Len(CollectionSeq), round}
    BY DEF QueriesLeft
  <2> HIDE DEF round
  <2>3. QED
    BY <1>1, <2>1, <2>2
<1>5. EntriesLeft(me) \in Nat
  BY DEF EntriesLeft
<1>6. QED
  BY <1>3, <1>4, <1>5 DEF StepsLeft

(* Each transfer is one step less. *)
LEMMA AdvanceCounts ==
  ASSUME NEW me \in Publish, me.pc = "ship"
  PROVE  StepsLeft(Advance(me)) = StepsLeft(me) - 1
<1> DEFINE next == Advance(me)
<1> HIDE DEF next
<1>1. /\ me.file \in 1 .. NumFiles /\ me.srv \in 1 .. NumServers
      /\ me.kind \in {"block", "stream"} /\ me.op \in {"backup", "upload"}
      /\ NumFiles \in Nat \ {0} /\ NumServers \in Nat \ {0}
  BY Bounds DEF Publish, Servers, Files
<1>2. /\ LaterFiles(me.srv) \in Nat /\ LaterFiles(0) \in Nat /\ LaterFiles(NumServers) = 0
      /\ me.srv < NumServers => LaterFiles(me.srv + 1) = LaterFiles(me.srv) - NumFiles
      /\ LaterFiles(1) = LaterFiles(0) - NumFiles
  <2>1. me.srv \in 0 .. NumServers /\ 0 \in 0 .. NumServers /\ 0 < NumServers /\ 0 + 1 = 1
    BY <1>1
  <2>2. QED
    BY <2>1, LaterFilesType
<1>3. StepsLeft(me) = TransfersLeft(me)
  <2>1. TransfersLeft(me) \in Nat
    BY StepsType
  <2>2. QED
    BY <2>1 DEF StepsLeft, QueriesLeft, EntriesLeft
<1>4. next.kind = me.kind /\ next \in Publish
  BY AdvanceShape DEF next
<1>5. TransfersLeft(next) \in Nat
  BY <1>4, StepsType
<1>6. /\ next.pc = "ship" => StepsLeft(next) = TransfersLeft(next)
      /\ next.pc = "backed" => StepsLeft(next) = TransfersLeft(next) + 1
      /\ next.pc = "sync" => StepsLeft(next) = 0
  BY <1>5 DEF StepsLeft, QueriesLeft, EntriesLeft
<1>7. CASE me.file < NumFiles
  <2>1. /\ next.pc = "ship" /\ next.op = me.op /\ next.srv = me.srv /\ next.file = me.file + 1
    BY <1>1, <1>7, AdvanceShape DEF next
  <2>2. QED
    BY <1>1, <1>2, <1>3, <1>4, <1>6, <2>1 DEF TransfersLeft, next
<1>8. CASE me.file = NumFiles /\ me.kind = "block" /\ me.op = "backup"
  <2>1. next.pc = "ship" /\ next.op = "upload" /\ next.srv = me.srv /\ next.file = 1
    BY <1>1, <1>8, AdvanceShape DEF next
  <2>2. QED
    BY <1>1, <1>2, <1>3, <1>4, <1>6, <1>8, <2>1 DEF TransfersLeft, next
<1>9. CASE me.file = NumFiles /\ ~(me.kind = "block" /\ me.op = "backup") /\ me.srv < NumServers
  <2>1. /\ next.pc = "ship" /\ next.srv = me.srv + 1 /\ next.file = 1
        /\ next.op = IF me.kind = "block" THEN "backup" ELSE me.op
    BY <1>1, <1>9, AdvanceShape DEF next
  <2>2. QED
    BY <1>1, <1>2, <1>3, <1>4, <1>6, <1>9, <2>1 DEF TransfersLeft, next
<1>10. CASE me.file = NumFiles /\ ~(me.kind = "block" /\ me.op = "backup") /\ me.srv = NumServers
  <2>1. CASE me.op = "backup"
    <3>1. next.pc = "backed" /\ next.srv = 1 /\ next.file = 1 /\ next.op = "upload"
      BY <1>1, <1>10, <2>1, AdvanceShape DEF next
    <3>2. QED
      BY <1>1, <1>2, <1>3, <1>4, <1>6, <1>10, <2>1, <3>1 DEF TransfersLeft, next
  <2>2. CASE me.op = "upload"
    <3>1. next.pc = "sync"
      BY <1>1, <1>10, <2>2, AdvanceShape DEF next
    <3>2. QED
      BY <1>1, <1>2, <1>3, <1>6, <1>10, <2>2, <3>1 DEF TransfersLeft, next
  <2>3. QED
    BY <1>1, <2>1, <2>2
<1>11. QED
  BY <1>1, <1>7, <1>8, <1>9, <1>10

(* A query is one step less, the last one of a round included. *)
LEMMA ReadCounts ==
  ASSUME PlacedInv, NEW p \in Publishers, Read(p), NEW r \in Publish, ReadsTo(p, r)
  PROVE  StepsLeft(r) = StepsLeft(pub[p]) - 1
<1> DEFINE me == pub[p]
<1>1. /\ me \in Publish /\ me.pc = "read" /\ me.half \in {"approved", "applied"}
      /\ me.phase \in {"validate", "publish"}
      /\ me.coll \in 1 .. Len(CollectionSeq) /\ Len(CollectionSeq) \in Nat
      /\ me.op = "backup" /\ me.srv = 1 /\ me.file = 1
  <2>1. me \in Publish /\ me.pc = "read" /\ Placed(me)
    BY DEF Read, PlacedInv, DeployInv, DeployTypeOK
  <2>2. QED
    BY <2>1, Bounds DEF Publish, Placed
<1>2. /\ r.pc \in {"read", "validate", "loaded"} /\ r.kind = me.kind /\ r.phase = me.phase
      /\ r.op = "backup" /\ r.srv = 1 /\ r.file = 1
  BY DEF ReadsTo, Placed
<1>3. TransfersLeft(r) = TransfersLeft(me)
  BY <1>1, <1>2 DEF TransfersLeft
<1>4. EntriesLeft(r) = EntriesLeft(me)
  BY <1>1, <1>2 DEF EntriesLeft
<1>5. QueriesLeft(r) = QueriesLeft(me) - 1
  <2>1. CASE me.half = "approved"
    <3>1. r.pc = "read" /\ r.half = "applied" /\ r.coll = me.coll
      BY <2>1 DEF ReadsTo
    <3>2. QED
      BY <1>1, <1>2, <2>1, <3>1 DEF QueriesLeft
  <2>2. CASE me.half = "applied" /\ me.coll < Len(CollectionSeq)
    <3>1. r.pc = "read" /\ r.half = "approved" /\ r.coll = me.coll + 1
      BY <1>1, <2>2 DEF ReadsTo
    <3> DEFINE later == 2 * (Len(CollectionSeq) - me.coll)
               again == 1 + 2 * Len(CollectionSeq)
    <3>2. 2 * (Len(CollectionSeq) - r.coll) + 2 = later /\ later \in Int /\ again \in Int
      <4>1. \A n, c \in Int : 2 * (n - (c + 1)) + 2 = 2 * (n - c)
        OBVIOUS
      <4>2. me.coll \in Int /\ Len(CollectionSeq) \in Int
        BY <1>1
      <4>3. 2 * (Len(CollectionSeq) - (me.coll + 1)) + 2 = later
        BY <4>1, <4>2
      <4>4. later \in Int /\ again \in Int
        BY <4>2
      <4>5. QED
        BY <3>1, <4>3, <4>4
    <3>3. r.phase = me.phase /\ r.pc = "read" /\ me.pc = "read"
      BY <1>1, <1>2, <3>1
    <3>4. QueriesLeft(r) = IF me.phase = "validate" THEN later + again ELSE later
      BY <3>1, <3>2, <3>3 DEF QueriesLeft
    <3>5. QueriesLeft(me) = IF me.phase = "validate" THEN (later + 1) + again ELSE later + 1
      BY <2>2, <3>2, <3>3 DEF QueriesLeft
    <3> HIDE DEF later, again
    <3>6. QED
      BY <3>2, <3>4, <3>5
  <2>3. CASE me.half = "applied" /\ me.coll = Len(CollectionSeq)
    <3>1. /\ r.pc = IF r.phase = "validate" THEN "validate" ELSE "loaded"
          /\ r.half = "approved" /\ r.coll = 1
      BY <1>1, <2>3 DEF ReadsTo
    <3>2. QED
      BY <1>1, <1>2, <2>3, <3>1 DEF QueriesLeft
  <2>4. QED
    BY <1>1, <2>1, <2>2, <2>3
<1>6. StepsLeft(r) = QueriesLeft(r) + EntriesLeft(r) + TransfersLeft(r)
  BY <1>2 DEF StepsLeft
<1>7. StepsLeft(me) = QueriesLeft(me) + EntriesLeft(me) + TransfersLeft(me)
  BY <1>1 DEF StepsLeft
<1>8. /\ QueriesLeft(me) \in Nat /\ EntriesLeft(me) \in Nat /\ TransfersLeft(me) \in Nat
  BY <1>1, StepsType
<1>9. QED
  BY <1>3, <1>4, <1>5, <1>6, <1>7, <1>8

(* The keys a publish has still to synchronise are finitely many. *)
LEMMA AskedFinite ==
  ASSUME TypeOK, NEW c
  PROVE  IsFiniteSet(Noted(c, "APPROVED"))
<1> DEFINE S == ByStatus(c, "APPROVED")
           T == Noted(c, "APPROVED")
           f == [i \in S |-> docs[i].key]
<1>1. T = {docs[i].key : i \in S}
  BY DEF Noted
<1>2. f \in Surjection(S, T)
  BY <1>1 DEF Surjection
<1>3. IsFiniteSet(S)
  <2>1. DOMAIN docs = 1 .. Len(docs) /\ Len(docs) \in Nat
    BY LenProperties DEF TypeOK
  <2>2. IsFiniteSet(DOMAIN docs)
    BY <2>1, FS_Interval
  <2>3. S \in SUBSET DOMAIN docs
    BY DEF ByStatus, Active
  <2>4. QED
    BY <2>2, <2>3, FS_Subset
<1>4. QED
  BY <1>2, <1>3, FS_Surjection

(* From me to r a publish has come one step nearer to its end. *)
Nearer(r, me) ==
  \/ StepsLeft(me) > 0 /\ StepsLeft(r) = StepsLeft(me) - 1
  \/ /\ StepsLeft(me) = 0 /\ StepsLeft(r) = 0
     /\ Cardinality(r.approved) = Cardinality(me.approved) - 1

Advances(p) ==
  \/ pub'[p] = Idle /\ (Finish(p) \/ faults' = faults + 1)
  \/ Nearer(pub'[p], pub[p])

FiniteInv == PlacedInv /\ \A p \in Publishers : IsFiniteSet(pub[p].approved)

(* A step of one publish: the record it leads to. *)
LeadsTo(p, r) ==
  /\ pub' = [pub EXCEPT ![p] = r]
  /\ IsFiniteSet(r.approved)
  /\ \/ pub[p].pc = "idle"
     \/ r = Idle /\ (Finish(p) \/ faults' = faults + 1)
     \/ Nearer(r, pub[p])

LEMMA StepLeads ==
  ASSUME FiniteInv, NEW p \in Publishers,
         \/ Proceed(p)
         \/ Fail(p) \/ UploadFails(p) \/ BackupFails(p)
         \/ \E kind \in Kinds : Start(p, kind)
  PROVE  \E r : LeadsTo(p, r)
<1> DEFINE me == pub[p]
           Goal == \E r : LeadsTo(p, r)
<1>a. /\ me \in Publish /\ IsFiniteSet(me.approved) /\ PlacedInv /\ Placed(me) /\ TypeOK
      /\ me.pc \notin {"idle", "sync"} => StepsLeft(me) > 0
      /\ StepsLeft(me) \in Nat
  BY StepsType DEF FiniteInv, PlacedInv, DeployInv, DeployTypeOK
<1>b. /\ IsFiniteSet({}) /\ IsFiniteSet(Idle.approved)
  BY FS_EmptySet, IdleType
<1>c. ASSUME NEW r, pub' = [pub EXCEPT ![p] = r], r.approved = me.approved,
             me.pc \notin {"idle", "sync"}, StepsLeft(r) = StepsLeft(me) - 1
      PROVE  Goal
  <2>1. LeadsTo(p, r)
    BY <1>a, <1>c DEF LeadsTo, Nearer
  <2>2. QED
    BY <2>1
<1>d. ASSUME pub' = [pub EXCEPT ![p] = Idle], Finish(p) \/ faults' = faults + 1 PROVE Goal
  <2>1. LeadsTo(p, Idle)
    BY <1>b, <1>d DEF LeadsTo
  <2>2. QED
    BY <2>1
<1>1. ASSUME NEW kind \in Kinds, Start(p, kind) PROVE Goal
  <2> DEFINE r == [Idle EXCEPT !.pc = "read", !.kind = kind]
  <2>1. pub' = [pub EXCEPT ![p] = r] /\ r.approved = {} /\ pub[p].pc = "idle"
    BY <1>1 DEF Start, Idle
  <2> HIDE DEF r
  <2>2. LeadsTo(p, r)
    BY <1>b, <2>1 DEF LeadsTo
  <2>3. QED
    BY <2>2
<1>2. ASSUME Read(p) PROVE Goal
  <2>1. PICK r \in Publish : ReadsTo(p, r)
    BY <1>a, <1>2, ReadType
  <2>2. StepsLeft(r) = StepsLeft(me) - 1 /\ me.pc = "read"
    BY <1>a, <1>2, <2>1, ReadCounts DEF Read
  <2>3. IsFiniteSet(r.approved)
    <3>1. IsFiniteSet(Noted(CollectionSeq[me.coll], "APPROVED"))
      BY <1>a, AskedFinite
    <3>2. IsFiniteSet(me.approved \cup Noted(CollectionSeq[me.coll], "APPROVED"))
      BY <1>a, <3>1, FS_Union
    <3>3. QED
      BY <1>a, <2>1, <3>2 DEF ReadsTo
  <2>4. LeadsTo(p, r)
    BY <1>a, <2>1, <2>2, <2>3 DEF LeadsTo, ReadsTo, Nearer
  <2>5. QED
    BY <2>4
<1>3. ASSUME Validated(p) PROVE Goal
  <2> DEFINE r == [me EXCEPT !.pc = "read", !.phase = "publish",
                             !.checked = me.lines, !.lines = {}, !.approved = {}]
  <2>1. pub' = [pub EXCEPT ![p] = r] /\ me.pc = "validate"
    BY <1>3 DEF Validated
  <2>2. /\ r \in Publish /\ r.pc = "read" /\ r.phase = "publish" /\ r.approved = {}
        /\ r.kind = me.kind /\ r.op = me.op /\ r.srv = me.srv /\ r.file = me.file
        /\ r.coll = me.coll /\ r.half = me.half
    BY <1>a DEF Publish
  <2> HIDE DEF r
  <2>3. /\ TransfersLeft(r) = TransfersLeft(me) /\ EntriesLeft(r) = EntriesLeft(me)
    BY <2>1, <2>2 DEF TransfersLeft, EntriesLeft
  <2>4. QueriesLeft(me) = QueriesLeft(r) + 1
    BY <2>1, <2>2 DEF QueriesLeft
  <2>5. QueriesLeft(r) \in Nat /\ TransfersLeft(r) \in Nat /\ EntriesLeft(r) \in Nat
    BY <2>2, StepsType
  <2>6. StepsLeft(r) = StepsLeft(me) - 1
    BY <2>1, <2>2, <2>3, <2>4, <2>5 DEF StepsLeft
  <2>7. LeadsTo(p, r)
    BY <1>a, <1>b, <2>1, <2>2, <2>6 DEF LeadsTo, Nearer
  <2>8. QED
    BY <2>7
<1>4. ASSUME NEW r, pub' = [pub EXCEPT ![p] = r], r.approved = me.approved,
             me.pc \in {"loaded", "stamped", "backed"}, r.pc \in {"stamped", "ship"},
             r.kind = me.kind, r.op = me.op, r.srv = me.srv, r.file = me.file,
             EntriesLeft(r) = EntriesLeft(me) - 1
      PROVE  Goal
  <2>1. TransfersLeft(r) = TransfersLeft(me) /\ QueriesLeft(r) = 0 /\ QueriesLeft(me) = 0
    BY <1>4 DEF TransfersLeft, QueriesLeft
  <2>2. TransfersLeft(me) \in Nat /\ EntriesLeft(me) \in Nat
    BY <1>a, StepsType
  <2>3. StepsLeft(r) = StepsLeft(me) - 1
    BY <1>4, <2>1, <2>2 DEF StepsLeft
  <2>4. QED
    BY <1>4, <1>c, <2>3
<1>5. ASSUME Stamp(p) PROVE Goal
  <2> DEFINE r == [me EXCEPT !.stamp = clock,
                     !.pc = IF me.kind = "block" THEN "ship" ELSE "stamped"]
  <2>1. pub' = [pub EXCEPT ![p] = r] /\ me.pc = "loaded"
    BY <1>5 DEF Stamp
  <2>2. /\ r.pc = (IF me.kind = "block" THEN "ship" ELSE "stamped") /\ r.approved = me.approved
        /\ r.kind = me.kind /\ r.op = me.op /\ r.srv = me.srv /\ r.file = me.file
    BY <1>a DEF Publish
  <2> HIDE DEF r
  <2>3. EntriesLeft(r) = EntriesLeft(me) - 1
    BY <2>1, <2>2 DEF EntriesLeft
  <2>4. QED
    BY <1>4, <2>1, <2>2, <2>3
<1>6. ASSUME Resume(p) PROVE Goal
  <2> DEFINE r == [me EXCEPT !.pc = "ship"]
  <2>1. pub' = [pub EXCEPT ![p] = r] /\ me.pc \in {"stamped", "backed"}
    BY <1>6 DEF Resume
  <2>2. /\ r.pc = "ship" /\ r.approved = me.approved
        /\ r.kind = me.kind /\ r.op = me.op /\ r.srv = me.srv /\ r.file = me.file
    BY <1>a DEF Publish
  <2> HIDE DEF r
  <2>3. EntriesLeft(r) = EntriesLeft(me) - 1
    BY <2>1, <2>2 DEF EntriesLeft
  <2>4. QED
    BY <1>4, <2>1, <2>2, <2>3
<1>7. ASSUME me.pc = "ship", pub' = [pub EXCEPT ![p] = Advance(me)] PROVE Goal
  <2> DEFINE r == Advance(me)
  <2>1. StepsLeft(r) = StepsLeft(me) - 1 /\ r.approved = me.approved
    BY <1>a, <1>7, AdvanceCounts, AdvanceShape
  <2>2. pub' = [pub EXCEPT ![p] = r]
    BY <1>7
  <2> HIDE DEF r
  <2>3. QED
    BY <1>7, <1>c, <2>1, <2>2
<1>8. ASSUME BackUp(p) \/ Upload(p) \/ BackupFails(p) PROVE Goal
  <2>1. /\ me.pc = "ship"
        /\ \/ pub' = [pub EXCEPT ![p] = Advance(me)]
           \/ pub' = [pub EXCEPT ![p] = Idle] /\ faults' = faults + 1
    BY <1>8 DEF BackUp, Upload, BackupFails, AfterFailedBackup, AtOp, Fault
  <2>2. QED
    BY <1>7, <1>d, <2>1
<1>9. ASSUME NEW k \in Keys, Sync(p, k) PROVE Goal
  <2> DEFINE r == [me EXCEPT !.approved = @ \ {k}]
  <2>1. pub' = [pub EXCEPT ![p] = r] /\ me.pc = "sync" /\ k \in me.approved
    BY <1>9 DEF Sync
  <2>2. r.pc = "sync" /\ r.approved = me.approved \ {k}
    BY <1>a, <2>1 DEF Publish
  <2> HIDE DEF r
  <2>3. /\ IsFiniteSet(r.approved)
        /\ Cardinality(r.approved) = Cardinality(me.approved) - 1
    BY <1>a, <2>1, <2>2, FS_RemoveElement
  <2>4. StepsLeft(me) = 0 /\ StepsLeft(r) = 0
    BY <2>1, <2>2 DEF StepsLeft
  <2>5. LeadsTo(p, r)
    BY <2>1, <2>3, <2>4 DEF LeadsTo, Nearer
  <2>6. QED
    BY <2>5
<1>10. ASSUME Finish(p) \/ Fail(p) \/ UploadFails(p) PROVE Goal
  <2>1. pub' = [pub EXCEPT ![p] = Idle] /\ (Finish(p) \/ faults' = faults + 1)
    BY <1>10 DEF Finish, Fail, UploadFails, AfterFailedUpload, Fault
  <2>2. QED
    BY <1>d, <2>1
<1>11. QED
  BY <1>1, <1>2, <1>3, <1>5, <1>6, <1>8, <1>9, <1>10 DEF Proceed

LEMMA StepOwner ==
  ASSUME FiniteInv, [Next]_vars
  PROVE  \/ pub' = pub
         \/ \E p \in Publishers : \E r : LeadsTo(p, r)
<1>1. ASSUME NEW p \in Publishers,
             \/ Proceed(p)
             \/ Fail(p) \/ UploadFails(p) \/ BackupFails(p)
             \/ \E kind \in Kinds : Start(p, kind)
      PROVE  \E r : LeadsTo(p, r)
  BY <1>1, StepLeads
<1>2. EditorStep \/ Tick \/ UNCHANGED vars => pub' = pub
  BY DEF EditorStep, deployVars, Tick, vars
<1>3. QED
  BY <1>1, <1>2 DEF Next

LEMMA LeadsThere ==
  ASSUME FiniteInv, NEW p \in Publishers, NEW r, LeadsTo(p, r)
  PROVE  pub'[p] = r /\ \A q \in Publishers : q # p => pub'[q] = pub[q]
BY DEF FiniteInv, PlacedInv, DeployInv, DeployTypeOK, LeadsTo

LEMMA FiniteStep ==
  ASSUME FiniteInv, [Next]_vars
  PROVE  FiniteInv'
<1>1. PlacedInv'
  BY PlacedStep DEF FiniteInv
<1>2. ASSUME NEW q \in Publishers PROVE IsFiniteSet(pub[q].approved)'
  <2>1. CASE pub' = pub
    BY <2>1 DEF FiniteInv
  <2>2. ASSUME NEW p \in Publishers, NEW r, LeadsTo(p, r)
        PROVE  IsFiniteSet(pub[q].approved)'
    <3>1. pub'[p] = r /\ \A o \in Publishers : o # p => pub'[o] = pub[o]
      BY <2>2, LeadsThere
    <3>2. CASE p = q
      BY <2>2, <3>1, <3>2 DEF LeadsTo
    <3>3. CASE p # q
      BY <3>1, <3>3 DEF FiniteInv
    <3>4. QED
      BY <3>2, <3>3
  <2>3. QED
    BY <2>1, <2>2, StepOwner
<1>3. QED
  BY <1>1, <1>2 DEF FiniteInv

(* Every step of a publish is one step less until it synchronises, and then  *)
(* one entry less, unless it ends, with everything synchronised or by a      *)
(* failure that is counted: whatever editors and other publishes do, none of *)
(* its steps is repeated and none leads nowhere.                             *)
THEOREM PublishesAdvance ==
  Spec => [][\A p \in Publishers :
               pub[p].pc # "idle" /\ (Proceed(p) \/ pub'[p] # pub[p]) => Advances(p)]_vars
<1>1. Init => FiniteInv
  BY PlacedInit, IdleType, FS_EmptySet DEF Init, FiniteInv
<1>2. FiniteInv /\ [Next]_vars => FiniteInv'
  BY FiniteStep
<1>3. FiniteInv /\ [Next]_vars =>
        [\A p \in Publishers :
           pub[p].pc # "idle" /\ (Proceed(p) \/ pub'[p] # pub[p]) => Advances(p)]_vars
  <2>1. ASSUME FiniteInv, NEW p \in Publishers, pub[p].pc # "idle", NEW r, LeadsTo(p, r)
        PROVE  Advances(p)
    <3>1. pub'[p] = r
      BY <2>1, LeadsThere
    <3>2. QED
      BY <2>1, <3>1 DEF LeadsTo, Advances
  <2>2. ASSUME FiniteInv, [Next]_vars, NEW p \in Publishers, pub[p].pc # "idle",
               Proceed(p) \/ pub'[p] # pub[p]
        PROVE  Advances(p)
    <3>1. CASE Proceed(p)
      BY <2>1, <2>2, <3>1, StepLeads
    <3>2. CASE pub'[p] # pub[p]
      <4>1. PICK q \in Publishers : \E r : LeadsTo(q, r)
        BY <2>2, <3>2, StepOwner
      <4>2. PICK r : LeadsTo(q, r)
        BY <4>1
      <4>3. q = p
        BY <2>2, <3>2, <4>2, LeadsThere
      <4>4. QED
        BY <2>1, <2>2, <4>2, <4>3
    <3>3. QED
      BY <2>2, <3>1, <3>2
  <2>3. QED
    BY <2>2
<1>4. QED
  BY <1>1, <1>2, <1>3, PTL DEF Spec

(* A publish that starts has two queries to a collection before and after    *)
(* its validation, two transfers of each file to each server, and the steps  *)
(* between: so many steps, and no more, until it synchronises.               *)
THEOREM LengthOfPublish ==
  ASSUME NEW kind \in {"block", "stream"}
  PROVE  StepsLeft([Idle EXCEPT !.pc = "read", !.kind = kind]) =
           4 * Len(CollectionSeq) + 2 * (NumServers * NumFiles)
             + (IF kind = "block" THEN 2 ELSE 4)
<1> DEFINE me == [Idle EXCEPT !.pc = "read", !.kind = kind]
           all == NumServers * NumFiles
<1>1. /\ me.pc = "read" /\ me.kind = kind /\ me.phase = "validate" /\ me.coll = 1
      /\ me.half = "approved" /\ me.op = "backup" /\ me.srv = 1 /\ me.file = 1
  BY DEF Idle
<1>2. NumServers \in Nat \ {0} /\ NumFiles \in Nat /\ Len(CollectionSeq) \in Nat
  BY Bounds
<1>3. LaterFiles(0) = all /\ all \in Nat
  <2>1. NumServers - 0 = NumServers /\ 0 \in 0 .. NumServers
    BY <1>2
  <2>2. QED
    BY <2>1, LaterFilesType DEF LaterFiles
<1>4. LaterFiles(1) = all - NumFiles
  <2>1. 0 \in 0 .. NumServers /\ 0 < NumServers /\ 0 + 1 = 1
    BY <1>2
  <2>2. QED
    BY <1>3, <2>1, LaterFilesType
<1> HIDE DEF me, all
<1>5. QueriesLeft(me) = 4 * Len(CollectionSeq) + 1
  <2>1. 2 * (Len(CollectionSeq) - 1) + 2 + 1 + 2 * Len(CollectionSeq) = 4 * Len(CollectionSeq) + 1
    BY <1>2
  <2>2. QED
    BY <1>1, <2>1 DEF QueriesLeft
<1>6. EntriesLeft(me) = IF kind = "block" THEN 1 ELSE 2
  BY <1>1 DEF EntriesLeft
<1>7. TransfersLeft(me) = 2 * all + (IF kind = "block" THEN 0 ELSE 1)
  BY <1>1, <1>2, <1>3, <1>4 DEF TransfersLeft
<1>8. StepsLeft(me) = QueriesLeft(me) + EntriesLeft(me) + TransfersLeft(me)
  BY <1>1 DEF StepsLeft
<1>9. StepsLeft(me) = 4 * Len(CollectionSeq) + 2 * all + (IF kind = "block" THEN 2 ELSE 4)
  BY <1>2, <1>3, <1>5, <1>6, <1>7, <1>8
<1>10. QED
  BY <1>9 DEF me, all

(* No publish goes on for ever: there is no endless descent.  With its       *)
(* fairness this is why every publish comes to an end.                       *)
THEOREM NoEndlessPublish ==
  ASSUME NEW f \in [Nat -> Publish], \A n \in Nat : IsFiniteSet(f[n].approved)
  PROVE  \E n \in Nat : ~Nearer(f[n + 1], f[n])
<1> SUFFICES ASSUME \A n \in Nat : Nearer(f[n + 1], f[n]) PROVE FALSE
  OBVIOUS
<1> DEFINE S == {StepsLeft(f[n]) : n \in Nat}
<1>1. \A n \in Nat : /\ StepsLeft(f[n]) \in Nat /\ n + 1 \in Nat
                     /\ Cardinality(f[n].approved) \in Nat
  BY StepsType, FS_CardinalityType
<1>2. PICK low \in S : \A x \in S : low <= x
  <2>1. S \subseteq Nat /\ S # {}
    BY <1>1
  <2>2. QED
    BY <2>1, LeastExists
<1> DEFINE T == {Cardinality(f[n].approved) : n \in {m \in Nat : StepsLeft(f[m]) = low}}
<1>3. PICK few \in T : \A x \in T : few <= x
  <2>1. T \subseteq Nat
    BY <1>1
  <2>2. T # {}
    BY <1>2
  <2>3. QED
    BY <2>1, <2>2, LeastExists
<1>4. PICK n \in Nat : StepsLeft(f[n]) = low /\ Cardinality(f[n].approved) = few
  BY <1>3
<1>5. Nearer(f[n + 1], f[n]) /\ n + 1 \in Nat
  BY <1>1
<1>6. low <= StepsLeft(f[n + 1])
  BY <1>2, <1>5
<1>7. CASE StepsLeft(f[n + 1]) = StepsLeft(f[n]) - 1
  BY <1>1, <1>4, <1>6, <1>7
<1>8. CASE /\ StepsLeft(f[n]) = 0 /\ StepsLeft(f[n + 1]) = 0
           /\ Cardinality(f[n + 1].approved) = Cardinality(f[n].approved) - 1
  <2>1. Cardinality(f[n + 1].approved) \in T
    BY <1>4, <1>5, <1>8
  <2>2. few <= Cardinality(f[n + 1].approved)
    BY <1>3, <2>1
  <2>3. QED
    BY <1>1, <1>4, <1>8, <2>2
<1>9. QED
  BY <1>5, <1>7, <1>8 DEF Nearer
=============================================================================
