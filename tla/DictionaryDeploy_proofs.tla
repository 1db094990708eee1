----------------------- MODULE DictionaryDeploy_proofs -----------------------
(***************************************************************************)
(* Proofs about DictionaryDeploy, for every set of entries, publishers,    *)
(* servers and files, and every number of failures.                        *)
(*                                                                         *)
(* How far a publish has come says which files it has replaced: those      *)
(* before its own position in the order of its variant.  Everything about  *)
(* the files of the servers follows from that order.                       *)
(***************************************************************************)
EXTENDS DictionaryDeploy, DictionaryStore_proofs

DeployInv == DeployTypeOK /\ IndexBounded

(* What the bounds are. *)
LEMMA Bounds ==
  /\ NumServers \in Nat \ {0} /\ NumFiles \in Nat \ {0} /\ MaxTime \in Nat \ {0}
  /\ Len(CollectionSeq) \in Nat \ {0} /\ 1 \in 1 .. Len(CollectionSeq)
  /\ 1 \in Servers /\ 1 \in Files
  /\ \A i \in 1 .. Len(CollectionSeq) : CollectionSeq[i] \in Collections
<1>1. /\ NumServers \in Nat \ {0} /\ NumFiles \in Nat \ {0} /\ MaxTime \in Nat \ {0}
      /\ CollectionSeq \in Seq(Collections) /\ Len(CollectionSeq) > 0
  BY DeployAssumption
<1>2. Len(CollectionSeq) \in Nat /\ \A i \in 1 .. Len(CollectionSeq) : CollectionSeq[i] \in Collections
  BY <1>1, ElementOfSeq, LenProperties
<1>3. QED
  BY <1>1, <1>2 DEF Servers, Files

LEMMA IdleType ==
  /\ Idle \in Publish /\ Idle.pc = "idle" /\ Idle.approved = {}
  /\ Idle.srv = 1 /\ Idle.file = 1 /\ Idle.op = "backup"
<1>1. 0 \in 0 .. MaxTime
  BY Bounds
<1>2. QED
  BY <1>1, Bounds DEF Idle, Publish

(* The lines of a query are lines, and what it notes are keys. *)
LEMMA QueryType ==
  ASSUME TypeOK, NEW c, NEW st
  PROVE  Query(c, st) \subseteq Line /\ Noted(c, st) \subseteq Keys
<1>1. ASSUME NEW i \in ByStatus(c, st) PROVE LineOf(docs[i]) \in Line /\ docs[i].key \in Keys
  <2>1. docs[i] \in Doc
    BY DocType DEF TypeOK, ByStatus, Active
  <2>2. QED
    BY <2>1 DEF Doc, LineOf, Line
<1>2. Query(c, st) \subseteq Line
  BY <1>1 DEF Query
<1>3. Noted(c, st) \subseteq Keys
  BY <1>1 DEF Noted
<1>4. QED
  BY <1>2, <1>3

LEMMA SectionType ==
  ASSUME NEW lines \in SUBSET Line, NEW f
  PROVE  Section(lines, f) \in FileContent
BY DEF Section, FileContent

(* The operation after the current one stays among the servers and files. *)
LEMMA AdvanceShape ==
  ASSUME NEW me \in Publish, me.pc = "ship"
  PROVE  LET next == Advance(me)
         IN  /\ next \in Publish
             /\ next.kind = me.kind /\ next.lines = me.lines /\ next.stamp = me.stamp
             /\ next.approved = me.approved /\ next.checked = me.checked
             /\ \/ /\ me.file < NumFiles /\ next.pc = "ship" /\ next.op = me.op
                   /\ next.srv = me.srv /\ next.file = me.file + 1
                \/ /\ me.file = NumFiles /\ me.kind = "block" /\ me.op = "backup"
                   /\ next.pc = "ship" /\ next.op = "upload"
                   /\ next.srv = me.srv /\ next.file = 1
                \/ /\ me.file = NumFiles /\ ~(me.kind = "block" /\ me.op = "backup")
                   /\ me.srv < NumServers
                   /\ next.pc = "ship" /\ next.srv = me.srv + 1 /\ next.file = 1
                   /\ next.op = IF me.kind = "block" THEN "backup" ELSE me.op
                \/ /\ me.file = NumFiles /\ me.srv = NumServers
                   /\ me.kind = "stream" /\ me.op = "backup"
                   /\ next.pc = "backed" /\ next.srv = 1 /\ next.file = 1 /\ next.op = "upload"
                \/ /\ me.file = NumFiles /\ me.srv = NumServers /\ me.op = "upload"
                   /\ next.pc = "sync"
<1> DEFINE next == Advance(me)
           first == [me EXCEPT !.file = 1]
<1>1. /\ me.file \in 1 .. NumFiles /\ me.srv \in 1 .. NumServers
      /\ me.kind \in {"block", "stream"} /\ me.op \in {"backup", "upload"}
      /\ NumFiles \in Nat \ {0} /\ NumServers \in Nat \ {0}
  BY Bounds DEF Publish, Servers, Files
<1>2. CASE me.file < NumFiles
  <2>1. next = [me EXCEPT !.file = @ + 1] /\ me.file + 1 \in Files
    BY <1>1, <1>2 DEF Advance, Files
  <2>2. QED
    BY <1>1, <1>2, <2>1 DEF Publish
<1>3. CASE me.file = NumFiles
  <2>1. first \in Publish /\ 1 \in Servers /\ 1 \in Files /\ first.srv = me.srv /\ first.op = me.op
    BY Bounds DEF Publish
  <2>2. CASE me.kind = "block" /\ me.op = "backup"
    <3>1. next = [first EXCEPT !.op = "upload"]
      BY <1>1, <1>3, <2>2 DEF Advance
    <3>2. QED
      BY <1>1, <1>3, <2>1, <2>2, <3>1 DEF Publish
  <2>3. CASE ~(me.kind = "block" /\ me.op = "backup") /\ me.srv < NumServers
    <3>1. /\ next = [first EXCEPT !.srv = @ + 1, !.op = IF me.kind = "block" THEN "backup" ELSE @]
          /\ me.srv + 1 \in Servers
      BY <1>1, <1>3, <2>3 DEF Advance, Servers
    <3>2. QED
      BY <1>1, <1>3, <2>1, <2>3, <3>1 DEF Publish
  <2>4. CASE ~(me.kind = "block" /\ me.op = "backup") /\ me.srv = NumServers
    <3>1. CASE me.op = "backup"
      <4>1. next = [first EXCEPT !.srv = 1, !.op = "upload", !.pc = "backed"]
        BY <1>1, <1>3, <2>4, <3>1 DEF Advance
      <4>2. QED
        BY <1>1, <1>3, <2>1, <2>4, <3>1, <4>1 DEF Publish
    <3>2. CASE me.op = "upload"
      <4>1. next = [me EXCEPT !.pc = "sync"]
        BY <1>1, <1>3, <2>4, <3>2 DEF Advance
      <4>2. QED
        BY <1>1, <1>3, <2>4, <3>2, <4>1 DEF Publish
    <3>3. QED
      BY <1>1, <3>1, <3>2
  <2>5. QED
    BY <1>1, <2>2, <2>3, <2>4
<1>4. QED
  BY <1>1, <1>2, <1>3

(* The record of one publish is replaced. *)
LEMMA PubReplaced ==
  ASSUME pub \in [Publishers -> Publish], NEW p \in Publishers, NEW r \in Publish,
         pub' = [pub EXCEPT ![p] = r]
  PROVE  /\ pub' \in [Publishers -> Publish]
         /\ pub'[p] = r
         /\ \A q \in Publishers : q # p => pub'[q] = pub[q]
OBVIOUS

(* A file of one server is replaced. *)
LEMMA LiveReplaced ==
  ASSUME live \in [Servers -> [Files -> FileContent]],
         NEW s \in Servers, NEW f \in Files, NEW c \in FileContent,
         live' = [live EXCEPT ![s][f] = c]
  PROVE  /\ live' \in [Servers -> [Files -> FileContent]]
         /\ live'[s][f] = c
         /\ \A t \in Servers, g \in Files : (t # s \/ g # f) => live'[t][g] = live[t][g]
OBVIOUS

LEMMA BackupReplaced ==
  ASSUME backup \in [Servers -> [Files -> [1 .. MaxTime -> FileContent]]],
         NEW s \in Servers, NEW f \in Files, NEW i \in 1 .. MaxTime, NEW c \in FileContent
  PROVE  LET new == [backup EXCEPT ![s][f][i] = c]
         IN  /\ new \in [Servers -> [Files -> [1 .. MaxTime -> FileContent]]]
             /\ new[s][f][i] = c
             /\ \A t \in Servers, g \in Files :
                  (t # s \/ g # f) => new[t][g] = backup[t][g]
OBVIOUS

(* Where a publish stands.  It starts at the first file of the first server, *)
(* and its backup names are fixed before its first SSH segment.              *)
Placed(me) ==
  /\ me.pc \in {"idle", "read", "validate", "loaded", "stamped"} =>
       me.op = "backup" /\ me.srv = 1 /\ me.file = 1
  /\ me.pc = "backed" => me.op = "upload" /\ me.srv = 1 /\ me.file = 1
  /\ me.pc \in {"stamped", "backed", "ship", "sync"} => me.stamp \in 1 .. MaxTime
  /\ me.pc = "stamped" => me.kind = "stream"

PlacedInv ==
  /\ DeployInv
  /\ \A p \in Publishers : Placed(pub[p])

(* What a query makes of the record of a publish. *)
ReadsTo(p, r) ==
  /\ pub' = [pub EXCEPT ![p] = r]
  /\ r.pc \in {"read", "validate", "loaded"}
  /\ Placed(r)
  /\ r.lines = pub[p].lines \cup
                 Query(CollectionSeq[pub[p].coll], StatusOf(pub[p].half))
  /\ r.approved = IF pub[p].half = "approved"
                  THEN pub[p].approved \cup Noted(CollectionSeq[pub[p].coll], "APPROVED")
                  ELSE pub[p].approved
  /\ r.kind = pub[p].kind /\ r.checked = pub[p].checked /\ r.phase = pub[p].phase
  /\ \/ /\ pub[p].half = "approved" /\ r.pc = "read"
        /\ r.half = "applied" /\ r.coll = pub[p].coll
     \/ /\ pub[p].half = "applied" /\ pub[p].coll < Len(CollectionSeq)
        /\ r.pc = "read" /\ r.half = "approved" /\ r.coll = pub[p].coll + 1
     \/ /\ pub[p].half = "applied" /\ pub[p].coll = Len(CollectionSeq)
        /\ r.pc = IF r.phase = "validate" THEN "validate" ELSE "loaded"
        /\ r.half = "approved" /\ r.coll = 1

LEMMA ReadType ==
  ASSUME PlacedInv, NEW p \in Publishers, Read(p)
  PROVE  \E r \in Publish : ReadsTo(p, r)
<1> DEFINE me == pub[p]
           got == Query(CollectionSeq[me.coll], StatusOf(me.half))
           noted == Noted(CollectionSeq[me.coll], StatusOf(me.half))
           keep == [me EXCEPT !.lines = @ \cup got, !.approved = @ \cup noted]
           next == CASE me.half = "approved" -> [keep EXCEPT !.half = "applied"]
                     [] me.half = "applied" /\ me.coll < Len(CollectionSeq) ->
                          [keep EXCEPT !.half = "approved", !.coll = @ + 1]
                     [] me.half = "applied" /\ me.coll = Len(CollectionSeq) ->
                          [keep EXCEPT !.half = "approved", !.coll = 1,
                             !.pc = IF me.phase = "validate" THEN "validate" ELSE "loaded"]
<1>0. pub' = [pub EXCEPT ![p] = next]
  BY DEF Read
<1>1. me \in Publish /\ me.pc = "read" /\ me.op = "backup" /\ me.srv = 1 /\ me.file = 1
  BY DEF PlacedInv, DeployInv, DeployTypeOK, Placed, Read
<1>2. got \subseteq Line /\ noted \subseteq Keys
  BY QueryType DEF PlacedInv, DeployInv, DeployTypeOK
<1>3. /\ keep \in Publish /\ keep.pc = "read" /\ keep.coll = me.coll
      /\ keep.op = "backup" /\ keep.srv = 1 /\ keep.file = 1
      /\ keep.lines = me.lines \cup got
      /\ keep.approved = me.approved \cup noted
      /\ me.half = "applied" => noted = {}
      /\ keep.kind = me.kind /\ keep.checked = me.checked /\ keep.phase = me.phase
      /\ StatusOf(me.half) = IF me.half = "approved" THEN "APPROVED" ELSE "APPLIED"
  <2>0. me.half = "applied" => noted = {}
    BY DEF Noted, StatusOf
  <2> HIDE DEF got, noted
  <2>1. me.lines \cup got \subseteq Line
    BY <1>1, <1>2 DEF Publish
  <2>2. me.approved \cup noted \subseteq Keys
    BY <1>1, <1>2 DEF Publish
  <2>3. QED
    BY <1>1, <2>0, <2>1, <2>2 DEF Publish, StatusOf
<1>4. CASE me.half = "approved"
  <2> DEFINE r == [keep EXCEPT !.half = "applied"]
  <2>1. pub' = [pub EXCEPT ![p] = r]
    <3> HIDE DEF keep
    <3>1. next = r
      BY <1>4
    <3>2. QED
      BY <1>0, <3>1
  <2>2. /\ r \in Publish /\ r.pc = "read" /\ r.op = "backup" /\ r.srv = 1 /\ r.file = 1
        /\ r.lines = keep.lines /\ r.approved = keep.approved
        /\ r.kind = keep.kind /\ r.checked = keep.checked /\ r.phase = keep.phase
        /\ r.half = "applied" /\ r.coll = keep.coll
    <3> HIDE DEF keep
    <3>1. QED
      BY <1>3 DEF Publish
  <2>3. Placed(r)
    BY <2>2 DEF Placed
  <2>4. QED
    <3> HIDE DEF keep, r, got, noted, next
    <3>1. QED
      BY <1>3, <1>4, <2>1, <2>2, <2>3 DEF got, noted, ReadsTo
<1>5. CASE me.half = "applied" /\ me.coll < Len(CollectionSeq)
  <2> DEFINE r == [keep EXCEPT !.half = "approved", !.coll = @ + 1]
  <2>1. pub' = [pub EXCEPT ![p] = r]
    <3> HIDE DEF keep
    <3>1. next = r
      BY <1>5
    <3>2. QED
      BY <1>0, <3>1
  <2>2. me.coll + 1 \in 1 .. Len(CollectionSeq)
    <3>1. me.coll \in 1 .. Len(CollectionSeq) /\ Len(CollectionSeq) \in Nat
      BY <1>1, Bounds DEF Publish
    <3>2. QED
      BY <1>5, <3>1
  <2>3. /\ r \in Publish /\ r.pc = "read" /\ r.op = "backup" /\ r.srv = 1 /\ r.file = 1
        /\ r.lines = keep.lines /\ r.approved = keep.approved
        /\ r.kind = keep.kind /\ r.checked = keep.checked /\ r.phase = keep.phase
        /\ r.half = "approved" /\ r.coll = me.coll + 1
    <3> HIDE DEF keep
    <3>1. QED
      BY <1>3, <2>2 DEF Publish
  <2>4. Placed(r)
    BY <2>3 DEF Placed
  <2>5. QED
    <3> HIDE DEF keep, r, got, noted, next
    <3>1. QED
      BY <1>3, <1>5, <2>1, <2>3, <2>4 DEF got, noted, ReadsTo
<1>6. CASE me.half = "applied" /\ me.coll = Len(CollectionSeq)
  <2> DEFINE r == [keep EXCEPT !.half = "approved", !.coll = 1,
                     !.pc = IF me.phase = "validate" THEN "validate" ELSE "loaded"]
  <2>1. pub' = [pub EXCEPT ![p] = r]
    <3> HIDE DEF keep
    <3>1. ~(me.coll < Len(CollectionSeq))
      BY <1>6, Bounds
    <3>2. next = r
      BY <1>6, <3>1
    <3>3. QED
      BY <1>0, <3>2
  <2>2. /\ r \in Publish /\ r.pc \in {"validate", "loaded"}
        /\ r.op = "backup" /\ r.srv = 1 /\ r.file = 1
        /\ r.lines = keep.lines /\ r.approved = keep.approved
        /\ r.kind = keep.kind /\ r.checked = keep.checked /\ r.phase = keep.phase
        /\ r.pc = IF r.phase = "validate" THEN "validate" ELSE "loaded"
        /\ r.half = "approved" /\ r.coll = 1
    <3> HIDE DEF keep
    <3>1. QED
      BY <1>3, Bounds DEF Publish
  <2>3. Placed(r)
    BY <2>2 DEF Placed
  <2>4. QED
    <3> HIDE DEF keep, r, got, noted, next
    <3>1. QED
      BY <1>3, <1>6, <2>1, <2>2, <2>3 DEF got, noted, ReadsTo
<1>7. QED
  <2>1. me.half \in {"approved", "applied"} /\ me.coll \in 1 .. Len(CollectionSeq)
    BY <1>1 DEF Publish
  <2>2. Len(CollectionSeq) \in Nat
    BY Bounds
  <2>3. QED
    BY <1>4, <1>5, <1>6, <2>1, <2>2

(* A record that is replaced by another in its place disturbs nothing else. *)
LEMMA ProgressKeeps ==
  ASSUME PlacedInv, NEW p \in Publishers, NEW r \in Publish, Placed(r),
         pub' = [pub EXCEPT ![p] = r],
         (TypeOK /\ IndexBounded)',
         live' \in [Servers -> [Files -> FileContent]],
         backup' \in [Servers -> [Files -> [1 .. MaxTime -> FileContent]]],
         clock' \in 1 .. MaxTime, faults' \in 0 .. MaxFaults
  PROVE  PlacedInv'
<1>1. /\ pub' \in [Publishers -> Publish]
      /\ pub'[p] = r
      /\ \A q \in Publishers : q # p => pub'[q] = pub[q]
  BY PubReplaced DEF PlacedInv, DeployInv, DeployTypeOK
<1>2. DeployInv'
  BY <1>1 DEF DeployInv, DeployTypeOK
<1>3. ASSUME NEW q \in Publishers PROVE Placed(pub[q])'
  <2>1. CASE q = p
    BY <1>1, <2>1 DEF Placed
  <2>2. CASE q # p
    BY <1>1, <2>2 DEF PlacedInv, Placed
  <2>3. QED
    BY <2>1, <2>2
<1>4. QED
  BY <1>2, <1>3 DEF PlacedInv

(* What stays as it is has the type it had. *)
LEMMA StoreUnchanged ==
  ASSUME DeployInv, UNCHANGED storeVars
  PROVE  (TypeOK /\ IndexBounded)'
BY DEF DeployInv, DeployTypeOK, storeVars, TypeOK, IndexBounded

LEMMA SyncStore ==
  ASSUME DeployInv, NEW k \in Keys, SetStatus(k, "APPLIED"), UNCHANGED creates
  PROVE  (TypeOK /\ IndexBounded)'
<1> DEFINE hit == Same(k) \cap Active
<1>1. docs \in Seq(Doc) /\ IndexBounded
  BY DEF DeployInv, DeployTypeOK, TypeOK
<1>2. CASE hit = {}
  BY <1>2, StoreUnchanged DEF SetStatus, storeVars
<1>3. CASE hit # {}
  <2> DEFINE at == First(hit)
             e == [docs[at] EXCEPT !.status = "APPLIED"]
  <2>1. hit \subseteq DOMAIN docs /\ DOMAIN docs \subseteq Nat
    BY <1>1, LenProperties DEF Active
  <2>2. at \in DOMAIN docs
    <3> HIDE DEF hit
    <3>1. QED
      BY <1>3, <2>1, FirstInSet
  <2>3. docs[at] \in Doc
    BY <1>1, <2>2, DocType
  <2>4. e \in Doc
    <3> HIDE DEF at
    <3>1. QED
      BY <2>3 DEF Doc, Statuses
  <2>5. docs' = [docs EXCEPT ![at] = e]
    BY <1>3 DEF SetStatus
  <2>6. docs' \in Seq(Doc) /\ DOMAIN docs' = DOMAIN docs /\ IndexBounded'
    <3> HIDE DEF at, e
    <3>1. QED
      BY <1>1, <2>2, <2>4, <2>5, ReplacedKeepsBound
  <2>7. QED
    BY <2>6 DEF DeployInv, DeployTypeOK, TypeOK
<1>4. QED
  BY <1>2, <1>3

(* An SSH operation of a publish is on one file of one server. *)
LEMMA AtOpType ==
  ASSUME PlacedInv, NEW p \in Publishers, pub[p].pc = "ship"
  PROVE  /\ pub[p] \in Publish /\ pub[p].srv \in Servers /\ pub[p].file \in Files
         /\ pub[p].stamp \in 1 .. MaxTime
         /\ Advance(pub[p]) \in Publish /\ Placed(Advance(pub[p]))
         /\ Idle \in Publish /\ Placed(Idle)
<1>1. pub[p] \in Publish /\ pub[p].stamp \in 1 .. MaxTime
  BY DEF PlacedInv, DeployInv, DeployTypeOK, Placed
<1>2. pub[p].srv \in Servers /\ pub[p].file \in Files
  BY <1>1 DEF Publish
<1>3. Advance(pub[p]) \in Publish /\ Placed(Advance(pub[p]))
  <2> DEFINE next == Advance(pub[p])
  <2> HIDE DEF next
  <2>1. /\ next \in Publish /\ next.stamp = pub[p].stamp
        /\ \/ next.pc = "ship"
           \/ next.pc = "backed" /\ next.srv = 1 /\ next.file = 1 /\ next.op = "upload"
           \/ next.pc = "sync"
    BY <1>1, AdvanceShape DEF next
  <2>2. Placed(next)
    BY <1>1, <2>1 DEF Placed
  <2>3. QED
    BY <2>1, <2>2 DEF next
<1>4. Idle \in Publish /\ Placed(Idle)
  BY IdleType DEF Placed
<1>5. QED
  BY <1>1, <1>2, <1>3, <1>4

LEMMA PlacedStep == PlacedInv /\ [Next]_vars => PlacedInv'
<1> SUFFICES ASSUME PlacedInv, [Next]_vars PROVE PlacedInv'
  OBVIOUS
<1> DEFINE Rest == /\ live' \in [Servers -> [Files -> FileContent]]
                   /\ backup' \in [Servers -> [Files -> [1 .. MaxTime -> FileContent]]]
                   /\ clock' \in 1 .. MaxTime
                   /\ faults' \in 0 .. MaxFaults
<1>a. /\ DeployInv /\ TypeOK
      /\ pub \in [Publishers -> Publish]
      /\ live \in [Servers -> [Files -> FileContent]]
      /\ backup \in [Servers -> [Files -> [1 .. MaxTime -> FileContent]]]
      /\ clock \in 1 .. MaxTime
      /\ faults \in 0 .. MaxFaults
      /\ MaxFaults \in Nat
  BY DeployAssumption DEF PlacedInv, DeployInv, DeployTypeOK
<1>b. ASSUME Fault PROVE faults' \in 0 .. MaxFaults
  BY <1>a, <1>b DEF Fault
<1>c. Idle \in Publish /\ Placed(Idle)
  BY IdleType DEF Placed
<1>d. Missing \in FileContent /\ Torn \in FileContent
  BY DEF FileContent
<1>1. CASE EditorStep
  <2>1. (TypeOK /\ IndexBounded)'
    <3>1. TypeInv /\ [StoreNext]_storeVars
      BY <1>1 DEF EditorStep, TypeInv, PlacedInv, DeployInv, DeployTypeOK
    <3>2. QED
      BY <3>1, TypeStep DEF TypeInv
  <2>2. pub' = pub /\ live' = live /\ backup' = backup /\ clock' = clock /\ faults' = faults
    BY <1>1 DEF EditorStep, deployVars
  <2>3. DeployInv'
    BY <1>a, <2>1, <2>2 DEF DeployInv, DeployTypeOK
  <2>4. \A p \in Publishers : Placed(pub[p])'
    BY <2>2 DEF PlacedInv, Placed
  <2>5. QED
    BY <2>3, <2>4 DEF PlacedInv
<1>2. ASSUME NEW p \in Publishers, NEW kind \in Kinds, Start(p, kind) PROVE PlacedInv'
  <2> DEFINE r == [Idle EXCEPT !.pc = "read", !.kind = kind]
  <2>1. kind \in {"block", "stream"}
    BY DeployAssumption
  <2>2. r \in Publish /\ r.pc = "read" /\ r.op = "backup" /\ r.srv = 1 /\ r.file = 1
    BY <2>1, IdleType DEF Publish
  <2>3. pub' = [pub EXCEPT ![p] = r] /\ UNCHANGED storeVars /\ Rest
    BY <1>a, <1>2 DEF Start
  <2>4. Placed(r)
    BY <2>2 DEF Placed
  <2>5. QED
    BY <1>a, <2>2, <2>3, <2>4, StoreUnchanged, ProgressKeeps
<1>3. ASSUME NEW p \in Publishers, Read(p) PROVE PlacedInv'
  <2>1. PICK r \in Publish : pub' = [pub EXCEPT ![p] = r] /\ Placed(r)
    BY <1>3, ReadType DEF ReadsTo
  <2>2. UNCHANGED storeVars /\ Rest
    BY <1>a, <1>3 DEF Read
  <2>3. QED
    BY <1>a, <2>1, <2>2, StoreUnchanged, ProgressKeeps
<1>4. ASSUME NEW p \in Publishers, Validated(p) PROVE PlacedInv'
  <2> DEFINE r == [pub[p] EXCEPT !.pc = "read", !.phase = "publish",
                                 !.checked = pub[p].lines, !.lines = {}, !.approved = {}]
  <2>1. pub[p] \in Publish /\ Placed(pub[p]) /\ pub[p].pc = "validate"
    BY <1>a, <1>4 DEF PlacedInv, Validated
  <2>2. r \in Publish /\ Placed(r)
    BY <2>1 DEF Publish, Placed
  <2>3. pub' = [pub EXCEPT ![p] = r] /\ UNCHANGED storeVars /\ Rest
    BY <1>a, <1>4 DEF Validated
  <2>4. QED
    BY <1>a, <2>2, <2>3, StoreUnchanged, ProgressKeeps
<1>5. ASSUME NEW p \in Publishers, Stamp(p) PROVE PlacedInv'
  <2> DEFINE r == [pub[p] EXCEPT !.stamp = clock,
                     !.pc = IF pub[p].kind = "block" THEN "ship" ELSE "stamped"]
  <2>1. pub[p] \in Publish /\ Placed(pub[p]) /\ pub[p].pc = "loaded"
    BY <1>a, <1>5 DEF PlacedInv, Stamp
  <2>2. clock \in 0 .. MaxTime /\ clock \in 1 .. MaxTime
    BY <1>a, Bounds
  <2>3. r \in Publish /\ Placed(r)
    BY <2>1, <2>2 DEF Publish, Placed
  <2>4. pub' = [pub EXCEPT ![p] = r] /\ UNCHANGED storeVars /\ Rest
    BY <1>a, <1>5 DEF Stamp
  <2>5. QED
    BY <1>a, <2>3, <2>4, StoreUnchanged, ProgressKeeps
<1>6. ASSUME NEW p \in Publishers, Resume(p) PROVE PlacedInv'
  <2> DEFINE r == [pub[p] EXCEPT !.pc = "ship"]
  <2>1. pub[p] \in Publish /\ Placed(pub[p]) /\ pub[p].pc \in {"stamped", "backed"}
    BY <1>a, <1>6 DEF PlacedInv, Resume
  <2>2. r \in Publish /\ Placed(r)
    BY <2>1 DEF Publish, Placed
  <2>3. pub' = [pub EXCEPT ![p] = r] /\ UNCHANGED storeVars /\ Rest
    BY <1>a, <1>6 DEF Resume
  <2>4. QED
    BY <1>a, <2>2, <2>3, StoreUnchanged, ProgressKeeps
<1>7. ASSUME NEW p \in Publishers, BackUp(p) PROVE PlacedInv'
  <2> DEFINE me == pub[p]
             r == Advance(me)
  <2>1. /\ me.srv \in Servers /\ me.file \in Files /\ me.stamp \in 1 .. MaxTime
        /\ r \in Publish /\ Placed(r)
    BY <1>7, AtOpType DEF BackUp, AtOp
  <2>2. live[me.srv][me.file] \in FileContent
    BY <1>a, <2>1
  <2>3. backup' \in [Servers -> [Files -> [1 .. MaxTime -> FileContent]]]
    <3>1. Copied(me) \in [Servers -> [Files -> [1 .. MaxTime -> FileContent]]]
      BY <1>a, <2>1, <2>2, BackupReplaced DEF Copied
    <3>2. QED
      BY <1>a, <1>7, <3>1 DEF BackUp
  <2>4. pub' = [pub EXCEPT ![p] = r] /\ UNCHANGED storeVars /\ Rest
    BY <1>a, <1>7, <2>3 DEF BackUp
  <2>5. QED
    <3> HIDE DEF r
    <3>1. QED
      BY <1>a, <2>1, <2>4, StoreUnchanged, ProgressKeeps
<1>8. ASSUME NEW p \in Publishers, Upload(p) PROVE PlacedInv'
  <2> DEFINE me == pub[p]
             r == Advance(me)
  <2>1. me.srv \in Servers /\ me.file \in Files /\ me \in Publish /\ r \in Publish /\ Placed(r)
    BY <1>8, AtOpType DEF Upload, AtOp
  <2>2. Section(me.lines, me.file) \in FileContent
    BY <2>1, SectionType DEF Publish
  <2>3. live' \in [Servers -> [Files -> FileContent]]
    BY <1>a, <1>8, <2>1, <2>2, LiveReplaced DEF Upload
  <2>4. pub' = [pub EXCEPT ![p] = r] /\ UNCHANGED storeVars /\ Rest
    BY <1>a, <1>8, <2>3 DEF Upload
  <2>5. QED
    <3> HIDE DEF r
    <3>1. QED
      BY <1>a, <2>1, <2>4, StoreUnchanged, ProgressKeeps
<1>9. ASSUME NEW p \in Publishers, NEW k \in Keys, Sync(p, k) PROVE PlacedInv'
  <2> DEFINE r == [pub[p] EXCEPT !.approved = @ \ {k}]
  <2>1. pub[p] \in Publish /\ Placed(pub[p])
    BY <1>a DEF PlacedInv
  <2>2. r \in Publish /\ Placed(r)
    BY <2>1 DEF Publish, Placed
  <2>3. pub' = [pub EXCEPT ![p] = r] /\ Rest
    BY <1>a, <1>9 DEF Sync
  <2>4. (TypeOK /\ IndexBounded)'
    <3>1. CASE UNCHANGED docs
      BY <1>a, <1>9, <3>1, StoreUnchanged DEF Sync, storeVars
    <3>2. CASE SetStatus(k, "APPLIED")
      BY <1>a, <1>9, <3>2, SyncStore DEF Sync
    <3>3. QED
      BY <1>9, <3>1, <3>2 DEF Sync
  <2>5. QED
    BY <2>2, <2>3, <2>4, ProgressKeeps
<1>10. ASSUME NEW p \in Publishers, Finish(p) PROVE PlacedInv'
  <2>1. pub' = [pub EXCEPT ![p] = Idle] /\ UNCHANGED storeVars /\ Rest
    BY <1>a, <1>10 DEF Finish
  <2>2. QED
    BY <1>a, <1>c, <2>1, StoreUnchanged, ProgressKeeps
<1>11. ASSUME NEW p \in Publishers, Fail(p) PROVE PlacedInv'
  <2>1. pub' = [pub EXCEPT ![p] = Idle] /\ UNCHANGED storeVars /\ Rest
    BY <1>a, <1>b, <1>11 DEF Fail
  <2>2. QED
    BY <1>a, <1>c, <2>1, StoreUnchanged, ProgressKeeps
<1>12. ASSUME NEW p \in Publishers, UploadFails(p) PROVE PlacedInv'
  <2>1. pub[p].srv \in Servers /\ pub[p].file \in Files
    BY <1>12, AtOpType DEF UploadFails, AtOp
  <2>2. live' \in [Servers -> [Files -> FileContent]]
    BY <1>a, <1>d, <1>12, <2>1, LiveReplaced DEF UploadFails
  <2>3. pub' = [pub EXCEPT ![p] = Idle] /\ UNCHANGED storeVars /\ Rest
    BY <1>a, <1>b, <1>12, <2>2 DEF UploadFails, AfterFailedUpload
  <2>4. QED
    BY <1>a, <1>c, <2>3, StoreUnchanged, ProgressKeeps
<1>13. ASSUME NEW p \in Publishers, BackupFails(p) PROVE PlacedInv'
  <2> DEFINE me == pub[p]
             r == AfterFailedBackup(me)
  <2>1. /\ me.srv \in Servers /\ me.file \in Files /\ me.stamp \in 1 .. MaxTime
        /\ r \in Publish /\ Placed(r)
    BY <1>13, AtOpType DEF BackupFails, AtOp, AfterFailedBackup
  <2>2. backup' \in [Servers -> [Files -> [1 .. MaxTime -> FileContent]]]
    <3> DEFINE torn == [backup EXCEPT ![me.srv][me.file][me.stamp] = Torn]
    <3>1. backup' \in {backup, torn}
      BY <1>13 DEF BackupFails
    <3>2. torn \in [Servers -> [Files -> [1 .. MaxTime -> FileContent]]]
      BY <1>a, <1>d, <2>1, BackupReplaced
    <3>3. QED
      <4> HIDE DEF torn
      <4>1. QED
        BY <1>a, <3>1, <3>2
  <2>3. pub' = [pub EXCEPT ![p] = r] /\ UNCHANGED storeVars /\ Rest
    BY <1>a, <1>b, <1>13, <2>2 DEF BackupFails
  <2>4. QED
    <3> HIDE DEF r
    <3>1. QED
      BY <1>a, <2>1, <2>3, StoreUnchanged, ProgressKeeps
<1>14. CASE Tick
  <2>1. clock' \in 1 .. MaxTime
    BY <1>a, <1>14, Bounds DEF Tick
  <2>2. UNCHANGED storeVars /\ pub' = pub /\ live' = live /\ backup' = backup /\ faults' = faults
    BY <1>14 DEF Tick
  <2>3. DeployInv'
    BY <1>a, <2>1, <2>2, StoreUnchanged DEF DeployInv, DeployTypeOK
  <2>4. QED
    BY <2>2, <2>3 DEF PlacedInv, Placed
<1>15. CASE UNCHANGED vars
  <2>1. /\ UNCHANGED storeVars /\ pub' = pub /\ live' = live /\ backup' = backup
        /\ clock' = clock /\ faults' = faults
    BY <1>15 DEF vars, storeVars
  <2>2. DeployInv'
    BY <1>a, <2>1, StoreUnchanged DEF DeployInv, DeployTypeOK
  <2>3. QED
    BY <2>1, <2>2 DEF PlacedInv, Placed
<1>16. QED
  BY <1>1, <1>2, <1>3, <1>4, <1>5, <1>6, <1>7, <1>8, <1>9, <1>10, <1>11, <1>12, <1>13,
     <1>14, <1>15 DEF Next, Proceed

LEMMA PlacedInit == Init => PlacedInv
<1> SUFFICES ASSUME Init PROVE PlacedInv
  OBVIOUS
<1>1. docs = <<>> /\ creates = {}
  BY DEF Init, StoreInit
<1>2. TypeOK /\ IndexBounded
  BY <1>1, EmptySeq DEF TypeOK, IndexBounded
<1>3. /\ \A p \in Publishers : pub[p] = Idle
      /\ pub \in [Publishers -> Publish]
  BY IdleType DEF Init
<1>4. /\ live \in [Servers -> [Files -> FileContent]]
      /\ backup \in [Servers -> [Files -> [1 .. MaxTime -> FileContent]]]
  BY DEF Init, FileContent
<1>5. clock \in 1 .. MaxTime /\ faults \in 0 .. MaxFaults
  BY Bounds, DeployAssumption DEF Init
<1>6. DeployInv
  BY <1>2, <1>3, <1>4, <1>5 DEF DeployInv, DeployTypeOK
<1>7. QED
  BY <1>3, <1>6, IdleType DEF PlacedInv, Placed

(* The progress of every publish, the files and the backups always have the  *)
(* shape of the pipeline, whatever editors do and whatever fails.            *)
THEOREM DeployTypeCorrect == Spec => []DeployTypeOK
<1>1. PlacedInv => DeployTypeOK
  BY DEF PlacedInv, DeployInv
<1>2. QED
  BY PlacedInit, PlacedStep, <1>1, PTL DEF Spec

-----------------------------------------------------------------------------
(* The files a publish in an SSH segment has replaced: those before its      *)
(* position; "block" comes to a server with all the earlier ones finished.   *)
Replaced(me, s, f) ==
  \/ me.op = "upload" /\ (s < me.srv \/ (s = me.srv /\ f < me.file))
  \/ me.op = "backup" /\ me.kind = "block" /\ s < me.srv

(* The file its next upload is for. *)
Target(me, s, f) == me.op = "upload" /\ s = me.srv /\ f = me.file

(* Going on to the next operation adds the file of this one, and nothing is  *)
(* left when there is no next.                                               *)
LEMMA AdvanceReplaces ==
  ASSUME NEW me \in Publish, me.pc = "ship", NEW s \in Servers, NEW f \in Files
  PROVE  LET next == Advance(me)
         IN  /\ next.pc = "ship" =>
                  (Replaced(next, s, f) <=> Replaced(me, s, f) \/ Target(me, s, f))
             /\ next.pc = "sync" => Replaced(me, s, f) \/ Target(me, s, f)
             /\ next.pc = "backed" => ~Replaced(me, s, f) /\ ~Target(me, s, f)
             /\ next.pc \in {"ship", "sync", "backed"}
             /\ next.lines = me.lines
<1> DEFINE next == Advance(me)
<1> HIDE DEF next
<1>1. /\ me.file \in 1 .. NumFiles /\ me.srv \in 1 .. NumServers
      /\ me.kind \in {"block", "stream"} /\ me.op \in {"backup", "upload"}
      /\ s \in 1 .. NumServers /\ f \in 1 .. NumFiles
      /\ NumFiles \in Nat \ {0} /\ NumServers \in Nat \ {0}
  BY Bounds DEF Publish, Servers, Files
<1>2. /\ next.kind = me.kind /\ next.lines = me.lines
      /\ \/ /\ me.file < NumFiles /\ next.pc = "ship" /\ next.op = me.op
            /\ next.srv = me.srv /\ next.file = me.file + 1
         \/ /\ me.file = NumFiles /\ me.kind = "block" /\ me.op = "backup"
            /\ next.pc = "ship" /\ next.op = "upload"
            /\ next.srv = me.srv /\ next.file = 1
         \/ /\ me.file = NumFiles /\ ~(me.kind = "block" /\ me.op = "backup")
            /\ me.srv < NumServers
            /\ next.pc = "ship" /\ next.srv = me.srv + 1 /\ next.file = 1
            /\ next.op = IF me.kind = "block" THEN "backup" ELSE me.op
         \/ /\ me.file = NumFiles /\ me.srv = NumServers
            /\ me.kind = "stream" /\ me.op = "backup"
            /\ next.pc = "backed" /\ next.srv = 1 /\ next.file = 1 /\ next.op = "upload"
         \/ /\ me.file = NumFiles /\ me.srv = NumServers /\ me.op = "upload"
            /\ next.pc = "sync"
  BY AdvanceShape DEF next
<1>3. /\ next.pc = "ship" =>
           (Replaced(next, s, f) <=> Replaced(me, s, f) \/ Target(me, s, f))
      /\ next.pc = "sync" => Replaced(me, s, f) \/ Target(me, s, f)
      /\ next.pc = "backed" => ~Replaced(me, s, f) /\ ~Target(me, s, f)
      /\ next.pc \in {"ship", "sync", "backed"}
  BY <1>1, <1>2 DEF Replaced, Target
<1>4. QED
  BY <1>2, <1>3 DEF next

(* The steps of the deployment as the servers see them.                      *)
OthersKept(p) == \A q \in Publishers : q # p => pub'[q] = pub[q]

Untouched == live' = live /\ backup' = backup /\ faults' = faults

Pauses == Untouched /\ \A q \in Publishers : pub'[q] = pub[q]

(* Outside the SSH segments, before them or after them. *)
Prepares(p) ==
  /\ OthersKept(p) /\ Untouched /\ pub[p].pc # "ship"
  /\ \/ pub'[p].pc \notin {"ship", "sync", "backed"}
     \/ pub[p].pc = "sync" /\ pub'[p].pc = "sync" /\ pub'[p].lines = pub[p].lines

Enters(p) ==
  /\ OthersKept(p) /\ Untouched /\ ~Busy(WorkerOf[p])
  /\ pub'[p].pc = "ship" /\ pub'[p].srv = 1 /\ pub'[p].file = 1
  /\ \/ pub'[p].op = "backup"
     \/ pub'[p].op = "upload" /\ pub[p].pc = "backed"
        /\ pub'[p].kind = pub[p].kind /\ pub'[p].stamp = pub[p].stamp

BacksUp(p) ==
  /\ OthersKept(p) /\ pub[p].pc = "ship" /\ pub[p].op = "backup"
  /\ live' = live /\ pub'[p] = Advance(pub[p])
  /\ \/ faults' = faults
     \/ pub[p].kind = "block" /\ faults' = faults + 1
  /\ pub[p].kind = "stream" =>
       \/ live[pub[p].srv][pub[p].file] # Missing /\ backup' = Copied(pub[p])
       \/ Skipped(pub[p]) /\ backup' = backup

Uploads(p) ==
  /\ OthersKept(p) /\ pub[p].pc = "ship" /\ pub[p].op = "upload"
  /\ backup' = backup /\ faults' = faults /\ pub'[p] = Advance(pub[p])
  /\ live' = [live EXCEPT ![pub[p].srv][pub[p].file] =
                Section(pub[p].lines, pub[p].file)]

(* A failure ends the publish, after it may have truncated its target. *)
Ends(p) ==
  /\ OthersKept(p) /\ faults' = faults + 1 /\ pub'[p] = Idle
  /\ \/ live' = live
     \/ /\ pub[p].pc = "ship" /\ pub[p].op = "upload"
        /\ live' = [live EXCEPT ![pub[p].srv][pub[p].file] = Torn]

LEMMA StepShape ==
  ASSUME PlacedInv, [Next]_vars
  PROVE  \/ Pauses
         \/ \E p \in Publishers :
              Prepares(p) \/ Enters(p) \/ BacksUp(p) \/ Uploads(p) \/ Ends(p)
<1>a. pub \in [Publishers -> Publish] /\ \A p \in Publishers : Placed(pub[p])
  BY DEF PlacedInv, DeployInv, DeployTypeOK
<1>b. ASSUME NEW p \in Publishers, NEW r, pub' = [pub EXCEPT ![p] = r]
      PROVE  pub'[p] = r /\ OthersKept(p)
  BY <1>a, <1>b DEF OthersKept
<1>1. CASE EditorStep \/ Tick \/ UNCHANGED vars
  BY <1>1 DEF EditorStep, deployVars, Tick, vars, Pauses, Untouched
<1>2. ASSUME NEW p \in Publishers, NEW kind \in Kinds, Start(p, kind) PROVE Prepares(p)
  <2> DEFINE r == [Idle EXCEPT !.pc = "read", !.kind = kind]
  <2>1. pub' = [pub EXCEPT ![p] = r] /\ Untouched /\ pub[p].pc = "idle"
    BY <1>2 DEF Start, Untouched
  <2>2. r.pc = "read"
    BY DEF Idle
  <2>3. pub'[p] = r /\ OthersKept(p)
    BY <1>b, <2>1
  <2>4. QED
    BY <2>1, <2>2, <2>3 DEF Prepares
<1>3. ASSUME NEW p \in Publishers, Read(p) PROVE Prepares(p)
  <2>1. PICK r \in Publish : pub' = [pub EXCEPT ![p] = r]
                             /\ r.pc \in {"read", "validate", "loaded"}
    BY <1>3, ReadType DEF ReadsTo
  <2>2. Untouched /\ pub[p].pc = "read"
    BY <1>3 DEF Read, Untouched
  <2>3. pub'[p] = r /\ OthersKept(p)
    BY <1>b, <2>1
  <2>4. QED
    BY <2>1, <2>2, <2>3 DEF Prepares
<1>4. ASSUME NEW p \in Publishers, Validated(p) PROVE Prepares(p)
  <2> DEFINE r == [pub[p] EXCEPT !.pc = "read", !.phase = "publish",
                                 !.checked = pub[p].lines, !.lines = {}, !.approved = {}]
  <2>1. pub' = [pub EXCEPT ![p] = r] /\ Untouched /\ pub[p].pc = "validate"
    BY <1>4 DEF Validated, Untouched
  <2>2. r.pc = "read"
    BY <1>a DEF Publish
  <2>3. pub'[p] = r /\ OthersKept(p)
    BY <1>b, <2>1
  <2>4. QED
    BY <2>1, <2>2, <2>3 DEF Prepares
<1>5. ASSUME NEW p \in Publishers, Stamp(p) PROVE Prepares(p) \/ Enters(p)
  <2> DEFINE r == [pub[p] EXCEPT !.stamp = clock,
                     !.pc = IF pub[p].kind = "block" THEN "ship" ELSE "stamped"]
  <2>1. /\ pub' = [pub EXCEPT ![p] = r] /\ Untouched /\ pub[p].pc = "loaded"
        /\ ~Busy(WorkerOf[p])
    BY <1>5 DEF Stamp, Untouched
  <2>2. pub'[p] = r /\ OthersKept(p)
    BY <1>b, <2>1
  <2>3. pub[p] \in Publish /\ pub[p].srv = 1 /\ pub[p].file = 1 /\ pub[p].op = "backup"
    BY <1>a, <2>1 DEF Placed
  <2>4. r.pc \in {"ship", "stamped"} /\ r.srv = 1 /\ r.file = 1 /\ r.op = "backup"
    BY <2>3 DEF Publish
  <2>5. QED
    BY <2>1, <2>2, <2>4 DEF Prepares, Enters
<1>6. ASSUME NEW p \in Publishers, Resume(p) PROVE Enters(p)
  <2> DEFINE r == [pub[p] EXCEPT !.pc = "ship"]
  <2>1. /\ pub' = [pub EXCEPT ![p] = r] /\ Untouched /\ pub[p].pc \in {"stamped", "backed"}
        /\ ~Busy(WorkerOf[p])
    BY <1>6 DEF Resume, Untouched
  <2>2. pub'[p] = r /\ OthersKept(p)
    BY <1>b, <2>1
  <2>3. /\ pub[p] \in Publish /\ pub[p].srv = 1 /\ pub[p].file = 1
        /\ pub[p].op = "backup" \/ (pub[p].op = "upload" /\ pub[p].pc = "backed")
    BY <1>a, <2>1 DEF Placed
  <2>4. /\ r.pc = "ship" /\ r.srv = 1 /\ r.file = 1 /\ r.op = pub[p].op
        /\ r.kind = pub[p].kind /\ r.stamp = pub[p].stamp
    BY <2>3 DEF Publish
  <2>5. QED
    BY <2>1, <2>2, <2>3, <2>4 DEF Enters
<1>7. ASSUME NEW p \in Publishers, BackUp(p) PROVE BacksUp(p)
  <2>1. pub' = [pub EXCEPT ![p] = Advance(pub[p])]
    BY <1>7 DEF BackUp
  <2>2. pub'[p] = Advance(pub[p]) /\ OthersKept(p)
    BY <1>b, <2>1
  <2>3. QED
    BY <1>7, <2>2 DEF BackUp, AtOp, BacksUp
<1>8. ASSUME NEW p \in Publishers, Upload(p) PROVE Uploads(p)
  <2>1. pub' = [pub EXCEPT ![p] = Advance(pub[p])]
    BY <1>8 DEF Upload
  <2>2. pub'[p] = Advance(pub[p]) /\ OthersKept(p)
    BY <1>b, <2>1
  <2>3. QED
    BY <1>8, <2>2 DEF Upload, AtOp, Uploads
<1>9. ASSUME NEW p \in Publishers, NEW k \in Keys, Sync(p, k) PROVE Prepares(p)
  <2> DEFINE r == [pub[p] EXCEPT !.approved = @ \ {k}]
  <2>1. pub' = [pub EXCEPT ![p] = r] /\ Untouched /\ pub[p].pc = "sync"
    BY <1>9 DEF Sync, Untouched
  <2>2. r.pc = "sync" /\ r.lines = pub[p].lines
    BY <1>a, <2>1 DEF Publish
  <2>3. pub'[p] = r /\ OthersKept(p)
    BY <1>b, <2>1
  <2>4. QED
    BY <2>1, <2>2, <2>3 DEF Prepares
<1>10. ASSUME NEW p \in Publishers, Finish(p) PROVE Prepares(p)
  <2>1. pub' = [pub EXCEPT ![p] = Idle] /\ Untouched /\ pub[p].pc = "sync"
    BY <1>10 DEF Finish, Untouched
  <2>2. pub'[p] = Idle /\ OthersKept(p)
    BY <1>b, <2>1
  <2>3. QED
    BY <2>1, <2>2, IdleType DEF Prepares
<1>11. ASSUME NEW p \in Publishers, Fail(p) \/ UploadFails(p) PROVE Ends(p)
  <2>1. pub' = [pub EXCEPT ![p] = Idle] /\ faults' = faults + 1
    BY <1>11 DEF Fail, UploadFails, AfterFailedUpload, Fault
  <2>2. pub'[p] = Idle /\ OthersKept(p)
    BY <1>b, <2>1
  <2>3. QED
    BY <1>11, <2>1, <2>2 DEF Fail, UploadFails, AtOp, Ends
<1>12. ASSUME NEW p \in Publishers, BackupFails(p) PROVE BacksUp(p) \/ Ends(p)
  <2> DEFINE r == AfterFailedBackup(pub[p])
  <2>1. /\ pub' = [pub EXCEPT ![p] = r] /\ faults' = faults + 1 /\ live' = live
        /\ pub[p].pc = "ship" /\ pub[p].op = "backup"
    BY <1>12 DEF BackupFails, Fault, AtOp
  <2>2. pub'[p] = r /\ OthersKept(p)
    BY <1>b, <2>1
  <2>3. CASE pub[p].kind = "block"
    BY <2>1, <2>2, <2>3 DEF AfterFailedBackup, BacksUp
  <2>4. CASE pub[p].kind # "block"
    BY <2>1, <2>2, <2>4 DEF AfterFailedBackup, Ends
  <2>5. QED
    BY <2>3, <2>4
<1>13. QED
  BY <1>1, <1>2, <1>3, <1>4, <1>5, <1>6, <1>7, <1>8, <1>9, <1>10, <1>11, <1>12 DEF Next, Proceed

-----------------------------------------------------------------------------
(* What a publish has replaced, and no other publish or failure has touched  *)
(* since, has its lines.                                                     *)
Shipped(me) ==
  /\ me.pc = "ship" =>
       \A s \in Servers, f \in Files : Replaced(me, s, f) => live[s][f] = Section(me.lines, f)
  /\ me.pc = "sync" => \A s \in Servers, f \in Files : live[s][f] = Section(me.lines, f)

Alone == \A p, q \in Publishers : p = q

ShippedInv == PlacedInv /\ \A p \in Publishers : Shipped(pub[p])

(* In its first position a publish has replaced nothing. *)
LEMMA FirstReplacesNothing ==
  ASSUME NEW me, me.srv = 1, me.file = 1, NEW s \in Servers, NEW f \in Files
  PROVE  ~Replaced(me, s, f)
BY Bounds DEF Replaced, Servers, Files

(* An upload writes its target and nothing else. *)
LEMMA UploadWrites ==
  ASSUME PlacedInv, NEW p \in Publishers, Uploads(p), NEW s \in Servers, NEW f \in Files
  PROVE  live'[s][f] = IF Target(pub[p], s, f) THEN Section(pub[p].lines, f) ELSE live[s][f]
<1> DEFINE me == pub[p]
<1>1. /\ me \in Publish /\ me.srv \in Servers /\ me.file \in Files /\ me.op = "upload"
      /\ live' = [live EXCEPT ![me.srv][me.file] = Section(me.lines, me.file)]
  BY AtOpType DEF Uploads
<1>2. Section(me.lines, me.file) \in FileContent
  BY <1>1, SectionType DEF Publish
<1>3. live \in [Servers -> [Files -> FileContent]]
  BY DEF PlacedInv, DeployInv, DeployTypeOK
<1>4. QED
  BY <1>1, <1>2, <1>3, LiveReplaced DEF Target

LEMMA ShippedStep ==
  ASSUME Alone, ShippedInv, [Next]_vars, NEW q \in Publishers
  PROVE  Shipped(pub[q])'
<1>a. PlacedInv /\ Shipped(pub[q])
  BY DEF ShippedInv
<1>1. CASE Pauses
  BY <1>a, <1>1 DEF Pauses, Untouched, Shipped
<1>2. ASSUME NEW p \in Publishers, Prepares(p) PROVE Shipped(pub[q])'
  <2>1. p = q
    BY DEF Alone
  <2>2. live' = live
    BY <1>2 DEF Prepares, Untouched
  <2>3. QED
    BY <1>a, <1>2, <2>1, <2>2 DEF Prepares, Shipped
<1>3. ASSUME NEW p \in Publishers, Enters(p) PROVE Shipped(pub[q])'
  <2>1. pub'[q].pc = "ship" /\ pub'[q].srv = 1 /\ pub'[q].file = 1
    BY <1>3 DEF Alone, Enters
  <2>2. \A s \in Servers, f \in Files : ~Replaced(pub'[q], s, f)
    BY <2>1, FirstReplacesNothing
  <2>3. QED
    BY <2>1, <2>2 DEF Shipped
<1>4. ASSUME NEW p \in Publishers, BacksUp(p) PROVE Shipped(pub[q])'
  <2>1. /\ pub[q].pc = "ship" /\ pub[q].op = "backup" /\ live' = live
        /\ pub'[q] = Advance(pub[q])
    BY <1>4 DEF Alone, BacksUp
  <2>2. pub[q] \in Publish
    BY <1>a, <2>1, AtOpType
  <2>3. ASSUME NEW s \in Servers, NEW f \in Files
        PROVE  /\ pub'[q].pc = "ship" => (Replaced(pub'[q], s, f) <=> Replaced(pub[q], s, f))
               /\ pub'[q].pc = "sync" => Replaced(pub[q], s, f)
               /\ pub'[q].lines = pub[q].lines
    <3>1. ~Target(pub[q], s, f)
      BY <2>1 DEF Target
    <3>2. QED
      BY <2>1, <2>2, <3>1, AdvanceReplaces
  <2>4. QED
    BY <1>a, <2>1, <2>3 DEF Shipped
<1>5. ASSUME NEW p \in Publishers, Uploads(p) PROVE Shipped(pub[q])'
  <2>1. p = q /\ pub[q].pc = "ship" /\ pub'[q] = Advance(pub[q])
    BY <1>5 DEF Alone, Uploads
  <2>2. pub[q] \in Publish
    BY <1>a, <2>1, AtOpType
  <2>3. ASSUME NEW s \in Servers, NEW f \in Files,
               Replaced(pub[q], s, f) \/ Target(pub[q], s, f)
        PROVE  live'[s][f] = Section(pub[q].lines, f)
    BY <1>a, <1>5, <2>1, <2>3, UploadWrites DEF Shipped
  <2>4. ASSUME NEW s \in Servers, NEW f \in Files
        PROVE  /\ pub'[q].pc = "ship" /\ Replaced(pub'[q], s, f) =>
                    Replaced(pub[q], s, f) \/ Target(pub[q], s, f)
               /\ pub'[q].pc = "sync" => Replaced(pub[q], s, f) \/ Target(pub[q], s, f)
               /\ pub'[q].lines = pub[q].lines
    BY <2>1, <2>2, AdvanceReplaces
  <2>5. QED
    BY <2>3, <2>4 DEF Shipped
<1>6. ASSUME NEW p \in Publishers, Ends(p) PROVE Shipped(pub[q])'
  <2>1. pub'[q].pc = "idle"
    BY <1>6, IdleType DEF Alone, Ends
  <2>2. QED
    BY <2>1 DEF Shipped
<1>7. QED
  BY <1>a, <1>1, <1>2, <1>3, <1>4, <1>5, <1>6, StepShape

(* With one publish at a time statuses are synchronised only when every      *)
(* server has every file of the publish, whatever has failed before.         *)
THEOREM SyncFollowsShipping ==
  ASSUME Alone
  PROVE  Spec => []SyncedEverywhere
<1>1. Init => ShippedInv
  BY PlacedInit, IdleType DEF Init, ShippedInv, Shipped
<1>2. ShippedInv /\ [Next]_vars => ShippedInv'
  BY PlacedStep, ShippedStep DEF ShippedInv
<1>3. ShippedInv => SyncedEverywhere
  BY DEF ShippedInv, Shipped, SyncedEverywhere
<1>4. QED
  BY <1>1, <1>2, <1>3, PTL DEF Spec

-----------------------------------------------------------------------------
(* One worker: its SSH segments follow one another. *)
OneWorker == \A p, q \in Publishers : WorkerOf[p] = WorkerOf[q]

OneShips ==
  \A p, q \in Publishers : pub[p].pc = "ship" /\ pub[q].pc = "ship" => p = q

(* In the middle of a segment the servers that are done have the lines of    *)
(* the publish, the others what they all had before.                         *)
Halfway(me) ==
  \A s, t \in Servers, f \in Files :
    /\ Replaced(me, s, f) => live[s][f] = Section(me.lines, f)
    /\ ~Replaced(me, s, f) /\ ~Replaced(me, t, f) => live[s][f] = live[t][f]

AgreeInv ==
  /\ PlacedInv /\ OneShips /\ ServersAgree
  /\ faults = 0 => \A p \in Publishers : pub[p].pc = "ship" => Halfway(pub[p])

LEMMA AgreeStep ==
  ASSUME OneWorker, AgreeInv, [Next]_vars
  PROVE  OneShips' /\ ServersAgree' /\
         (faults = 0 => \A p \in Publishers : pub[p].pc = "ship" => Halfway(pub[p]))'
<1> DEFINE Mid == faults = 0 => \A p \in Publishers : pub[p].pc = "ship" => Halfway(pub[p])
           Goal == OneShips' /\ ServersAgree' /\ Mid'
<1>a. PlacedInv /\ OneShips /\ ServersAgree /\ Mid
  BY DEF AgreeInv
<1>b. faults \in Nat
  BY <1>a, DeployAssumption DEF PlacedInv, DeployInv, DeployTypeOK
<1>1. CASE Pauses
  BY <1>a, <1>1 DEF Pauses, Untouched, OneShips, ServersAgree, Halfway
<1>2. ASSUME NEW p \in Publishers, Prepares(p) PROVE Goal
  <2>1. /\ live' = live /\ faults' = faults
        /\ \A q \in Publishers : (pub'[q].pc = "ship" <=> pub[q].pc = "ship")
        /\ \A q \in Publishers : pub[q].pc = "ship" => pub'[q] = pub[q]
    BY <1>2 DEF Prepares, Untouched, OthersKept
  <2>2. QED
    BY <1>a, <2>1 DEF OneShips, ServersAgree, Halfway
<1>3. ASSUME NEW p \in Publishers, Enters(p) PROVE Goal
  <2>1. /\ live' = live /\ faults' = faults
        /\ pub'[p].pc = "ship" /\ pub'[p].srv = 1 /\ pub'[p].file = 1
        /\ \A q \in Publishers : q # p => pub'[q] = pub[q]
    BY <1>3 DEF Enters, Untouched, OthersKept
  <2>2. \A q \in Publishers : pub[q].pc # "ship"
    BY <1>3 DEF Enters, Busy, OneWorker
  <2>3. \A s \in Servers, f \in Files : ~Replaced(pub'[p], s, f)
    BY <2>1, FirstReplacesNothing
  <2>4. faults = 0 => \A s, t \in Servers, f \in Files : live[s][f] = live[t][f]
    BY <1>a, <2>2 DEF ServersAgree
  <2>5. Mid'
    BY <2>1, <2>2, <2>3, <2>4 DEF Halfway
  <2>6. QED
    BY <2>1, <2>2, <2>5 DEF OneShips, ServersAgree
<1>4. ASSUME NEW p \in Publishers, BacksUp(p) PROVE Goal
  <2>1. /\ pub[p] \in Publish /\ pub[p].pc = "ship" /\ pub[p].op = "backup" /\ live' = live
        /\ pub'[p] = Advance(pub[p]) /\ (faults' = 0 => faults = 0)
        /\ \A q \in Publishers : q # p => pub'[q] = pub[q]
    BY <1>a, <1>b, <1>4, AtOpType DEF BacksUp, OthersKept
  <2>2. \A q \in Publishers : q # p => pub[q].pc # "ship"
    BY <1>a, <2>1 DEF OneShips
  <2>3. ASSUME NEW s \in Servers, NEW f \in Files
        PROVE  /\ pub'[p].pc = "ship" => (Replaced(pub'[p], s, f) <=> Replaced(pub[p], s, f))
               /\ pub'[p].pc = "sync" => Replaced(pub[p], s, f)
               /\ pub'[p].pc = "backed" => ~Replaced(pub[p], s, f)
               /\ pub'[p].pc \in {"ship", "sync", "backed"}
               /\ pub'[p].lines = pub[p].lines
    <3>1. ~Target(pub[p], s, f)
      BY <2>1 DEF Target
    <3>2. QED
      BY <2>1, <3>1, AdvanceReplaces
  <2>4. faults = 0 => Halfway(pub[p])
    BY <1>a, <2>1
  <2>5. Mid'
    BY <2>1, <2>2, <2>3, <2>4 DEF Halfway
  <2>6. ServersAgree'
    <3>1. ASSUME faults' = 0, \A q \in Publishers : pub'[q].pc # "ship",
                 NEW s \in Servers, NEW t \in Servers, NEW f \in Files
          PROVE  live'[s][f] = live'[t][f]
      BY <2>1, <2>3, <2>4, <3>1 DEF Halfway
    <3>2. QED
      BY <3>1 DEF ServersAgree
  <2>7. OneShips'
    BY <2>1, <2>2 DEF OneShips
  <2>8. QED
    BY <2>5, <2>6, <2>7
<1>5. ASSUME NEW p \in Publishers, Uploads(p) PROVE Goal
  <2>1. /\ pub[p] \in Publish /\ pub[p].pc = "ship"
        /\ pub'[p] = Advance(pub[p]) /\ faults' = faults
        /\ \A q \in Publishers : q # p => pub'[q] = pub[q]
    BY <1>a, <1>5, AtOpType DEF Uploads, OthersKept
  <2>2. \A q \in Publishers : q # p => pub[q].pc # "ship"
    BY <1>a, <2>1 DEF OneShips
  <2>3. ASSUME NEW s \in Servers, NEW f \in Files
        PROVE  /\ pub'[p].pc = "ship" =>
                    (Replaced(pub'[p], s, f) <=> Replaced(pub[p], s, f) \/ Target(pub[p], s, f))
               /\ pub'[p].pc = "sync" => Replaced(pub[p], s, f) \/ Target(pub[p], s, f)
               /\ pub'[p].pc = "backed" => ~Replaced(pub[p], s, f) /\ ~Target(pub[p], s, f)
               /\ pub'[p].pc \in {"ship", "sync", "backed"}
               /\ pub'[p].lines = pub[p].lines
               /\ live'[s][f] = IF Target(pub[p], s, f) THEN Section(pub[p].lines, f)
                                ELSE live[s][f]
    BY <1>a, <1>5, <2>1, AdvanceReplaces, UploadWrites
  <2>4. faults = 0 => Halfway(pub[p])
    BY <1>a, <2>1
  <2>5. ASSUME faults = 0, NEW s \in Servers, NEW f \in Files
        PROVE  /\ Replaced(pub[p], s, f) \/ Target(pub[p], s, f) =>
                    live'[s][f] = Section(pub[p].lines, f)
               /\ ~(Replaced(pub[p], s, f) \/ Target(pub[p], s, f)) =>
                    live'[s][f] = live[s][f]
    BY <2>3, <2>4, <2>5 DEF Halfway
  <2>6. Mid'
    BY <2>1, <2>2, <2>3, <2>4, <2>5 DEF Halfway
  <2>7. ServersAgree'
    <3>1. ASSUME faults' = 0, \A q \in Publishers : pub'[q].pc # "ship",
                 NEW s \in Servers, NEW t \in Servers, NEW f \in Files
          PROVE  live'[s][f] = live'[t][f]
      BY <2>1, <2>3, <2>4, <2>5, <3>1 DEF Halfway
    <3>2. QED
      BY <3>1 DEF ServersAgree
  <2>8. OneShips'
    BY <2>1, <2>2 DEF OneShips
  <2>9. QED
    BY <2>6, <2>7, <2>8
<1>6. ASSUME NEW p \in Publishers, Ends(p) PROVE Goal
  <2>1. faults' # 0
    BY <1>b, <1>6 DEF Ends
  <2>2. /\ pub'[p].pc = "idle"
        /\ \A q \in Publishers : q # p => pub'[q] = pub[q]
    BY <1>6, IdleType DEF Ends, OthersKept
  <2>3. QED
    BY <1>a, <2>1, <2>2 DEF OneShips, ServersAgree
<1>7. QED
  BY <1>a, <1>1, <1>2, <1>3, <1>4, <1>5, <1>6, StepShape

(* One worker, whose event loop an SSH segment holds, never leaves servers   *)
(* with different files when nothing fails, however many publishes overlap.  *)
THEOREM SegmentsKeepServersAlike ==
  ASSUME OneWorker
  PROVE  Spec => []ServersAgree
<1>1. Init => AgreeInv
  <2>1. ASSUME Init PROVE \A p \in Publishers : pub[p].pc = "idle"
    BY <2>1, IdleType DEF Init
  <2>2. ASSUME Init PROVE \A s, t \in Servers, f \in Files : live[s][f] = live[t][f]
    BY <2>2 DEF Init
  <2>3. QED
    BY PlacedInit, <2>1, <2>2 DEF AgreeInv, OneShips, ServersAgree
<1>2. AgreeInv /\ [Next]_vars => AgreeInv'
  BY PlacedStep, AgreeStep DEF AgreeInv
<1>3. AgreeInv => ServersAgree
  BY DEF AgreeInv
<1>4. QED
  BY <1>1, <1>2, <1>3, PTL DEF Spec

-----------------------------------------------------------------------------
(* The files "stream" has been through in its backup segment. *)
Passed(me, s, f) == s < me.srv \/ (s = me.srv /\ f < me.file)

HasBackup(me, s, f) == live[s][f] # Missing => backup[s][f][me.stamp] = live[s][f]

(* The servers that have a backup folder or let it be made. *)
Foldered == Servers \ NoFolder

(* What "stream" has passed it has saved, and what it has still to replace   *)
(* is as it was when it was saved.                                           *)
Saved(me) ==
  /\ me.pc = "ship" /\ me.op = "backup" =>
       \A s \in Foldered, f \in Files : Passed(me, s, f) => HasBackup(me, s, f)
  /\ me.pc = "ship" /\ me.op = "upload" =>
       \A s \in Foldered, f \in Files : ~Replaced(me, s, f) => HasBackup(me, s, f)
  /\ me.pc = "backed" => \A s \in Foldered, f \in Files : HasBackup(me, s, f)

SavedInv ==
  PlacedInv /\ \A p \in Publishers : pub[p].kind = "stream" => Saved(pub[p])

(* Going on with a backup segment passes the file of this operation. *)
LEMMA AdvancePasses ==
  ASSUME NEW me \in Publish, me.pc = "ship", me.kind = "stream", me.op = "backup",
         NEW s \in Servers, NEW f \in Files
  PROVE  LET next == Advance(me)
             now  == s = me.srv /\ f = me.file
         IN  /\ next.pc = "ship" => /\ next.op = "backup"
                                    /\ Passed(next, s, f) => Passed(me, s, f) \/ now
             /\ next.pc = "backed" => Passed(me, s, f) \/ now
             /\ next.pc \in {"ship", "backed"}
             /\ next.stamp = me.stamp
<1> DEFINE next == Advance(me)
<1> HIDE DEF next
<1>1. /\ me.file \in 1 .. NumFiles /\ me.srv \in 1 .. NumServers
      /\ s \in 1 .. NumServers /\ f \in 1 .. NumFiles
      /\ NumFiles \in Nat \ {0} /\ NumServers \in Nat \ {0}
  BY Bounds DEF Publish, Servers, Files
<1>2. /\ next.stamp = me.stamp
      /\ \/ /\ me.file < NumFiles /\ next.pc = "ship" /\ next.op = "backup"
            /\ next.srv = me.srv /\ next.file = me.file + 1
         \/ /\ me.file = NumFiles /\ me.srv < NumServers
            /\ next.pc = "ship" /\ next.srv = me.srv + 1 /\ next.file = 1
            /\ next.op = "backup"
         \/ /\ me.file = NumFiles /\ me.srv = NumServers /\ next.pc = "backed"
  BY AdvanceShape DEF next
<1>3. /\ next.pc = "ship" => /\ next.op = "backup"
                             /\ Passed(next, s, f) => Passed(me, s, f) \/ (s = me.srv /\ f = me.file)
      /\ next.pc = "backed" => Passed(me, s, f) \/ (s = me.srv /\ f = me.file)
      /\ next.pc \in {"ship", "backed"}
  BY <1>1, <1>2 DEF Passed
<1>4. QED
  BY <1>2, <1>3 DEF next

(* Going on with an upload segment ends it or stays in it. *)
LEMMA AdvanceUploads ==
  ASSUME NEW me \in Publish, me.pc = "ship", me.kind = "stream", me.op = "upload"
  PROVE  LET next == Advance(me)
         IN  /\ next.pc = "sync" \/ (next.pc = "ship" /\ next.op = "upload")
             /\ next.stamp = me.stamp
BY AdvanceShape

LEMMA SavedStep ==
  ASSUME Alone, SavedInv, [Next]_vars, NEW q \in Publishers, pub'[q].kind = "stream"
  PROVE  Saved(pub[q])'
<1>a. PlacedInv /\ (pub[q].kind = "stream" => Saved(pub[q]))
  BY DEF SavedInv
<1>b. pub[q] \in Publish
  BY <1>a DEF PlacedInv, DeployInv, DeployTypeOK
<1>1. CASE Pauses
  <2>1. pub'[q] = pub[q] /\ live' = live /\ backup' = backup
    BY <1>1 DEF Pauses, Untouched
  <2>2. QED
    BY <1>a, <2>1 DEF Saved, HasBackup
<1>2. ASSUME NEW p \in Publishers, Prepares(p) PROVE Saved(pub[q])'
  <2>1. pub'[q].pc \notin {"ship", "backed"}
    BY <1>2 DEF Alone, Prepares
  <2>2. QED
    BY <2>1 DEF Saved
<1>3. ASSUME NEW p \in Publishers, Enters(p) PROVE Saved(pub[q])'
  <2>1. /\ live' = live /\ backup' = backup
        /\ pub'[q].pc = "ship" /\ pub'[q].srv = 1 /\ pub'[q].file = 1
        /\ \/ pub'[q].op = "backup"
           \/ pub'[q].op = "upload" /\ pub[q].pc = "backed"
              /\ pub'[q].kind = pub[q].kind /\ pub'[q].stamp = pub[q].stamp
    BY <1>3 DEF Alone, Enters, Untouched
  <2>2. CASE pub'[q].op = "backup"
    <3>1. \A s \in Foldered, f \in Files : ~Passed(pub'[q], s, f)
      BY <2>1, Bounds DEF Passed, Foldered, Servers, Files
    <3>2. QED
      BY <2>1, <2>2, <3>1 DEF Saved
  <2>3. CASE pub'[q].op = "upload"
    <3>1. \A s \in Foldered, f \in Files : HasBackup(pub[q], s, f)
      BY <1>a, <2>1, <2>3 DEF Saved
    <3>2. \A s \in Foldered, f \in Files : HasBackup(pub[q], s, f)'
      BY <2>1, <2>3, <3>1 DEF HasBackup
    <3>3. QED
      BY <2>1, <2>3, <3>2 DEF Saved
  <2>4. QED
    BY <2>1, <2>2, <2>3
<1>4. ASSUME NEW p \in Publishers, BacksUp(p) PROVE Saved(pub[q])'
  <2> DEFINE me == pub[q]
  <2>1. p = q /\ me.pc = "ship" /\ me.op = "backup" /\ live' = live /\ pub'[q] = Advance(me)
    BY <1>4 DEF Alone, BacksUp
  <2>2. me.kind = "stream"
    BY <1>b, <2>1, AdvanceShape
  <2>3. /\ me.srv \in Servers /\ me.file \in Files /\ me.stamp \in 1 .. MaxTime
        /\ live[me.srv][me.file] \in FileContent
        /\ backup \in [Servers -> [Files -> [1 .. MaxTime -> FileContent]]]
    BY <1>a, <2>1, AtOpType DEF PlacedInv, DeployInv, DeployTypeOK
  <2>4. ASSUME NEW s \in Foldered, NEW f \in Files,
               Passed(me, s, f) \/ (s = me.srv /\ f = me.file)
        PROVE  live'[s][f] # Missing => backup'[s][f][me.stamp] = live'[s][f]
    <3>1. Passed(me, s, f) => (live[s][f] # Missing => backup[s][f][me.stamp] = live[s][f])
      BY <1>a, <2>1, <2>2 DEF Saved, HasBackup
    <3>0. s \in Servers /\ (s = me.srv => me.srv \notin NoFolder)
      BY DEF Foldered
    <3>2. CASE Skipped(me) /\ backup' = backup
      BY <2>1, <2>4, <3>0, <3>1, <3>2 DEF Skipped
    <3>3. CASE live[me.srv][me.file] # Missing /\ backup' = Copied(me)
      <4> DEFINE new == [backup EXCEPT ![me.srv][me.file][me.stamp] = live[me.srv][me.file]]
      <4>1. backup' = new
        BY <3>3 DEF Copied
      <4>2. /\ new[me.srv][me.file][me.stamp] = live[me.srv][me.file]
            /\ (s # me.srv \/ f # me.file) => new[s][f] = backup[s][f]
        BY <2>3, <3>0, BackupReplaced
      <4> HIDE DEF new
      <4>3. CASE s = me.srv /\ f = me.file
        BY <2>1, <4>1, <4>2, <4>3
      <4>4. CASE ~(s = me.srv /\ f = me.file)
        BY <2>1, <2>4, <3>1, <4>1, <4>2, <4>4
      <4>5. QED
        BY <4>3, <4>4
    <3>4. QED
      BY <1>4, <2>1, <2>2, <3>2, <3>3 DEF BacksUp
  <2>5. ASSUME NEW s \in Servers, NEW f \in Files
        PROVE  /\ pub'[q].pc = "ship" =>
                    /\ pub'[q].op = "backup"
                    /\ Passed(pub'[q], s, f) =>
                         Passed(me, s, f) \/ (s = me.srv /\ f = me.file)
               /\ pub'[q].pc = "backed" => Passed(me, s, f) \/ (s = me.srv /\ f = me.file)
               /\ pub'[q].stamp = me.stamp
    BY <1>b, <2>1, <2>2, AdvancePasses
  <2>6. pub'[q].pc = "ship" => pub'[q].op = "backup"
    BY <2>3, <2>5
  <2>7. QED
    BY <2>4, <2>5, <2>6 DEF Saved, HasBackup, Foldered
<1>5. ASSUME NEW p \in Publishers, Uploads(p) PROVE Saved(pub[q])'
  <2> DEFINE me == pub[q]
  <2>1. /\ p = q /\ me.pc = "ship" /\ me.op = "upload" /\ backup' = backup
        /\ pub'[q] = Advance(me)
    BY <1>5 DEF Alone, Uploads
  <2>2. me.kind = "stream"
    BY <1>b, <2>1, AdvanceShape
  <2>3. ASSUME NEW s \in Foldered, NEW f \in Files, ~Replaced(me, s, f), ~Target(me, s, f)
        PROVE  live'[s][f] # Missing => backup'[s][f][me.stamp] = live'[s][f]
    <3>1. live'[s][f] = live[s][f]
      BY <1>a, <1>5, <2>1, <2>3, UploadWrites DEF Foldered
    <3>2. QED
      BY <1>a, <2>1, <2>2, <2>3, <3>1 DEF Saved, HasBackup
  <2>4. ASSUME NEW s \in Servers, NEW f \in Files
        PROVE  pub'[q].pc = "ship" /\ ~Replaced(pub'[q], s, f) =>
                 ~Replaced(me, s, f) /\ ~Target(me, s, f)
    BY <1>b, <2>1, AdvanceReplaces
  <2>5. /\ pub'[q].stamp = me.stamp
        /\ pub'[q].pc = "sync" \/ (pub'[q].pc = "ship" /\ pub'[q].op = "upload")
    BY <1>b, <2>1, <2>2, AdvanceUploads
  <2>6. QED
    BY <2>3, <2>4, <2>5 DEF Saved, HasBackup, Foldered
<1>6. ASSUME NEW p \in Publishers, Ends(p) PROVE Saved(pub[q])'
  <2>1. pub'[q].pc = "idle"
    BY <1>6, IdleType DEF Alone, Ends
  <2>2. QED
    BY <2>1 DEF Saved
<1>7. QED
  BY <1>a, <1>1, <1>2, <1>3, <1>4, <1>5, <1>6, StepShape

(* A file that a step of "stream" changes has a backup. *)
LEMMA ReplacesSaved ==
  ASSUME Alone, SavedInv, [Next]_vars
  PROVE  BackedUpBy("stream")
<1> SUFFICES ASSUME NEW q \in Publishers, NEW s \in Foldered, NEW f \in Files,
                    pub[q].kind = "stream", live'[s][f] # live[s][f], live[s][f] # Missing
             PROVE  \E t \in 1 .. MaxTime : backup[s][f][t] = live[s][f]
  BY DEF BackedUpBy, Foldered
<1>0. s \in Servers
  BY DEF Foldered
<1>1. PlacedInv /\ Saved(pub[q])
  BY DEF SavedInv
<1>2. pub[q].pc = "ship" /\ pub[q].op = "upload" /\ s = pub[q].srv /\ f = pub[q].file
  <2>1. ASSUME NEW p \in Publishers, Uploads(p)
        PROVE  pub[q].pc = "ship" /\ Target(pub[q], s, f)
    <3>1. p = q /\ pub[q].pc = "ship"
      BY <2>1 DEF Alone, Uploads
    <3>2. live'[s][f] = IF Target(pub[p], s, f) THEN Section(pub[p].lines, f) ELSE live[s][f]
      BY <1>0, <1>1, <2>1, UploadWrites
    <3>3. QED
      BY <3>1, <3>2
  <2>2. ASSUME NEW p \in Publishers, Ends(p)
        PROVE  pub[q].pc = "ship" /\ Target(pub[q], s, f)
    <3>1. /\ p = q /\ pub[q].pc = "ship" /\ pub[q].op = "upload"
          /\ live' = [live EXCEPT ![pub[q].srv][pub[q].file] = Torn]
      BY <2>2 DEF Alone, Ends
    <3>2. /\ pub[q].srv \in Servers /\ pub[q].file \in Files
          /\ live \in [Servers -> [Files -> FileContent]] /\ Torn \in FileContent
      BY <1>1, <3>1, AtOpType DEF PlacedInv, DeployInv, DeployTypeOK, FileContent
    <3>3. (s # pub[q].srv \/ f # pub[q].file) => live'[s][f] = live[s][f]
      BY <1>0, <3>1, <3>2, LiveReplaced
    <3>4. QED
      BY <3>1, <3>3 DEF Target
  <2>3. ~Pauses /\ \A p \in Publishers : ~Prepares(p) /\ ~Enters(p) /\ ~BacksUp(p)
    BY DEF Pauses, Prepares, Enters, BacksUp, Untouched
  <2>4. QED
    BY <1>1, <2>1, <2>2, <2>3, StepShape DEF Target
<1>3. pub[q].stamp \in 1 .. MaxTime /\ pub[q] \in Publish
  BY <1>1, <1>2, AtOpType
<1>4. ~Replaced(pub[q], s, f)
  BY <1>2, <1>3, Bounds DEF Replaced, Publish, Servers, Files
<1>5. backup[s][f][pub[q].stamp] = live[s][f]
  BY <1>1, <1>2, <1>4 DEF Saved, HasBackup
<1>6. QED
  BY <1>3, <1>5

(* With one publish at a time the variant that reports its progress replaces *)
(* or truncates a file only when a backup has what it contained, whatever    *)
(* fails, on every server that has its backup folder or lets it be made: a   *)
(* missing folder is the only way to lose the old file.                      *)
THEOREM StreamCanRollBack ==
  ASSUME Alone
  PROVE  Spec => StreamBacksUp
<1>1. Init => SavedInv
  <2>1. ASSUME Init, NEW p \in Publishers PROVE pub[p].pc = "idle"
    BY <2>1, IdleType DEF Init
  <2>2. QED
    BY PlacedInit, <2>1 DEF SavedInv, Saved
<1>2. SavedInv /\ [Next]_vars => SavedInv'
  BY PlacedStep, SavedStep DEF SavedInv
<1>3. SavedInv /\ [Next]_vars => [BackedUpBy("stream")]_vars
  BY ReplacesSaved
<1>4. QED
  BY <1>1, <1>2, <1>3, PTL DEF Spec, StreamBacksUp

-----------------------------------------------------------------------------
(* What is shipped was validated, and what is APPLIED is served, when        *)
(* editors wait for the publishes to end and the lookup of create() is       *)
(* exact: for any number of publishes, workers and failures.                 *)
QuietEditors ==
  ExactLookup /\ OneCreatePerKey = TRUE /\ EditsWhilePublishing = FALSE

(* The entries a publish ships.  While publishes run only their own          *)
(* synchronisation changes documents, and it keeps this set.                 *)
Published == {i \in Active : docs[i].status \in {"APPROVED", "APPLIED"}}

PublishedLines == {LineOf(docs[i]) : i \in {j \in Published : GivesLine(docs[j])}}

(* The entries a reading publish has asked for: those of the collections it  *)
(* is done with and the APPROVED ones when it is half-way.                   *)
Asked(me, i) ==
  \/ \E n \in 1 .. Len(CollectionSeq) :
       n < me.coll /\ CollectionSeq[n] = CollectionOf[docs[i].key]
  \/ /\ me.half = "applied" /\ CollectionSeq[me.coll] = CollectionOf[docs[i].key]
     /\ docs[i].status = "APPROVED"

Gathered(me) ==
  /\ me.pc # "idle" =>
       /\ me.lines \subseteq PublishedLines
       /\ \A k \in me.approved : \E i \in Published : docs[i].key = k
  /\ me.pc = "read" =>
       \A i \in Published : Asked(me, i) /\ GivesLine(docs[i]) => LineOf(docs[i]) \in me.lines
  /\ me.pc = "validate" => me.coll = 1 /\ me.half = "approved"
  /\ me.pc \notin {"idle", "read"} => PublishedLines \subseteq me.lines
  /\ me.pc \notin {"idle", "read", "validate"} \/ (me.pc = "read" /\ me.phase = "publish") =>
       me.checked = PublishedLines

GatherInv ==
  /\ PlacedInv /\ KeyInv
  /\ \A p \in Publishers : Gathered(pub[p])

(* Documents stay, except that published ones can become APPLIED. *)
DocsKept ==
  /\ DOMAIN docs' = DOMAIN docs
  /\ \A i \in DOMAIN docs :
       /\ docs'[i].key = docs[i].key /\ docs'[i].content = docs[i].content
       /\ docs'[i].delete_yn = docs[i].delete_yn
       /\ \/ docs'[i].status = docs[i].status
          \/ i \in Published /\ docs'[i].status = "APPLIED"

LEMMA KeptPublished ==
  ASSUME DocsKept
  PROVE  /\ Published' = Published /\ PublishedLines' = PublishedLines
         /\ \A i \in Published : /\ i \in DOMAIN docs
                                 /\ LineOf(docs[i])' = LineOf(docs[i])
                                 /\ GivesLine(docs[i])' = GivesLine(docs[i])
                                 /\ docs'[i].key = docs[i].key
                                 /\ docs'[i].status = "APPROVED" => docs[i].status = "APPROVED"
<1>1. Published \subseteq DOMAIN docs
  BY DEF Published, Active
<1>2. Active' = Active
  BY DEF DocsKept, Active
<1>3. Published' = Published
  <2>1. ASSUME NEW i \in Active
        PROVE  docs'[i].status \in {"APPROVED", "APPLIED"} <=>
               docs[i].status \in {"APPROVED", "APPLIED"}
    BY DEF DocsKept, Active, Published
  <2>2. QED
    BY <1>2, <2>1 DEF Published
<1>4. \A i \in Published : /\ LineOf(docs[i])' = LineOf(docs[i])
                           /\ GivesLine(docs[i])' = GivesLine(docs[i])
                           /\ docs'[i].key = docs[i].key
                           /\ docs'[i].status = "APPROVED" => docs[i].status = "APPROVED"
  BY <1>1 DEF DocsKept, LineOf, GivesLine
<1>5. PublishedLines' = PublishedLines
  BY <1>3, <1>4 DEF PublishedLines
<1>6. QED
  BY <1>1, <1>3, <1>4, <1>5

(* A publish that does not move keeps what it has gathered. *)
LEMMA KeptGathered ==
  ASSUME DocsKept, NEW me, Gathered(me)
  PROVE  Gathered(me)'
<1>1. /\ Published' = Published /\ PublishedLines' = PublishedLines
      /\ \A i \in Published : /\ i \in DOMAIN docs
                              /\ LineOf(docs[i])' = LineOf(docs[i])
                              /\ GivesLine(docs[i])' = GivesLine(docs[i])
                              /\ docs'[i].key = docs[i].key
                              /\ docs'[i].status = "APPROVED" => docs[i].status = "APPROVED"
  BY KeptPublished
<1>2. \A i \in Published : Asked(me, i)' => Asked(me, i)
  BY <1>1 DEF Asked
<1>3. QED
  BY <1>1, <1>2 DEF Gathered

(* With one document to a key, synchronisation marks a published entry. *)
LEMMA SyncKeeps ==
  ASSUME PlacedInv, KeyInv, NEW k \in Keys, SetStatus(k, "APPLIED"),
         NEW j \in Published, docs[j].key = k
  PROVE  /\ docs' = [docs EXCEPT ![j].status = "APPLIED"]
         /\ DocsKept
         /\ \A i \in DOMAIN docs : docs'[i].status = "APPLIED" => docs[i].status = "APPLIED" \/ i = j
<1> DEFINE hit == Same(k) \cap Active
<1>1. docs \in Seq(Doc) /\ DOMAIN docs \subseteq Nat
  BY LenProperties DEF PlacedInv, DeployInv, DeployTypeOK, TypeOK
<1>2. j \in DOMAIN docs /\ j \in Active /\ docs[j] \in Doc
  BY <1>1, DocType DEF Published, Active
<1>3. hit # {} /\ hit \subseteq DOMAIN docs /\ \A i \in hit : i = j
  BY <1>2 DEF Same, Active, KeyInv, UniqueKey
<1>4. First(hit) = j
  <2> HIDE DEF hit
  <2>1. First(hit) \in hit
    BY <1>1, <1>3, FirstInSet
  <2>2. QED
    BY <1>3, <2>1
<1>5. docs' = [docs EXCEPT ![j].status = "APPLIED"]
  BY <1>3, <1>4 DEF SetStatus
<1> DEFINE e == [docs[j] EXCEPT !.status = "APPLIED"]
<1>6. /\ e \in Doc /\ e.status = "APPLIED" /\ e.key = docs[j].key
      /\ e.content = docs[j].content /\ e.delete_yn = docs[j].delete_yn
  BY <1>2 DEF Doc, Statuses
<1>7. /\ DOMAIN docs' = DOMAIN docs
      /\ \A i \in DOMAIN docs : docs'[i] = IF i = j THEN e ELSE docs[i]
  <2>1. docs' = [docs EXCEPT ![j] = e]
    BY <1>5
  <2>2. QED
    <3> HIDE DEF e
    <3>1. QED
      BY <1>1, <1>2, <1>6, <2>1, DocReplaced
<1>8. QED
  <2> HIDE DEF e
  <2>1. QED
    BY <1>5, <1>6, <1>7 DEF DocsKept

(* Between the edits the documents are kept, one to a key. *)
LEMMA StoreKept ==
  ASSUME GatherInv, [Next]_vars, ~EditorStep
  PROVE  DocsKept /\ KeyInv'
<1>1. CASE UNCHANGED storeVars
  BY <1>1 DEF storeVars, DocsKept, GatherInv, KeyInv, UniqueKey, LookupFresh, OneEach, Same
<1>2. ASSUME NEW p \in Publishers, NEW k \in Keys, Sync(p, k), SetStatus(k, "APPLIED")
      PROVE  DocsKept /\ KeyInv'
  <2>1. pub[p].pc = "sync" /\ k \in pub[p].approved /\ SetStatus(k, "APPLIED") /\ creates' = creates
    BY <1>2 DEF Sync
  <2>2. PICK j \in Published : docs[j].key = k
    BY <2>1 DEF GatherInv, Gathered
  <2>3. docs' = [docs EXCEPT ![j].status = "APPLIED"] /\ DocsKept
    BY <2>1, <2>2, SyncKeeps DEF GatherInv
  <2> DEFINE e == [docs[j] EXCEPT !.status = "APPLIED"]
  <2>4. docs \in Seq(Doc) /\ TypeOK /\ j \in DOMAIN docs /\ docs[j].delete_yn = "N"
    BY DEF GatherInv, PlacedInv, DeployInv, DeployTypeOK, TypeOK, Published, Active
  <2>5. docs[j] \in Doc
    BY <2>4, DocType
  <2>6. e \in Doc /\ e.key = docs[j].key
    BY <2>5 DEF Doc, Statuses
  <2>7. \A x \in creates' : ~(x.step = "restore" /\ x.at = j)
    BY <2>1, <2>4 DEF GatherInv, KeyInv, LookupFresh
  <2>8. docs' = [docs EXCEPT ![j] = e]
    BY <2>3
  <2>9. KeyInv'
    <3> HIDE DEF e
    <3>1. QED
      <4>1. KeyInv /\ creates' \subseteq creates
        BY <2>1 DEF GatherInv
      <4>2. \A x \in creates' : x.step = "restore" /\ x.at = j =>
                                 e.delete_yn = "Y" /\ e.index = docs[j].index
        BY <2>7
      <4>3. QED
        BY <2>4, <2>6, <2>8, <4>1, <4>2, ReplacedKeepsKeys
  <2>10. QED
    BY <2>3, <2>9
<1>3. QED
  <2>1. \/ UNCHANGED storeVars
        \/ \E p \in Publishers, k \in Keys : Sync(p, k) /\ SetStatus(k, "APPLIED")
    BY DEF Next, Proceed, Start, Read, Validated, Stamp, Resume, BackUp, Upload, Sync, Finish,
           Fail, UploadFails, BackupFails, Tick, vars, storeVars
  <2>2. QED
    BY <1>1, <1>2, <2>1

(* What the queries of a publish return. *)
LEMMA QueryReturns ==
  ASSUME NEW c, NEW st \in {"APPROVED", "APPLIED"}
  PROVE  /\ Query(c, st) \subseteq PublishedLines
         /\ \A k \in Noted(c, st) : \E i \in Published : docs[i].key = k
         /\ \A i \in Published : /\ CollectionOf[docs[i].key] = c /\ docs[i].status = st
                                 /\ GivesLine(docs[i])
                                 => LineOf(docs[i]) \in Query(c, st)
<1>1. ByStatus(c, st) = {i \in Published : CollectionOf[docs[i].key] = c /\ docs[i].status = st}
  BY DEF ByStatus, Published
<1>2. QED
  BY <1>1 DEF Query, PublishedLines, Noted

(* Every published entry is of a collection that is read. *)
LEMMA CollectionsRead ==
  ASSUME TypeOK, NEW i \in Published
  PROVE  \E n \in 1 .. Len(CollectionSeq) : CollectionSeq[n] = CollectionOf[docs[i].key]
<1>1. docs[i] \in Doc
  BY DocType DEF TypeOK, Published, Active
<1>2. CollectionOf[docs[i].key] \in Collections
  BY <1>1, StoreAssumption DEF Doc
<1>3. DOMAIN CollectionSeq = 1 .. Len(CollectionSeq)
  BY DeployAssumption, LenProperties
<1>4. QED
  BY <1>2, <1>3, DeployAssumption

LEMMA ReadGathers ==
  ASSUME GatherInv, NEW p \in Publishers, Read(p), NEW r \in Publish, ReadsTo(p, r)
  PROVE  Gathered(r)
<1> DEFINE me == pub[p]
           st == StatusOf(me.half)
           c == CollectionSeq[me.coll]
<1>1. /\ me \in Publish /\ me.pc = "read" /\ me.half \in {"approved", "applied"}
      /\ me.coll \in 1 .. Len(CollectionSeq) /\ Len(CollectionSeq) \in Nat
  <2>1. me \in Publish /\ me.pc = "read"
    BY DEF Read, GatherInv, PlacedInv, DeployInv, DeployTypeOK
  <2>2. QED
    BY <2>1, Bounds DEF Publish
<1>2. st \in {"APPROVED", "APPLIED"} /\ st = IF me.half = "approved" THEN "APPROVED" ELSE "APPLIED"
  BY <1>1 DEF StatusOf
<1>3. /\ Query(c, st) \subseteq PublishedLines
      /\ \A k \in Noted(c, st) : \E i \in Published : docs[i].key = k
      /\ \A i \in Published : /\ CollectionOf[docs[i].key] = c /\ docs[i].status = st
                              /\ GivesLine(docs[i])
                              => LineOf(docs[i]) \in Query(c, st)
  BY <1>2, QueryReturns
<1>4. /\ me.lines \subseteq PublishedLines
      /\ \A k \in me.approved : \E i \in Published : docs[i].key = k
      /\ \A i \in Published : Asked(me, i) /\ GivesLine(docs[i]) => LineOf(docs[i]) \in me.lines
      /\ me.phase = "publish" => me.checked = PublishedLines
  BY <1>1 DEF GatherInv, Gathered
<1>5. r.lines = me.lines \cup Query(c, st)
  BY DEF ReadsTo
<1>6. \A k \in r.approved : \E i \in Published : docs[i].key = k
  BY <1>2, <1>3, <1>4 DEF ReadsTo
<1>7. ASSUME NEW i \in Published, GivesLine(docs[i]),
             \/ Asked(me, i)
             \/ CollectionOf[docs[i].key] = c /\ docs[i].status = st
      PROVE  LineOf(docs[i]) \in r.lines
  BY <1>3, <1>4, <1>5, <1>7
<1>8. ASSUME me.half = "applied", NEW i \in Published, NEW n \in 1 .. Len(CollectionSeq),
             n <= me.coll, CollectionSeq[n] = CollectionOf[docs[i].key], GivesLine(docs[i])
      PROVE  LineOf(docs[i]) \in r.lines
  <2>1. CASE n < me.coll
    BY <1>7, <1>8, <2>1 DEF Asked
  <2>2. CASE n = me.coll
    <3>1. docs[i].status \in {"APPROVED", "APPLIED"}
      BY DEF Published
    <3>2. QED
      BY <1>2, <1>7, <1>8, <2>2, <3>1 DEF Asked
  <2>3. QED
    BY <1>1, <1>8, <2>1, <2>2
<1>9. r.checked = me.checked /\ r.phase = me.phase /\ r.pc \in {"read", "validate", "loaded"}
  BY DEF ReadsTo
<1>10. r.lines \subseteq PublishedLines
  BY <1>3, <1>4, <1>5
<1>11. CASE me.half = "approved"
  <2>1. r.pc = "read" /\ r.half = "applied" /\ r.coll = me.coll
    BY <1>11 DEF ReadsTo
  <2>2. ASSUME NEW i \in Published, Asked(r, i), GivesLine(docs[i]) PROVE LineOf(docs[i]) \in r.lines
    BY <1>2, <1>7, <1>11, <2>1, <2>2 DEF Asked
  <2>3. QED
    BY <1>4, <1>6, <1>9, <1>10, <2>1, <2>2 DEF Gathered
<1>12. CASE me.half = "applied" /\ me.coll < Len(CollectionSeq)
  <2>1. r.pc = "read" /\ r.half = "approved" /\ r.coll = me.coll + 1
    BY <1>1, <1>12 DEF ReadsTo
  <2>2. ASSUME NEW i \in Published, Asked(r, i), GivesLine(docs[i]) PROVE LineOf(docs[i]) \in r.lines
    <3>1. PICK n \in 1 .. Len(CollectionSeq) :
            n < me.coll + 1 /\ CollectionSeq[n] = CollectionOf[docs[i].key]
      BY <2>1, <2>2 DEF Asked
    <3>2. n <= me.coll
      BY <1>1, <3>1
    <3>3. QED
      BY <1>8, <1>12, <2>2, <3>1, <3>2
  <2>3. QED
    BY <1>4, <1>6, <1>9, <1>10, <2>1, <2>2 DEF Gathered
<1>13. CASE me.half = "applied" /\ me.coll = Len(CollectionSeq)
  <2>1. /\ r.pc = IF r.phase = "validate" THEN "validate" ELSE "loaded"
        /\ r.half = "approved" /\ r.coll = 1
    BY <1>1, <1>13 DEF ReadsTo
  <2>2. ASSUME NEW i \in Published, GivesLine(docs[i]) PROVE LineOf(docs[i]) \in r.lines
    <3>1. PICK n \in 1 .. Len(CollectionSeq) : CollectionSeq[n] = CollectionOf[docs[i].key]
      BY CollectionsRead DEF GatherInv, PlacedInv, DeployInv, DeployTypeOK
    <3>2. n <= me.coll
      BY <1>1, <1>13, <3>1
    <3>3. QED
      BY <1>8, <1>13, <2>2, <3>1, <3>2
  <2>3. PublishedLines \subseteq r.lines
    BY <2>2 DEF PublishedLines
  <2>4. r.phase \in {"validate", "publish"}
    BY DEF Publish
  <2>5. QED
    BY <1>4, <1>6, <1>9, <1>10, <2>1, <2>3, <2>4 DEF Gathered
<1>14. QED
  <2>1. me.coll < Len(CollectionSeq) \/ me.coll = Len(CollectionSeq)
    BY <1>1
  <2>2. QED
    BY <1>1, <1>11, <1>12, <1>13, <2>1

(* After its second reading a publish carries its lines to the end. *)
LEMMA CarriedOn ==
  ASSUME NEW me, NEW r, Gathered(me), me.pc \notin {"idle", "read", "validate"},
         r.pc \notin {"idle", "read", "validate"}, r.lines = me.lines,
         r.approved \subseteq me.approved, r.checked = me.checked
  PROVE  Gathered(r)
BY DEF Gathered

(* Every step of a publish leads to a record that fits the documents. *)
LEMMA NextGathers ==
  ASSUME GatherInv, [Next]_vars, ~EditorStep, NEW q \in Publishers
  PROVE  \E r : r = pub'[q] /\ Gathered(r)
<1> DEFINE Goal == \E r : r = pub'[q] /\ Gathered(r)
<1>a. /\ pub \in [Publishers -> Publish] /\ PlacedInv
      /\ Gathered(pub[q]) /\ \A p \in Publishers : Gathered(pub[p])
  BY DEF GatherInv, PlacedInv, DeployInv, DeployTypeOK
<1>b. ASSUME NEW p \in Publishers, NEW r, Gathered(r), pub' = [pub EXCEPT ![p] = r]
      PROVE  Goal
  <2>1. pub'[q] = IF q = p THEN r ELSE pub[q]
    BY <1>a, <1>b
  <2>2. QED
    BY <1>a, <1>b, <2>1
<1>c. Gathered(Idle)
  BY IdleType DEF Gathered
<1>1. CASE UNCHANGED pub
  BY <1>a, <1>1
<1>2. ASSUME NEW p \in Publishers, NEW kind \in Kinds, Start(p, kind) PROVE Goal
  <2> DEFINE r == [Idle EXCEPT !.pc = "read", !.kind = kind]
  <2>1. /\ r.pc = "read" /\ r.lines = {} /\ r.approved = {} /\ r.coll = 1
        /\ r.half = "approved" /\ r.phase = "validate"
    BY DEF Idle
  <2>2. Gathered(r)
    <3> HIDE DEF r
    <3>1. QED
      BY <2>1, Bounds DEF Gathered, Asked
  <2>3. QED
    <3>1. pub' = [pub EXCEPT ![p] = r]
      BY <1>2 DEF Start
    <3> HIDE DEF r
    <3>2. QED
      BY <1>b, <2>2, <3>1
<1>3. ASSUME NEW p \in Publishers, Read(p) PROVE Goal
  <2>1. PICK r \in Publish : ReadsTo(p, r)
    BY <1>a, <1>3, ReadType
  <2>2. Gathered(r) /\ pub' = [pub EXCEPT ![p] = r]
    BY <1>3, <2>1, ReadGathers DEF ReadsTo
  <2>3. QED
    BY <1>b, <2>2
<1>4. ASSUME NEW p \in Publishers, Validated(p) PROVE Goal
  <2> DEFINE me == pub[p]
             r == [me EXCEPT !.pc = "read", !.phase = "publish",
                             !.checked = me.lines, !.lines = {}, !.approved = {}]
  <2>1. me \in Publish /\ me.pc = "validate" /\ Gathered(me)
    BY <1>a, <1>4 DEF Validated
  <2>2. /\ r.pc = "read" /\ r.lines = {} /\ r.approved = {} /\ r.coll = me.coll
        /\ r.half = me.half /\ r.phase = "publish" /\ r.checked = me.lines
    BY <2>1 DEF Publish
  <2>3. me.coll = 1 /\ me.half = "approved" /\ me.lines = PublishedLines
    BY <2>1 DEF Gathered
  <2>4. Gathered(r)
    <3> HIDE DEF r
    <3>1. QED
      BY <2>2, <2>3, Bounds DEF Gathered, Asked
  <2>5. QED
    <3>1. pub' = [pub EXCEPT ![p] = r]
      BY <1>4 DEF Validated
    <3> HIDE DEF r
    <3>2. QED
      BY <1>b, <2>4, <3>1
<1>5. ASSUME NEW p \in Publishers, Stamp(p) \/ Resume(p) PROVE Goal
  <2>1. pub[p] \in Publish /\ pub[p].pc \in {"loaded", "stamped", "backed"}
    BY <1>a, <1>5 DEF Stamp, Resume
  <2>2. PICK pc \in {"ship", "stamped"}, stamp \in 0 .. MaxTime :
          pub' = [pub EXCEPT ![p] = [pub[p] EXCEPT !.pc = pc, !.stamp = stamp]]
    <3>0. clock \in 0 .. MaxTime /\ pub[p].stamp \in 0 .. MaxTime
      BY <1>a, <2>1, Bounds DEF PlacedInv, DeployInv, DeployTypeOK, Publish
    <3>1. CASE Stamp(p)
      <4>1. pub' = [pub EXCEPT ![p] = [pub[p] EXCEPT
                      !.pc = IF pub[p].kind = "block" THEN "ship" ELSE "stamped",
                      !.stamp = clock]]
        BY <1>a, <2>1, <3>1 DEF Stamp, Publish
      <4>2. (IF pub[p].kind = "block" THEN "ship" ELSE "stamped") \in {"ship", "stamped"}
        OBVIOUS
      <4>3. QED
        BY <3>0, <4>1, <4>2
    <3>2. CASE Resume(p)
      <4>1. pub' = [pub EXCEPT ![p] = [pub[p] EXCEPT !.pc = "ship", !.stamp = pub[p].stamp]]
        BY <1>a, <2>1, <3>2 DEF Resume, Publish
      <4>2. QED
        BY <3>0, <4>1
    <3>3. QED
      BY <1>5, <3>1, <3>2
  <2> DEFINE r == [pub[p] EXCEPT !.pc = pc, !.stamp = stamp]
  <2>3. /\ r.pc \notin {"idle", "read", "validate"} /\ r.lines = pub[p].lines
        /\ r.approved = pub[p].approved /\ r.checked = pub[p].checked
    BY <2>1 DEF Publish
  <2>4. pub' = [pub EXCEPT ![p] = r]
    BY <2>2
  <2> HIDE DEF r
  <2>5. Gathered(r)
    BY <1>a, <2>1, <2>3, CarriedOn
  <2>6. QED
    BY <1>b, <2>4, <2>5
<1>6. ASSUME NEW p \in Publishers, pub[p].pc = "ship", pub' = [pub EXCEPT ![p] = Advance(pub[p])]
      PROVE  Goal
  <2> DEFINE r == Advance(pub[p])
  <2>1. pub' = [pub EXCEPT ![p] = r]
    BY <1>6
  <2> HIDE DEF r
  <2>2. /\ r.pc \in {"ship", "backed", "sync"} /\ r.lines = pub[p].lines
        /\ r.approved = pub[p].approved /\ r.checked = pub[p].checked
    BY <1>a, <1>6, AdvanceShape DEF r
  <2>3. Gathered(r)
    BY <1>a, <1>6, <2>2, CarriedOn
  <2>4. QED
    BY <1>b, <2>1, <2>3
<1>7. ASSUME NEW p \in Publishers, NEW k \in Keys, Sync(p, k) PROVE Goal
  <2> DEFINE r == [pub[p] EXCEPT !.approved = @ \ {k}]
  <2>1. pub[p] \in Publish /\ pub[p].pc = "sync" /\ pub' = [pub EXCEPT ![p] = r]
    BY <1>a, <1>7 DEF Sync
  <2>2. /\ r.pc = "sync" /\ r.lines = pub[p].lines
        /\ r.approved \subseteq pub[p].approved /\ r.checked = pub[p].checked
    BY <2>1 DEF Publish
  <2> HIDE DEF r
  <2>3. Gathered(r)
    BY <1>a, <2>1, <2>2, CarriedOn
  <2>4. QED
    BY <1>b, <2>1, <2>3
<1>8. ASSUME NEW p \in Publishers, pub' = [pub EXCEPT ![p] = Idle] PROVE Goal
  BY <1>b, <1>c, <1>8
<1>9. ASSUME NEW p \in Publishers, BackUp(p) \/ Upload(p) \/ BackupFails(p) PROVE Goal
  <2>1. /\ pub[p].pc = "ship"
        /\ pub' = [pub EXCEPT ![p] = Advance(pub[p])] \/ pub' = [pub EXCEPT ![p] = Idle]
    BY <1>9 DEF BackUp, Upload, BackupFails, AfterFailedBackup, AtOp
  <2>2. QED
    BY <1>6, <1>8, <2>1
<1>10. ASSUME NEW p \in Publishers, Finish(p) \/ Fail(p) \/ UploadFails(p) PROVE Goal
  <2>1. pub' = [pub EXCEPT ![p] = Idle]
    BY <1>10 DEF Finish, Fail, UploadFails, AfterFailedUpload
  <2>2. QED
    BY <1>8, <2>1
<1>11. QED
  <2>1. Tick \/ UNCHANGED vars => UNCHANGED pub
    BY DEF Tick, vars
  <2>2. QED
    BY <1>1, <1>2, <1>3, <1>4, <1>5, <1>7, <1>9, <1>10, <2>1 DEF Next, Proceed

LEMMA LinesType ==
  ASSUME GatherInv
  PROVE  PublishedLines \subseteq Line
<1>1. ASSUME NEW i \in Published PROVE LineOf(docs[i]) \in Line
  <2>1. docs[i] \in Doc
    BY DocType DEF Published, Active, GatherInv, PlacedInv, DeployInv, DeployTypeOK, TypeOK
  <2>2. QED
    BY <2>1 DEF Doc, LineOf, Line
<1>2. QED
  BY <1>1 DEF PublishedLines

(* While editors are at work no publish is. *)
LEMMA EditorsWait ==
  ASSUME QuietEditors, EditorStep
  PROVE  /\ \A p \in Publishers : pub[p].pc = "idle" /\ pub'[p] = pub[p]
         /\ live' = live
BY DEF QuietEditors, EditorStep, Quiet, deployVars

LEMMA GatherStep ==
  ASSUME QuietEditors, GatherInv, [Next]_vars
  PROVE  GatherInv'
<1>1. PlacedInv'
  BY PlacedStep DEF GatherInv
<1>2. CASE EditorStep
  <2>1. KeyInv'
    <3>1. TypeInv /\ [StoreNext]_storeVars
      BY <1>2 DEF EditorStep, TypeInv, GatherInv, PlacedInv, DeployInv, DeployTypeOK
    <3>2. QED
      BY <3>1, KeyStep DEF GatherInv, QuietEditors
  <2>2. \A p \in Publishers : pub'[p].pc = "idle"
    BY <1>2, EditorsWait
  <2>3. \A p \in Publishers : Gathered(pub[p])'
    BY <2>2 DEF Gathered
  <2>4. QED
    BY <1>1, <2>1, <2>3 DEF GatherInv
<1>3. CASE ~EditorStep
  <2>1. DocsKept /\ KeyInv'
    BY <1>3, StoreKept
  <2>2. ASSUME NEW q \in Publishers PROVE Gathered(pub[q])'
    <3>1. PICK r : r = pub'[q] /\ Gathered(r)
      BY <1>3, NextGathers
    <3>2. Gathered(r)'
      BY <2>1, <3>1, KeptGathered
    <3>3. QED
      BY <3>1, <3>2 DEF Gathered
  <2>3. QED
    BY <1>1, <2>1, <2>2 DEF GatherInv
<1>4. QED
  BY <1>2, <1>3

LEMMA GatherInit == Init => GatherInv
<1>1. Init => KeyInv
  BY EmptySeq DEF Init, StoreInit, KeyInv, UniqueKey, LookupFresh, OneEach
<1>2. ASSUME Init PROVE \A p \in Publishers : pub[p].pc = "idle"
  BY <1>2, IdleType DEF Init
<1>3. QED
  BY PlacedInit, <1>1, <1>2 DEF GatherInv, Gathered

(* A publish ships exactly the lines its validation passed, although it has  *)
(* read them again, in two queries to a collection, while other publishes    *)
(* change statuses: editors that wait are enough.                            *)
THEOREM ValidatedIsShipped ==
  ASSUME QuietEditors
  PROVE  Spec => []ShippedWasValidated
<1>1. GatherInv /\ [Next]_vars => GatherInv'
  BY GatherStep
<1>2. GatherInv => ShippedWasValidated
  <2>1. ASSUME GatherInv, NEW p \in Publishers,
               pub[p].pc \in {"stamped", "ship", "backed", "sync"}
        PROVE  pub[p].lines = pub[p].checked
    BY <2>1 DEF GatherInv, Gathered
  <2>2. QED
    BY <2>1 DEF ShippedWasValidated
<1>3. QED
  BY GatherInit, <1>1, <1>2, PTL DEF Spec

-----------------------------------------------------------------------------
(* Clients do not ask for the status APPLIED: it is the deployment's.        *)
AppliedIsOurs == "APPLIED" \notin CreateStatuses \cup UpdateStatuses

(* A file that serves what is published and nothing else, or was truncated.  *)
Serves(s, f) == live[s][f] \in {Torn, Section(PublishedLines, f)}

Delivered(me) ==
  /\ me.pc = "ship" =>
       \A s \in Servers, f \in Files : Replaced(me, s, f) => Serves(s, f)
  /\ me.pc = "sync" => \A s \in Servers, f \in Files : Serves(s, f)

ServeInv ==
  /\ GatherInv /\ AppliedServed
  /\ \A p \in Publishers : Delivered(pub[p])

(* No edit makes an entry APPLIED or changes one that stays so. *)
LEMMA EditsApplyNothing ==
  ASSUME AppliedIsOurs, TypeOK, StoreNext, NEW i \in DOMAIN docs \cup DOMAIN docs',
         docs'[i].status = "APPLIED"
  PROVE  i \in DOMAIN docs /\ docs'[i] = docs[i]
<1> DEFINE Goal == i \in DOMAIN docs /\ docs'[i] = docs[i]
<1>a. docs \in Seq(Doc)
  BY DEF TypeOK
<1>b. ASSUME NEW at \in DOMAIN docs, NEW e \in Doc, docs' = [docs EXCEPT ![at] = e],
             e.status # "APPLIED"
      PROVE  Goal
  <2>1. /\ DOMAIN docs' = DOMAIN docs
        /\ \A n \in DOMAIN docs : docs'[n] = IF n = at THEN e ELSE docs[n]
    BY <1>a, <1>b, DocReplaced
  <2>2. QED
    BY <1>b, <2>1
<1>1. CASE UNCHANGED docs
  BY <1>1
<1>2. ASSUME NEW x \in creates, Insert(x) PROVE Goal
  <2>1. PICK e \in Doc : e.status = x.status /\ docs' = Append(docs, e)
    BY <1>2, InsertShape
  <2>2. e.status # "APPLIED"
    BY <2>1 DEF AppliedIsOurs, TypeOK, Create
  <2>3. /\ DOMAIN docs' = DOMAIN docs \cup {Len(docs) + 1}
        /\ docs'[Len(docs) + 1] = e
        /\ \A n \in DOMAIN docs : docs'[n] = docs[n]
    BY <1>a, <2>1, DocAppended
  <2>4. QED
    BY <2>2, <2>3
<1>3. ASSUME NEW x \in creates, Restore(x) PROVE Goal
  <2>1. /\ x.at \in DOMAIN docs /\ RestoredDoc(x) \in Doc
        /\ docs' = [docs EXCEPT ![x.at] = RestoredDoc(x)]
    BY <1>3, RestoreShape
  <2>2. RestoredDoc(x).status # "APPLIED"
    BY DEF RestoredDoc
  <2>3. QED
    BY <1>b, <2>1, <2>2
<1>4. ASSUME NEW u \in Users, NEW k \in Keys, NEW req \in UpdateReqs, Update(u, k, req)
      PROVE  Goal
  <2>1. PICK at \in Active : /\ Edited(docs[at], u, req) \in Doc
                             /\ docs' = [docs EXCEPT ![at] = Edited(docs[at], u, req)]
    BY <1>4, UpdateShape
  <2>2. at \in DOMAIN docs /\ docs[at] \in Doc
    BY <1>a, DocType DEF Active
  <2>3. Edited(docs[at], u, req).status # "APPLIED"
    <3>1. Edited(docs[at], u, req).status = IF req.status = Unset THEN "DRAFT" ELSE req.status
      BY <2>2 DEF Edited, Doc
    <3>2. QED
      BY <3>1 DEF UpdateReqs, AppliedIsOurs
  <2>4. QED
    BY <1>b, <2>1, <2>2, <2>3
<1>5. ASSUME NEW k \in Keys, Delete(k) PROVE Goal
  <2>1. PICK at \in DOMAIN docs : /\ DeletedDoc(docs[at]) \in Doc
                                  /\ docs' = [docs EXCEPT ![at] = DeletedDoc(docs[at])]
    BY <1>5, DeleteShape
  <2>2. docs[at] \in Doc
    BY <1>a, DocType
  <2>3. DeletedDoc(docs[at]).status # "APPLIED"
    BY <2>2 DEF DeletedDoc, Doc
  <2>4. QED
    BY <1>b, <2>1, <2>3
<1>6. QED
  BY <1>1, <1>2, <1>3, <1>4, <1>5 DEF StoreNext, Lookup, Number, CreateFails

(* While publishes run a file that serves the published entries goes on to,  *)
(* and every file that is replaced does.                                     *)
LEMMA ServesKept ==
  ASSUME GatherInv, [Next]_vars, ~EditorStep, NEW s \in Servers, NEW f \in Files
  PROVE  /\ Serves(s, f) => Serves(s, f)'
         /\ live'[s][f] = live[s][f] \/ Serves(s, f)'
         /\ \A p \in Publishers : Uploads(p) /\ Target(pub[p], s, f) => Serves(s, f)'
<1>1. PlacedInv /\ DocsKept
  BY StoreKept DEF GatherInv
<1>2. PublishedLines' = PublishedLines /\ Section(PublishedLines, f)' = Section(PublishedLines, f)
  BY <1>1, KeptPublished DEF Section
<1>3. live'[s][f] = live[s][f] /\ Serves(s, f) => Serves(s, f)'
  BY <1>2 DEF Serves
<1>4. live'[s][f] = Torn => Serves(s, f)'
  BY DEF Serves
<1>5. ASSUME NEW p \in Publishers, Uploads(p), Target(pub[p], s, f) PROVE Serves(s, f)'
  <2>1. live'[s][f] = Section(pub[p].lines, f)
    BY <1>1, <1>5, UploadWrites
  <2>2. pub[p].lines = PublishedLines
    BY <1>5 DEF Uploads, GatherInv, Gathered
  <2>3. QED
    BY <1>2, <2>1, <2>2 DEF Serves
<1>6. ASSUME NEW p \in Publishers, Uploads(p), ~Target(pub[p], s, f)
      PROVE  live'[s][f] = live[s][f]
  BY <1>1, <1>6, UploadWrites
<1>7. ASSUME NEW p \in Publishers, Ends(p) PROVE live'[s][f] \in {live[s][f], Torn}
  <2>1. CASE live' = live
    BY <2>1
  <2>2. CASE /\ pub[p].pc = "ship"
             /\ live' = [live EXCEPT ![pub[p].srv][pub[p].file] = Torn]
    <3>1. /\ pub[p].srv \in Servers /\ pub[p].file \in Files /\ Torn \in FileContent
          /\ live \in [Servers -> [Files -> FileContent]]
      BY <1>1, <2>2, AtOpType DEF PlacedInv, DeployInv, DeployTypeOK, FileContent
    <3>2. QED
      BY <2>2, <3>1, LiveReplaced
  <2>3. QED
    BY <1>7, <2>1, <2>2 DEF Ends
<1>8. ASSUME NEW p \in Publishers, Prepares(p) \/ Enters(p) \/ BacksUp(p) PROVE live' = live
  BY <1>8 DEF Prepares, Enters, BacksUp, Untouched
<1>9. Pauses => live' = live
  BY DEF Pauses, Untouched
<1>10. live'[s][f] = live[s][f] \/ Serves(s, f)'
  BY <1>1, <1>4, <1>5, <1>6, <1>7, <1>8, <1>9, StepShape
<1>11. QED
  BY <1>3, <1>5, <1>10

LEMMA DeliveredStep ==
  ASSUME GatherInv, NEW q \in Publishers, Delivered(pub[q]), [Next]_vars, ~EditorStep
  PROVE  Delivered(pub[q])'
<1>a. GatherInv /\ PlacedInv /\ Delivered(pub[q])
  BY DEF GatherInv
<1>b. \A s \in Servers, f \in Files :
        /\ Serves(s, f) => Serves(s, f)'
        /\ \A p \in Publishers : Uploads(p) /\ Target(pub[p], s, f) => Serves(s, f)'
  BY <1>a, ServesKept
<1>1. CASE pub'[q] = pub[q]
  BY <1>a, <1>b, <1>1 DEF Delivered
<1>2. CASE Prepares(q)
  BY <1>a, <1>b, <1>2 DEF Prepares, Delivered
<1>3. CASE Enters(q)
  <2>1. pub'[q].pc = "ship" /\ \A s \in Servers, f \in Files : ~Replaced(pub'[q], s, f)
    BY <1>3, FirstReplacesNothing DEF Enters
  <2>2. QED
    BY <2>1 DEF Delivered
<1>4. CASE BacksUp(q) \/ Uploads(q)
  <2>1. pub[q].pc = "ship" /\ pub'[q] = Advance(pub[q]) /\ pub[q] \in Publish
    BY <1>a, <1>4, AtOpType DEF BacksUp, Uploads
  <2>2. ASSUME NEW s \in Servers, NEW f \in Files,
               Replaced(pub[q], s, f) \/ Target(pub[q], s, f)
        PROVE  Serves(s, f)'
    <3>1. CASE Replaced(pub[q], s, f)
      BY <1>a, <1>b, <2>1, <3>1 DEF Delivered
    <3>2. CASE Target(pub[q], s, f)
      BY <1>4, <1>b, <3>2 DEF Target, BacksUp
    <3>3. QED
      BY <2>2, <3>1, <3>2
  <2>3. ASSUME NEW s \in Servers, NEW f \in Files
        PROVE  /\ pub'[q].pc = "ship" /\ Replaced(pub'[q], s, f) =>
                    Replaced(pub[q], s, f) \/ Target(pub[q], s, f)
               /\ pub'[q].pc = "sync" => Replaced(pub[q], s, f) \/ Target(pub[q], s, f)
    BY <2>1, AdvanceReplaces
  <2>4. QED
    BY <2>2, <2>3 DEF Delivered
<1>5. CASE Ends(q)
  BY <1>5, IdleType DEF Ends, Delivered
<1>6. QED
  <2>1. ASSUME NEW p \in Publishers,
               Prepares(p) \/ Enters(p) \/ BacksUp(p) \/ Uploads(p) \/ Ends(p), p # q
        PROVE  pub'[q] = pub[q]
    BY <2>1 DEF Prepares, Enters, BacksUp, Uploads, Ends, OthersKept
  <2>2. Pauses => pub'[q] = pub[q]
    BY DEF Pauses
  <2>3. QED
    BY <1>a, <1>1, <1>2, <1>3, <1>4, <1>5, <2>1, <2>2, StepShape

(* Only a publish that synchronises makes an entry APPLIED. *)
LEMMA AppliedBySync ==
  ASSUME GatherInv, [Next]_vars, ~EditorStep, NEW i \in DOMAIN docs,
         docs'[i].status = "APPLIED", docs[i].status # "APPLIED"
  PROVE  \E p \in Publishers : pub[p].pc = "sync"
<1>1. docs' # docs
  OBVIOUS
<1>2. \E p \in Publishers, k \in Keys : Sync(p, k)
  BY <1>1 DEF Next, Proceed, Start, Read, Validated, Stamp, Resume, BackUp, Upload, Finish,
              Fail, UploadFails, BackupFails, Tick, vars, storeVars
<1>3. QED
  BY <1>2 DEF Sync

LEMMA ServedStep ==
  ASSUME QuietEditors, AppliedIsOurs, ServeInv, [Next]_vars
  PROVE  AppliedServed'
<1>a. GatherInv /\ AppliedServed
  BY DEF ServeInv
<1> SUFFICES ASSUME NEW i \in Active', docs'[i].status = "APPLIED", GivesLine(docs[i])',
                    NEW s \in Servers
             PROVE  LET content == live'[s][FileOf[CollectionOf[docs'[i].key]]]
                    IN  content = Torn \/ (content # Missing /\ LineOf(docs[i])' \in content)
  BY DEF AppliedServed
<1>1. CASE EditorStep
  <2>1. i \in DOMAIN docs' /\ docs'[i].delete_yn = "N"
    BY DEF Active
  <2>2. StoreNext /\ TypeOK /\ live' = live
    BY <1>a, <1>1, EditorsWait DEF EditorStep, GatherInv, PlacedInv, DeployInv, DeployTypeOK
  <2>3. i \in DOMAIN docs /\ docs'[i] = docs[i]
    BY <2>1, <2>2, EditsApplyNothing
  <2>4. i \in Active
    BY <2>1, <2>3 DEF Active
  <2>5. QED
    BY <1>a, <2>2, <2>3, <2>4 DEF AppliedServed, LineOf, GivesLine
<1>2. CASE ~EditorStep
  <2>1. DocsKept
    BY <1>a, <1>2, StoreKept
  <2>2. /\ i \in Active /\ i \in DOMAIN docs /\ i \in Published /\ i \in Published'
        /\ docs'[i].key = docs[i].key /\ LineOf(docs[i])' = LineOf(docs[i])
        /\ GivesLine(docs[i])' = GivesLine(docs[i])
    <3>1. i \in Active /\ i \in DOMAIN docs
      BY <2>1 DEF DocsKept, Active
    <3>2. i \in Published'
      BY DEF Published
    <3>3. i \in Published
      BY <2>1, <3>2, KeptPublished
    <3>4. QED
      BY <2>1, <3>1, <3>2, <3>3, KeptPublished
  <2>3. PICK f \in Files : f = FileOf[CollectionOf[docs[i].key]]
    <3>1. docs \in Seq(Doc)
      BY <1>a DEF GatherInv, PlacedInv, DeployInv, DeployTypeOK, TypeOK
    <3>2. docs[i].key \in Keys
      <4>1. docs[i] \in Doc
        BY <2>2, <3>1, DocType
      <4>2. QED
        BY <4>1 DEF Doc
    <3>3. QED
      BY <3>2, StoreAssumption, DeployAssumption
  <2>4. live'[s][f] = live[s][f] \/ Serves(s, f)'
    BY <1>a, <1>2, <2>3, ServesKept
  <2>5. CASE Serves(s, f)'
    <3>1. LineOf(docs[i])' \in PublishedLines' /\ PublishedLines' \subseteq Line
      BY <1>a, <2>1, <2>2, KeptPublished, LinesType DEF PublishedLines
    <3>2. Section(PublishedLines, f)' \in SUBSET Line /\ LineOf(docs[i])' \in Section(PublishedLines, f)'
      BY <2>2, <2>3, <3>1 DEF Section, LineOf
    <3>3. QED
      BY <2>2, <2>3, <2>5, <3>2, DeployAssumption DEF Serves
  <2>6. CASE docs[i].status = "APPLIED" /\ live'[s][f] = live[s][f]
    BY <1>a, <2>2, <2>3, <2>6 DEF AppliedServed
  <2>7. CASE docs[i].status # "APPLIED"
    <3>1. PICK p \in Publishers : pub[p].pc = "sync"
      BY <1>a, <1>2, <2>2, <2>7, AppliedBySync
    <3>2. Serves(s, f)
      BY <2>3, <3>1 DEF ServeInv, Delivered
    <3>3. Serves(s, f)'
      BY <1>a, <1>2, <2>3, <3>2, ServesKept
    <3>4. QED
      BY <2>5, <3>3
  <2>8. QED
    BY <2>4, <2>5, <2>6, <2>7
<1>3. QED
  BY <1>1, <1>2

LEMMA ServeStep ==
  ASSUME QuietEditors, AppliedIsOurs, ServeInv, [Next]_vars
  PROVE  ServeInv'
<1>1. GatherInv'
  BY GatherStep DEF ServeInv
<1>2. AppliedServed'
  BY ServedStep
<1>3. ASSUME NEW q \in Publishers PROVE Delivered(pub[q])'
  <2>1. CASE EditorStep
    BY <2>1, EditorsWait DEF Delivered
  <2>2. CASE ~EditorStep
    BY <2>2, DeliveredStep DEF ServeInv
  <2>3. QED
    BY <2>1, <2>2
<1>4. QED
  BY <1>1, <1>2, <1>3 DEF ServeInv

(* An APPLIED entry that gives a line is served: its line, as it stands in   *)
(* MongoDB, is in the file of every server that was not truncated.  It holds *)
(* for any number of overlapping publishes on any number of workers, whatever*)
(* fails, as long as editors wait for them and leave the status to the       *)
(* deployment.                                                               *)
THEOREM AppliedIsServed ==
  ASSUME QuietEditors, AppliedIsOurs
  PROVE  Spec => []AppliedServed
<1>1. Init => ServeInv
  <2>1. ASSUME Init, NEW p \in Publishers PROVE pub[p].pc = "idle"
    BY <2>1, IdleType DEF Init
  <2>2. ASSUME Init PROVE Active = {}
    BY <2>2, EmptySeq DEF Init, StoreInit, Active
  <2>3. QED
    BY GatherInit, <2>1, <2>2 DEF ServeInv, AppliedServed, Delivered
<1>2. ServeInv /\ [Next]_vars => ServeInv'
  BY ServeStep
<1>3. ServeInv => AppliedServed
  BY DEF ServeInv
<1>4. QED
  BY <1>1, <1>2, <1>3, PTL DEF Spec

(* Only an entry that is APPROVED becomes APPLIED when editors wait for the  *)
(* publishes to end: for any number of publishes, and whatever fails.  With  *)
(* editors that do not wait the run sync_race has the counterexample.        *)
THEOREM AppliedWasApproved ==
  ASSUME QuietEditors, AppliedIsOurs
  PROVE  Spec => AppliedFromApproved
<1> DEFINE FromApproved ==
             \A i \in DOMAIN docs :
               docs'[i].status = "APPLIED" => docs[i].status \in {"APPROVED", "APPLIED"}
<1>1. GatherInv /\ [Next]_vars => GatherInv'
  BY GatherStep
<1>2. ASSUME GatherInv, [Next]_vars PROVE FromApproved
  <2>1. CASE EditorStep
    <3>1. TypeOK /\ StoreNext
      BY <1>2, <2>1 DEF EditorStep, GatherInv, PlacedInv, DeployInv, DeployTypeOK
    <3>2. ASSUME NEW i \in DOMAIN docs, docs'[i].status = "APPLIED"
          PROVE  docs[i].status = "APPLIED"
      BY <3>1, <3>2, EditsApplyNothing
    <3>3. QED
      BY <3>2
  <2>2. CASE ~EditorStep
    <3>1. DocsKept
      BY <1>2, <2>2, StoreKept DEF GatherInv
    <3>2. QED
      BY <3>1 DEF DocsKept, Published
  <2>3. QED
    BY <2>1, <2>2
<1>3. QED
  BY GatherInit, <1>1, <1>2, PTL DEF Spec, AppliedFromApproved

-----------------------------------------------------------------------------
(* The pipeline over the store implements the life of an entry.              *)
LifeMap == [k \in Keys |-> LifeOf(k)]

LifeIn(ds, k) ==
  LET hit == {i \in DOMAIN ds : ds[i].key = k /\ ds[i].delete_yn = "N"}
  IN  IF hit = {} THEN "NONE" ELSE ds[First(hit)].status

OneToAKey(ds) == \A i, j \in DOMAIN ds : ds[i].key = ds[j].key => i = j

Shows(d) == IF d.delete_yn = "N" THEN d.status ELSE "NONE"

(* With one document to a key that document is the life of the entry.        *)
LEMMA LifeInDoc ==
  ASSUME NEW ds, DOMAIN ds \subseteq Nat, OneToAKey(ds), NEW i \in DOMAIN ds
  PROVE  LifeIn(ds, ds[i].key) = Shows(ds[i])
<1> DEFINE hit == {j \in DOMAIN ds : ds[j].key = ds[i].key /\ ds[j].delete_yn = "N"}
<1>1. \A j \in hit : j = i
  BY DEF OneToAKey
<1>2. CASE ds[i].delete_yn = "N"
  <2>1. hit = {i}
    BY <1>1, <1>2
  <2>2. First(hit) = i
    <3>1. First(hit) \in hit
      <4>1. hit \subseteq Nat /\ hit # {}
        BY <2>1
      <4>2. QED
        <5> HIDE DEF hit
        <5>1. QED
          BY <4>1, FirstInSet
    <3>2. QED
      BY <1>1, <3>1
  <2>3. QED
    BY <1>2, <2>1, <2>2 DEF LifeIn, Shows
<1>3. CASE ds[i].delete_yn # "N"
  <2>1. hit = {}
    BY <1>1, <1>3
  <2>2. QED
    BY <1>3, <2>1 DEF LifeIn, Shows
<1>4. QED
  BY <1>2, <1>3

LEMMA LifeInNone ==
  ASSUME NEW ds, NEW k, \A i \in DOMAIN ds : ds[i].key # k
  PROVE  LifeIn(ds, k) = "NONE"
BY DEF LifeIn

LEMMA LifeOfIn == \A k : LifeOf(k) = LifeIn(docs, k) /\ LifeOf(k)' = LifeIn(docs', k)
<1>1. ASSUME NEW k
      PROVE  Same(k) \cap Active = {i \in DOMAIN docs : docs[i].key = k /\ docs[i].delete_yn = "N"}
  BY DEF Same, Active
<1>2. ASSUME NEW k
      PROVE  (Same(k) \cap Active)' =
               {i \in DOMAIN docs' : docs'[i].key = k /\ docs'[i].delete_yn = "N"}
  BY DEF Same, Active
<1>3. QED
  BY <1>1, <1>2 DEF LifeOf, LifeIn

(* One document replaced is one life changed. *)
LEMMA LifeReplaced ==
  ASSUME docs \in Seq(Doc), UniqueKey, NEW at \in DOMAIN docs, NEW e \in Doc,
         docs' = [docs EXCEPT ![at] = e], e.key = docs[at].key
  PROVE  /\ LifeMap' = [LifeMap EXCEPT ![e.key] = Shows(e)]
         /\ e.key \in Keys /\ LifeMap[e.key] = Shows(docs[at])
<1>1. /\ docs' \in Seq(Doc) /\ DOMAIN docs' = DOMAIN docs
      /\ \A i \in DOMAIN docs : docs'[i] = IF i = at THEN e ELSE docs[i]
  BY DocReplaced
<1>2. DOMAIN docs \subseteq Nat
  BY LenProperties
<1>3. OneToAKey(docs) /\ OneToAKey(docs')
  BY <1>1 DEF UniqueKey, OneToAKey
<1>4. e.key \in Keys
  BY DEF Doc
<1>5. LifeIn(docs', e.key) = Shows(e)
  <2>1. docs'[at] = e /\ at \in DOMAIN docs' /\ DOMAIN docs' \subseteq Nat
    BY <1>1, <1>2
  <2>2. QED
    BY <1>3, <2>1, LifeInDoc
<1>6. LifeIn(docs, e.key) = Shows(docs[at])
  BY <1>2, <1>3, LifeInDoc
<1>7. ASSUME NEW k \in Keys, k # e.key PROVE LifeIn(docs', k) = LifeIn(docs, k)
  <2>1. CASE \E i \in DOMAIN docs : docs[i].key = k
    <3>1. PICK i \in DOMAIN docs : docs[i].key = k
      BY <2>1
    <3>2. i # at /\ docs'[i] = docs[i] /\ i \in DOMAIN docs' /\ DOMAIN docs' \subseteq Nat
      BY <1>1, <1>2, <1>7, <3>1
    <3>3. LifeIn(docs', docs'[i].key) = Shows(docs'[i])
      BY <1>3, <3>2, LifeInDoc
    <3>4. LifeIn(docs, docs[i].key) = Shows(docs[i])
      BY <1>2, <1>3, <3>1, LifeInDoc
    <3>5. QED
      BY <3>1, <3>2, <3>3, <3>4
  <2>2. CASE ~ \E i \in DOMAIN docs : docs[i].key = k
    <3>1. \A i \in DOMAIN docs' : docs'[i].key # k
      BY <1>1, <1>7, <2>2
    <3>2. LifeIn(docs', k) = "NONE" /\ LifeIn(docs, k) = "NONE"
      BY <2>2, <3>1, LifeInNone
    <3>3. QED
      BY <3>2
  <2>3. QED
    BY <2>1, <2>2
<1>8. LifeMap' = [k \in Keys |-> LifeIn(docs', k)] /\ LifeMap = [k \in Keys |-> LifeIn(docs, k)]
  BY LifeOfIn DEF LifeMap
<1>9. QED
  BY <1>4, <1>5, <1>6, <1>7, <1>8

(* A document added for a key that has none begins a life. *)
LEMMA LifeAppended ==
  ASSUME docs \in Seq(Doc), UniqueKey, NEW e \in Doc, docs' = Append(docs, e),
         Same(e.key) = {}
  PROVE  /\ LifeMap' = [LifeMap EXCEPT ![e.key] = Shows(e)]
         /\ e.key \in Keys /\ LifeMap[e.key] = "NONE"
<1> DEFINE new == Len(docs) + 1
<1>1. /\ docs' \in Seq(Doc) /\ DOMAIN docs' = DOMAIN docs \cup {new}
      /\ new \notin DOMAIN docs /\ docs'[new] = e
      /\ \A i \in DOMAIN docs : docs'[i] = docs[i]
  BY DocAppended
<1>2. DOMAIN docs \subseteq Nat /\ DOMAIN docs' \subseteq Nat
  BY <1>1, LenProperties
<1>3. \A i \in DOMAIN docs : docs[i].key # e.key
  BY DEF Same
<1>4. OneToAKey(docs) /\ OneToAKey(docs')
  BY <1>1, <1>3 DEF UniqueKey, OneToAKey
<1>5. e.key \in Keys
  BY DEF Doc
<1>6. LifeIn(docs', e.key) = Shows(e)
  BY <1>1, <1>2, <1>4, LifeInDoc
<1>7. LifeIn(docs, e.key) = "NONE"
  BY <1>3, LifeInNone
<1>8. ASSUME NEW k \in Keys, k # e.key PROVE LifeIn(docs', k) = LifeIn(docs, k)
  <2>1. CASE \E i \in DOMAIN docs : docs[i].key = k
    <3>1. PICK i \in DOMAIN docs : docs[i].key = k
      BY <2>1
    <3>2. docs'[i] = docs[i] /\ i \in DOMAIN docs'
      BY <1>1, <3>1
    <3>3. LifeIn(docs', docs'[i].key) = Shows(docs'[i])
      BY <1>2, <1>4, <3>2, LifeInDoc
    <3>4. LifeIn(docs, docs[i].key) = Shows(docs[i])
      BY <1>2, <1>4, <3>1, LifeInDoc
    <3>5. QED
      BY <3>1, <3>2, <3>3, <3>4
  <2>2. CASE ~ \E i \in DOMAIN docs : docs[i].key = k
    <3>1. \A i \in DOMAIN docs' : docs'[i].key # k
      BY <1>1, <1>8, <2>2
    <3>2. LifeIn(docs', k) = "NONE" /\ LifeIn(docs, k) = "NONE"
      BY <2>2, <3>1, LifeInNone
    <3>3. QED
      BY <3>2
  <2>3. QED
    BY <2>1, <2>2
<1>9. LifeMap' = [k \in Keys |-> LifeIn(docs', k)] /\ LifeMap = [k \in Keys |-> LifeIn(docs, k)]
  BY LifeOfIn DEF LifeMap
<1>10. QED
  BY <1>5, <1>6, <1>7, <1>8, <1>9

(* Clients create drafts, and do not ask for the status of the deployment.   *)
DraftsOnly == CreateStatuses \subseteq {"DRAFT"} /\ AppliedIsOurs

(* The steps of the abstract specification, on the map of the lives. *)
LEMMA LifeMoves ==
  ASSUME NEW k \in Keys, NEW st, LifeMap' = [LifeMap EXCEPT ![k] = st],
         \/ LifeMap[k] = "NONE" /\ st = "DRAFT"
         \/ LifeMap[k] # "NONE" /\ st \in {"DRAFT", "APPROVED", "REJECTED", "NONE"}
         \/ LifeMap[k] = "APPROVED" /\ st = "APPLIED"
  PROVE  Life!Next
<1> DEFINE life == [j \in Keys |-> LifeOf(j)]
<1>1. life = LifeMap /\ life' = LifeMap'
  BY DEF LifeMap
<1>2. Life!Becomes(k, st)
  BY <1>1 DEF Life!Becomes
<1>3. \/ Life!Register(k) \/ Life!Edit(k) \/ Life!Approve(k) \/ Life!Reject(k)
      \/ Life!Remove(k) \/ Life!Apply(k)
  BY <1>1, <1>2 DEF Life!Register, Life!Edit, Life!Approve, Life!Reject, Life!Remove, Life!Apply
<1>4. QED
  BY <1>3 DEF Life!Next

LEMMA EditsLive ==
  ASSUME QuietEditors, DraftsOnly, GatherInv, StoreNext
  PROVE  Life!Next \/ LifeMap' = LifeMap
<1> DEFINE Goal == Life!Next \/ LifeMap' = LifeMap
<1>a. docs \in Seq(Doc) /\ UniqueKey /\ LookupFresh /\ TypeOK
  BY DEF GatherInv, KeyInv, PlacedInv, DeployInv, DeployTypeOK, TypeOK
<1>1. CASE UNCHANGED docs
  BY <1>1, LifeOfIn DEF LifeMap
<1>2. ASSUME NEW x \in creates, Insert(x) PROVE Goal
  <2>1. PICK e \in Doc : /\ e.key = x.key /\ e.status = x.status /\ e.delete_yn = "N"
                         /\ docs' = Append(docs, e)
    BY <1>a, <1>2, InsertShape
  <2>2. Same(e.key) = {}
    BY <1>a, <1>2, <2>1 DEF Insert, LookupFresh
  <2>3. x.status = "DRAFT"
    BY <1>a DEF TypeOK, Create, DraftsOnly
  <2>4. /\ LifeMap' = [LifeMap EXCEPT ![e.key] = Shows(e)]
        /\ e.key \in Keys /\ LifeMap[e.key] = "NONE"
    BY <1>a, <2>1, <2>2, LifeAppended
  <2>5. Shows(e) = "DRAFT"
    BY <2>1, <2>3 DEF Shows
  <2>6. QED
    BY <2>4, <2>5, LifeMoves
<1>b. ASSUME NEW at \in DOMAIN docs, NEW e \in Doc, docs' = [docs EXCEPT ![at] = e],
             e.key = docs[at].key,
             \/ Shows(docs[at]) = "NONE" /\ Shows(e) \in {"DRAFT", "NONE"}
             \/ /\ Shows(docs[at]) # "NONE"
                /\ Shows(e) \in {"DRAFT", "APPROVED", "REJECTED", "NONE"}
      PROVE  Goal
  <2>1. /\ LifeMap' = [LifeMap EXCEPT ![e.key] = Shows(e)]
        /\ e.key \in Keys /\ LifeMap[e.key] = Shows(docs[at])
    BY <1>a, <1>b, LifeReplaced
  <2>2. CASE Shows(docs[at]) = "NONE" /\ Shows(e) = "NONE"
    <3>1. LifeMap' = LifeMap
      BY <2>1, <2>2 DEF LifeMap
    <3>2. QED
      BY <3>1
  <2>3. CASE ~(Shows(docs[at]) = "NONE" /\ Shows(e) = "NONE")
    BY <1>b, <2>1, <2>3, LifeMoves
  <2>4. QED
    BY <2>2, <2>3
<1>3. ASSUME NEW x \in creates, Restore(x) PROVE Goal
  <2>1. /\ x.at \in DOMAIN docs /\ RestoredDoc(x) \in Doc
        /\ docs' = [docs EXCEPT ![x.at] = RestoredDoc(x)]
    BY <1>a, <1>3, RestoreShape
  <2>2. docs[x.at].key = x.key /\ docs[x.at].delete_yn = "Y"
    BY <1>a, <1>3 DEF Restore, LookupFresh
  <2>3. RestoredDoc(x).key = x.key /\ Shows(RestoredDoc(x)) = "DRAFT"
    BY DEF RestoredDoc, Shows
  <2>4. Shows(docs[x.at]) = "NONE"
    BY <2>2 DEF Shows
  <2>5. QED
    BY <1>b, <2>1, <2>2, <2>3, <2>4
<1>4. ASSUME NEW u \in Users, NEW k \in Keys, NEW req \in UpdateReqs, Update(u, k, req)
      PROVE  Goal
  <2>1. PICK at \in Active : /\ Edited(docs[at], u, req) \in Doc
                             /\ docs' = [docs EXCEPT ![at] = Edited(docs[at], u, req)]
    BY <1>a, <1>4, UpdateShape
  <2>2. at \in DOMAIN docs /\ docs[at] \in Doc /\ docs[at].delete_yn = "N"
    BY <1>a, DocType DEF Active
  <2>3. req.key = Unset
    BY <1>4 DEF Update, QuietEditors, ExactLookup
  <2> DEFINE e == Edited(docs[at], u, req)
  <2>4. /\ e.status = IF req.status = Unset THEN "DRAFT" ELSE req.status
        /\ e.key = docs[at].key /\ e.delete_yn = "N"
    BY <2>2, <2>3 DEF Edited, Doc, Given
  <2>5. e.status \in {"DRAFT", "APPROVED", "REJECTED"}
    <3>1. req.status \in UpdateStatuses \cup {Unset} /\ UpdateStatuses \subseteq Statuses
      BY StoreAssumption DEF UpdateReqs
    <3> HIDE DEF e
    <3>2. QED
      BY <2>4, <3>1 DEF DraftsOnly, AppliedIsOurs, Statuses
  <2>6. docs[at].status \in Statuses
    BY <2>2 DEF Doc
  <2>7. Shows(docs[at]) # "NONE" /\ Shows(e) \in {"DRAFT", "APPROVED", "REJECTED"}
    <3> HIDE DEF e
    <3>1. QED
      BY <2>2, <2>4, <2>5, <2>6 DEF Shows, Statuses
  <2>8. e \in Doc /\ docs' = [docs EXCEPT ![at] = e]
    BY <2>1
  <2> HIDE DEF e
  <2>9. QED
    BY <1>b, <2>2, <2>4, <2>7, <2>8
<1>5. ASSUME NEW k \in Keys, Delete(k) PROVE Goal
  <2>1. PICK at \in DOMAIN docs : /\ DeletedDoc(docs[at]) \in Doc
                                  /\ docs' = [docs EXCEPT ![at] = DeletedDoc(docs[at])]
    BY <1>a, <1>5, DeleteShape
  <2>2. docs[at] \in Doc
    BY <1>a, DocType
  <2> DEFINE e == DeletedDoc(docs[at])
  <2>3. e.delete_yn = "Y" /\ e.key = docs[at].key
    BY <2>2 DEF DeletedDoc, Doc
  <2>4. e \in Doc /\ docs' = [docs EXCEPT ![at] = e]
    BY <2>1
  <2> HIDE DEF e
  <2>5. Shows(e) = "NONE"
    BY <2>3 DEF Shows
  <2>6. QED
    BY <1>b, <2>3, <2>4, <2>5
<1>6. QED
  BY <1>1, <1>2, <1>3, <1>4, <1>5 DEF StoreNext, Lookup, Number, CreateFails

LEMMA LifeStep ==
  ASSUME QuietEditors, DraftsOnly, GatherInv, [Next]_vars
  PROVE  [Life!Next]_([k \in Keys |-> LifeOf(k)])
<1> SUFFICES Life!Next \/ LifeMap' = LifeMap
  BY DEF LifeMap
<1>1. CASE EditorStep
  BY <1>1, EditsLive DEF EditorStep
<1>2. CASE UNCHANGED docs
  BY <1>2, LifeOfIn DEF LifeMap
<1>3. ASSUME NEW p \in Publishers, NEW k \in Keys, Sync(p, k), SetStatus(k, "APPLIED")
      PROVE  Life!Next \/ LifeMap' = LifeMap
  <2>1. pub[p].pc = "sync" /\ k \in pub[p].approved /\ SetStatus(k, "APPLIED")
    BY <1>3 DEF Sync
  <2>2. PICK j \in Published : docs[j].key = k
    BY <2>1 DEF GatherInv, Gathered
  <2> DEFINE e == [docs[j] EXCEPT !.status = "APPLIED"]
  <2>3. docs' = [docs EXCEPT ![j] = e]
    <3>1. docs' = [docs EXCEPT ![j].status = "APPLIED"]
      BY <2>1, <2>2, SyncKeeps DEF GatherInv
    <3>2. QED
      BY <3>1
  <2>4. docs \in Seq(Doc) /\ UniqueKey /\ j \in DOMAIN docs
    BY DEF GatherInv, KeyInv, PlacedInv, DeployInv, DeployTypeOK, TypeOK, Published, Active
  <2>5. docs[j] \in Doc /\ docs[j].delete_yn = "N" /\ docs[j].status \in {"APPROVED", "APPLIED"}
    BY <2>4, DocType DEF Published, Active
  <2>6. e \in Doc /\ e.key = k /\ e.delete_yn = "N" /\ e.status = "APPLIED"
    BY <2>2, <2>5 DEF Doc, Statuses
  <2> HIDE DEF e
  <2>7. /\ LifeMap' = [LifeMap EXCEPT ![k] = "APPLIED"]
        /\ LifeMap[k] = docs[j].status
    <3>1. Shows(e) = "APPLIED" /\ Shows(docs[j]) = docs[j].status
      BY <2>5, <2>6 DEF Shows
    <3>2. QED
      BY <2>2, <2>3, <2>4, <2>6, <3>1, LifeReplaced
  <2>8. CASE docs[j].status = "APPROVED"
    BY <2>7, <2>8, LifeMoves
  <2>9. CASE docs[j].status = "APPLIED"
    <3>1. LifeMap' = LifeMap
      BY <2>7, <2>9 DEF LifeMap
    <3>2. QED
      BY <3>1
  <2>10. QED
    BY <2>5, <2>8, <2>9
<1>4. QED
  <2>1. \/ EditorStep \/ UNCHANGED docs
        \/ \E p \in Publishers, k \in Keys : Sync(p, k) /\ SetStatus(k, "APPLIED")
    BY DEF Next, Proceed, Start, Read, Validated, Stamp, Resume, BackUp, Upload, Sync, Finish,
           Fail, UploadFails, BackupFails, Tick, vars, storeVars
  <2>2. QED
    BY <1>1, <1>2, <1>3, <2>1

(* The pipeline implements the life of an entry: for any number of publishes *)
(* and failures, an entry becomes APPLIED only when it is APPROVED, and      *)
(* every other change is an edit, a decision, a deletion or a registration.  *)
THEOREM PublishesImplementLife ==
  ASSUME QuietEditors, DraftsOnly
  PROVE  Spec => EntriesLive
<1>1. Init => Life!Init
  <2>1. ASSUME Init PROVE \A k \in Keys : LifeOf(k) = "NONE"
    BY <2>1, EmptySeq DEF Init, StoreInit, LifeOf, Active
  <2>2. QED
    BY <2>1 DEF Life!Init
<1>2. GatherInv /\ [Next]_vars => GatherInv' /\ [Life!Next]_([k \in Keys |-> LifeOf(k)])
  BY GatherStep, LifeStep
<1>3. QED
  BY GatherInit, <1>1, <1>2, PTL DEF Spec, EntriesLive, Life!Spec
=============================================================================
