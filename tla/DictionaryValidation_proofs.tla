--------------------- MODULE DictionaryValidation_proofs ---------------------
(***************************************************************************)
(* Proofs about DictionaryValidation, for every number of validations,     *)
(* servers, sample words and faults.                                       *)
(*                                                                         *)
(* A step changes the progress of one validation.  When validations do not *)
(* overlap, what the servers and Elasticsearch hold follows from how far   *)
(* that one has come, whatever the ones before have left.  When they do,   *)
(* but all of them are blocking, somebody under way will remove what there *)
(* is.                                                                     *)
(***************************************************************************)
EXTENDS DictionaryValidation, TLAPS

StepOf(v) ==
  \/ Start(v) \/ Proceed(v)
  \/ UploadFails(v) \/ ElasticsearchFails(v) \/ CleanSkipped(v) \/ CleanFails(v) \/ Crash(v)

(* Only the SSH segments count the servers; all others start from the first. *)
FirstServer ==
  \A v \in Validators : val[v].pc \notin {"idle", "upload", "clean_files"} => val[v].srv = 1

TypeInv == TypeOK /\ FirstServer

-----------------------------------------------------------------------------
(* Type correctness.                                                         *)

(* The next server of a segment is one, and the last is followed by what     *)
(* comes after, back at the first server.                                    *)
LEMMA NextServerType ==
  ASSUME TypeInv, NEW v \in Validators, NEW after \in Steps
  PROVE  LET next == NextServer(v, after)
         IN  /\ next \in Validation
             /\ next.verdict = val[v].verdict /\ next.hurt = val[v].hurt
             /\ next.tested = val[v].tested
             /\ \/ val[v].srv < NumServers /\ next.srv = val[v].srv + 1 /\ next.pc = val[v].pc
                \/ val[v].srv = NumServers /\ next.srv = 1 /\ next.pc = after
<1>1. val[v] \in Validation /\ val[v].srv \in 1 .. NumServers /\ NumServers \in Nat \ {0}
  BY ValidationAssumption DEF TypeInv, TypeOK, Validation, Servers
<1> DEFINE next == NextServer(v, after)
<1>2. CASE val[v].srv < NumServers
  <2>1. next = [val[v] EXCEPT !.srv = @ + 1] /\ val[v].srv + 1 \in 1 .. NumServers
    BY <1>1, <1>2 DEF NextServer
  <2>2. QED
    BY <1>1, <1>2, <2>1 DEF Validation, Servers
<1>3. CASE ~(val[v].srv < NumServers)
  <2>1. /\ next = [val[v] EXCEPT !.srv = 1, !.pc = after]
        /\ val[v].srv = NumServers /\ 1 \in 1 .. NumServers
    BY <1>1, <1>3 DEF NextServer
  <2>2. QED
    BY <1>1, <2>1 DEF Validation, Servers
<1>4. QED
  BY <1>2, <1>3

(* What a step changes of val: the progress of one validation. *)
LEMMA Others ==
  ASSUME TypeInv, NEW v \in Validators, StepOf(v)
  PROVE  \A u \in Validators \ {v} : val'[u] = val[u]
BY DEF TypeInv, TypeOK, StepOf, Proceed, Start, Load, Upload, ExistsTemplate, PutTemplate,
       ExistsIndex, DeleteIndex, CreateIndex, Analyze, CleanIndex, CleanFiles, UploadFails,
       ElasticsearchFails, CleanSkipped, CleanFails, Crash, Goto

LEMMA IdleType ==
  /\ Idle \in Validation /\ Idle.srv = 1 /\ Idle.pc = "idle"
  /\ Idle.tested = {} /\ Idle.verdict = "none" /\ Idle.hurt = FALSE
<1>1. 1 \in 1 .. NumServers /\ 1 \in 1 .. NumWords
  BY ValidationAssumption
<1>2. QED
  BY <1>1 DEF Idle, Validation, Steps, Servers

LEMMA TypeInit == Init => TypeInv
BY ValidationAssumption DEF Init, Idle, TypeInv, TypeOK, FirstServer, Validation, Steps, Servers

(* A new progress of one validation leaves the type as it is. *)
LEMMA ProgressType ==
  ASSUME TypeInv, NEW v \in Validators, NEW me \in Validation,
         val' = [val EXCEPT ![v] = me],
         me.pc \notin {"idle", "upload", "clean_files"} => me.srv = 1
  PROVE  val' \in [Validators -> Validation] /\ FirstServer'
BY DEF TypeInv, TypeOK, FirstServer

(* What a failure of Elasticsearch leads to. *)
LEMMA FailedType ==
  ASSUME TypeInv, NEW v \in Validators
  PROVE  /\ Failed(v) \in Validation /\ Failed(v).srv = val[v].srv
         /\ Failed(v).pc = IF KindOf[v] = "block" THEN "clean_index" ELSE "idle"
         /\ Failed(v).tested = val[v].tested
         /\ Failed(v).verdict = "FAILED" /\ Failed(v).hurt = val[v].hurt
<1>1. val[v] \in Validation
  BY DEF TypeInv, TypeOK
<1>2. QED
  BY <1>1 DEF Failed, Validation, Steps

(* A passed analysis leads to the next word or to the clean-up. *)
LEMMA AnalyzedType ==
  ASSUME TypeInv, NEW v \in Validators, index # None
  PROVE  /\ Analyzed(v) \in Validation /\ Analyzed(v).srv = val[v].srv
         /\ Analyzed(v).pc \in {val[v].pc, "clean_index"}
         /\ Analyzed(v).tested = val[v].tested \cup {index[s] : s \in Servers}
         /\ Analyzed(v).verdict \in {val[v].verdict, "SUCCESS"} /\ Analyzed(v).hurt = val[v].hurt
<1> DEFINE me == [val[v] EXCEPT !.tested = @ \cup {index[s] : s \in Servers}]
<1>1. /\ val[v] \in Validation /\ NumWords \in Nat \ {0}
      /\ {index[s] : s \in Servers} \subseteq Validators
  BY ValidationAssumption DEF TypeInv, TypeOK
<1>2. /\ me \in Validation /\ me.srv = val[v].srv /\ me.pc = val[v].pc
      /\ me.tested = val[v].tested \cup {index[s] : s \in Servers}
      /\ me.verdict = val[v].verdict /\ me.hurt = val[v].hurt
  BY <1>1 DEF Validation
<1>3. me.word \in 1 .. NumWords
  BY <1>2 DEF Validation
<1>4. CASE me.word < NumWords
  <2>1. Analyzed(v) = [me EXCEPT !.word = @ + 1] /\ me.word + 1 \in 1 .. NumWords
    BY <1>1, <1>3, <1>4 DEF Analyzed
  <2>2. QED
    BY <1>2, <2>1 DEF Validation
<1>5. CASE ~(me.word < NumWords)
  <2>1. Analyzed(v) = [me EXCEPT !.verdict = "SUCCESS", !.pc = "clean_index"]
    BY <1>5 DEF Analyzed
  <2>2. QED
    BY <1>2, <2>1 DEF Validation, Steps
<1>6. QED
  BY <1>4, <1>5

(* A new step of a validation. *)
LEMMA GotoType ==
  ASSUME TypeInv, NEW v \in Validators, NEW pc \in Steps, Goto(v, pc),
         val[v].srv = 1 \/ pc \in {"idle", "upload", "clean_files"}
  PROVE  val' \in [Validators -> Validation] /\ FirstServer'
<1> DEFINE me == [val[v] EXCEPT !.pc = pc]
<1>1. val[v] \in Validation
  BY DEF TypeInv, TypeOK
<1>2. me \in Validation /\ me.srv = val[v].srv /\ me.pc = pc
  BY <1>1 DEF Validation
<1>3. val' = [val EXCEPT ![v] = me]
  BY DEF Goto
<1>4. QED
  BY <1>2, <1>3, ProgressType

(* Every step of a validation keeps the type. *)
LEMMA TypeStep ==
  ASSUME TypeInv, NEW v \in Validators, StepOf(v)
  PROVE  TypeInv'
<1> USE DEF TypeInv
<1>1. val[v] \in Validation /\ val[v].srv \in Servers
  BY DEF TypeOK, Validation
<1>2. ASSUME faults' = faults \/ \E kind \in {"elasticsearch", "upload", "cleanup", "crash"} : Fault(kind)
      PROVE  faults' \in 0 .. MaxFaults
  BY <1>2, ValidationAssumption DEF TypeOK, Fault
<1>3. CASE Start(v)
  <2> DEFINE me == [Idle EXCEPT !.pc = "load"]
  <2>1. me \in Validation /\ me.srv = 1
    BY IdleType DEF Validation, Steps
  <2>2. val' = [val EXCEPT ![v] = me] /\ UNCHANGED <<file, template, index, faults>>
    BY <1>3 DEF Start
  <2>3. val' \in [Validators -> Validation] /\ FirstServer'
    BY <2>1, <2>2, ProgressType
  <2>4. QED
    BY <2>2, <2>3 DEF TypeOK
<1>4. CASE Load(v)
  <2>1. val' \in [Validators -> Validation] /\ FirstServer'
    BY <1>4, GotoType DEF Load, Steps
  <2>2. QED
    BY <1>4, <2>1 DEF TypeOK, Load
<1>5. CASE Upload(v)
  <2>1. "template" \in Steps
    BY DEF Steps
  <2>2. NextServer(v, "template") \in Validation
        /\ (NextServer(v, "template").pc = "template" => NextServer(v, "template").srv = 1)
        /\ NextServer(v, "template").pc \in {"upload", "template"}
    BY <1>5, <2>1, NextServerType DEF Upload, At
  <2>3. val' \in [Validators -> Validation] /\ FirstServer'
    BY <1>5, <2>2, ProgressType DEF Upload
  <2>4. file' \in [Servers -> Validators \cup {None}]
    BY <1>1, <1>5 DEF TypeOK, Upload
  <2>5. QED
    BY <1>5, <2>3, <2>4 DEF TypeOK, Upload
<1>6. CASE ExistsTemplate(v) \/ ExistsIndex(v)
  <2>1. val[v].srv = 1
    BY <1>6 DEF FirstServer, ExistsTemplate, ExistsIndex, Ready, At
  <2>2. \E pc \in Steps : Goto(v, pc)
    BY <1>6 DEF ExistsTemplate, ExistsIndex, AfterExists, Steps
  <2>3. val' \in [Validators -> Validation] /\ FirstServer'
    BY <2>1, <2>2, GotoType
  <2>4. QED
    BY <1>6, <2>3 DEF TypeOK, ExistsTemplate, ExistsIndex
<1>7. CASE PutTemplate(v)
  <2>1. val[v].srv = 1 /\ Goto(v, "exists")
    BY <1>7 DEF FirstServer, PutTemplate, Ready, At
  <2>2. val' \in [Validators -> Validation] /\ FirstServer'
    BY <2>1, GotoType DEF Steps
  <2>3. KindOf[v] \in Variants
    BY ValidationAssumption
  <2>4. QED
    BY <1>7, <2>2, <2>3 DEF TypeOK, PutTemplate
<1>8. CASE DeleteIndex(v) \/ CleanIndex(v)
  <2>1. val[v].srv = 1 /\ (Goto(v, "create") \/ Goto(v, "clean_files"))
    BY <1>8 DEF FirstServer, DeleteIndex, CleanIndex, Ready, At
  <2>2. val' \in [Validators -> Validation] /\ FirstServer'
    BY <2>1, GotoType DEF Steps
  <2>3. QED
    BY <1>8, <2>2 DEF TypeOK, DeleteIndex, CleanIndex
<1>9. CASE CreateIndex(v)
  <2>1. val[v].srv = 1
    BY <1>9 DEF FirstServer, CreateIndex, Ready, At
  <2>2. CASE Creatable /\ index' = file /\ Goto(v, "analyze")
    <3>1. val' \in [Validators -> Validation] /\ FirstServer'
      BY <2>1, <2>2, GotoType DEF Steps
    <3>2. index' \in [Servers -> Validators]
      BY <2>2 DEF Creatable, TypeOK
    <3>3. QED
      BY <1>9, <3>1, <3>2 DEF TypeOK, CreateIndex
  <2>3. CASE UNCHANGED index /\ val' = [val EXCEPT ![v] = Failed(v)]
    <3>1. val' \in [Validators -> Validation] /\ FirstServer'
      BY <2>1, <2>3, FailedType, ProgressType
    <3>2. QED
      BY <1>9, <2>3, <3>1 DEF TypeOK, CreateIndex
  <2>4. QED
    BY <1>9, <2>2, <2>3 DEF CreateIndex
<1>10. CASE Analyze(v)
  <2>1. val[v].srv = 1
    BY <1>10 DEF FirstServer, Analyze, Ready, At
  <2>2. \/ index # None /\ val' = [val EXCEPT ![v] = Analyzed(v)]
        \/ val' = [val EXCEPT ![v] = Failed(v)]
    BY <1>10 DEF Analyze
  <2>3. val' \in [Validators -> Validation] /\ FirstServer'
    BY <2>1, <2>2, FailedType, AnalyzedType, ProgressType
  <2>4. QED
    BY <1>10, <2>3 DEF TypeOK, Analyze
<1>11. ASSUME val' = [val EXCEPT ![v] = CleanNext(v)], At(v, "clean_files")
       PROVE  val' \in [Validators -> Validation] /\ FirstServer'
  <2>1. "idle" \in Steps
    BY DEF Steps
  <2>2. CleanNext(v) \in Validation /\ CleanNext(v).pc \in {"clean_files", "idle"}
    BY <1>11, <2>1, NextServerType DEF CleanNext, At
  <2>3. QED
    BY <1>11, <2>2, ProgressType
<1>12. CASE CleanFiles(v)
  <2>1. val' \in [Validators -> Validation] /\ FirstServer'
    BY <1>11, <1>12 DEF CleanFiles
  <2>2. file' \in [Servers -> Validators \cup {None}]
    BY <1>1, <1>12 DEF TypeOK, CleanFiles
  <2>3. QED
    BY <1>12, <2>1, <2>2 DEF TypeOK, CleanFiles
<1>13. CASE UploadFails(v)
  <2> DEFINE me == [val[v] EXCEPT !.verdict = "FAILED", !.pc = "idle", !.hurt = TRUE]
  <2>1. me \in Validation /\ me.pc = "idle" /\ val' = [val EXCEPT ![v] = me]
    BY <1>1, <1>13 DEF UploadFails, Validation, Steps
  <2>2. val' \in [Validators -> Validation] /\ FirstServer'
    BY <2>1, ProgressType
  <2>3. file' \in [Servers -> Validators \cup {None}]
    BY <1>1, <1>13 DEF TypeOK, UploadFails
  <2>4. faults' \in 0 .. MaxFaults
    BY <1>2, <1>13 DEF UploadFails
  <2>5. QED
    BY <1>13, <2>2, <2>3, <2>4 DEF TypeOK, UploadFails
<1>14. CASE ElasticsearchFails(v)
  <2> DEFINE me == [Failed(v) EXCEPT !.hurt = TRUE]
  <2>1. val[v].srv = 1
    BY <1>14 DEF FirstServer, ElasticsearchFails, Ready, At
  <2>2. me \in Validation /\ me.srv = 1 /\ val' = [val EXCEPT ![v] = me]
    BY <1>14, <2>1, FailedType DEF ElasticsearchFails, Validation
  <2>3. val' \in [Validators -> Validation] /\ FirstServer'
    BY <2>2, ProgressType
  <2>4. faults' \in 0 .. MaxFaults
    BY <1>2, <1>14 DEF ElasticsearchFails
  <2>5. QED
    BY <1>14, <2>3, <2>4 DEF TypeOK, ElasticsearchFails
<1>15. CASE CleanSkipped(v)
  <2>1. \/ Goto(v, "clean_files")
        \/ At(v, "clean_files") /\ val' = [val EXCEPT ![v] = CleanNext(v)]
    BY <1>15 DEF CleanSkipped
  <2>2. val' \in [Validators -> Validation] /\ FirstServer'
    BY <1>11, <2>1, GotoType DEF Steps
  <2>3. faults' \in 0 .. MaxFaults
    BY <1>2, <1>15 DEF CleanSkipped
  <2>4. QED
    BY <1>15, <2>2, <2>3 DEF TypeOK, CleanSkipped
<1>16. CASE CleanFails(v)
  <2> DEFINE me == [val[v] EXCEPT !.verdict = "FAILED", !.pc = "idle", !.hurt = TRUE]
  <2>1. me \in Validation /\ me.pc = "idle" /\ val' = [val EXCEPT ![v] = me]
    BY <1>1, <1>16 DEF CleanFails, Validation, Steps
  <2>2. val' \in [Validators -> Validation] /\ FirstServer'
    BY <2>1, ProgressType
  <2>3. faults' \in 0 .. MaxFaults
    BY <1>2, <1>16 DEF CleanFails
  <2>4. QED
    BY <1>16, <2>2, <2>3 DEF TypeOK, CleanFails
<1>17. CASE Crash(v)
  <2>1. Idle \in Validation /\ Idle.pc = "idle"
    BY IdleType
  <2>2. val' \in [Validators -> Validation] /\ FirstServer'
    BY <1>17, <2>1, ProgressType DEF Crash
  <2>3. faults' \in 0 .. MaxFaults
    BY <1>2, <1>17 DEF Crash
  <2>4. QED
    BY <1>17, <2>2, <2>3 DEF TypeOK, Crash
<1>18. QED
  BY <1>3, <1>4, <1>5, <1>6, <1>7, <1>8, <1>9, <1>10, <1>12, <1>13, <1>14, <1>15, <1>16, <1>17
     DEF StepOf, Proceed

LEMMA NextSteps == Next <=> \E v \in Validators : StepOf(v)
BY DEF Next, StepOf

LEMMA TypeAlways == Spec => []TypeInv
<1>1. TypeInv /\ [Next]_vars => TypeInv'
  <2>1. TypeInv /\ UNCHANGED vars => TypeInv'
    BY DEF vars, TypeInv, TypeOK, FirstServer
  <2>2. QED
    BY <2>1, TypeStep, NextSteps
<1>2. QED
  BY TypeInit, <1>1, PTL DEF Spec

(* The shared resources and the progress of the validations are always well  *)
(* typed: an index is loaded from files that are all there.                  *)
THEOREM ValidationTypeCorrect == Spec => []TypeOK
<1>1. TypeInv => TypeOK
  BY DEF TypeInv
<1>2. QED
  BY <1>1, TypeAlways, PTL

-----------------------------------------------------------------------------
(* Validations that do not overlap.                                          *)

OneRuns == \A u, v \in Validators : ~At(u, "idle") /\ ~At(v, "idle") => u = v

Later == {"template", "put", "exists", "delete", "create", "analyze"}

(* What is on the servers and in Elasticsearch when a validation, which is   *)
(* the only one under way, has come to a step.                               *)
Own(v) ==
  /\ val[v].tested \subseteq {v}
  /\ At(v, "load") => val[v].srv = 1
  /\ At(v, "upload") => \A s \in Servers : s < val[v].srv => file[s] = v
  /\ val[v].pc \in Later => \A s \in Servers : file[s] = v
  /\ At(v, "put") => template = None
  /\ val[v].pc \in {"exists", "delete", "create"} => template \in Variants
  /\ At(v, "create") => index = None
  /\ At(v, "analyze") => index \in [Servers -> Validators] /\ \A s \in Servers : index[s] = v

SerialInv == TypeInv /\ OneRuns /\ \A v \in Validators : Own(v)

(* The step that moves a validation finds all others idle. *)
LEMMA OthersIdle ==
  ASSUME SerialInv, ~Overlap, NEW v \in Validators, StepOf(v)
  PROVE  \A u \in Validators \ {v} : At(u, "idle") /\ val'[u] = val[u]
<1>1. \A u \in Validators \ {v} : val'[u] = val[u]
  BY Others DEF SerialInv
<1>2. CASE At(v, "idle")
  <2>1. Start(v)
    BY <1>2 DEF StepOf, Proceed, Load, Upload, ExistsTemplate, PutTemplate, ExistsIndex, DeleteIndex,
       CreateIndex, Analyze, CleanIndex, CleanFiles, UploadFails, ElasticsearchFails, CleanSkipped,
       CleanFails, Crash, Ready, At
  <2>2. QED
    BY <1>1, <2>1 DEF Start
<1>3. CASE ~At(v, "idle")
  BY <1>1, <1>3 DEF SerialInv, OneRuns
<1>4. QED
  BY <1>2, <1>3

(* A validation that has ended, or cleans up, asks only for its analyses.    *)
LEMMA OwnAtEnd ==
  ASSUME NEW v \in Validators, val'[v].tested \subseteq {v},
         val'[v].pc \in {"idle", "clean_index", "clean_files"}
  PROVE  Own(v)'
BY DEF Own, Later, At

LEMMA OwnStep ==
  ASSUME SerialInv, ~Overlap, NEW v \in Validators, StepOf(v)
  PROVE  Own(v)'
<1> USE DEF SerialInv
<1>1. /\ TypeInv /\ Own(v) /\ val[v] \in Validation /\ val[v].srv \in Servers
      /\ val \in [Validators -> Validation] /\ file \in [Servers -> Validators \cup {None}]
  BY DEF TypeInv, TypeOK, Validation
<1>2. /\ NumServers \in Int /\ val[v].srv \in Int
      /\ \A s \in Servers : s \in Int /\ s <= NumServers
  BY <1>1, ValidationAssumption DEF Servers
<1>3. CASE Start(v)
  <2>1. val'[v] = [Idle EXCEPT !.pc = "load"]
    BY <1>1, <1>3 DEF Start
  <2>2. val'[v].pc = "load" /\ val'[v].srv = 1 /\ val'[v].tested = {}
    BY <2>1, IdleType DEF Validation
  <2>3. QED
    BY <2>2 DEF Own, Later, At
<1>4. CASE Load(v)
  <2>1. /\ val[v].pc = "load" /\ val[v].srv = 1 /\ val[v].tested \subseteq {v}
        /\ val' = [val EXCEPT ![v].pc = "upload"]
    BY <1>1, <1>4 DEF Load, Ready, At, Own, Goto
  <2>2. val'[v].pc = "upload" /\ val'[v].srv = 1 /\ val'[v].tested \subseteq {v}
    BY <1>1, <2>1 DEF Validation
  <2>3. \A s \in Servers : ~(s < 1)
    BY ValidationAssumption DEF Servers
  <2>4. QED
    BY <2>2, <2>3 DEF Own, Later, At
<1>5. CASE Upload(v)
  <2> DEFINE next == NextServer(v, "template")
  <2>1. val[v].pc = "upload" /\ "template" \in Steps
    BY <1>5 DEF Upload, At, Steps
  <2>2. /\ next.tested = val[v].tested
        /\ \/ val[v].srv < NumServers /\ next.srv = val[v].srv + 1 /\ next.pc = val[v].pc
           \/ val[v].srv = NumServers /\ next.srv = 1 /\ next.pc = "template"
    BY <1>1, <2>1, NextServerType
  <2>3. val'[v] = next
    BY <1>1, <1>5 DEF Upload
  <2>4. \A s \in Servers : file'[s] = IF s = val[v].srv THEN v ELSE file[s]
    BY <1>1, <1>5 DEF Upload
  <2>5. \A s \in Servers : s < val[v].srv => file[s] = v
    BY <1>1, <2>1 DEF Own, At
  <2>6. CASE val[v].srv < NumServers /\ next.srv = val[v].srv + 1 /\ next.pc = "upload"
    <3>1. \A s \in Servers : s < next.srv => s < val[v].srv \/ s = val[v].srv
      BY <1>2, <2>6
    <3>2. \A s \in Servers : s < next.srv => file'[s] = v
      BY <2>4, <2>5, <3>1
    <3>3. QED
      BY <1>1, <2>2, <2>3, <2>6, <3>2 DEF Own, Later, At
  <2>7. CASE val[v].srv = NumServers /\ next.srv = 1 /\ next.pc = "template"
    <3>1. \A s \in Servers : s < val[v].srv \/ s = val[v].srv
      BY <1>2, <2>7
    <3>2. \A s \in Servers : file'[s] = v
      BY <2>4, <2>5, <3>1
    <3>3. QED
      BY <1>1, <2>2, <2>3, <2>7, <3>2 DEF Own, Later, At
  <2>8. QED
    BY <2>1, <2>2, <2>6, <2>7
<1>6. ASSUME NEW pc \in Steps, Goto(v, pc)
      PROVE  val'[v].pc = pc /\ val'[v].tested \subseteq {v}
  <2>1. val'[v] = [val[v] EXCEPT !.pc = pc]
    BY <1>1, <1>6 DEF Goto
  <2>2. QED
    BY <1>1, <2>1 DEF Validation, Own
<1>7. CASE ExistsTemplate(v)
  <2>1. /\ \A s \in Servers : file'[s] = v
        /\ Goto(v, IF template = None THEN "put" ELSE "exists")
        /\ template' \in Variants \cup {None} /\ template' = template
    BY <1>1, <1>7 DEF ExistsTemplate, Ready, At, Own, Later, TypeInv, TypeOK
  <2>2. CASE template = None
    <3>1. val'[v].pc = "put" /\ val'[v].tested \subseteq {v}
      BY <1>6, <2>1, <2>2 DEF Steps
    <3>2. QED
      BY <2>1, <2>2, <3>1 DEF Own, Later, At
  <2>3. CASE template # None
    <3>1. val'[v].pc = "exists" /\ val'[v].tested \subseteq {v}
      BY <1>6, <2>1, <2>3 DEF Steps
    <3>2. QED
      BY <2>1, <2>3, <3>1 DEF Own, Later, At
  <2>4. QED
    BY <2>2, <2>3
<1>8. CASE PutTemplate(v)
  <2>1. /\ \A s \in Servers : file'[s] = v
        /\ Goto(v, "exists") /\ template' \in Variants
    BY <1>1, <1>8, ValidationAssumption DEF PutTemplate, Ready, At, Own, Later
  <2>2. val'[v].pc = "exists" /\ val'[v].tested \subseteq {v}
    BY <1>6, <2>1 DEF Steps
  <2>3. QED
    BY <2>1, <2>2 DEF Own, Later, At
<1>9. CASE ExistsIndex(v)
  <2>1. /\ \A s \in Servers : file'[s] = v
        /\ Goto(v, IF index = None THEN "create" ELSE "delete")
        /\ template' \in Variants /\ index' = index
    BY <1>1, <1>9 DEF ExistsIndex, AfterExists, Ready, At, Own, Later
  <2>2. CASE index = None
    <3>1. val'[v].pc = "create" /\ val'[v].tested \subseteq {v}
      BY <1>6, <2>1, <2>2 DEF Steps
    <3>2. QED
      BY <2>1, <2>2, <3>1 DEF Own, Later, At
  <2>3. CASE index # None
    <3>1. val'[v].pc = "delete" /\ val'[v].tested \subseteq {v}
      BY <1>6, <2>1, <2>3 DEF Steps
    <3>2. QED
      BY <2>1, <3>1 DEF Own, Later, At
  <2>4. QED
    BY <2>2, <2>3
<1>10. CASE DeleteIndex(v)
  <2>1. /\ \A s \in Servers : file'[s] = v
        /\ Goto(v, "create") /\ template' \in Variants /\ index' = None
    BY <1>1, <1>10 DEF DeleteIndex, Ready, At, Own, Later
  <2>2. val'[v].pc = "create" /\ val'[v].tested \subseteq {v}
    BY <1>6, <2>1 DEF Steps
  <2>3. QED
    BY <2>1, <2>2 DEF Own, Later, At
<1>11. ASSUME val' = [val EXCEPT ![v] = Failed(v)] \/ val' = [val EXCEPT ![v] = [Failed(v) EXCEPT !.hurt = TRUE]]
       PROVE  Own(v)'
  <2>1. /\ Failed(v) \in Validation /\ Failed(v).tested = val[v].tested
        /\ Failed(v).pc \in {"idle", "clean_index"}
    BY <1>1, FailedType
  <2>2. val'[v].pc \in {"idle", "clean_index"} /\ val'[v].tested = val[v].tested
    BY <1>1, <1>11, <2>1 DEF Validation
  <2>3. QED
    BY <1>1, <2>2, OwnAtEnd DEF Own
<1>12. CASE CreateIndex(v)
  <2>1. CASE Creatable /\ index' = file /\ Goto(v, "analyze")
    <3>1. /\ file' = file /\ \A s \in Servers : file[s] = v
      BY <1>1, <1>12 DEF CreateIndex, Ready, At, Own, Later
    <3>2. index' \in [Servers -> Validators] /\ \A s \in Servers : index'[s] = v
      BY <1>1, <2>1, <3>1
    <3>3. val'[v].pc = "analyze" /\ val'[v].tested \subseteq {v}
      BY <1>6, <2>1 DEF Steps
    <3>4. QED
      BY <3>1, <3>2, <3>3 DEF Own, Later, At
  <2>2. QED
    BY <1>11, <1>12, <2>1 DEF CreateIndex
<1>13. CASE Analyze(v)
  <2>1. /\ val[v].pc = "analyze" /\ val[v].tested \subseteq {v}
        /\ index \in [Servers -> Validators] /\ \A s \in Servers : index[s] = v
        /\ file' = file /\ index' = index
        /\ \A s \in Servers : file[s] = v
    BY <1>1, <1>13 DEF Analyze, Ready, At, Own, Later
  <2>2. CASE index # None /\ val' = [val EXCEPT ![v] = Analyzed(v)]
    <3>1. val'[v] = Analyzed(v)
      BY <1>1, <2>2
    <3>2. val'[v].pc \in {"analyze", "clean_index"} /\ val'[v].tested \subseteq {v}
      BY <1>1, <2>1, <2>2, <3>1, AnalyzedType
    <3>3. CASE val'[v].pc = "clean_index"
      BY <3>2, <3>3, OwnAtEnd
    <3>4. CASE val'[v].pc = "analyze"
      <4>1. index' \in [Servers -> Validators] /\ \A s \in Servers : index'[s] = v
        BY <2>1
      <4>2. \A s \in Servers : file'[s] = v
        BY <2>1
      <4>3. QED
        BY <3>2, <3>4, <4>1, <4>2 DEF Own, Later, At
    <3>5. QED
      BY <3>2, <3>3, <3>4
  <2>3. QED
    BY <1>11, <1>13, <2>2 DEF Analyze
<1>14. CASE CleanIndex(v)
  <2>1. val'[v].pc = "clean_files" /\ val'[v].tested \subseteq {v}
    BY <1>6, <1>14 DEF CleanIndex, Steps
  <2>2. QED
    BY <2>1, OwnAtEnd
<1>15. ASSUME val' = [val EXCEPT ![v] = CleanNext(v)], At(v, "clean_files")
       PROVE  Own(v)'
  <2>1. "idle" \in Steps
    BY DEF Steps
  <2>2. CleanNext(v).pc \in {"clean_files", "idle"} /\ CleanNext(v).tested = val[v].tested
    BY <1>1, <1>15, <2>1, NextServerType DEF CleanNext, At
  <2>3. val'[v].pc \in {"clean_files", "idle"} /\ val'[v].tested \subseteq {v}
    BY <1>1, <1>15, <2>2 DEF Own
  <2>4. QED
    BY <2>3, OwnAtEnd
<1>16. CASE CleanFiles(v)
  BY <1>15, <1>16 DEF CleanFiles
<1>17. CASE CleanSkipped(v)
  <2>1. CASE Goto(v, "clean_files")
    <3>1. val'[v].pc = "clean_files" /\ val'[v].tested \subseteq {v}
      BY <1>6, <2>1 DEF Steps
    <3>2. QED
      BY <3>1, OwnAtEnd
  <2>2. QED
    BY <1>15, <1>17, <2>1 DEF CleanSkipped
<1>18. CASE UploadFails(v) \/ CleanFails(v)
  <2>1. val'[v] = [val[v] EXCEPT !.verdict = "FAILED", !.pc = "idle", !.hurt = TRUE]
    BY <1>1, <1>18 DEF UploadFails, CleanFails
  <2>2. val'[v].pc = "idle" /\ val'[v].tested \subseteq {v}
    BY <1>1, <2>1 DEF Validation, Own
  <2>3. QED
    BY <2>2, OwnAtEnd
<1>19. CASE ElasticsearchFails(v)
  BY <1>11, <1>19 DEF ElasticsearchFails
<1>20. CASE Crash(v)
  <2>1. val'[v].pc = "idle" /\ val'[v].tested = {}
    BY <1>1, <1>20, IdleType DEF Crash
  <2>2. QED
    BY <2>1, OwnAtEnd
<1>21. QED
  BY <1>3, <1>4, <1>5, <1>7, <1>8, <1>9, <1>10, <1>12, <1>13, <1>14, <1>16, <1>17, <1>18, <1>19,
     <1>20 DEF StepOf, Proceed

LEMMA SerialStep ==
  ASSUME SerialInv, ~Overlap, NEW v \in Validators, StepOf(v)
  PROVE  SerialInv'
<1>1. TypeInv'
  BY TypeStep DEF SerialInv
<1>2. \A u \in Validators \ {v} : At(u, "idle") /\ val'[u] = val[u]
  BY OthersIdle
<1>3. OneRuns'
  BY <1>2 DEF OneRuns, At
<1>4. ASSUME NEW u \in Validators \ {v} PROVE Own(u)'
  <2>1. val'[u].pc = "idle" /\ val'[u].tested \subseteq {u}
    BY <1>2 DEF SerialInv, Own, At
  <2>2. QED
    BY <2>1, OwnAtEnd
<1>5. Own(v)'
  BY OwnStep
<1>6. QED
  BY <1>1, <1>3, <1>4, <1>5 DEF SerialInv

LEMMA SerialInit == Init => SerialInv
<1> SUFFICES ASSUME Init PROVE SerialInv
  OBVIOUS
<1>1. \A v \in Validators : val[v].pc = "idle" /\ val[v].tested = {}
  BY IdleType DEF Init
<1>2. QED
  BY <1>1, TypeInit DEF SerialInv, OneRuns, Own, Later, At

LEMMA SerialAlways == ASSUME ~Overlap PROVE Spec => []SerialInv
<1>1. SerialInv /\ [Next]_vars => SerialInv'
  <2>1. SerialInv /\ UNCHANGED vars => SerialInv'
    BY DEF vars, SerialInv, TypeInv, TypeOK, FirstServer, OneRuns, Own, At
  <2>2. QED
    BY <2>1, SerialStep, NextSteps
<1>2. QED
  BY SerialInit, <1>1, PTL DEF Spec

(* A validation is judged by its own lines, however those before it failed   *)
(* or crashed and whatever they have left.                                   *)
THEOREM AnalysesAreOwn == ASSUME ~Overlap PROVE Spec => []AnalyzedOwn
<1>1. SerialInv => AnalyzedOwn
  BY DEF SerialInv, Own, AnalyzedOwn
<1>2. QED
  BY <1>1, SerialAlways, PTL

(* A template is put once and kept. *)
LEMMA Misled ==
  ASSUME NEW v \in Validators, SerialInv, StepOf(v), Misdirected
  PROVE  Misdirected'
<1>1. template # None
  BY ValidationAssumption DEF Misdirected
<1>2. ~PutTemplate(v)
  BY <1>1 DEF SerialInv, Own, PutTemplate, Ready, At
<1>3. UNCHANGED template
  BY <1>2 DEF StepOf, Proceed, Start, Load, Upload, ExistsTemplate, ExistsIndex, DeleteIndex,
     CreateIndex, Analyze, CleanIndex, CleanFiles, UploadFails, ElasticsearchFails, CleanSkipped,
     CleanFails, Crash
<1>4. QED
  BY <1>3 DEF Misdirected

(* When the template names the files uploaded, whatever comes to be created  *)
(* can be, and what is analyzed is there.                                    *)
LEMMA NothingMissing ==
  ASSUME SerialInv, ~Misdirected, NEW v \in Validators
  PROVE  /\ At(v, "create") => Creatable
         /\ At(v, "analyze") => index # None
<1>1. None \notin Validators /\ None \notin [Servers -> Validators]
  BY ValidationAssumption
<1>2. Own(v)
  BY DEF SerialInv
<1>3. ASSUME At(v, "create") PROVE Creatable
  <2>1. index = None /\ template \in Variants /\ \A s \in Servers : file[s] = v
    BY <1>2, <1>3 DEF Own, Later, At
  <2>2. template \in Readable
    BY <2>1 DEF Misdirected
  <2>3. QED
    BY <1>1, <2>1, <2>2 DEF Creatable
<1>4. At(v, "analyze") => index # None
  BY <1>1, <1>2 DEF Own, At
<1>5. QED
  BY <1>3, <1>4

LEMMA VerdictStep ==
  ASSUME SerialInv, ~Misdirected, NEW v \in Validators, StepOf(v),
         val[v].verdict = "FAILED" => val[v].hurt
  PROVE  val'[v].verdict = "FAILED" => val'[v].hurt
<1>1. TypeInv /\ val[v] \in Validation /\ val \in [Validators -> Validation]
  BY DEF SerialInv, TypeInv, TypeOK
<1>2. ASSUME NEW pc \in Steps, Goto(v, pc)
      PROVE  val'[v].verdict = "FAILED" => val'[v].hurt
  <2>1. val'[v] = [val[v] EXCEPT !.pc = pc]
    BY <1>1, <1>2 DEF Goto
  <2>2. QED
    BY <1>1, <2>1 DEF Validation
<1>3. ASSUME NEW pc \in Steps, val' = [val EXCEPT ![v] = NextServer(v, pc)]
      PROVE  val'[v].verdict = "FAILED" => val'[v].hurt
  BY <1>1, <1>3, NextServerType
<1>4. CASE Start(v) \/ Crash(v)
  <2>1. val'[v] = Idle \/ val'[v] = [Idle EXCEPT !.pc = "load"]
    BY <1>1, <1>4 DEF Start, Crash
  <2>2. QED
    BY <2>1, IdleType DEF Validation
<1>5. CASE \E pc \in Steps : Goto(v, pc)
  BY <1>2, <1>5
<1>6. CASE Load(v) \/ ExistsTemplate(v) \/ PutTemplate(v) \/ ExistsIndex(v) \/ DeleteIndex(v)
           \/ CleanIndex(v)
  <2>1. \E pc \in Steps : Goto(v, pc)
    BY <1>6 DEF Load, ExistsTemplate, PutTemplate, ExistsIndex, AfterExists, DeleteIndex, CleanIndex,
       Steps
  <2>2. QED
    BY <1>5, <2>1
<1>7. CASE Upload(v) \/ CleanFiles(v)
  <2>1. \E pc \in Steps : val' = [val EXCEPT ![v] = NextServer(v, pc)]
    BY <1>7 DEF Upload, CleanFiles, CleanNext, Steps
  <2>2. QED
    BY <1>3, <2>1
<1>8. CASE CleanSkipped(v)
  <2>1. \/ \E pc \in Steps : Goto(v, pc)
        \/ \E pc \in Steps : val' = [val EXCEPT ![v] = NextServer(v, pc)]
    BY <1>8 DEF CleanSkipped, CleanNext, Steps
  <2>2. QED
    BY <1>3, <1>5, <2>1
<1>9. CASE CreateIndex(v)
  <2>1. Goto(v, "analyze")
    BY <1>9, NothingMissing DEF CreateIndex, Ready
  <2>2. QED
    BY <1>2, <2>1 DEF Steps
<1>10. CASE Analyze(v)
  <2>1. index # None /\ val' = [val EXCEPT ![v] = Analyzed(v)]
    BY <1>10, NothingMissing DEF Analyze, Ready
  <2>2. val'[v].verdict \in {val[v].verdict, "SUCCESS"} /\ val'[v].hurt = val[v].hurt
    BY <1>1, <2>1, AnalyzedType
  <2>3. QED
    BY <2>2
<1>11. CASE UploadFails(v) \/ CleanFails(v)
  <2>1. val'[v] = [val[v] EXCEPT !.verdict = "FAILED", !.pc = "idle", !.hurt = TRUE]
    BY <1>1, <1>11 DEF UploadFails, CleanFails
  <2>2. QED
    BY <1>1, <2>1 DEF Validation
<1>12. CASE ElasticsearchFails(v)
  <2>1. val'[v] = [Failed(v) EXCEPT !.hurt = TRUE]
    BY <1>1, <1>12 DEF ElasticsearchFails
  <2>2. QED
    BY <1>1, <2>1, FailedType DEF Validation
<1>13. QED
  BY <1>4, <1>6, <1>7, <1>8, <1>9, <1>10, <1>11, <1>12 DEF StepOf, Proceed

(* A validation fails only for a fault that hits itself or for the template  *)
(* that is kept: nothing else one before it has left makes it fail.          *)
THEOREM FailuresAreOwn == ASSUME ~Overlap PROVE Spec => []FailsOnlyByFault
<1> DEFINE Hurt(v) == val[v].verdict = "FAILED" => val[v].hurt
           Inv     == SerialInv /\ (Misdirected \/ \A v \in Validators : Hurt(v))
<1>1. Init => Inv
  <2> SUFFICES ASSUME Init PROVE Inv
    OBVIOUS
  <2>1. \A v \in Validators : val[v].verdict = "none"
    BY IdleType DEF Init
  <2>2. QED
    BY <2>1, SerialInit
<1>2. Inv /\ [Next]_vars => Inv'
  <2>1. ASSUME Inv, NEW v \in Validators, StepOf(v) PROVE Inv'
    <3>1. SerialInv'
      BY <2>1, SerialStep
    <3>2. CASE Misdirected
      BY <2>1, <3>1, <3>2, Misled
    <3>3. CASE ~Misdirected
      <4>1. ASSUME NEW u \in Validators \ {v} PROVE Hurt(u)'
        BY <2>1, <3>3, <4>1, OthersIdle
      <4>2. Hurt(v)'
        BY <2>1, <3>3, VerdictStep
      <4>3. QED
        BY <3>1, <4>1, <4>2
    <3>4. QED
      BY <3>2, <3>3
  <2>2. Inv /\ UNCHANGED vars => Inv'
    BY DEF vars, SerialInv, TypeInv, TypeOK, FirstServer, OneRuns, Own, At, Misdirected
  <2>3. QED
    BY <2>1, <2>2, NextSteps
<1>3. Inv => FailsOnlyByFault
  BY DEF FailsOnlyByFault
<1>4. QED
  BY <1>1, <1>2, <1>3, PTL DEF Spec

-----------------------------------------------------------------------------
(* Blocking validations, overlapping or not, which only Elasticsearch fails. *)

(* A validation that will still remove the test files of a server.           *)
WillClean(v, s) ==
  \/ val[v].pc \in {"upload", "clean_index"} \cup Later
  \/ At(v, "clean_files") /\ val[v].srv <= s

CleanInv ==
  /\ TypeInv
  /\ index # None => \E v \in Validators : val[v].pc \in {"analyze", "clean_index"}
  /\ \A s \in Servers : file[s] # None => \E v \in Validators : WillClean(v, s)

Blocking == (\A v \in Validators : KindOf[v] = "block") /\ FaultKinds \subseteq {"elasticsearch"}

(* Who will clean up goes on to do so, or has done it. *)
LEMMA CleanStep ==
  ASSUME CleanInv, Blocking, NEW v \in Validators, StepOf(v)
  PROVE  CleanInv'
<1>1. TypeInv /\ TypeInv'
  BY TypeStep DEF CleanInv
<1>2. /\ val[v] \in Validation /\ val \in [Validators -> Validation]
      /\ val[v].srv \in Int /\ \A s \in Servers : s \in Int /\ s <= NumServers
      /\ file \in [Servers -> Validators \cup {None}] /\ val[v].srv \in Servers
      /\ NumServers \in Int
  BY <1>1, ValidationAssumption DEF TypeInv, TypeOK, Validation, Servers
<1>3. \A u \in Validators \ {v} : val'[u] = val[u]
  BY <1>1, Others
<1>4. ASSUME NEW s \in Servers, NEW u \in Validators \ {v}, WillClean(u, s)
      PROVE  WillClean(u, s)'
  BY <1>3, <1>4 DEF WillClean, At
<1>5. ASSUME NEW pc \in Steps, Goto(v, pc)
      PROVE  val'[v].pc = pc /\ val'[v].srv = val[v].srv
  <2>1. val'[v] = [val[v] EXCEPT !.pc = pc]
    BY <1>2, <1>5 DEF Goto
  <2>2. QED
    BY <1>2, <2>1 DEF Validation
(* The index is taken away by who leaves the step of removing it. *)
<1>6. ASSUME \/ index' = None
             \/ val'[v].pc \in {"analyze", "clean_index"}
             \/ index' = index /\ val[v].pc \notin {"analyze", "clean_index"}
      PROVE  index' # None => \E u \in Validators : val'[u].pc \in {"analyze", "clean_index"}
  BY <1>3, <1>6 DEF CleanInv
(* A step that leaves v as one that will clean all servers. *)
<1>7. ASSUME val'[v].pc \in {"upload", "clean_index"} \cup Later
      PROVE  \A s \in Servers : file'[s] # None => \E u \in Validators : WillClean(u, s)'
  <2>1. \A s \in Servers : WillClean(v, s)'
    BY <1>7 DEF WillClean
  <2>2. QED
    BY <2>1
<1>8. CASE Start(v)
  <2>1. val[v].pc = "idle" /\ file' = file /\ index' = index
    BY <1>8 DEF Start, At
  <2>2. \A s \in Servers : ~WillClean(v, s)
    BY <2>1 DEF WillClean, Later, At
  <2>3. \A s \in Servers : file'[s] # None => \E u \in Validators : WillClean(u, s)'
    BY <1>4, <2>1, <2>2 DEF CleanInv
  <2>4. QED
    BY <1>1, <1>6, <2>1, <2>3 DEF CleanInv
<1>9. CASE Load(v)
  <2>1. val[v].pc = "load" /\ index' = index /\ val'[v].pc = "upload"
    BY <1>5, <1>9 DEF Load, Ready, At, Steps
  <2>2. QED
    BY <1>1, <1>6, <1>7, <2>1 DEF CleanInv
<1>10. CASE Upload(v)
  <2>1. val[v].pc = "upload" /\ index' = index /\ "template" \in Steps
    BY <1>10 DEF Upload, At, Steps
  <2>2. val'[v].pc \in {"upload", "template"}
    BY <1>1, <1>2, <1>10, <2>1, NextServerType DEF Upload
  <2>3. QED
    BY <1>1, <1>6, <1>7, <2>1, <2>2 DEF CleanInv, Later
<1>11. CASE ExistsTemplate(v) \/ PutTemplate(v) \/ ExistsIndex(v)
  <2>1. /\ val[v].pc \in {"template", "put", "exists"} /\ index' = index
        /\ \E pc \in {"put", "exists", "create", "delete"} : Goto(v, pc)
    BY <1>11 DEF ExistsTemplate, PutTemplate, ExistsIndex, AfterExists, Ready, At
  <2>2. val'[v].pc \in {"put", "exists", "create", "delete"}
    BY <1>5, <2>1 DEF Steps
  <2>3. QED
    BY <1>1, <1>6, <1>7, <2>1, <2>2 DEF CleanInv, Later
<1>12. CASE DeleteIndex(v)
  <2>1. index' = None /\ val'[v].pc = "create"
    BY <1>5, <1>12 DEF DeleteIndex, Steps
  <2>2. QED
    BY <1>1, <1>6, <1>7, <2>1 DEF CleanInv, Later
<1>13. Failed(v).pc = "clean_index"
  BY <1>1, FailedType DEF Blocking
<1>14. CASE CreateIndex(v) \/ Analyze(v)
  <2>1. val'[v].pc \in {"analyze", "clean_index"}
    <3>1. \/ Goto(v, "analyze") \/ val'[v] = Failed(v)
          \/ index # None /\ val'[v] = Analyzed(v) /\ val[v].pc = "analyze"
      BY <1>2, <1>14 DEF CreateIndex, Analyze, Ready, At
    <3>2. QED
      BY <1>1, <1>5, <1>13, <3>1, AnalyzedType DEF Steps
  <2>2. QED
    BY <1>1, <1>6, <1>7, <2>1 DEF CleanInv, Later
<1>15. CASE CleanIndex(v)
  <2>1. /\ val[v].pc = "clean_index" /\ index' = None
        /\ val'[v].pc = "clean_files" /\ val'[v].srv = 1
    BY <1>1, <1>5, <1>15 DEF CleanIndex, Ready, At, TypeInv, FirstServer, Steps
  <2>2. \A s \in Servers : WillClean(v, s)'
    BY <2>1 DEF WillClean, At, Servers
  <2>3. QED
    BY <1>1, <1>6, <2>1, <2>2 DEF CleanInv
<1>16. CASE CleanFiles(v)
  <2> DEFINE next == CleanNext(v)
  <2>1. val[v].pc = "clean_files" /\ "idle" \in Steps /\ index' = index /\ val'[v] = next
    BY <1>2, <1>16 DEF CleanFiles, At, Steps
  <2>2. \/ val[v].srv < NumServers /\ next.srv = val[v].srv + 1 /\ next.pc = "clean_files"
        \/ val[v].srv = NumServers /\ next.srv = 1 /\ next.pc = "idle"
    BY <1>1, <2>1, NextServerType DEF CleanNext
  <2>3. \A s \in Servers : file'[s] = IF s = val[v].srv THEN None ELSE file[s]
    BY <1>2, <1>16 DEF CleanFiles
  <2>4. ASSUME NEW s \in Servers, file'[s] # None
        PROVE  \E u \in Validators : WillClean(u, s)'
    <3>1. file[s] # None /\ s # val[v].srv
      BY <2>3, <2>4
    <3>2. PICK u \in Validators : WillClean(u, s)
      BY <3>1 DEF CleanInv
    <3>3. CASE u = v
      <4>1. val[v].srv < s
        BY <1>2, <2>1, <3>1, <3>2, <3>3 DEF WillClean, Later, At
      <4>2. next.pc = "clean_files" /\ next.srv <= s
        BY <1>2, <2>2, <4>1
      <4>3. QED
        BY <2>1, <4>2 DEF WillClean, At
    <3>4. CASE u # v
      BY <1>4, <3>2, <3>4
    <3>5. QED
      BY <3>3, <3>4
  <2>5. QED
    BY <1>1, <1>6, <2>1, <2>4 DEF CleanInv
<1>17. CASE ElasticsearchFails(v)
  <2>1. val'[v] = [Failed(v) EXCEPT !.hurt = TRUE]
    BY <1>2, <1>17 DEF ElasticsearchFails
  <2>2. val'[v].pc = "clean_index"
    BY <1>1, <1>13, <2>1, FailedType DEF Validation
  <2>3. QED
    BY <1>1, <1>6, <1>7, <2>2 DEF CleanInv
<1>18. ~(UploadFails(v) \/ CleanSkipped(v) \/ CleanFails(v) \/ Crash(v))
  BY DEF UploadFails, CleanSkipped, CleanFails, Crash, Fault, Blocking
<1>19. QED
  BY <1>8, <1>9, <1>10, <1>11, <1>12, <1>14, <1>15, <1>16, <1>17, <1>18 DEF StepOf, Proceed

(* However many blocking validations overlap and Elasticsearch fails them,   *)
(* nothing is left of any when none runs.                                    *)
THEOREM BlockingCleansUp == ASSUME Blocking PROVE Spec => []CleanedUp
<1>1. Init => CleanInv
  <2> SUFFICES ASSUME Init PROVE CleanInv
    OBVIOUS
  <2>1. index = None /\ \A s \in Servers : file[s] = None
    BY DEF Init
  <2>2. QED
    BY <2>1, TypeInit DEF CleanInv
<1>2. CleanInv /\ [Next]_vars => CleanInv'
  <2>1. CleanInv /\ UNCHANGED vars => CleanInv'
    BY DEF vars, CleanInv, TypeInv, TypeOK, FirstServer, WillClean, At
  <2>2. QED
    BY <2>1, CleanStep, NextSteps
<1>3. CleanInv => CleanedUp
  BY DEF CleanInv, CleanedUp, Clean, WillClean, Later, At
<1>4. QED
  BY <1>1, <1>2, <1>3, PTL DEF Spec

-----------------------------------------------------------------------------
(* A validation that runs to its end leaves nothing.                         *)

(* What the clean-up has removed so far: the index first, then the files,    *)
(* server by server.                                                         *)
Removed(v) ==
  At(v, "clean_files") => index = None /\ \A s \in Servers : s < val[v].srv => file[s] = None

RemovedInv == SerialInv /\ \A v \in Validators : Removed(v)

LEMMA RemovedStep ==
  ASSUME RemovedInv, ~Overlap, "cleanup" \notin FaultKinds, NEW v \in Validators, StepOf(v)
  PROVE  RemovedInv' /\ (CleanFiles(v) /\ val'[v].pc = "idle" => Clean')
<1>1. SerialInv' /\ TypeInv /\ SerialInv /\ Removed(v)
  BY SerialStep DEF SerialInv, RemovedInv
<1>2. /\ val[v] \in Validation /\ val \in [Validators -> Validation]
      /\ val[v].srv \in Servers /\ file \in [Servers -> Validators \cup {None}]
      /\ NumServers \in Int /\ \A s \in Servers : s \in Int /\ 1 <= s /\ s <= NumServers
  BY <1>1, ValidationAssumption DEF TypeInv, TypeOK, Validation, Servers
<1>3. ASSUME NEW u \in Validators \ {v} PROVE Removed(u)'
  <2>1. val'[u].pc = "idle"
    BY <1>1, OthersIdle DEF At
  <2>2. QED
    BY <2>1 DEF Removed, At
<1>4. ~CleanSkipped(v) /\ ~CleanFails(v)
  BY DEF CleanSkipped, CleanFails, Fault
<1>5. ASSUME val'[v].pc # "clean_files" PROVE Removed(v)'
  BY <1>5 DEF Removed, At
<1>6. CASE CleanIndex(v)
  <2>1. val'[v] = [val[v] EXCEPT !.pc = "clean_files"] /\ index' = None
    BY <1>2, <1>6 DEF CleanIndex, Goto
  <2>2. val'[v].srv = 1
    BY <1>1, <1>2, <1>6, <2>1 DEF CleanIndex, Ready, At, TypeInv, FirstServer, Validation
  <2>3. Removed(v)'
    BY <1>2, <2>1, <2>2 DEF Removed
  <2>4. val[v].pc = "clean_index"
    BY <1>6 DEF CleanIndex, Ready, At
  <2>5. QED
    BY <1>1, <1>3, <2>3, <2>4 DEF RemovedInv, CleanFiles, At
<1>7. CASE CleanFiles(v)
  <2> DEFINE next == CleanNext(v)
  <2>1. val[v].pc = "clean_files" /\ "idle" \in Steps /\ index' = None /\ val'[v] = next
    BY <1>1, <1>2, <1>7 DEF CleanFiles, Removed, At, Steps
  <2>2. \/ val[v].srv < NumServers /\ next.srv = val[v].srv + 1 /\ next.pc = "clean_files"
        \/ val[v].srv = NumServers /\ next.srv = 1 /\ next.pc = "idle"
    BY <1>1, <2>1, NextServerType DEF CleanNext
  <2>3. \A s \in Servers : s <= val[v].srv => file'[s] = None
    <3>1. \A s \in Servers : file'[s] = IF s = val[v].srv THEN None ELSE file[s]
      BY <1>2, <1>7 DEF CleanFiles
    <3>2. \A s \in Servers : s < val[v].srv => file[s] = None
      BY <1>1, <2>1 DEF Removed, At
    <3>3. QED
      BY <1>2, <3>1, <3>2
  <2>4. Removed(v)'
    BY <1>2, <2>1, <2>2, <2>3 DEF Removed, At
  <2>5. val'[v].pc = "idle" => Clean'
    BY <1>2, <2>1, <2>2, <2>3 DEF Clean
  <2>6. QED
    BY <1>1, <1>3, <2>4, <2>5 DEF RemovedInv
<1>8. CASE ~CleanIndex(v) /\ ~CleanFiles(v)
  <2>1. val'[v].pc # "clean_files"
    <3>1. ASSUME NEW pc \in Steps, Goto(v, pc) PROVE val'[v].pc = pc
      <4>1. val'[v] = [val[v] EXCEPT !.pc = pc]
        BY <1>2, <3>1 DEF Goto
      <4>2. QED
        BY <1>2, <4>1 DEF Validation
    <3>2. CASE Start(v) \/ Crash(v)
      <4>1. val'[v] = Idle \/ val'[v] = [Idle EXCEPT !.pc = "load"]
        BY <1>2, <3>2 DEF Start, Crash
      <4>2. QED
        BY <4>1, IdleType DEF Validation
    <3>3. CASE Load(v) \/ ExistsTemplate(v) \/ PutTemplate(v) \/ ExistsIndex(v) \/ DeleteIndex(v)
      <4>1. \E pc \in Steps \ {"clean_files"} : Goto(v, pc)
        BY <3>3 DEF Load, ExistsTemplate, PutTemplate, ExistsIndex, AfterExists, DeleteIndex, Steps
      <4>2. QED
        BY <3>1, <4>1
    <3>4. CASE Upload(v)
      <4>1. "template" \in Steps /\ val[v].pc = "upload" /\ val'[v] = NextServer(v, "template")
        BY <1>2, <3>4 DEF Upload, At, Steps
      <4>2. QED
        BY <1>1, <4>1, NextServerType
    <3>5. CASE CreateIndex(v) \/ Analyze(v)
      <4>1. \/ Goto(v, "analyze") \/ val'[v] = Failed(v)
            \/ index # None /\ val'[v] = Analyzed(v) /\ val[v].pc = "analyze"
        BY <1>2, <3>5 DEF CreateIndex, Analyze, Ready, At
      <4>2. QED
        BY <1>1, <3>1, <4>1, FailedType, AnalyzedType DEF Steps
    <3>6. CASE UploadFails(v)
      <4>1. val'[v] = [val[v] EXCEPT !.verdict = "FAILED", !.pc = "idle", !.hurt = TRUE]
        BY <1>2, <3>6 DEF UploadFails
      <4>2. QED
        BY <1>2, <4>1 DEF Validation
    <3>7. CASE ElasticsearchFails(v)
      <4>1. val'[v] = [Failed(v) EXCEPT !.hurt = TRUE]
        BY <1>2, <3>7 DEF ElasticsearchFails
      <4>2. QED
        BY <1>1, <4>1, FailedType DEF Validation
    <3>8. QED
      BY <1>4, <1>8, <3>2, <3>3, <3>4, <3>5, <3>6, <3>7 DEF StepOf, Proceed
  <2>2. QED
    BY <1>1, <1>3, <1>5, <1>8, <2>1 DEF RemovedInv
<1>9. QED
  BY <1>6, <1>7, <1>8

(* Whatever validations before it have left, failed, crashed or broken off:  *)
(* when one that does not overlap another comes to the end of its clean-up,  *)
(* and no removal failed, there is no test index and no test file on any     *)
(* server.                                                                   *)
THEOREM ValidationLeavesNothing ==
  ASSUME ~Overlap, "cleanup" \notin FaultKinds
  PROVE  Spec => [][\A v \in Validators : CleanFiles(v) /\ val'[v].pc = "idle" => Clean']_vars
<1> DEFINE Leaves == \A v \in Validators : CleanFiles(v) /\ val'[v].pc = "idle" => Clean'
<1>1. Init => RemovedInv
  <2> SUFFICES ASSUME Init PROVE RemovedInv
    OBVIOUS
  <2>1. \A v \in Validators : val[v].pc = "idle"
    BY IdleType DEF Init
  <2>2. QED
    BY <2>1, SerialInit DEF RemovedInv, Removed, At
<1>2. RemovedInv /\ [Next]_vars => RemovedInv'
  <2>1. RemovedInv /\ UNCHANGED vars => RemovedInv'
    BY DEF vars, RemovedInv, Removed, SerialInv, TypeInv, TypeOK, FirstServer, OneRuns, Own, At
  <2>2. QED
    BY <2>1, RemovedStep, NextSteps
<1>3. RemovedInv /\ [Next]_vars => [Leaves]_vars
  <2>1. ASSUME RemovedInv, NEW v \in Validators, CleanFiles(v), val'[v].pc = "idle" PROVE Clean'
    <3>1. StepOf(v)
      BY <2>1 DEF StepOf, Proceed
    <3>2. QED
      BY <2>1, <3>1, RemovedStep
  <2>2. QED
    BY <2>1
<1>4. QED
  BY <1>1, <1>2, <1>3, PTL DEF Spec

-----------------------------------------------------------------------------
(* Every validation comes to an end.                                         *)

(* How many steps a validation has ahead of it at most. *)
Ahead(me) ==
  CASE me.pc = "idle"        -> 0
    [] me.pc = "clean_files" -> NumServers - me.srv + 1
    [] me.pc = "clean_index" -> NumServers + 1
    [] me.pc = "analyze"     -> NumServers + NumWords - me.word + 2
    [] me.pc = "create"      -> NumServers + NumWords + 2
    [] me.pc = "delete"      -> NumServers + NumWords + 3
    [] me.pc = "exists"      -> NumServers + NumWords + 4
    [] me.pc = "put"         -> NumServers + NumWords + 5
    [] me.pc = "template"    -> NumServers + NumWords + 6
    [] me.pc = "upload"      -> 2 * NumServers + NumWords - me.srv + 7
    [] me.pc = "load"        -> 2 * NumServers + NumWords + 7

LEMMA AheadIs ==
  ASSUME NEW me \in Validation
  PROVE  /\ Ahead(me) \in Nat
         /\ me.pc = "idle" => Ahead(me) = 0
         /\ me.pc = "clean_files" => Ahead(me) = NumServers - me.srv + 1
         /\ me.pc = "clean_index" => Ahead(me) = NumServers + 1
         /\ me.pc = "analyze" => Ahead(me) = NumServers + NumWords - me.word + 2
         /\ me.pc = "create" => Ahead(me) = NumServers + NumWords + 2
         /\ me.pc = "delete" => Ahead(me) = NumServers + NumWords + 3
         /\ me.pc = "exists" => Ahead(me) = NumServers + NumWords + 4
         /\ me.pc = "put" => Ahead(me) = NumServers + NumWords + 5
         /\ me.pc = "template" => Ahead(me) = NumServers + NumWords + 6
         /\ me.pc = "upload" => Ahead(me) = 2 * NumServers + NumWords - me.srv + 7
         /\ me.pc = "load" => Ahead(me) = 2 * NumServers + NumWords + 7
         /\ me.pc # "idle" => Ahead(me) > 0
<1>1. /\ NumServers \in Nat \ {0} /\ NumWords \in Nat \ {0}
      /\ me.srv \in 1 .. NumServers /\ me.word \in 1 .. NumWords /\ me.pc \in Steps
  BY ValidationAssumption DEF Validation, Servers
<1>2. QED
  BY <1>1 DEF Ahead, Steps

(* The next sample word is one more, and there are no more than NumWords. *)
LEMMA AnalyzedWord ==
  ASSUME TypeInv, NEW v \in Validators, val[v].pc = "analyze"
  PROVE  \/ Analyzed(v).pc = "clean_index"
         \/ Analyzed(v).pc = "analyze" /\ Analyzed(v).word = val[v].word + 1
<1> DEFINE me == [val[v] EXCEPT !.tested = @ \cup {index[s] : s \in Servers}]
<1>1. val[v] \in Validation
  BY DEF TypeInv, TypeOK
<1>2. /\ me.word = val[v].word /\ me.pc = val[v].pc
      /\ me = [me EXCEPT !.pc = me.pc]
      /\ [me EXCEPT !.word = @ + 1].word = me.word + 1
      /\ [me EXCEPT !.word = @ + 1].pc = me.pc
      /\ [me EXCEPT !.verdict = "SUCCESS", !.pc = "clean_index"].pc = "clean_index"
  BY <1>1 DEF Validation
<1>3. \/ Analyzed(v) = [me EXCEPT !.word = @ + 1]
      \/ Analyzed(v) = [me EXCEPT !.verdict = "SUCCESS", !.pc = "clean_index"]
  BY DEF Analyzed
<1>4. QED
  BY <1>2, <1>3

LEMMA AdvanceStep ==
  ASSUME TypeInv, NEW v \in Validators, ~At(v, "idle"), StepOf(v)
  PROVE  Ahead(val'[v]) \in Nat /\ Ahead(val'[v]) < Ahead(val[v])
<1>1. /\ val[v] \in Validation /\ val \in [Validators -> Validation]
      /\ val'[v] \in Validation /\ val[v].pc # "idle"
  BY TypeStep DEF TypeInv, TypeOK, At
<1>2. /\ NumServers \in Nat \ {0} /\ NumWords \in Nat \ {0}
      /\ val[v].srv \in 1 .. NumServers /\ val[v].word \in 1 .. NumWords
      /\ val'[v].srv \in 1 .. NumServers /\ val'[v].word \in 1 .. NumWords
  BY <1>1, ValidationAssumption DEF Validation, Servers
<1>3. Ahead(val[v]) \in Nat /\ Ahead(val'[v]) \in Nat /\ Ahead(val[v]) > 0
  BY <1>1, AheadIs
<1>4. ASSUME NEW pc \in Steps, Goto(v, pc)
      PROVE  val'[v].pc = pc /\ val'[v].srv = val[v].srv /\ val'[v].word = val[v].word
  <2>1. val'[v] = [val[v] EXCEPT !.pc = pc]
    BY <1>1, <1>4 DEF Goto
  <2>2. QED
    BY <1>1, <2>1 DEF Validation
<1>5. CASE val'[v].pc = "idle"
  BY <1>1, <1>3, <1>5, AheadIs
<1>6. CASE Load(v)
  <2>1. val[v].pc = "load" /\ val'[v].pc = "upload"
    BY <1>4, <1>6 DEF Load, Ready, At, Steps
  <2>2. QED
    BY <1>1, <1>2, <2>1, AheadIs
<1>7. CASE Upload(v)
  <2>1. "template" \in Steps /\ val[v].pc = "upload" /\ val'[v] = NextServer(v, "template")
    BY <1>1, <1>7 DEF Upload, At, Steps
  <2>2. \/ val'[v].srv = val[v].srv + 1 /\ val'[v].pc = "upload"
        \/ val'[v].pc = "template"
    BY <2>1, NextServerType
  <2>3. QED
    BY <1>1, <1>2, <2>1, <2>2, AheadIs
<1>8. CASE ExistsTemplate(v)
  <2>1. val[v].pc = "template" /\ val'[v].pc \in {"put", "exists"}
    BY <1>4, <1>8 DEF ExistsTemplate, Ready, At, Steps
  <2>2. QED
    BY <1>1, <1>2, <2>1, AheadIs
<1>9. CASE PutTemplate(v)
  <2>1. val[v].pc = "put" /\ val'[v].pc = "exists"
    BY <1>4, <1>9 DEF PutTemplate, Ready, At, Steps
  <2>2. QED
    BY <1>1, <1>2, <2>1, AheadIs
<1>10. CASE ExistsIndex(v)
  <2>1. val[v].pc = "exists" /\ val'[v].pc \in {"create", "delete"}
    BY <1>4, <1>10 DEF ExistsIndex, AfterExists, Ready, At, Steps
  <2>2. QED
    BY <1>1, <1>2, <2>1, AheadIs
<1>11. CASE DeleteIndex(v)
  <2>1. val[v].pc = "delete" /\ val'[v].pc = "create"
    BY <1>4, <1>11 DEF DeleteIndex, Ready, At, Steps
  <2>2. QED
    BY <1>1, <1>2, <2>1, AheadIs
<1>12. CASE CreateIndex(v) \/ Analyze(v)
  <2>1. val[v].pc \in {"create", "analyze"}
    BY <1>12 DEF CreateIndex, Analyze, Ready, At
  <2>2. \/ val[v].pc = "create" /\ val'[v].pc = "analyze"
        \/ val'[v].pc = "clean_index" \/ val'[v].pc = "idle"
        \/ val[v].pc = "analyze" /\ val'[v].pc = "analyze" /\ val'[v].word = val[v].word + 1
    <3>1. \/ Goto(v, "analyze") /\ val[v].pc = "create"
          \/ val'[v] = Failed(v)
          \/ val'[v] = Analyzed(v) /\ val[v].pc = "analyze"
      BY <1>1, <1>12 DEF CreateIndex, Analyze, Ready, At
    <3>2. Failed(v).pc \in {"clean_index", "idle"}
      BY FailedType
    <3>3. QED
      BY <1>4, <3>1, <3>2, AnalyzedWord DEF Steps
  <2>3. QED
    BY <1>1, <1>2, <2>1, <2>2, AheadIs
<1>13. CASE CleanIndex(v) \/ (CleanSkipped(v) /\ Ready(v, "clean_index") /\ Goto(v, "clean_files"))
  <2>1. val[v].pc = "clean_index" /\ val'[v].pc = "clean_files"
    BY <1>4, <1>13 DEF CleanIndex, Ready, At, Steps
  <2>2. QED
    BY <1>1, <1>2, <2>1, AheadIs
<1>14. CASE At(v, "clean_files") /\ val' = [val EXCEPT ![v] = CleanNext(v)]
  <2>1. "idle" \in Steps /\ val[v].pc = "clean_files" /\ val'[v] = NextServer(v, "idle")
    BY <1>1, <1>14 DEF CleanNext, At, Steps
  <2>2. \/ val'[v].srv = val[v].srv + 1 /\ val'[v].pc = "clean_files"
        \/ val'[v].pc = "idle"
    BY <2>1, NextServerType
  <2>3. QED
    BY <1>1, <1>2, <1>5, <2>1, <2>2, AheadIs
<1>15. CASE CleanFiles(v) \/ CleanSkipped(v)
  BY <1>13, <1>14, <1>15 DEF CleanFiles, CleanSkipped
<1>16. CASE UploadFails(v) \/ CleanFails(v)
  <2>1. val'[v] = [val[v] EXCEPT !.verdict = "FAILED", !.pc = "idle", !.hurt = TRUE]
    BY <1>1, <1>16 DEF UploadFails, CleanFails
  <2>2. QED
    BY <1>1, <1>5, <2>1 DEF Validation
<1>17. CASE ElasticsearchFails(v)
  <2>1. val[v].pc \in Later
    BY <1>17 DEF ElasticsearchFails, Ready, At, Later
  <2>2. val'[v] = [Failed(v) EXCEPT !.hurt = TRUE]
    BY <1>1, <1>17 DEF ElasticsearchFails
  <2>3. val'[v].pc \in {"clean_index", "idle"}
    BY <2>2, FailedType DEF Validation
  <2>4. QED
    BY <1>1, <1>2, <1>5, <2>1, <2>3, AheadIs DEF Later
<1>18. CASE Crash(v)
  BY <1>1, <1>5, <1>18, IdleType DEF Crash
<1>19. ~Start(v)
  BY DEF Start
<1>20. QED
  BY <1>6, <1>7, <1>8, <1>9, <1>10, <1>11, <1>12, <1>13, <1>15, <1>16, <1>17, <1>18, <1>19
     DEF StepOf, Proceed

(* Every step of a validation, a fault of its own included, brings it nearer *)
(* to its end, and no step of another moves it: however many overlap, each   *)
(* takes at most 2 * NumServers + NumWords + 7 steps, and none goes round in *)
(* circles.                                                                  *)
THEOREM ValidationsAdvance ==
  Spec => [][\A v \in Validators :
               ~At(v, "idle") /\ (Proceed(v) \/ val'[v] # val[v]) =>
                 Ahead(val'[v]) \in Nat /\ Ahead(val'[v]) < Ahead(val[v])]_vars
<1> DEFINE Advances ==
      \A v \in Validators :
        ~At(v, "idle") /\ (Proceed(v) \/ val'[v] # val[v]) =>
          Ahead(val'[v]) \in Nat /\ Ahead(val'[v]) < Ahead(val[v])
<1>1. TypeInv /\ [Next]_vars => [Advances]_vars
  <2>1. ASSUME TypeInv, Next, NEW v \in Validators, ~At(v, "idle"),
               Proceed(v) \/ val'[v] # val[v]
        PROVE  Ahead(val'[v]) \in Nat /\ Ahead(val'[v]) < Ahead(val[v])
    <3>1. StepOf(v)
      <4>1. CASE Proceed(v)
        BY <4>1 DEF StepOf
      <4>2. CASE val'[v] # val[v]
        <5>1. PICK u \in Validators : StepOf(u)
          BY <2>1, NextSteps
        <5>2. u = v
          BY <2>1, <4>2, <5>1, Others
        <5>3. QED
          BY <5>1, <5>2
      <4>3. QED
        BY <2>1, <4>1, <4>2
    <3>2. QED
      BY <2>1, <3>1, AdvanceStep
  <2>2. QED
    BY <2>1
<1>2. QED
  BY <1>1, TypeAlways, PTL DEF Spec
=============================================================================
