------------------------ MODULE DictionaryValidation ------------------------
(***************************************************************************)
(* Validating the dictionaries: what validate_dictionaries ("block") and   *)
(* validate_dictionaries_generator ("stream") do to the resources that     *)
(* every validation shares, the test files on the search servers, the      *)
(* index template and the test index, which all have fixed names.          *)
(*                                                                         *)
(* The lines a validation puts into its test files are identified with the *)
(* validation that read them, and its three files with one per server.     *)
(* Elasticsearch is external: an index loads, on every server, the file    *)
(* its template names, and cannot be created when it exists already or     *)
(* when a file is not there.                                               *)
(***************************************************************************)
EXTENDS Integers, FiniteSets

CONSTANTS
  Validators,   \* the validation requests
  KindOf,       \* the variant of each: "block" or "stream"
  Overlap,      \* validations may run at the same time
  Workers,      \* the processes of the application
  WorkerOf,     \* the worker a request is served by
  NumServers,   \* the search servers, 1 .. NumServers
  NumWords,     \* how many sample words are analyzed
  Readable,     \* the variant, if any, whose template names the directory of the uploads
  FaultKinds,   \* the faults that can happen
  MaxFaults,    \* bound on their number
  None          \* no file, no template, no index

Servers == 1 .. NumServers
Variants == {"block", "stream"}

ASSUME ValidationAssumption ==
  /\ KindOf \in [Validators -> Variants]
  /\ Overlap \in BOOLEAN
  /\ WorkerOf \in [Validators -> Workers]
  /\ NumServers \in Nat \ {0} /\ NumWords \in Nat \ {0}
  /\ Readable \subseteq Variants /\ Readable # Variants
  /\ FaultKinds \subseteq {"elasticsearch", "upload", "cleanup", "crash"}
  /\ MaxFaults \in Nat
  /\ None \notin Validators /\ None \notin Variants /\ None \notin [Servers -> Validators]

VARIABLES
  val,        \* the progress of each validation
  file,       \* file[s]: the validation whose lines are in the test files of s
  template,   \* the variant that put dictionary_test_template
  index,      \* dictionary_test: what it loaded on each server
  faults      \* the number of faults so far

vars == <<val, file, template, index, faults>>

Steps == {"idle", "load", "upload", "template", "put", "exists", "delete", "create",
          "analyze", "clean_index", "clean_files"}

(* verdict: what the request has answered or will answer; tested: the lines  *)
(* its passed analyses were made with; hurt: a fault has hit this request.   *)
Validation == [pc : Steps, srv : Servers, word : 1 .. NumWords,
               verdict : {"none", "SUCCESS", "FAILED"},
               tested : SUBSET (Validators \cup {None}), hurt : BOOLEAN]

Idle == [pc |-> "idle", srv |-> 1, word |-> 1, verdict |-> "none",
         tested |-> {}, hurt |-> FALSE]

Init ==
  /\ val = [v \in Validators |-> Idle]
  /\ file = [s \in Servers |-> None]
  /\ template = None
  /\ index = None
  /\ faults = 0

At(v, pc) == val[v].pc = pc

Goto(v, pc) == val' = [val EXCEPT ![v].pc = pc]

(* The SSH segments hold the loop of the worker: no other request it serves  *)
(* goes on.  A call another one has under way then takes effect, as modelled,*)
(* before or after the segment; requests of other workers really overlap.    *)
Busy(w) == \E v \in Validators : WorkerOf[v] = w /\ val[v].pc \in {"upload", "clean_files"}

Ready(v, pc) == At(v, pc) /\ ~Busy(WorkerOf[v])

Start(v) ==
  /\ At(v, "idle")
  /\ Overlap \/ \A u \in Validators : At(u, "idle")
  /\ val' = [val EXCEPT ![v] = [Idle EXCEPT !.pc = "load"]]
  /\ UNCHANGED <<file, template, index, faults>>

(* The lines are read from MongoDB, and the upload segment begins. *)
Load(v) ==
  /\ Ready(v, "load")
  /\ Goto(v, "upload")
  /\ UNCHANGED <<file, template, index, faults>>

(* Mutant: one server too many. *)
NextServerTooFar(v, after) ==
  IF val[v].srv <= NumServers THEN [val[v] EXCEPT !.srv = @ + 1]
  ELSE [val[v] EXCEPT !.srv = 1, !.pc = after]

(* The next server of an SSH segment, or the step after its last one. *)
NextServer(v, after) ==
  IF val[v].srv < NumServers THEN [val[v] EXCEPT !.srv = @ + 1]
  ELSE [val[v] EXCEPT !.srv = 1, !.pc = after]

Upload(v) ==
  /\ At(v, "upload")
  /\ file' = [file EXCEPT ![val[v].srv] = v]
  /\ val' = [val EXCEPT ![v] = NextServer(v, "template")]
  /\ UNCHANGED <<template, index, faults>>

-----------------------------------------------------------------------------
(* The Elasticsearch steps.  A step that fails ends the validation; "block"  *)
(* cleans up first, in its finally clause.                                   *)
(* Mutant: the finally clause is missing in "block" as well. *)
FailedAtOnce(v) == [val[v] EXCEPT !.pc = "idle", !.verdict = "FAILED"]

Failed(v) ==
  [val[v] EXCEPT !.verdict = "FAILED",
                 !.pc = IF KindOf[v] = "block" THEN "clean_index" ELSE "idle"]

ExistsTemplate(v) ==
  /\ Ready(v, "template")
  /\ Goto(v, IF template = None THEN "put" ELSE "exists")
  /\ UNCHANGED <<file, template, index, faults>>

PutTemplate(v) ==
  /\ Ready(v, "put")
  /\ template' = KindOf[v]
  /\ Goto(v, "exists")
  /\ UNCHANGED <<file, index, faults>>

(* Mutants: a test index that exists is used as it is; it is not looked for. *)
ReuseExisting(v) == IF index = None THEN "create" ELSE "analyze"

CreateAlways(v) == "create"

AfterExists(v) == IF index = None THEN "create" ELSE "delete"

ExistsIndex(v) ==
  /\ Ready(v, "exists")
  /\ Goto(v, AfterExists(v))
  /\ UNCHANGED <<file, template, index, faults>>

(* delete_index_safe: no error when there is no index. *)
DeleteIndex(v) ==
  /\ Ready(v, "delete")
  /\ index' = None
  /\ Goto(v, "create")
  /\ UNCHANGED <<file, template, faults>>

Creatable == index = None /\ template \in Readable /\ \A s \in Servers : file[s] # None

CreateIndex(v) ==
  /\ Ready(v, "create")
  /\ \/ Creatable /\ index' = file /\ Goto(v, "analyze")
     \/ ~Creatable /\ UNCHANGED index /\ val' = [val EXCEPT ![v] = Failed(v)]
  /\ UNCHANGED <<file, template, faults>>

Analyzed(v) ==
  LET me == [val[v] EXCEPT !.tested = @ \cup {index[s] : s \in Servers}]
  IN  IF me.word < NumWords THEN [me EXCEPT !.word = @ + 1]
      ELSE [me EXCEPT !.verdict = "SUCCESS", !.pc = "clean_index"]

Analyze(v) ==
  /\ Ready(v, "analyze")
  /\ \/ index # None /\ val' = [val EXCEPT ![v] = Analyzed(v)]
     \/ index = None /\ val' = [val EXCEPT ![v] = Failed(v)]
  /\ UNCHANGED <<file, template, index, faults>>

CleanIndex(v) ==
  /\ Ready(v, "clean_index")
  /\ index' = None
  /\ Goto(v, "clean_files")
  /\ UNCHANGED <<file, template, faults>>

(* Mutant: the clean-up stops at the first server. *)
CleanFirstServer(v) == [val[v] EXCEPT !.pc = "idle"]

CleanNext(v) == NextServer(v, "idle")

CleanFiles(v) ==
  /\ At(v, "clean_files")
  /\ file' = [file EXCEPT ![val[v].srv] = None]
  /\ val' = [val EXCEPT ![v] = CleanNext(v)]
  /\ UNCHANGED <<template, index, faults>>

-----------------------------------------------------------------------------
Fault(kind) == kind \in FaultKinds /\ faults < MaxFaults /\ faults' = faults + 1

(* A call to MongoDB or a connection fails, or an upload breaks off: neither *)
(* variant has anything to clean up after it.                                *)
UploadFails(v) ==
  /\ val[v].pc \in {"load", "upload"} /\ Fault("upload")
  /\ val' = [val EXCEPT ![v] = [@ EXCEPT !.verdict = "FAILED", !.pc = "idle", !.hurt = TRUE]]
  /\ file' \in {file, [file EXCEPT ![val[v].srv] = IF At(v, "upload") THEN v ELSE @]}
  /\ UNCHANGED <<template, index>>

ElasticsearchFails(v) ==
  /\ \E pc \in {"template", "put", "exists", "delete", "create", "analyze"} : Ready(v, pc)
  /\ Fault("elasticsearch")
  /\ val' = [val EXCEPT ![v] = [Failed(v) EXCEPT !.hurt = TRUE]]
  /\ UNCHANGED <<file, template, index>>

(* Deleting the index or a file fails and is only logged. *)
CleanSkipped(v) ==
  /\ Fault("cleanup")
  /\ \/ Ready(v, "clean_index") /\ Goto(v, "clean_files")
     \/ At(v, "clean_files") /\ val' = [val EXCEPT ![v] = CleanNext(v)]
  /\ UNCHANGED <<file, template, index>>

(* A server cannot be reached for the clean-up: the request fails, whatever  *)
(* its verdict was.                                                          *)
CleanFails(v) ==
  /\ At(v, "clean_files") /\ Fault("cleanup")
  /\ val' = [val EXCEPT ![v] = [@ EXCEPT !.verdict = "FAILED", !.pc = "idle", !.hurt = TRUE]]
  /\ UNCHANGED <<file, template, index>>

(* A crash of the worker, or a browser that closes the stream. *)
Crash(v) ==
  /\ ~At(v, "idle") /\ Fault("crash")
  /\ val' = [val EXCEPT ![v] = Idle]
  /\ UNCHANGED <<file, template, index>>

Proceed(v) ==
  \/ Load(v) \/ Upload(v) \/ ExistsTemplate(v) \/ PutTemplate(v) \/ ExistsIndex(v)
  \/ DeleteIndex(v) \/ CreateIndex(v) \/ Analyze(v) \/ CleanIndex(v) \/ CleanFiles(v)

Next ==
  \/ \E v \in Validators : Start(v) \/ Proceed(v)
  \/ \E v \in Validators :
       UploadFails(v) \/ ElasticsearchFails(v) \/ CleanSkipped(v) \/ CleanFails(v) \/ Crash(v)

Spec == Init /\ [][Next]_vars

(* The event loop runs a coroutine that is ready, and an admin validates     *)
(* until it succeeds.                                                        *)
Fairness == \A v \in Validators : WF_vars(Proceed(v)) /\ WF_vars(Start(v))

FairSpec == Spec /\ Fairness

-----------------------------------------------------------------------------
TypeOK ==
  /\ val \in [Validators -> Validation]
  /\ file \in [Servers -> Validators \cup {None}]
  /\ template \in Variants \cup {None}
  /\ index \in [Servers -> Validators] \cup {None}
  /\ faults \in 0 .. MaxFaults

(* A validation passes on its own lines: every analysis it counts was made   *)
(* with an index that had, on every server, the lines it had uploaded, and   *)
(* not those another validation, failed or crashed, had left behind.         *)
AnalyzedOwn == \A v \in Validators : val[v].tested \subseteq {v}

(* The template that is kept names files nobody uploads: there is one        *)
(* upload directory, and the variants name their files in different ones.    *)
Misdirected == template \in Variants \ Readable

(* A validation fails only for a fault that hits itself or for the template  *)
(* it found or put: nothing else an earlier one left on the servers or in    *)
(* Elasticsearch makes it fail.                                              *)
FailsOnlyByFault ==
  \A v \in Validators : val[v].verdict = "FAILED" => val[v].hurt \/ Misdirected

(* When no validation runs, nothing of one is left. *)
Clean == index = None /\ \A s \in Servers : file[s] = None

CleanedUp == (\A v \in Validators : At(v, "idle")) => Clean

(* However validations failed or crashed, a later one clears up after them:  *)
(* again and again nothing is left, unless a template that makes all of them *)
(* fail has been put and is kept.                                            *)
CleanAgain == <>Misdirected \/ []<>Clean
=============================================================================
