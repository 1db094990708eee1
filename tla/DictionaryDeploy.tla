-------------------------- MODULE DictionaryDeploy --------------------------
(***************************************************************************)
(* Publishing the dictionaries: the pipeline of dictionary_deploy_service  *)
(* over the collections of DictionaryStore, which editors keep changing.   *)
(*                                                                         *)
(* A publish validates what it reads from MongoDB, reads again, backs up   *)
(* and replaces the dictionary files of every search server over SFTP and  *)
(* then marks the entries it had read as APPROVED as APPLIED.  The service *)
(* has it twice: "block" is publish_dictionaries, "stream" is              *)
(* publish_dictionaries_generator, which reports each step to a browser.   *)
(*                                                                         *)
(* A worker is one process with one asyncio loop.  SSH calls are           *)
(* synchronous and hold the loop of their worker; calls to MongoDB run on  *)
(* the driver's own threads and are not held up by a busy loop.  What      *)
(* validation does on the search servers is the module DictionaryValidation*)
(***************************************************************************)
EXTENDS DictionaryStore

CONSTANTS
  Publishers,       \* the publish requests that can run together
  Workers,          \* the processes of the application
  WorkerOf,         \* the worker a publish request is served by
  Kinds,            \* the variants in use: a subset of {"block", "stream"}
  NumServers,       \* the search servers, 1 .. NumServers in the order of the settings
  NumFiles,         \* the dictionary files, 1 .. NumFiles in the order they are sent
  FileOf,           \* the file the lines of a collection go to
  CollectionSeq,    \* the collections in the order they are read
  Lineless,         \* Lineless[k]: the contents with which an entry of key k gives no line
  Unkeyed,          \* the empty keys: "" and the empty synonym group
  NoFolder,         \* the servers whose backup folder may be missing and impossible to make
  EditsWhilePublishing, \* editors do not wait for a publish to end
  Missing, Torn,    \* a file that does not exist; one that was not written to its end
  MaxFaults,        \* bound on failures, crashes and disconnects
  MaxTime           \* bound on the clock of the backup names, in seconds

Servers == 1 .. NumServers
Files   == 1 .. NumFiles

Line == [key : Keys, content : AllContents]

ASSUME DeployAssumption ==
  /\ WorkerOf \in [Publishers -> Workers]
  /\ Kinds \subseteq {"block", "stream"}
  /\ NumServers \in Nat \ {0} /\ NumFiles \in Nat \ {0}
  /\ FileOf \in [Collections -> Files]
  /\ CollectionSeq \in Seq(Collections) /\ Len(CollectionSeq) > 0
  /\ \A c \in Collections : \E i \in DOMAIN CollectionSeq : CollectionSeq[i] = c
  /\ Lineless \in [Keys -> SUBSET AllContents]
  /\ \A k \in Unkeyed \cap Keys : Lineless[k] = AllContents
  /\ NoFolder \subseteq Servers
  /\ EditsWhilePublishing \in BOOLEAN
  /\ Missing # Torn /\ \A L \in SUBSET Line : L # Missing /\ L # Torn
  /\ MaxFaults \in Nat /\ MaxTime \in Nat \ {0}

FileContent == (SUBSET Line) \cup {Missing, Torn}

VARIABLES
  pub,      \* the progress of each publish request
  live,     \* live[s][f]: the dictionary file f that server s uses
  backup,   \* backup[s][f][t]: the backup of f named after second t
  clock,    \* the current second
  faults    \* how many failures there have been

deployVars == <<pub, live, backup, clock, faults>>
vars == <<docs, creates, pub, live, backup, clock, faults>>

Publish == [pc : {"idle", "read", "validate", "loaded", "stamped", "ship", "backed", "sync"},
            kind : {"block", "stream"}, phase : {"validate", "publish"},
            coll : 1 .. Len(CollectionSeq), half : {"approved", "applied"},
            approved : SUBSET Keys, lines : SUBSET Line, checked : SUBSET Line,
            op : {"backup", "upload"}, srv : Servers, file : Files, stamp : 0 .. MaxTime]

Idle == [pc |-> "idle", kind |-> "block", phase |-> "validate", coll |-> 1,
         half |-> "approved", approved |-> {}, lines |-> {}, checked |-> {},
         op |-> "backup", srv |-> 1, file |-> 1, stamp |-> 0]

Init ==
  /\ StoreInit
  /\ pub = [p \in Publishers |-> Idle]
  /\ live = [s \in Servers |-> [f \in Files |-> Missing]]
  /\ backup = [s \in Servers |-> [f \in Files |-> [t \in 1 .. MaxTime |-> Missing]]]
  /\ clock = 1
  /\ faults = 0

-----------------------------------------------------------------------------
Start(p, kind) ==
  /\ pub[p].pc = "idle"
  /\ pub' = [pub EXCEPT ![p] = [Idle EXCEPT !.pc = "read", !.kind = kind]]
  /\ UNCHANGED <<storeVars, live, backup, clock, faults>>

(* _get_all_dictionary_lines: for each collection the APPROVED entries and   *)
(* then, in a second query, the APPLIED ones.  A blank word, an empty list of*)
(* components or corrections and a blank synonym group give no line.         *)
LineOf(d) == [key |-> d.key, content |-> d.content]

GivesLine(d) == d.content \notin Lineless[d.key]

Query(c, st) == {LineOf(docs[i]) : i \in {j \in ByStatus(c, st) : GivesLine(docs[j])}}

(* The entries noted for the update of their status, whether or not they give*)
(* a line.                                                                   *)
Noted(c, st) == IF st = "APPROVED" THEN {docs[i].key : i \in ByStatus(c, st)} ELSE {}

(* Mutants: the APPLIED entries are asked for first; they are forgotten. *)
SwappedStatus(half) == IF half = "approved" THEN "APPLIED" ELSE "APPROVED"

ApprovedOnly(half) == "APPROVED"

StatusOf(half) == IF half = "approved" THEN "APPROVED" ELSE "APPLIED"

Read(p) ==
  LET me   == pub[p]
      c    == CollectionSeq[me.coll]
      keep == [me EXCEPT !.lines    = @ \cup Query(c, StatusOf(me.half)),
                         !.approved = @ \cup Noted(c, StatusOf(me.half))]
  IN  /\ me.pc = "read"
      /\ pub' = [pub EXCEPT ![p] =
           CASE me.half = "approved" -> [keep EXCEPT !.half = "applied"]
             [] me.half = "applied" /\ me.coll < Len(CollectionSeq) ->
                  [keep EXCEPT !.half = "approved", !.coll = @ + 1]
             [] me.half = "applied" /\ me.coll = Len(CollectionSeq) ->
                  [keep EXCEPT !.half = "approved", !.coll = 1,
                               !.pc = IF me.phase = "validate" THEN "validate" ELSE "loaded"]]
      /\ UNCHANGED <<storeVars, live, backup, clock, faults>>

(* The validation of what was read passes, and everything is read again. *)
Validated(p) ==
  /\ pub[p].pc = "validate"
  /\ pub' = [pub EXCEPT ![p] = [@ EXCEPT !.pc = "read", !.phase = "publish",
                                         !.checked = pub[p].lines,
                                         !.lines = {}, !.approved = {}]]
  /\ UNCHANGED <<storeVars, live, backup, clock, faults>>

-----------------------------------------------------------------------------
(* The SSH segments: from the first backup to the last upload in "block",    *)
(* all backups and then, after two reports, all uploads in "stream".         *)
(* Mutants: a worker serves other requests while it waits for SSH; a publish *)
(* that reports its progress is in its own way.                              *)
NeverBusy(w) == FALSE

BusyReporting(w) ==
  \E q \in Publishers : WorkerOf[q] = w /\ pub[q].pc \in {"stamped", "backed", "ship"}

Busy(w) == \E q \in Publishers : WorkerOf[q] = w /\ pub[q].pc = "ship"

(* The backup names are fixed when the lines are loaded; "block" goes on at  *)
(* once, "stream" reports first.                                             *)
Stamp(p) ==
  /\ pub[p].pc = "loaded" /\ ~Busy(WorkerOf[p])
  /\ pub' = [pub EXCEPT ![p].stamp = clock,
                        ![p].pc = IF pub[p].kind = "block" THEN "ship" ELSE "stamped"]
  /\ UNCHANGED <<storeVars, live, backup, clock, faults>>

(* "stream" enters its backup segment, and later its upload segment. *)
Resume(p) ==
  /\ pub[p].pc \in {"stamped", "backed"} /\ ~Busy(WorkerOf[p])
  /\ pub' = [pub EXCEPT ![p].pc = "ship"]
  /\ UNCHANGED <<storeVars, live, backup, clock, faults>>

(* Mutants: one file too many; the statuses after the first server. *)
AdvanceTooFar(me) ==
  IF me.file <= NumFiles THEN [me EXCEPT !.file = @ + 1] ELSE [me EXCEPT !.pc = "sync"]

AdvanceFirstServer(me) ==
  CASE me.file < NumFiles -> [me EXCEPT !.file = @ + 1]
    [] me.file = NumFiles /\ me.op = "backup" -> [me EXCEPT !.file = 1, !.op = "upload"]
    [] me.file = NumFiles /\ me.op = "upload" -> [me EXCEPT !.pc = "sync"]

(* The operation after the current one: "block" backs up and replaces the    *)
(* files of one server before it turns to the next, "stream" goes through    *)
(* all servers twice.                                                        *)
Advance(me) ==
  LET last == me.file = NumFiles
      next == [me EXCEPT !.file = 1]
      turn == me.kind = "block" /\ me.op = "backup"
  IN  CASE ~last -> [me EXCEPT !.file = @ + 1]
        [] last /\ turn -> [next EXCEPT !.op = "upload"]
        [] last /\ ~turn /\ me.srv < NumServers ->
             [next EXCEPT !.srv = @ + 1, !.op = IF me.kind = "block" THEN "backup" ELSE @]
        [] last /\ ~turn /\ me.srv = NumServers ->
             IF me.op = "backup" THEN [next EXCEPT !.srv = 1, !.op = "upload", !.pc = "backed"]
             ELSE [me EXCEPT !.pc = "sync"]

(* The lines that go to one file, deduplicated. *)
Section(lines, f) == {l \in lines : FileOf[CollectionOf[l.key]] = f}

AtOp(p, op) == pub[p].pc = "ship" /\ pub[p].op = op

(* What is backed up is the file as it is; a missing file is skipped.  So is,*)
(* in both variants, a file whose backup cannot be opened because there is no*)
(* folder for it: mkdir's error is passed over and the FileNotFoundError of  *)
(* the backup is taken for that of a missing file.                           *)
Skipped(me) == live[me.srv][me.file] = Missing \/ me.srv \in NoFolder

Copied(me) == [backup EXCEPT ![me.srv][me.file][me.stamp] = live[me.srv][me.file]]

BackUp(p) ==
  LET me == pub[p] IN
  /\ AtOp(p, "backup")
  /\ \/ live[me.srv][me.file] # Missing /\ backup' = Copied(me)
     \/ Skipped(me) /\ backup' = backup
  /\ pub' = [pub EXCEPT ![p] = Advance(me)]
  /\ UNCHANGED <<storeVars, live, clock, faults>>

Upload(p) ==
  LET me == pub[p] IN
  /\ AtOp(p, "upload")
  /\ live' = [live EXCEPT ![me.srv][me.file] = Section(me.lines, me.file)]
  /\ pub' = [pub EXCEPT ![p] = Advance(me)]
  /\ UNCHANGED <<storeVars, backup, clock, faults>>

(* update_status for each entry read as APPROVED, an empty key passed over.  *)
Sync(p, k) ==
  /\ pub[p].pc = "sync" /\ k \in pub[p].approved
  /\ IF k \in Unkeyed THEN UNCHANGED docs ELSE SetStatus(k, "APPLIED")
  /\ pub' = [pub EXCEPT ![p].approved = @ \ {k}]
  /\ UNCHANGED <<creates, live, backup, clock, faults>>

Finish(p) ==
  /\ pub[p].pc = "sync" /\ pub[p].approved = {}
  /\ pub' = [pub EXCEPT ![p] = Idle]
  /\ UNCHANGED <<storeVars, live, backup, clock, faults>>

-----------------------------------------------------------------------------
(* A failed validation, a failed call to MongoDB or a failed connection, a   *)
(* closed browser, a crash of the worker: the request is over and what it    *)
(* has done so far stays.                                                    *)
Fault == faults < MaxFaults /\ faults' = faults + 1

Fail(p) ==
  /\ pub[p].pc # "idle" /\ Fault
  /\ pub' = [pub EXCEPT ![p] = Idle]
  /\ UNCHANGED <<storeVars, live, backup, clock>>

(* Mutant: a failed upload is only logged. *)
FailedUploadLogged(me) == Advance(me)

AfterFailedUpload(me) == Idle

(* A failure in the middle of an upload leaves the file truncated. *)
UploadFails(p) ==
  /\ AtOp(p, "upload") /\ Fault
  /\ live' = [live EXCEPT ![pub[p].srv][pub[p].file] = Torn]
  /\ pub' = [pub EXCEPT ![p] = AfterFailedUpload(@)]
  /\ UNCHANGED <<storeVars, backup, clock>>

(* Mutant: "stream" goes on as well. *)
FailedBackupLogged(me) == Advance(me)

(* A backup that fails, for want of anything but its folder, ends a "stream";*)
(* "block" logs a warning and goes on.                                       *)
AfterFailedBackup(me) == IF me.kind = "block" THEN Advance(me) ELSE Idle

BackupFails(p) ==
  LET me == pub[p] IN
  /\ AtOp(p, "backup") /\ Fault
  /\ live[me.srv][me.file] # Missing
  /\ backup' \in {backup, [backup EXCEPT ![me.srv][me.file][me.stamp] = Torn]}
  /\ pub' = [pub EXCEPT ![p] = AfterFailedBackup(me)]
  /\ UNCHANGED <<storeVars, live, clock>>

Tick == clock < MaxTime /\ clock' = clock + 1 /\ UNCHANGED <<storeVars, pub, live, backup, faults>>

Quiet == \A p \in Publishers : pub[p].pc = "idle"

EditorStep ==
  /\ EditsWhilePublishing \/ Quiet
  /\ StoreNext
  /\ UNCHANGED deployVars

Proceed(p) ==
  \/ Read(p) \/ Validated(p) \/ Stamp(p) \/ Resume(p) \/ BackUp(p) \/ Upload(p)
  \/ \E k \in Keys : Sync(p, k)
  \/ Finish(p)

Next ==
  \/ EditorStep
  \/ \E p \in Publishers, kind \in Kinds : Start(p, kind)
  \/ \E p \in Publishers : Proceed(p)
  \/ \E p \in Publishers : Fail(p) \/ UploadFails(p) \/ BackupFails(p)
  \/ Tick

Spec == Init /\ [][Next]_vars

(* An admin who publishes until it is done, and an event loop that runs      *)
(* ready coroutines in turn: a publish that can go on again and again, when  *)
(* the worker is not busy with another, does.                                *)
Fairness ==
  \A p \in Publishers :
    /\ WF_vars(\E kind \in Kinds : Start(p, kind))
    /\ SF_vars(Proceed(p))

FairSpec == Spec /\ Fairness

-----------------------------------------------------------------------------
(* The progress of a publish, the files and the backups have the shape the   *)
(* pipeline gives them.                                                      *)
DeployTypeOK ==
  /\ TypeOK
  /\ pub \in [Publishers -> Publish]
  /\ live \in [Servers -> [Files -> FileContent]]
  /\ backup \in [Servers -> [Files -> [1 .. MaxTime -> FileContent]]]
  /\ clock \in 1 .. MaxTime
  /\ faults \in 0 .. MaxFaults

(* An entry that gives a line is marked APPLIED only when it is served: its  *)
(* line, as the entry stands in MongoDB, is in the file of every server,     *)
(* except where a failed upload has truncated that file.  (An entry that     *)
(* gives no line is marked APPLIED all the same, and no file has it.)        *)
AppliedServed ==
  \A i \in Active : docs[i].status = "APPLIED" /\ GivesLine(docs[i]) =>
    \A s \in Servers :
      LET content == live[s][FileOf[CollectionOf[docs[i].key]]]
      IN  content = Torn \/ (content # Missing /\ LineOf(docs[i]) \in content)

(* A publish ships exactly the lines its validation passed. *)
ShippedWasValidated ==
  \A p \in Publishers :
    pub[p].pc \in {"stamped", "ship", "backed", "sync"} => pub[p].lines = pub[p].checked

(* Statuses are synchronised only when every server has every file of the    *)
(* publish: no partial deployment is ever recorded as applied.               *)
SyncedEverywhere ==
  \A p \in Publishers : pub[p].pc = "sync" =>
    \A s \in Servers, f \in Files : live[s][f] = Section(pub[p].lines, f)

(* Without failures all servers have the same files whenever no publish is   *)
(* in an SSH segment, whichever publishes overlap.                           *)
ServersAgree ==
  (faults = 0 /\ \A p \in Publishers : pub[p].pc # "ship") =>
    \A s, t \in Servers, f \in Files : live[s][f] = live[t][f]

(* A publish replaces or truncates a file only when a backup has what the    *)
(* file contained, so that a failed deployment can be rolled back: nothing   *)
(* but a missing backup folder may stand in the way.                         *)
BackedUpBy(kind) ==
  \A p \in Publishers, s \in Servers \ NoFolder, f \in Files :
    /\ pub[p].kind = kind /\ pub'[p] # pub[p]
    /\ live'[s][f] # live[s][f] /\ live[s][f] # Missing
    => \E t \in 1 .. MaxTime : backup[s][f][t] = live[s][f]

(* The variant that reports its progress holds to that, whatever fails, on   *)
(* every server that has its backup folder or lets it be made; it tells the  *)
(* browser that all servers are backed up on the others too.                 *)
StreamBacksUp == [][BackedUpBy("stream")]_vars

(* Only an APPROVED entry becomes APPLIED. *)
AppliedFromApproved ==
  [][\A i \in DOMAIN docs :
       docs'[i].status = "APPLIED" => docs[i].status \in {"APPROVED", "APPLIED"}]_vars

(* The entries live the life of DictionaryLifecycle. *)
LifeOf(k) ==
  LET hit == Same(k) \cap Active IN IF hit = {} THEN "NONE" ELSE docs[First(hit)].status

Life == INSTANCE DictionaryLifecycle WITH life <- [k \in Keys |-> LifeOf(k)]

EntriesLive == Life!Spec

(* Once the editors stop, retried publishes bring everything in line although*)
(* some of them fail half-way: no entry is left APPROVED, one of an empty key*)
(* excepted, and every file of every server has the lines of the APPLIED     *)
(* entries and nothing else, for good.                                       *)
Settled ==
  \A c \in Collections :
    /\ \A i \in ByStatus(c, "APPROVED") : docs[i].key \in Unkeyed
    /\ \A s \in Servers :
         live[s][FileOf[c]] =
           UNION {Query(d, "APPLIED") : d \in {e \in Collections : FileOf[e] = FileOf[c]}}

Converges == <>[][~EditorStep]_vars => <>[]Settled

(* Every publish comes to an end, also when others hold its worker. *)
PublishEnds == \A p \in Publishers : pub[p].pc # "idle" ~> pub[p].pc = "idle"

=============================================================================
