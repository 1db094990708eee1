# Formal models of the Elasticsearch management tool

This directory holds TLA+ models of the management tool in `src/`, the TLC
configurations that check them on small instances, and proofs, checked with
TLAPS, of what holds for every instance. `PROJECT.json` lists the components,
the runs, the mutants that show each property can fail, the source lines behind
each definition, the disagreements found, the hazards and the theorems.

    tlc -workers 2 -config publish_quiet.cfg MCDeploy.tla     # one run
    tlapm DictionaryStore_proofs.tla                          # the proofs

Contents: 1 the system, 2 the models, 3 the runs, 4 the proofs, 5 known
disagreements, 6 what is not modelled, 7 the plan.

## 1. The system

A FastAPI application that several worker processes can serve. Each worker is
one asyncio event loop; it shares nothing with the others but MongoDB,
Elasticsearch, Prometheus and the search servers it reaches over SSH.

| Component | State it keeps | Operations | Correct when |
|---|---|---|---|
| Dictionary collections (`dictionary_service.py`, `base_mongo_repository.py`) | five MongoDB collections: documents with key fields, `index`, `status`, `approver`, `delete_yn` | create (lookup, then number and insert, or restore), update, delete, list, `update_status`, `get_by_status` | keys and indexes are unique, a deleted key is restored and not stored twice, an approval names its administrator, only a deployment makes an entry APPLIED |
| Validation (`dictionary_deploy_service.py:197, 534`) | on the search servers and in Elasticsearch, under fixed names: test files, index template, test index | `validate_dictionaries`, `validate_dictionaries_generator` | it judges its own lines, fails only for a reason of its own (the template that is there is one), leaves nothing behind |
| Deployment (`dictionary_deploy_service.py:391, 775`) | dictionary files and backups on every search server, statuses in MongoDB | `publish_dictionaries`, `publish_dictionaries_generator` | what is shipped was validated; a partial deployment is never recorded; what is APPLIED is served by every server; replaced files are backed up; retries converge |
| Dictionary endpoints, progress streams (`dictionary_endpoint.py`) | none; one generator per open stream | role and status rules, start of the pipelines, server-sent events | only an ADMIN decides; each stream has one outcome |
| Accounts (`auth_service.py`, `user_repository.py`, `auth_endpoint.py`, `create_admin.py`) | the `users` collection; signed tokens that name a user | login, creation, change and deletion, default administrator at start and by script | one usable account per id, deleted accounts stay out, the last administrator is not lost but to a caller who lost the role while acting |
| Lifespan, connections (`main.py`, `config/connections`) | clients in `app.state` | start, stop | everything opened is closed, also after a partial start |
| Index administration (`indices_service.py`, two mappers) | none (Elasticsearch holds it) | open, close, delete, list, placement of shards | an action is refused on the indices it must not touch; each copy of a shard is placed once; what does not change while it is asked for is shown as it is |
| Search explanation (`search_explain_mapper.py`) | none | maps explanation trees to a summary and a detail of each hit | the scores, functions and clauses of the search are read back out of the tree |
| Metrics (`metrics_service.py`) | none | four charts of several range queries each, two overviews | range and step fit each other |
| Cluster and node status (`cluster_service.py`) | none | health; status of the nodes, a call for each node | every node that is there is shown, one of them as the master |
| Documents, settings, exceptions, logging | none, or read once at start | pass-through, formatting | - |

How they interact. A request reads and writes MongoDB through Motor, whose calls
run on threads of their own: each call is atomic, and between two calls of one
request those of others take place. The pipelines call Elasticsearch
asynchronously as well, but SSH and SFTP synchronously: from the first to the
last call of such a segment the worker's loop serves nobody else. Validation and
deployment exist twice, as a blocking request (`block` below) and as a generator
whose progress goes to a browser (`stream`); the variants differ in the order of
the steps and in what happens after a failure. A publish contains a validation.
The views of the cluster, of indices and of metrics keep nothing, but each is put
together from several answers that are not of one moment. The lifespan of a
worker encloses all of it, and a starting worker writes an account of its own.

What is hard here: read-then-write over several calls (create, publish); two
pipelines that work on the same files and the same index; failures and crashes
between two servers or between files and statuses; editors who go on while a
publish runs; clean-up after a failure; a loop that is held by SSH; an account that is
deleted while a request of it, or for it, is under way; workers that fail
half-way through their start; views of a cluster that changes while it is
asked; and the longest file of the repository, which takes apart trees that
nest in an order of their own.

## 2. The models

### DictionaryStore: the collections and the requests that edit them

The five services are one program with different key fields, so one sequence
`docs` stands for all collections; a key belongs to one collection, and the order
of the sequence is the natural order in which `find_one` and `update_one` take
their match. Entries of the map therefore point at whichever of the five
services shows a step; the text of the five is the same but for the fields.

| Action | Code |
|---|---|
| `Lookup` | the `find_one` of `create()`: nothing found, or a deleted entry found; an active one answers 400 and changes nothing |
| `Number`, `Insert` | `BaseMongoRepository.create`: the highest index, then `insert_one` |
| `Restore` | `replace_one` by `_id`, with the index read in the lookup |
| `CreateFails` | a MongoDB error, a cancelled request, a crash between two calls |
| `Update` | the update endpoint with its rule on roles, and `find_one_and_update` |
| `Delete` | the soft deletion, which takes the first match, deleted or not |
| `SetStatus` | `update_status`, used by the deployment only |

A create in progress is a record in `creates`. `Words` makes the lookup of the
synonym service, `$all`, and the equality of the others one definition,
`Covering`. Abstracted: the fields beside the key are one value out of
`Contents[k]`; an `approver` the client itself sends with an edit that decides
nothing; time stamps. A VIEWER changes nothing and is not in `Users`. An explicit
`null` status is not among the modelled requests (see the hazards).

### DictionaryLifecycle: what the store and the deployment promise together

The abstract specification: the active entry of a key is registered as a DRAFT,
edited, approved, rejected, removed, and applied *only when it is APPROVED*.
`EntriesLive` in DictionaryDeploy states that the pipeline over the store
implements it, with the refinement mapping `life[k] = LifeOf(k)`, the status of
the first active document of `k`.

### DictionaryDeploy: publishing

Extends DictionaryStore by the publish requests `pub`, the files `live` and
`backup` of every server, the clock of the backup names and a count of failures.
Steps of a publish: `Read` (two queries for each collection), `Validated`, `Read`
again, `Stamp`, the SSH segments with one step for each file (`BackUp`,
`Upload`), `Sync` for each key read as APPROVED, `Finish`. `Advance` is the order
of the loops: `block` backs up and replaces the files of one server after the
other, `stream` backs up all servers, reports, and then replaces. `Busy(w)` is
the loop held by an SSH segment; MongoDB calls of other requests are not held up
by it, since they run on threads of the driver.

Failures: `Fail` ends a publish anywhere (MongoDB, validation, connection, closed
browser, crash); `UploadFails` leaves a truncated file; `BackupFails` leaves a
truncated backup or none and ends a `stream`, while `block` goes on. One failure of
a backup ends neither variant: on a server of `NoFolder` the backup folder may be
missing and impossible to make; the error of `mkdir` is passed over, and the
`FileNotFoundError` of the backup is taken for that of a file that is not there
(`Skipped`). `Sync` takes the keys in any order, which is more than the code does.

A line stands for an entry's key and content. Some entries give none
(`GivesLine`): a blank word, empty `components` or `corrected`, a blank synonym
group. These contents are `Lineless[k]`; such an entry is noted with the others
(`Noted`) and its status is synchronised. `Unkeyed` are the empty keys, which
`Sync` passes over (`if key_val`). The validation within a publish is the step
`Validated` here; what it does to the servers is the next module, and its failure
is a `Fail`.

### DictionaryValidation: validating

The resources that all validations share: the test files of each server, the
index template, the test index. The content of a file is identified with the
validation that uploaded it, so that a property can say *whose* lines an analysis
was made with. Steps: `Load`, `Upload` (each server), `ExistsTemplate`,
`PutTemplate`, `ExistsIndex`, `DeleteIndex`, `CreateIndex`, `Analyze` (each sample
word), `CleanIndex`, `CleanFiles` (each server). `Failed` is what an Elasticsearch
failure leads to: the `finally` clause in `block`, nothing in `stream`.
Elasticsearch is external and modelled by how the code uses it: an index loads
the files its template names when it is created, and cannot be created when it
exists or when a file is missing. The two variants name different paths in the
template (`noun_test.txt` and `dictionary/noun_test.txt`), while the uploads of both
go to `SSH_DICTIONARY_DIR`; so at most one of the templates, `Readable`, fits, and with
the directory of the example in `src/README.md:72` none. `Misdirected` is the state in
which the template that is there does not fit.

### UserAccounts: the accounts

The `users` collection and its writers: the requests of clients (`req[r]`), each
authenticated in one call and carried out in others, and the *starters*, which
create the default administrator: every worker when it starts, and the script
`create_admin.py`.

| Action | Code |
|---|---|
| `Login`, `Expire` | a token for an id that has an active account; its end, a day later. A token outlives changes and the account, but every request reads the account again |
| `Send`, `Authenticate` | `get_current_user`, the role, and the rules of the endpoints of `auth_endpoint.py`; `seen` is the role that was read then, which is not read again |
| `Find`, `Insert` | the lookup and `insert_one` of `create_user`, `AuthService.initialize_admin_if_not_exists` (any active user) and the script (any document of the id, deleted or not) |
| `Update`, `Delete` | `find_one_and_update` and `update_one` by `user_id` alone: the first match, deleted or not |
| `Abandon` | an error of MongoDB, or the end of the worker |

`gone` is a history of the confirmed deletions, for `DeletionHolds`. Hashing and
signing are abstracted; name and password are one value. `MayCreate`, `MayDelete`
and `MayRun` are not code: they are what the clients of an instance observe among
themselves, switched by `OneCreatePerId`, `Reregister` and `Exclusive` (the
operations of which they send one at a time; empty in `accounts`).

### Lifespan: the workers around the accounts

Extends UserAccounts by the life of each worker: `Start`, `Open` (the clients of
Elasticsearch, MongoDB and Prometheus and the session, in the order of
`lifespan`), `DefaultAccount`, `Ready`, `Handle`, `Stop` and `Close` (the `finally`
clause), each of which can fail, and `Crash`. An exception in a closing leaves the
rest as it is, and so does the first closing when no manager of Elasticsearch was
made. UserAccounts is the abstract specification here: Lifespan implements
`AccountsSpec`, as is proved.

### Charts and ClusterViews: views put together from several answers

`Charts` is what becomes of the parameters of a chart: presets, custom times, step.
Times are in seconds; `mixed` says that one of the two is given as a number and the
other as a date, which the code can read as neither (`Lengths`).
`ClusterViews` has the state of the cluster (`nodes`, `master`, `index`, `place`),
which *others* change, and one `view` under way, whose calls are steps:

| View | Calls |
|---|---|
| `List` | the indices |
| `Placement` | master, nodes, shards, indices (for the closed ones) |
| `Detail` | index, settings, mappings, aliases, statistics; those of a closed index are refused and replaced by none |
| `Status` | master, nodes, statistics of one node after another |
| `Chart` | one range query after another with the times resolved once |

`Open`, `Close`, `UpdateReadOnly`, `Delete` and `Created` are the actions of the index
service (the last one is what other programs do); `Joins`, `Leaves`, `Moves` are
the cluster's own. `held` notes what has not changed since the view began, so that
the properties can ask for what must be shown. `ListOf`, `PlacementOf`,
`StatusOf` are the mappers. Elasticsearch is external. Abstracted: hidden indices,
the fields of settings, mappings and statistics; refresh, flush and forcemerge
change nothing a view shows; "Unsupported action" cannot be reached, since the
request model has the actions as literals.

### Explanation and SearchExplain: reading a search back out of its explanation

`Explanation` translates the mapper: unwrapping the levels of the rescores
(`Traverse`), `Summary`, `Timeline`, the terms with their factors, the structure
of the query, the clauses of the fields, the functions matched with their nodes,
the details of the rescores. A tree is the sequence of its nodes in the order in
which the recursive functions of the mapper meet them, each node with its kind,
what it is about, its value and its depth; an operator on a node takes the tree and
the position of the node, and the part of the tree below it is an interval of
positions. So "the first node that" is the least position, and a walk over a part is
a set of positions in their order, without recursion. A search for a prefix of a
description is a search for a kind; a search for a part of one is a search among the
names and values of a node (`Names`) for one that has it in it (`In`, by the
relation `PartOf`).

What the mapper does twice in two ways is translated twice. The field of a term is
in the list of terms the text before the colon (`Listing`: for
`weight(spanNear([title:a ...` it has what is written before the name,
`about.before`), in the structure the last name before it. The vector searches
beside the query and those that are the query (`knn`, `knn_query`) are both read for
the field of a vector (`KnnField`), only the first for the clause of a field
(`ClauseOf`). Clauses of a kind the mapper does not read are of kind "other". A
function record has what is asked (`kind`, `about`, `filter`, `weight`) and what
became of it (`value`, `score`, `applies`, and `rewritten`, when a span filter is
explained as a term).

`SearchExplain` builds the tree of a hit from a search, in the shapes the mapper
looks for and its tests show, and states that the mapper reads the search back out of
it. The explanations of the texts that were searched for are part of a search and
may be any trees of terms, combinations and vectors (`SearchesAssumption`);
`MCSearchExplain` builds them from the clauses of a query, with the terms that scored.
The recursion that is left, over the levels of rescores (`Levels`, `Explained`) and
over lists, is in recursive functions, so that the modules can be proved about.

### Instances

`MCStore`, `MCDeploy`, `MCValidation`, `MCLifespan`, `MCViews` and `MCSearchExplain`
define the values of the constants.
Definitions marked *Mutant* in the modules are not part of the models: each is a
plausible mistake in the definition that follows it, and `PROJECT.json` names the
property that fails when it is used instead.

## 3. The runs

Every run is complete for its bounds. Deadlock is checked in all of them.

| Run | Instance | Shows |
|---|---|---|
| `store_exact` | 3 keys in 2 collections, 2 overlapping creates, 3 documents, an ADMIN and a WRITER | `TypeOK`; `UniqueKey`, `LookupFresh`: no key is stored twice and a lookup stays true until its create writes; `ApprovalRecorded`; `IndexStable` |
| `store_serial` | synonym groups a, b, ab with editable keys, 3 documents, one create at a time | `UniqueIndex`: no index is given twice, deleted entries and edited keys included |
| `publish_quiet` | 2 publishers with a worker each, 2 collections that share a file, an entry with two contents that give a line and one that does not, 1 failure, editors wait while a publish runs | `DeployTypeOK`; `AppliedServed`, of the entries that give a line; `ShippedWasValidated`, although another publish moves entries from APPROVED to APPLIED between two queries; `EntriesLive` |
| `publish_overlap` | 2 publishers of both variants on one worker, 2 servers, an entry with an empty key, editors at work | `ServersAgree`; `PublishEnds`; `Converges`, but for the status of the entry with the empty key |
| `publish_faults` | 1 publisher, both variants, 2 servers, of which the second may have no backup folder, 2 files, 1 failure, 2 seconds, editors at work | `SyncedEverywhere`; `StreamBacksUp`, of the first server; `Converges` |
| `validate_serial` | a `block` and a `stream` validation in turn, of which the template of the first fits, 2 servers, 2 words, 2 faults of every kind | `TypeOK`; `AnalyzedOwn`; `FailsOnlyByFault`; `CleanAgain` |
| `validate_overlap` | 2 overlapping `block` validations on 2 workers, 2 Elasticsearch failures | `CleanedUp` |
| `accounts` | 2 workers with a request each, the script, ids `admin` and `u`, 2 documents, updates and deletions that overlap, 1 failure | `LifespanTypeOK`; `UniqueAccount`; `DeletionHolds`; `AccountRemains`, `LastAdmin`: the two ways in which the last administrator can be lost are the only ones; `AllClosed` |
| `views` | 2 nodes, 1 index with a primary and a replica, 3 changes; charts of 2 queries, of ranges at, below and above every boundary, in one format or mixed | `ViewsTypeOK`; `SteadyShown`, `PlacementWhole`, `NodesShown`, `DetailWhole`; `Legible` |
| `explain` | 1 to 4 clauses with nesting, filters, vectors, synonyms, clauses of unknown kinds and a vector-like name; up to 2 of 15 functions, applying or not, with every combination, among them two scripts, values and names inside others, filters that are rewritten and filters that are not looked for; chains of up to 3 rescores and normalizers | `RunningTotals`, `StepsExplained`, `ViewsAgree`; `TermsListedOnce`; `FunctionsReported` |
| `sync_race`, `reregistered` | small instances | a counterexample each, see section 5 |

Assumptions of the passing runs, each of which some counterexample shows to be
needed:

- `store_exact`: clients do not send two overlapping creates of one key
  (`OneCreatePerKey`), and no create carries a status other than DRAFT.
- `store_serial`: creates do not overlap (one `Requests`).
- `publish_quiet`: no edits while a publish runs. No update request names
  APPLIED, and nothing but a publish writes the files.
- `publish_overlap`: no failures, one worker, so an SSH segment is never interrupted.
- `StreamBacksUp`: a single publisher. Two that overlap can put back a file
  between the backup and the upload of each other. It excepts the servers of
  `NoFolder`, where there is no backup.
- `AppliedServed` excepts entries that give no line, `Converges` those of an empty key.
- `validate_serial`: validations do not overlap; `FailsOnlyByFault` and `CleanAgain`
  except a template that does not fit (`Misdirected`), which is kept and fails every
  later validation. `validate_overlap`: `block` only.
- `accounts`: no two creations of one id overlap (`OneCreatePerId`; it includes that
  workers do not start together, `Together = FALSE`), and a deleted id is not
  registered again (`Reregister = FALSE`). Updates and deletions overlap as they may.
  `AccountRemains` excepts a deletion by an administrator whose own account is deleted
  while he acts, `LastAdmin` one who is no administrator any more when he writes
  (`Overtaken`), and the administrator who gives up his own role (`GivesUp`).
- `StepsExplained` and the rescores' part of `FunctionsReported`: no normalizer
  follows another level (`NormalizedAgain`). `FunctionsReported`, for the settings and
  functions of rescores: a hit leaves the windows in the order of the rescores
  (`LeftInOrder`).
- `FunctionsReported` asks of every function that applied and is looked for that it is
  matched. That it is matched only if it applied, and with its own score, is asked of
  those whose words are in no other function that applied nor in the text (`Like`,
  `LikeText`): the others can be taken for another, see section 5. Functions the mapper
  does not look for (`LookedFor`: a weight with a filter of another kind) are left out.
- `TermsListedOnce` excepts a vector without a field beside others, which is listed
  under the field of the first (`FieldGuessed`); of a wrapped name, and of a field
  that scored only in clauses the mapper does not read, it does not ask for the
  clause.
- `ViewsAgree` compares the structure with the list of terms for hits without
  vector-like terms (`PlainHit`), and of a listed field the name alone.
- `TextsScore`, the assumption of a theorem, is an `ASSUME` of `MCSearchExplain`,
  evaluated by TLC for every search of the run.
- `views`: `Legible` excepts times of mixed formats (`Mixed`). What a view asks is
  asked of one cluster; nothing is assumed of the order of changes. A detail says
  nothing of an index that is deleted meanwhile.

Why the bounds are enough. Two creates, two publishers, two validations show every
conflict between a read and a write of another actor; a third would only repeat one
of the two. Two servers tell "the first" from "all" and "all but the last"; two
files or collections likewise. Two failures allow one during the recovery from
another; in the deployment, where a retry starts from nothing but the files and the
statuses, one is enough. Three documents give a deleted, an active and a new one at
a time. In `accounts` two workers with a request each give every order of two
requests, of a request and a start, and, with the script, of two starts; two
documents give an administrator and another account, which delete and demote each
other (`reregistered` has a third, registered again). In `views` three changes are
enough for an index to be closed, opened and deleted, or deleted, created and
closed, between two calls of a view; one index suffices, because no mapper relates
two. In `explain` a third rescore adds nothing to the second but the inner part of a
chain of normalizers. `MaxTime = 2` lets two publishes have different backup names
or the same. `SYMMETRY` in `publish_quiet` exchanges the two publishers, which have
a worker each and appear in no other constant; in `views` it exchanges the nodes, of
which none has a name the code knows. It is used with safety properties only.

Fairness. `FairSpec` of DictionaryDeploy: weak fairness of `Start` (an administrator
publishes until it is done) and strong fairness of the steps of a publish. The
latter is what asyncio gives: the ready queue is first-in first-out, so a coroutine
that is ready again and again, each time the loop is released, runs; weak fairness
would not do, since another publish can hold the loop each time. Failures and edits
have no fairness; their number is bounded (failures) or `Converges` asks only for
behaviours in which the editors stop. In DictionaryValidation weak fairness is
enough, because validations do not overlap in the run with liveness. Start and end
of a validation with `MaxFaults` used up are what `CleanAgain` depends on: after the
last fault, a validation that runs to its end clears what is left, unless a template
that does not fit ends all of them early. The other modules state no liveness: their
requests are single passes without a retry, and every failure ends them.

## 4. The proofs

All constants are arbitrary within the assumptions the modules name
(`StoreAssumption`, `DeployAssumption`, `ValidationAssumption`,
`AccountsAssumption`, `LifespanAssumption`, `ViewsAssumption`,
`SearchesAssumption`); that of the views includes that the nodes are finitely many
and that an index has at least one copy of a shard, its primary. What a theorem
assumes beyond them is in its table. Every invariant and every action property of
the tables held in TLC on the instances of section 3 before it was proved.

### DictionaryStore_proofs

| Theorem | Assumes | Argument |
|---|---|---|
| `StoreTypeCorrect` | - | `TypeInv == TypeOK /\ IndexBounded`. The type alone is not inductive: `Number` chooses the greatest index in use, and a greatest one need exist only in a bounded set, so the bound is carried along |
| `ApprovalsAreRecorded` | no create carries APPROVED | `ApprovalRecorded` is inductive with the type: only an ADMIN's decision sets APPROVED, and deletion and restoration reset the status together with the approver |
| `IndexesAreStable` | - | the action property, from `Carried`: a restore carries the index of the document it will replace, and documents never move; the key of that document may have been edited since, its collection not |
| `KeysAreUnique`, `LookupsAreFresh` | lookup by equality of the key (`ExactLookup`), one create of a key at a time | `KeyInv == UniqueKey /\ LookupFresh /\ OneEach`, inductive together: uniqueness after an insertion needs the freshness of the lookup, and the freshness of one create needs that no other writes the same key |
| `IndexesAreUnique` | creates do not overlap | `IndexInv == UniqueIndex /\ NumberFree /\ OneCreate`: between `Number` and `Insert` the chosen index is free in the collection; edits, deletions and restores keep it so by `StableStep` |

The proofs go by what a step does to the sequence of documents: it leaves it
alone, appends one document, or replaces one by an edited, deleted or restored
version of itself (`UpdateShape`, `DeleteShape`, `RestoreShape`, `InsertShape`).
`LeastExists` and `GreatestExists` justify the choices in `First` and
`NextIndex`, by the well-foundedness of the order of the natural numbers. The
runs `store_exact` and `store_serial` check the same properties, under the same
assumptions, on small instances.

### DictionaryDeploy_proofs

| Theorem | Assumes | Argument |
|---|---|---|
| `DeployTypeCorrect` | - | `PlacedInv`: the types with the bound on the indexes, and where a publish stands: at the first file of the first server until its first SSH segment, and with a fixed second for its backup names from then on |
| `SyncFollowsShipping` | one publish at a time (`Alone`) | `ShippedInv`: the files that come before the position of a publish in the order of its variant (`Replaced`) have its lines; when `Advance` leaves the last position nothing is left to replace (`AdvanceReplaces`) |
| `SegmentsKeepServersAlike` | one worker (`OneWorker`) | `AgreeInv`: at most one publish is in an SSH segment (`OneShips`, from `Busy`); in the middle of it the replaced files have its lines, and the others are as alike as they were before it (`Halfway`) |
| `StreamCanRollBack` | `Alone` | on the servers outside `NoFolder`, whatever set that is. `SavedInv`: what `stream` has passed there in its backup segment has its content in the backup of that second, and what it has still to replace is unchanged since |
| `ValidatedIsShipped` | editors wait, exact lookup, one create of a key at a time (`QuietEditors`) | `GatherInv`: while publishes run, the set of entries that are APPROVED or APPLIED, and their lines, stay the same (`KeptPublished`), since synchronisation moves entries from the first to the second only; so a publish that asks for APPROVED and then for APPLIED has every line it has asked for (`Asked`), although other publishes change statuses in between. The assumption on the lookup is needed for `SyncKeeps`: with two documents of one key the status would be written to the first, not to the one that was read |
| `AppliedIsServed` | `QuietEditors`, no client asks for APPLIED | of the entries that give a line. `ServeInv`: a file that is replaced has exactly the lines of the published entries, or is truncated (`Serves`), and stays so when another publish replaces it again; a publish synchronises when all files do (`Delivered`) |
| `AppliedWasApproved` | the same | `AppliedFromApproved`, by `GatherInv`: what a publish has gathered is still published when it synchronises. Editors apply nothing (`EditsApplyNothing`) |
| `PublishesImplementLife` | `QuietEditors`, clients create drafts (`DraftsOnly`) | the refinement of DictionaryLifecycle: with one document to a key each step of the store changes the life of one key (`LifeReplaced`, `LifeAppended`), and `Sync` finds an entry that is APPROVED, or APPLIED already, which is a stutter |

The proofs go by what a step does to the servers (`StepShape`): it pauses,
prepares outside the segments, enters a segment, backs up, uploads, or ends by a
failure. None of the last four theorems bounds the publishes, the workers or the
failures; their assumptions are those of the run `publish_quiet`, and `sync_race`
shows what happens without the first.

### DictionaryConverges_proofs

What `Converges` and `PublishEnds` rest on. That something happens at all needs
fairness and stays with TLC; that what happens leads to the right place, stays there
and is reached in a bounded number of steps is proved.

| Theorem | Assumes | Argument |
|---|---|---|
| `PublishSettles` | `QuietEditors` | when a publish completes, no entry is APPROVED but those of an empty key (`Unkeyed`), and every file has exactly the lines of the APPLIED entries, or was truncated by the failed upload of another. `SettleInv`: on top of `GatherInv`, what has been asked for and is still APPROVED is among what will be synchronised (`Promised`), and the files that are replaced serve what is published (`Delivered`, by `Serves`) |
| `RetriedPublishSettles` | `QuietEditors`, `Alone` | the same without the exception: a publish repairs what those before it have left. `SettleInv` with `ShippedInv`. Without `Alone` TLC finds the counterexample, an upload that fails between the segment and the end of another publish |
| `SettledStays` | `QuietEditors` | whatever is settled stays so in every step that is neither an edit nor a failure: a publish of settled entries writes the lines that are there and finds nothing to synchronise |
| `PublishesAdvance` | - | a step of a publish makes `StepsLeft` one less (queries, transfers, and the steps between), or, while it synchronises, the set of entries left; or it ends, by `Finish` or a counted failure. No step of another publish or of an editor moves it |
| `LengthOfPublish`, `NoEndlessPublish` | - | `StepsLeft` of a publish that starts is 4 times the collections, 2 times the files of all servers, and 2 or 4 by the variant; and there is no endless descent |

### DictionaryValidation_proofs

| Theorem | Assumes | Argument |
|---|---|---|
| `ValidationTypeCorrect` | - | the types with `FirstServer`: only the steps that go through the servers are at another than the first; an index loads files that are all there |
| `AnalysesAreOwn` | validations do not overlap | `SerialInv`: one is under way, and the files, the template and the index are what it has made of them by its step (`Own`), whatever the ones before have left |
| `FailuresAreOwn` | the same | on top of `SerialInv`, a verdict FAILED goes with a fault of that validation, or a template that does not fit is there (`Misdirected`), and then it stays: a template that exists is never put again. `Readable` is any set of at most one variant |
| `BlockingCleansUp` | all validations are blocking, and only Elasticsearch fails (`Blocking`) | `CleanInv`: for every file, and for the index, that is there somebody under way will still remove it (`WillClean`), overlapping or not |
| `ValidationLeavesNothing` | validations do not overlap, no removal fails | `SerialInv` with `Removed`: the clean-up has removed the index, and the files of the servers it has passed. At its last step nothing is left, whatever failed, crashed or broken-off validations before it had left |
| `ValidationsAdvance` | - | `Ahead`, a bound on the steps that are left, becomes smaller with every step of a validation, faults included, and no step of another changes it: at most `2 * NumServers + NumWords + 7` steps each, however many overlap |

The last two are what `CleanAgain` rests on, as above.

### UserAccounts_proofs

| Theorem | Assumes | Argument |
|---|---|---|
| `AccountsTypeCorrect` | - | inductive as it stands |
| `AccountsAreUnique` | `OneCreatePerId` | `UniqueInv`: with the type, that at most one creation of an id is under way (`Apart`) and that what a creation found missing is still missing when it inserts (`Fresh`). Nothing but an insertion makes an account active, so nothing else can disturb either |
| `DeletionsHold` | `Alone`: `OneCreatePerId`, no registration after a deletion, updates and deletions one at a time | `DeletionInv`: an id has one document (`OneDocument`), so that the first match is the only one; an id in creation is in no other (`FreshId`) and is not being deleted (`NoneDeleted`) |
| `AnAccountRemains`, `LastAdminStays` | - | `CheckedInv`: who is about to delete or update another was found to be an ADMIN (`seen`), and a deletion has another target than its caller. A write that takes away the last account, or the last administrator, therefore has a caller who is none himself any more, or it is the one who gives up the role. `EmptyStep` and `AdminStep` go through all writes |

### Lifespan_proofs

| Theorem | Argument |
|---|---|
| `LifespanImplements` | each step of a worker is a step of `AccountsSpec` or leaves its variables alone; a crash is an `Abandon` |
| `LifespanKeepsAccounts`, `LifespanKeepsAdmins`, `LifespanTypeCorrect` | the theorems of UserAccounts through the implementation, the first under their assumption `Alone`, the others without one |
| `NothingLeftOpen` | an invariant that says, for each point of start and end, which managers are made and which clients may be open: what is open has been made, and what is closed is not opened again |

### ClusterAnswers_proofs

The views that put several answers together, and the charts. All hold without further
assumptions, for any number of changes between two answers, any number of queries and
every clock.

| Theorem | Argument |
|---|---|
| `AnswersStayTrue` | `ViewsInv`, from which all others follow: each answer of the view under way still tells the truth about everything that is held, that is, about what has not changed since the view began (`ListSays`, `MasterSays`, `NodesSay`, `PlacementSays`, `DetailSays`, `StatusSays`). A step of the cluster only makes less be held and leaves what stays held as it was (`Drift`); a step of the view adds an answer that is true when it is given. `StepKinds` says that there are no other steps |
| `ViewsTypesCorrect` | the types are part of `ViewsInv` |
| `SteadyIsShown` | what does not change while a list or a placement is asked for is in each of the answers, and `EntryTells` says what the mapper makes of them |
| `PlacementsAreWhole` | a copy of a shard is in one answer once, and the mapper (`PlacementOf`) puts each either on one node or among the unassigned, whatever the four answers say of each other |
| `NodesAreMarkedOnce` | a status goes through the nodes of its list one by one; when it has asked as often as there are nodes, each has been asked (a counting argument, `EveryNodeVisited`), and it fails only when one of them was not there all the time |
| `DetailsAreWhole` | an index that goes on to exist has the same birth in all answers, so that they are of one index and not of two with one name |
| `ChartsAreLegible` | every answer is resolved from the request at some time (`ChartStep`), and the tables of steps by cases (`StepCounts`, `PresetValues`), for every start and end of one format and not for the ranges of the run alone |

### SearchExplain_proofs

For texts of any shape and size, any lists of functions and any number of rescores and
normalizers, in the window of the hit or not, in any order.

| Theorem | Assumes | Argument |
|---|---|---|
| `AnswersKept` | - | `AnswersOfSearch`, inductive: the answers held are `Summary` and `DetailOf` of the search held. All that the other theorems say of a state follows from it, and from what the mapper's operators make of the tree of a search |
| `TimelineCorrect` | - | the steps unwrapped from a tree are its rescores, in their order (`Traversed`), and the query found inside is that of the search (`TimelineShown`) |
| `StepsCorrect` | `TextsScore`: a text with functions does not score zero. At zero the mapper shows the factor of the functions as one, whatever it is | where the mapper finds the node of a normalizer, the functions of a rescore query, and the combined score of the functions, by their number (`QueryComposedShown`, `BoostExplainedShown`, `NormalizerFound`, `RescoreFound`, `RescoreStepShown`) |
| `ViewsCorrect` | -. Of the structure and the list of terms the property speaks for hits without vector-like terms (`PlainHit`): such a term is a term in the list and a vector in the structure, because the two functions test in different orders | the structure has the positions of its part of the tree, moved by a distance, and the nodes at which the walk for terms stops are the same in both (`SamePart`, `ListedMoved`, `ScoringShown`); summary and timeline by their steps (`SummaryShown`) |

The trees of a hit stand inside each other: `Holds(t, x, d, u)` says that the nodes
of `u` are those of `t` from position `x` on, `d` levels deeper. What the mapper
reads at a node depends on its part of the tree only, so it reads of `t` at `x` what
it reads of `u` at its root. The result for a level depends on that level and on the
result for the level inside it (`UnwrappedBelow`, `RescoredLevel`,
`NormalizedLevel`); by induction on the number of rescores the result for the tree
after each of them is known. A level is met in two ways: as the tree it is, and
below the "original" node of a normalizer, whose details begin one position later;
the induction carries both. The inductions are over numbers, for sets of them
(`InductionTo`), since the theorems of the library that take an operator cannot be
used.

Only model-checked:

- the runs of disagreements, which show that a property does not hold:
  `AppliedFromApproved` without the assumptions of `AppliedWasApproved`, and
  `DeletionHolds` when ids are registered again;
- liveness under fairness (`Converges`, `PublishEnds`, `CleanAgain`), which the prover
  has no rules for; the safety halves of all three are proved, as said above;
- `TermsListedOnce` and `FunctionsReported`. The first relates the terms of a query,
  which the run builds together with the explanation of its clauses, to lists and
  sums over what was found (`SelectSeq`, `FoldSeq`): the shape of the clauses is
  data of any depth, and the claim an induction over it. The second relates what
  each function is looked for by to the descriptions of all others and of the text,
  by the relation `PartOf` of the instance.

## 5. Known disagreements between code and documentation

Shown by a run:

- `sync_race`: an entry edited back to DRAFT while a publish runs is marked APPLIED
  (`src/README.md:220`).
- `reregistered`: when an id is deleted, registered again and deleted again, the
  second deletion marks the old document, reports success (`auth_endpoint.py:262`),
  and the account goes on to log in. An update of it changes the old document, too.

Reproduced on these models by changing a constant of a passing run, or by taking an
exception out of a property, and excluded there by what section 3 lists:

- `OneCreatePerKey = FALSE` in `store_exact`: two overlapping registrations of one key
  are both stored; `src/README.md:181` promises a 400;
- `LookupFresh` in `store_serial`: registering a synonym group replaces a deleted
  larger group that has all its words (`src/README.md:180`);
- two requests in `store_serial`: two entries get one index (the comment at
  `base_mongo_repository.py:16` speaks of an automatic increment);
- APPROVED in `CreateStatuses` of `store_exact`: an entry is approved by nobody
  (`dictionary_req.py:6`; `src/README.md:185` says DRAFT);
- APPLIED in `UpdateStatuses` of `publish_quiet`: an entry is APPLIED that nothing
  has shipped (`dictionary_endpoint.py:50`; `src/README.md:193`);
- `EditsWhilePublishing = TRUE` in `publish_quiet`: what is shipped differs from
  what was validated, since the lines are read again
  (`dictionary_deploy_service.py:413`), and the publish that read first can upload
  last;
- `FailsOnlyByFault` and `CleanAgain` without `Misdirected`, in `validate_serial`: both
  variants upload to the one `SSH_DICTIONARY_DIR`, but their templates name different
  paths (lines 284 and 647); the template that does not fit makes a validation
  fail that has no fault, and is kept (line 272). The directory of the example in
  `src/README.md:72` fits neither;
- `Overlap = TRUE` there: a validation passes on the lines of another;
- `AppliedServed` without `GivesLine`, in `publish_quiet`: an entry without components
  is marked APPLIED and is in no file (lines 92 and 509);
- `Converges` without `Unkeyed`, in `publish_overlap`: an entry with an empty key is
  shipped to no file and stays APPROVED for ever (lines 511 and 923);
- `StreamBacksUp` for the servers of `NoFolder` too, in `publish_faults`: where the
  backup folder is missing and cannot be made, the streamed publish reports "backed
  up on all servers" (line 874) and replaces the files without a backup (lines 848
  and 868);
- `BackedUpBy("block")` in place of `BackedUpBy("stream")` in `publish_faults`: the
  blocking publish replaces a file whose backup failed
  (`dictionary_deploy_service.py:464`; `src/README.md:218`);
- `KindOf` with `stream` only in `validate_overlap`: a streamed validation that fails
  leaves its index and files (line 763; the clean-up of `src/README.md:213`);
- `Together = TRUE` and `OneCreatePerId = FALSE` in `accounts`: two workers that start
  together both count no user and both create the default administrator
  (`auth_service.py:58`), and two overlapping registrations of one id are both stored;
- `AccountRemains` and `LastAdmin` without their exceptions, in `accounts`: two
  administrators delete or demote each other, and none is left (`auth_endpoint.py:43`);
- `Legible` without `Mixed`, in `views`: a start in seconds with an end as a date
  gets the step of an hour, whatever their distance (`metrics_service.py:66`);
- `StepsExplained` without `NormalizedAgain`: of a normalizer over a normalizer the
  inner factor is shown; a rescore under a normalizer is shown with the operator +
  and the total;
- `FunctionsReported` without `LeftInOrder`: a hit outside of an
  inner window is shown with the settings of another rescore
  (`search_explain_mapper.py:1109`);
- `FunctionsReported` without `Like` and `LikeText`, in `explain`. A function is
  found by parts of descriptions: a filter on `tag:a` is taken for one on `tag:ab`;
  a `match` filter on `name` for one on `brand_name`, also of another kind; the
  first script for all scripts (`search_explain_mapper.py:2148`), and a script that
  reads `price` for a field value factor on `price`. Without `LookedFor`: a weight
  with a filter of another kind, such as `range`, is reported as not matched
  although it applied (line 2339);
- `TermsListedOnce` without its exceptions: a wrapped weight such as
  `weight(spanNear([title:a` or `weight(Synonym(title:t` is listed under the text
  before the colon (line 1769), found in no clause of the request and shown as a
  `must`, although the structure has the field (line 1904; the repository's test,
  `test_search_explain_mapper.py:333`, covers the structure only); so are the fields
  of clauses of a kind that `_extract_fields_from_clause` does not read, and a `knn`
  that is the query; of several vectors without a field all are listed under the
  first field;
- `ViewsAgree` without `PlainHit`: a term of a vector-like name is a term in the
  list and a vector in the structure.

Found while modelling the views and the mapper, and part of the models: an index
deleted between the third and the fourth call of a placement is shown as closed
although closed ones are left out; a node that leaves between two calls fails the
whole page of the nodes, although the mapper is written to do without its statistics
(`node_status_mapper.py:49`); an index deleted and created again between two calls
of its detail gives a detail of both; times that cannot be read make a range of an
hour by two readings of the clock; of a function with a weight the query shows the
weight (`search_explain_mapper.py:988`), a rescore the value of the function without
it if it has no filter, although the comment at line 1315 asks for the value with
the weight; in the structure a node "score(... from:" has the field "from". Not a
matter of the models: a date without a zone is read in that of the worker; and in
`filter_path` of `get_nodes_stats` (`nodes_repository.py`) two entries have no comma
between them, so that `os.cpu` is never returned.

Two backups of one second have one name, and the second replaces the first, although
the comment at `dictionary_deploy_service.py:420` means the seconds to prevent it.
Not a matter of these models: `src/README.md:205` describes the decompound lines as
separated by commas, the code (line 93) separates them by spaces.

## 6. What is not modelled, and why

- Progress streams: the order and number of their events. No state depends on them.
- An update with an explicit `null` status, and the read side of the dictionary
  services, where it makes a list unreadable: see the hazards.
- The health of the cluster, the two overviews of metrics, documents and search: one
  call to a service (or a query handed on) and a mapping of its answer; nothing is
  kept and nothing interleaves.
- Of the search explanation: the texts of labels, formulas and sources,
  `build_filter_matches`, and what nothing calls (lines 283 to 458,
  `explain_document`); span filters are told apart by their terms and not by their slop.
- Settings: read once at start.
- Exceptions, logging, response schemas: wording and layout.
- Paramiko, Motor, Elasticsearch: external, modelled by how the code uses them.
- Formatting of the dictionary lines: a line is its entry's key and content. Which
  entries give no line is modelled (`Lineless`), and so are empty keys.

## 7. Plan

Done, in this order: DictionaryStore with its proofs, DictionaryLifecycle,
DictionaryDeploy, DictionaryValidation, UserAccounts and Lifespan with their proofs,
Explanation and SearchExplain, Charts and ClusterViews with the proofs of the charts,
the proofs of DictionaryValidation and of DictionaryDeploy with its refinement, those of
the views, those of what the liveness of publishing and validating rests on, and those
of the search explanation.
Left:

1. The events of the progress streams against one outcome for each stream.
2. The read side of the dictionary services with a `null` status.

Runs are kept few: a new component gets one instance that asks several questions,
and instances of pure algorithms share one.
