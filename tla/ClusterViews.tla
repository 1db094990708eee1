---------------------------- MODULE ClusterViews ----------------------------
(***************************************************************************)
(* The views of the cluster: the placement of the shards, the status of    *)
(* the nodes, the list and the detail of indices, and charts.  A view asks *)
(* Elasticsearch or Prometheus several times and puts the answers          *)
(* together, while nodes come and go, shards move and administrators open, *)
(* close, protect, create and delete indices.                              *)
(*                                                                         *)
(* Elasticsearch is external: its state is modelled by what the calls show *)
(* of it.  An index has one primary and its replicas.                      *)
(***************************************************************************)
EXTENDS Charts, Sequences, FiniteSets

CONSTANTS
  Nodes,       \* ids of nodes
  Indices,     \* names of indices
  Copies,      \* the copies of a shard
  Asked,       \* the requests for charts: a range, or a start and an end, and a step
  Queries,     \* the number of queries of a chart
  MaxChanges,  \* bound on the changes of the cluster
  MaxTime      \* bound on the clock

Charted == [range : STRING, start : Int \cup {None, Bad}, end : Int \cup {None, Bad},
            step : Int \cup {None}, mixed : BOOLEAN]

ASSUME ViewsAssumption ==
  /\ IsFiniteSet(Nodes) /\ None \notin Nodes /\ None \notin Int /\ Bad \notin Int
  /\ Copies # {} /\ Asked \subseteq Charted
  /\ Queries \in Nat \ {0} /\ MaxChanges \in Nat /\ MaxTime \in Nat

VARIABLES
  nodes,     \* the nodes in the cluster
  master,    \* the elected one
  index,     \* the state of each index; born counts how often it was created
  place,     \* the node of each copy of each index
  view,      \* the request under way, or its answer
  held,      \* what has not changed since the request began
  changes,   \* the number of changes so far
  now        \* the clock

cluster == <<nodes, master, index, place>>
vars == <<nodes, master, index, place, view, held, changes, now>>

Shards == Indices \X Copies

Exists(i) == index[i].status # "absent"

Start == 1000000

Time == Start + now

Kinds == {"list", "placement", "detail", "status", "chart"}

(* got: the answers so far; failed: a call found that something is missing.  *)
Request(kind, parameter) == [kind |-> kind, asked |-> parameter, got |-> <<>>, failed |-> FALSE]

Idle == Request("idle", None)

Held == [nodes |-> nodes, master |-> master, same |-> {i \in Indices : Exists(i)},
         life |-> {i \in Indices : Exists(i)}, shards |-> Shards]

Placed(p, present) ==
  /\ \A s \in Shards : p[s] \in present \cup {None}
  /\ \A i \in Indices, c, d \in Copies : p[<<i, c>>] = p[<<i, d>>] /\ c # d => p[<<i, c>>] = None

Init ==
  /\ nodes \in (SUBSET Nodes) \ {{}} /\ master \in nodes
  /\ index \in [Indices -> [status : {"open", "close", "absent"}, read_only : {FALSE}, born : {0}]]
  /\ place \in [Shards -> Nodes \cup {None}] /\ Placed(place, nodes)
  /\ \A s \in Shards : ~Exists(s[1]) => place[s] = None
  /\ view = Idle /\ held = Held /\ changes = 0 /\ now = 0

-----------------------------------------------------------------------------
(* What others do to the cluster.                                            *)

Change == changes < MaxChanges /\ changes' = changes + 1

(* Nothing stays held that a change has touched. *)
Touch(lostNodes, sameMaster, changed, ended, moved) ==
  held' = [nodes |-> held.nodes \ lostNodes, master |-> IF sameMaster THEN held.master ELSE None,
           same |-> held.same \ changed, life |-> held.life \ ended, shards |-> held.shards \ moved]

Leaves(n) ==
  LET moved == {s \in Shards : place[s] = n}
  IN  /\ Change
      /\ n \in nodes /\ nodes # {n}
      /\ nodes' = nodes \ {n}
      /\ master' \in nodes' /\ (master # n => master' = master)
      /\ place' = [s \in Shards |-> IF s \in moved THEN None ELSE place[s]]
      /\ Touch({n}, master # n, {}, {}, moved)
      /\ UNCHANGED <<index, view, now>>

Joins(n) ==
  /\ Change
  /\ n \notin nodes
  /\ nodes' = nodes \cup {n}
  /\ UNCHANGED <<master, index, place, view, held, now>>

(* A copy is allocated, or relocated. *)
Moves(s, n) ==
  /\ Change
  /\ Exists(s[1]) /\ n \in nodes /\ place[s] # n
  /\ place' = [place EXCEPT ![s] = n] /\ Placed(place', nodes)
  /\ Touch({}, TRUE, {}, {}, {s})
  /\ UNCHANGED <<nodes, master, index, view, now>>

Created(i) ==
  /\ Change
  /\ ~Exists(i)
  /\ index' = [index EXCEPT ![i] = [status |-> "open", read_only |-> FALSE, born |-> @.born + 1]]
  /\ UNCHANGED <<nodes, master, place, view, held, now>>

-----------------------------------------------------------------------------
(* The actions on an index.  Each is one call; an index that is missing, or  *)
(* that is read-only, makes it fail, but protection can always be lifted.    *)

Becomes(i, state, moved) ==
  /\ Change
  /\ index' = [index EXCEPT ![i] = state]
  /\ place' = [s \in Shards |-> IF s \in moved THEN None ELSE place[s]]
  /\ Touch({}, TRUE, {i}, IF state.status = "absent" THEN {i} ELSE {}, moved)
  /\ UNCHANGED <<nodes, master, view, now>>

Open(i) ==
  /\ index[i].status = "close" /\ ~index[i].read_only
  /\ Becomes(i, [index[i] EXCEPT !.status = "open"], {})

Close(i) ==
  /\ index[i].status = "open" /\ ~index[i].read_only
  /\ Becomes(i, [index[i] EXCEPT !.status = "close"], {})

UpdateReadOnly(i, read_only) ==
  /\ Exists(i) /\ index[i].read_only # read_only
  /\ Becomes(i, [index[i] EXCEPT !.read_only = read_only], {})

Delete(i) ==
  /\ Exists(i) /\ ~index[i].read_only
  /\ Becomes(i, [index[i] EXCEPT !.status = "absent", !.read_only = FALSE], {i} \X Copies)

Tick ==
  /\ now < MaxTime /\ now' = now + 1
  /\ UNCHANGED <<cluster, view, held, changes>>

-----------------------------------------------------------------------------
(* The calls of the views and what each is answered. *)

Statuses == [i \in {j \in Indices : Exists(j)} |-> index[i].status]

Located == [s \in {t \in Shards : Exists(t[1])} |-> place[s]]

(* Mutant: a closed index is not told from other bad requests. *)
StatsFailClosed(i) == index[i].status # "open"

(* The statistics of a closed index are refused, and replaced by none.       *)
StatsFail(i) == index[i].status = "absent"

Stats(i) == IF index[i].status = "open" THEN index[i].born ELSE None

Ask(kind, parameter) ==
  /\ view.kind = "idle"
  /\ view' = Request(kind, parameter)
  /\ held' = Held
  /\ UNCHANGED <<cluster, changes, now>>

(* The answer to a call, or the end of the request by an exception. *)
Reply(good, answer) ==
  /\ view' = IF good THEN [view EXCEPT !.got = Append(@, answer)]
             ELSE [view EXCEPT !.failed = TRUE]
  /\ UNCHANGED <<cluster, held, changes, now>>

(* Mutant: a call may be made again. *)
CallsAgain(kind, k) == view.kind = kind /\ ~view.failed /\ Len(view.got) >= k - 1

Calls(kind, k) == view.kind = kind /\ ~view.failed /\ Len(view.got) = k - 1

List == Calls("list", 1) /\ Reply(TRUE, Statuses)

Placement ==
  \/ Calls("placement", 1) /\ Reply(TRUE, master)
  \/ Calls("placement", 2) /\ Reply(TRUE, nodes)
  \/ Calls("placement", 3) /\ Reply(TRUE, Located)
  \/ Calls("placement", 4) /\ Reply(TRUE, Statuses)

(* An index that is missing in any of the calls ends the request.            *)
Detail ==
  LET i == view.asked
  IN  \/ Calls("detail", 1) /\ Reply(Exists(i), index[i])
      \/ Calls("detail", 2) /\ Reply(Exists(i), [read_only |-> index[i].read_only, born |-> index[i].born])
      \/ Calls("detail", 3) /\ Reply(Exists(i), index[i].born)
      \/ Calls("detail", 4) /\ Reply(Exists(i), index[i].born)
      \/ Calls("detail", 5) /\ Reply(~StatsFail(i), Stats(i))

(* The nodes are asked one after another; one that has left has no           *)
(* statistics, and the empty answer is no NodesStatsEntity.                  *)
Status ==
  \/ Calls("status", 1) /\ Reply(TRUE, master)
  \/ Calls("status", 2) /\ Reply(TRUE, nodes)
  \/ /\ view.kind = "status" /\ ~view.failed /\ Len(view.got) >= 2
     /\ \E n \in view.got[2] :
          /\ \A k \in 3 .. Len(view.got) : view.got[k] # n
          /\ Reply(n \in nodes, n)

(* The times are resolved with the first query. *)
Parameters == IF view.got = <<>> THEN Resolved(view.asked, Time) ELSE {view.got[1]}

Chart ==
  /\ view.kind = "chart" /\ ~view.failed /\ Len(view.got) < Queries
  /\ \E p \in Parameters : Reply(~Refused(p), p)

Answered ==
  \/ view.kind = "list" /\ Len(view.got) = 1
  \/ view.kind = "placement" /\ Len(view.got) = 4
  \/ view.kind = "detail" /\ Len(view.got) = 5
  \/ view.kind = "status" /\ Len(view.got) >= 2 /\ Len(view.got) = 2 + Cardinality(view.got[2])
  \/ view.kind = "chart" /\ Len(view.got) = Queries

(* Elasticsearch or Prometheus fails a call for a reason of its own. *)
CallFails ==
  /\ view.kind # "idle" /\ ~Answered
  /\ view' = Idle
  /\ UNCHANGED <<cluster, held, changes, now>>

Shown ==
  /\ Answered \/ view.failed
  /\ view' = Idle
  /\ UNCHANGED <<cluster, held, changes, now>>

Views ==
  \/ \E all \in BOOLEAN : Ask("list", all) \/ Ask("placement", all)
  \/ \E i \in Indices : Ask("detail", i)
  \/ Ask("status", None)
  \/ \E a \in Asked : Ask("chart", a)
  \/ List \/ Placement \/ Detail \/ Status \/ Chart \/ CallFails \/ Shown

Others ==
  \/ \E n \in Nodes : Leaves(n) \/ Joins(n) \/ \E s \in Shards : Moves(s, n)
  \/ \E i \in Indices : Created(i) \/ Open(i) \/ Close(i) \/ Delete(i)
  \/ \E i \in Indices, b \in BOOLEAN : UpdateReadOnly(i, b)
  \/ Tick

Next == Views \/ Others

Spec == Init /\ [][Next]_vars

-----------------------------------------------------------------------------
(* How the answers are put together.                                         *)

(* Mutant: the indices left out are those that are open. *)
LeftOutOpen(statuses) == {i \in DOMAIN statuses : statuses[i] = "open"}

LeftOut(statuses) == {i \in DOMAIN statuses : statuses[i] = "close"}

ListOf(got, all) == DOMAIN got[1] \ IF all THEN {} ELSE LeftOut(got[1])

(* Mutant: the node of a copy is taken to be listed. *)
NoNodeGiven(n, present) == n = None

NoNode(n, present) == n = None \/ n \notin present

StatusIn(i, statuses) == IF i \in DOMAIN statuses THEN statuses[i] ELSE "close"

PlacementOf(got, all) ==
  LET present  == got[2]
      located  == got[3]
      statuses == got[4]
      visible  == {s \in DOMAIN located : all \/ s[1] \notin LeftOut(statuses)}
      Copy(i, n) == {s[2] : s \in {t \in visible : t[1] = i /\ located[t] = n}}
      On(i)    == {located[s] : s \in {t \in visible : t[1] = i}}
      Away(i)  == {n \in On(i) : NoNode(n, present)}
  IN  [nodes   |-> [n \in present |-> n = got[1]],
       indices |-> [i \in {s[1] : s \in visible} |->
                      [status     |-> StatusIn(i, statuses),
                       by_node    |-> [n \in On(i) \ Away(i) |-> Copy(i, n)],
                       unassigned |-> UNION {Copy(i, n) : n \in Away(i)}]]]

(* Mutant: every node that could be the master is marked. *)
StatusOfEligible(got) ==
  [nodes |-> [n \in got[2] |-> TRUE],
   stats |-> [n \in got[2] |-> \E k \in 3 .. Len(got) : got[k] = n]]

StatusOf(got) ==
  [nodes |-> [n \in got[2] |-> n = got[1]],
   stats |-> [n \in got[2] |-> \E k \in 3 .. Len(got) : got[k] = n]]

-----------------------------------------------------------------------------
Done(kind) == view.kind = kind /\ Answered

State == [status : {"open", "close", "absent"}, read_only : BOOLEAN, born : 0 .. MaxChanges]

ViewsTypeOK ==
  /\ master \in nodes /\ nodes \subseteq Nodes
  /\ index \in [Indices -> State]
  /\ place \in [Shards -> Nodes \cup {None}] /\ Placed(place, nodes)
  /\ \A s \in Shards : ~Exists(s[1]) => place[s] = None
  /\ view.kind \in Kinds \cup {"idle"} /\ view.failed \in BOOLEAN
  /\ view.kind = "list" => Len(view.got) <= 1
  /\ view.kind = "placement" => Len(view.got) <= 4
  /\ view.kind = "detail" => Len(view.got) <= 5
  /\ held.nodes \subseteq nodes /\ held.master \in {master, None}
  /\ held.same \subseteq held.life /\ \A i \in held.life : Exists(i)

(* Lists and placements show what did not change while they were put         *)
(* together: an index with its status, unless it is closed and left out, and *)
(* each copy that stayed with the node that stayed.                          *)
SteadyShown ==
  /\ Done("list") =>
       \A i \in held.same :
         i \in ListOf(view.got, view.asked) <=> view.asked \/ index[i].status = "open"
  /\ Done("placement") =>
       LET shown == PlacementOf(view.got, view.asked).indices
       IN  \A i \in held.same :
             IF ~view.asked /\ index[i].status = "close" THEN i \notin DOMAIN shown
             ELSE /\ i \in DOMAIN shown /\ shown[i].status = index[i].status
                  /\ \A c \in Copies : <<i, c>> \in held.shards =>
                       LET n == place[<<i, c>>]
                       IN  /\ n \in held.nodes => c \in shown[i].by_node[n]
                           /\ n = None => c \in shown[i].unassigned

(* A placement, put together from four answers, is consistent in itself:     *)
(* it has every copy once, on a node of its list of nodes or unassigned; and *)
(* without closed indices none is shown as closed, unless it was deleted     *)
(* between the calls, and none is shown as open that has been deleted.       *)
PlacementWhole ==
  Done("placement") =>
    LET answer == PlacementOf(view.got, view.asked)
    IN  \A i \in DOMAIN answer.indices :
          LET entry == answer.indices[i]
              On(c) == {n \in DOMAIN entry.by_node : c \in entry.by_node[n]}
          IN  /\ \A c \in Copies :
                   /\ On(c) \subseteq DOMAIN answer.nodes
                   /\ Cardinality(On(c)) = IF c \in entry.unassigned THEN 0 ELSE 1
              /\ ~view.asked =>
                   IF i \in held.life THEN entry.status = "open"
                   ELSE entry.status = "open" => i \in DOMAIN view.got[4]

(* At most one node is marked as the master, and the one that was it all the *)
(* time; the status of every node that stayed is shown.  The page fails only *)
(* if a node was not there all the time.                                     *)
NodesShown ==
  /\ Done("placement") \/ Done("status") =>
       LET marks == IF Done("status") THEN StatusOf(view.got).nodes
                    ELSE PlacementOf(view.got, view.asked).nodes
           marked == {n \in DOMAIN marks : marks[n]}
       IN  /\ Cardinality(marked) <= 1 /\ held.nodes \subseteq DOMAIN marks
           /\ held.master # None => marked = {held.master}
  /\ Done("status") =>
       \A n \in DOMAIN StatusOf(view.got).stats : StatusOf(view.got).stats[n]
  /\ view.kind = "status" /\ view.failed => ~(view.got[2] \subseteq held.nodes)

(* The detail of an index that goes on to exist is answered, also when it is *)
(* opened or closed between the calls, and tells of that one index; what     *)
(* does not change is shown as it is.                                        *)
DetailWhole ==
  view.kind = "detail" /\ (Answered \/ view.failed) =>
    LET i   == view.asked
        got == view.got
    IN  /\ i \in held.life =>
             /\ ~view.failed
             /\ \A b \in {got[1].born, got[2].born, got[3], got[4], got[5]} :
                  b \in {index[i].born, None}
        /\ i \in held.same =>
             /\ got[1] = index[i] /\ got[2].read_only = index[i].read_only
             /\ got[5] = None <=> index[i].status = "close"

(* A chart of a quarter of an hour to a week has 12 to 84 intervals, if the  *)
(* caller does not choose the step and gives both times in one format; and a *)
(* start and an end as far apart as a preset have the step of the preset.    *)
Legible ==
  Done("chart") /\ view.asked.step = None /\ ~Mixed(view.asked) =>
    LET p == view.got[1]
        d == p.end - p.start
    IN  /\ 900 <= d /\ d <= 604800 => Intervals(p) \in 12 .. 84
        /\ \A range \in Presets : d = Seconds(range) => p.step = PresetStep(range)
=============================================================================
