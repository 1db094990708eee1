------------------------ MODULE ClusterAnswers_proofs -----------------------
(***************************************************************************)
(* Proofs about the views of ClusterViews.                                 *)
(*                                                                         *)
(* First, those that put several answers of Elasticsearch together: the    *)
(* list, the placement, the detail and the status of the nodes, for any    *)
(* finite set of nodes, any indices and copies, and any number of changes  *)
(* between the answers.  The argument: what an answer said when it was     *)
(* given still holds of everything that is held, whatever has changed      *)
(* since (Drift).  Then the charts.                                        *)
(***************************************************************************)
EXTENDS ClusterViews, SequenceTheorems, FiniteSetTheorems, TLAPS

(* The cluster: the conjuncts of ViewsTypeOK, and that no index was created  *)
(* more often than the cluster changed.                                      *)
ClusterOK ==
  /\ changes \in 0 .. MaxChanges
  /\ master \in nodes /\ nodes \subseteq Nodes
  /\ index \in [Indices -> State] /\ \A i \in Indices : index[i].born <= changes
  /\ place \in [Shards -> Nodes \cup {None}] /\ Placed(place, nodes)
  /\ \A s \in Shards : ~Exists(s[1]) => place[s] = None

(* What is held is there. *)
HeldOK ==
  /\ held.nodes \subseteq nodes /\ held.master \in {master, None}
  /\ held.same \subseteq held.life /\ held.life \subseteq Indices
  /\ \A i \in held.life : Exists(i)
  /\ held.shards \subseteq Shards

IsSequence(s) == \E S : s \in Seq(S)

Limited(kind, n) ==
  /\ kind = "list" => n <= 1
  /\ kind = "placement" => n <= 4
  /\ kind = "detail" => n <= 5

Parameter(kind, asked) ==
  /\ kind \in {"list", "placement"} => asked \in BOOLEAN
  /\ kind = "detail" => asked \in Indices

(* The number of the answers so far. *)
Count == Len(view.got)

(* A request under way has a parameter of its kind, and not more answers     *)
(* than its view has calls.                                                  *)
ViewOK ==
  /\ view = [kind |-> view.kind, asked |-> view.asked, got |-> view.got, failed |-> view.failed]
  /\ view.kind \in Kinds \cup {"idle"} /\ view.failed \in BOOLEAN
  /\ IsSequence(view.got) /\ Limited(view.kind, Count)
  /\ Parameter(view.kind, view.asked)

Given(k) == k <= Count

-----------------------------------------------------------------------------
(* What the answers say of what is held.                                     *)

(* Statuses of the indices: one that goes on to exist is among them, and one *)
(* that does not change has its status.                                      *)
SaysStatuses(statuses) ==
  /\ \A i \in held.life : i \in DOMAIN statuses
  /\ \A i \in held.same : statuses[i] = index[i].status
  /\ \A i \in DOMAIN statuses : statuses[i] \in {"open", "close"}

(* The copies of the indices: all of an index or none, and where they are.   *)
SaysLocated(located) ==
  /\ DOMAIN located \subseteq Shards
  /\ \A i \in Indices, c, d \in Copies : <<i, c>> \in DOMAIN located => <<i, d>> \in DOMAIN located
  /\ \A i \in held.life, c \in Copies : <<i, c>> \in DOMAIN located
  /\ \A s \in held.shards : s \in DOMAIN located => located[s] = place[s]

ListSays == view.kind = "list" /\ Given(1) => SaysStatuses(view.got[1])

MasterSays ==
  view.kind \in {"placement", "status"} /\ Given(1) => held.master \in {None, view.got[1]}

NodesSay ==
  view.kind \in {"placement", "status"} /\ Given(2) =>
    /\ view.got[2] \subseteq Nodes /\ held.nodes \subseteq view.got[2]
    /\ held.master \in view.got[2] \cup {None}

PlacementSays ==
  view.kind = "placement" =>
    /\ Given(3) => SaysLocated(view.got[3])
    /\ Given(4) => SaysStatuses(view.got[4])

(* The index of a detail: as long as it lives it is the one that was born    *)
(* then; only without it, the request has failed.                            *)
DetailSays ==
  view.kind = "detail" =>
    LET i   == view.asked
        got == view.got
    IN  /\ i \in held.life =>
             /\ ~view.failed
             /\ Given(1) => got[1].born = index[i].born
             /\ Given(2) => got[2].born = index[i].born
             /\ Given(3) => got[3] = index[i].born
             /\ Given(4) => got[4] = index[i].born
             /\ Given(5) => got[5] \in {index[i].born, None}
        /\ i \in held.same =>
             /\ Given(1) => got[1] = index[i]
             /\ Given(2) => got[2].read_only = index[i].read_only
             /\ Given(5) => (got[5] = None <=> index[i].status = "close")

Visited == {view.got[k] : k \in 3 .. Count}

(* The nodes are asked for their statistics one after another, none twice.   *)
StatusSays ==
  view.kind = "status" =>
    /\ Given(2) => /\ Visited \subseteq view.got[2]
                   /\ Cardinality(Visited) = Count - 2
    /\ view.failed => Given(2) /\ ~(view.got[2] \subseteq held.nodes)

ViewsInv ==
  /\ ClusterOK /\ HeldOK /\ ViewOK
  /\ ListSays /\ MasterSays /\ NodesSay /\ PlacementSays /\ DetailSays /\ StatusSays

-----------------------------------------------------------------------------
(* Whatever happens to the cluster, what is still held is as it was.         *)

Drift ==
  /\ view' = view
  /\ held'.nodes \subseteq held.nodes /\ held'.master \in {held.master, None}
  /\ held'.same \subseteq held.same /\ held'.life \subseteq held.life
  /\ held'.shards \subseteq held.shards
  /\ \A i \in held'.same : index'[i] = index[i]
  /\ \A i \in held'.life : index'[i].born = index[i].born
  /\ \A s \in held'.shards : place'[s] = place[s]

Drifts == ClusterOK' /\ HeldOK' /\ Drift

LEMMA ShardOf == ASSUME NEW s \in Shards PROVE s[1] \in Indices /\ s[2] \in Copies /\ s = <<s[1], s[2]>>
BY DEF Shards

LEMMA PairIsShard == ASSUME NEW i \in Indices, NEW c \in Copies PROVE <<i, c>> \in Shards /\ <<i, c>>[1] = i
BY DEF Shards

LEMMA NoneElsewhere == None \notin Nodes /\ None \notin Int /\ MaxChanges \in Nat /\ IsFiniteSet(Nodes)
BY ViewsAssumption

(* Taking copies away leaves the others where they were. *)
LEMMA PlacedWithout ==
  ASSUME NEW moved, NEW rest, ClusterOK,
         place' = [s \in Shards |-> IF s \in moved THEN None ELSE place[s]],
         \A s \in Shards : s \notin moved /\ place[s] \in nodes => place[s] \in rest
  PROVE  place' \in [Shards -> Nodes \cup {None}] /\ Placed(place', rest)
<1>1. place \in [Shards -> Nodes \cup {None}] /\ Placed(place, nodes)
  BY DEF ClusterOK
<1>2. place' \in [Shards -> Nodes \cup {None}]
  BY <1>1
<1>3. \A s \in Shards : place'[s] \in rest \cup {None}
  BY <1>1 DEF Placed
<1>4. ASSUME NEW i \in Indices, NEW c \in Copies, NEW d \in Copies,
             place'[<<i, c>>] = place'[<<i, d>>], c # d
      PROVE  place'[<<i, c>>] = None
  BY <1>1, <1>4, PairIsShard DEF Placed
<1>5. QED
  BY <1>2, <1>3, <1>4 DEF Placed

LEMMA LeavesDrifts ==
  ASSUME ClusterOK, HeldOK, NEW n \in Nodes, Leaves(n) PROVE Drifts
<1> DEFINE moved == {s \in Shards : place[s] = n}
<1>1. /\ changes < MaxChanges /\ changes' = changes + 1
      /\ n \in nodes /\ nodes' = nodes \ {n} /\ master' \in nodes'
      /\ place' = [s \in Shards |-> IF s \in moved THEN None ELSE place[s]]
      /\ index' = index /\ view' = view
  BY DEF Leaves, Change
<1>2. held' = [nodes |-> held.nodes \ {n}, master |-> IF master # n THEN held.master ELSE None,
               same |-> held.same \ {}, life |-> held.life \ {}, shards |-> held.shards \ moved]
  BY DEF Leaves, Touch
<1>3. master # n => master' = master
  BY DEF Leaves
<1>4. Placed(place', nodes') /\ place' \in [Shards -> Nodes \cup {None}]
  <2>1. \A s \in Shards : s \notin moved /\ place[s] \in nodes => place[s] \in nodes'
    BY <1>1
  <2> HIDE DEF moved
  <2>2. QED
    BY <1>1, <2>1, PlacedWithout
<1>5. ClusterOK'
  <2>1. changes' \in 0 .. MaxChanges /\ nodes' \subseteq Nodes
    BY <1>1, NoneElsewhere DEF ClusterOK
  <2>2. \A i \in Indices : index'[i].born <= changes'
    BY <1>1, NoneElsewhere DEF ClusterOK, State
  <2>3. \A s \in Shards : ~Exists(s[1])' => place'[s] = None
    BY <1>1 DEF ClusterOK, Exists
  <2>4. QED
    BY <1>1, <1>4, <2>1, <2>2, <2>3 DEF ClusterOK
<1>6. HeldOK'
  BY <1>1, <1>2, <1>3 DEF HeldOK, Exists
<1>7. Drift
  BY <1>1, <1>2 DEF Drift, HeldOK
<1>8. QED
  BY <1>5, <1>6, <1>7 DEF Drifts

LEMMA JoinsDrifts ==
  ASSUME ClusterOK, HeldOK, NEW n \in Nodes, Joins(n) PROVE Drifts
<1>1. /\ changes < MaxChanges /\ changes' = changes + 1 /\ nodes' = nodes \cup {n}
      /\ master' = master /\ index' = index /\ place' = place /\ view' = view /\ held' = held
  BY DEF Joins, Change
<1>2. ClusterOK'
  <2>1. changes' \in 0 .. MaxChanges /\ nodes' \subseteq Nodes /\ master' \in nodes'
    BY <1>1, NoneElsewhere DEF ClusterOK
  <2>2. \A i \in Indices : index'[i].born <= changes'
    BY <1>1, NoneElsewhere DEF ClusterOK, State
  <2>3. Placed(place', nodes')
    BY <1>1 DEF ClusterOK, Placed
  <2>4. \A s \in Shards : ~Exists(s[1])' => place'[s] = None
    BY <1>1 DEF ClusterOK, Exists
  <2>5. QED
    BY <1>1, <2>1, <2>2, <2>3, <2>4 DEF ClusterOK
<1>3. HeldOK'
  BY <1>1 DEF HeldOK, Exists
<1>4. Drift
  BY <1>1 DEF Drift
<1>5. QED
  BY <1>2, <1>3, <1>4 DEF Drifts

LEMMA MovesDrifts ==
  ASSUME ClusterOK, HeldOK, NEW n \in Nodes, NEW s \in Shards, Moves(s, n) PROVE Drifts
<1>1. /\ changes < MaxChanges /\ changes' = changes + 1 /\ Exists(s[1]) /\ n \in nodes
      /\ place' = [place EXCEPT ![s] = n] /\ Placed(place', nodes)
      /\ nodes' = nodes /\ master' = master /\ index' = index /\ view' = view
  BY DEF Moves, Change
<1>2. held' = [nodes |-> held.nodes \ {}, master |-> held.master, same |-> held.same \ {},
               life |-> held.life \ {}, shards |-> held.shards \ {s}]
  BY DEF Moves, Touch
<1>3. ClusterOK'
  <2>1. changes' \in 0 .. MaxChanges
    BY <1>1, NoneElsewhere DEF ClusterOK
  <2>2. \A i \in Indices : index'[i].born <= changes'
    BY <1>1, NoneElsewhere DEF ClusterOK, State
  <2>3. place' \in [Shards -> Nodes \cup {None}] /\ Placed(place', nodes')
    BY <1>1 DEF ClusterOK
  <2>4. \A t \in Shards : ~Exists(t[1])' => place'[t] = None
    BY <1>1 DEF ClusterOK, Exists
  <2>5. QED
    BY <1>1, <2>1, <2>2, <2>3, <2>4 DEF ClusterOK
<1>4. HeldOK'
  BY <1>1, <1>2 DEF HeldOK, Exists
<1>5. Drift
  <2>1. \A t \in held'.shards : place'[t] = place[t]
    BY <1>1, <1>2 DEF ClusterOK, HeldOK
  <2>2. QED
    BY <1>1, <1>2, <2>1 DEF Drift
<1>6. QED
  BY <1>3, <1>4, <1>5 DEF Drifts

LEMMA CreatedDrifts ==
  ASSUME ClusterOK, HeldOK, NEW i \in Indices, Created(i) PROVE Drifts
<1> DEFINE new == [status |-> "open", read_only |-> FALSE, born |-> index[i].born + 1]
<1>1. /\ changes < MaxChanges /\ changes' = changes + 1 /\ ~Exists(i)
      /\ index' = [index EXCEPT ![i] = new] /\ nodes' = nodes
      /\ master' = master /\ place' = place /\ view' = view /\ held' = held
  BY DEF Created, Change
<1>2. index[i] \in State /\ changes \in Nat
  BY NoneElsewhere DEF ClusterOK
<1>3. new \in State /\ new.born <= changes' /\ new.status = "open"
  BY <1>1, <1>2, NoneElsewhere DEF State, ClusterOK
<1> HIDE DEF new
<1>4. \A j \in Indices : index'[j] = IF j = i THEN new ELSE index[j]
  BY <1>1 DEF ClusterOK
<1>5. ClusterOK'
  <2>1. changes' \in 0 .. MaxChanges
    BY <1>1, NoneElsewhere DEF ClusterOK
  <2>2. index' \in [Indices -> State]
    BY <1>1, <1>3 DEF ClusterOK
  <2>3. \A j \in Indices : index'[j].born <= changes'
    BY <1>1, <1>2, <1>3, <1>4 DEF ClusterOK, State
  <2>4. \A s \in Shards : ~Exists(s[1])' => place'[s] = None
    BY <1>1, <1>3, <1>4, ShardOf DEF ClusterOK, Exists
  <2>5. QED
    BY <1>1, <2>1, <2>2, <2>3, <2>4 DEF ClusterOK
<1>6. \A j \in held.life : j # i /\ j \in Indices
  BY <1>1 DEF HeldOK
<1>7. HeldOK'
  BY <1>1, <1>4, <1>6 DEF HeldOK, Exists
<1>8. Drift
  BY <1>1, <1>4, <1>6 DEF Drift, HeldOK
<1>9. QED
  BY <1>5, <1>7, <1>8 DEF Drifts

(* The actions on an index keep its birth, and take its copies away only     *)
(* with the index.                                                           *)
LEMMA BecomesDrifts ==
  ASSUME ClusterOK, HeldOK, NEW i \in Indices, NEW state \in State, NEW moved,
         Becomes(i, state, moved), Exists(i), state.born = index[i].born,
         IF state.status = "absent" THEN moved = {i} \X Copies ELSE moved = {}
  PROVE  Drifts
<1> DEFINE ended == IF state.status = "absent" THEN {i} ELSE {}
<1>1. /\ changes < MaxChanges /\ changes' = changes + 1
      /\ index' = [index EXCEPT ![i] = state]
      /\ place' = [s \in Shards |-> IF s \in moved THEN None ELSE place[s]]
      /\ nodes' = nodes /\ master' = master /\ view' = view
  BY DEF Becomes, Change
<1>2. held' = [nodes |-> held.nodes \ {}, master |-> held.master, same |-> held.same \ {i},
               life |-> held.life \ ended, shards |-> held.shards \ moved]
  BY DEF Becomes, Touch
<1>3. \A j \in Indices : index'[j] = IF j = i THEN state ELSE index[j]
  BY <1>1 DEF ClusterOK
<1>4. ClusterOK'
  <2>1. changes' \in 0 .. MaxChanges
    BY <1>1, NoneElsewhere DEF ClusterOK
  <2>2. index' \in [Indices -> State]
    BY <1>1 DEF ClusterOK
  <2>3. \A j \in Indices : index'[j].born <= changes'
    BY <1>1, <1>3, NoneElsewhere DEF ClusterOK, State
  <2>4. place' \in [Shards -> Nodes \cup {None}] /\ Placed(place', nodes')
    <3>1. \A s \in Shards : s \notin moved /\ place[s] \in nodes => place[s] \in nodes
      OBVIOUS
    <3>2. place' \in [Shards -> Nodes \cup {None}] /\ Placed(place', nodes)
      BY <1>1, <3>1, PlacedWithout
    <3>3. QED
      BY <1>1, <3>2
  <2>5. ASSUME NEW s \in Shards, ~Exists(s[1])' PROVE place'[s] = None
    <3>1. s[1] \in Indices /\ s[2] \in Copies /\ s = <<s[1], s[2]>>
      BY ShardOf
    <3>2. CASE s[1] = i
      BY <1>1, <1>3, <2>5, <3>1, <3>2 DEF Exists
    <3>3. CASE s[1] # i
      BY <1>1, <1>3, <2>5, <3>1, <3>3 DEF Exists, ClusterOK
    <3>4. QED
      BY <3>2, <3>3
  <2>6. QED
    BY <1>1, <2>1, <2>2, <2>3, <2>4, <2>5 DEF ClusterOK
<1>5. HeldOK'
  BY <1>1, <1>2, <1>3 DEF HeldOK, Exists
<1>6. Drift
  <2>1. \A s \in held'.shards : place'[s] = place[s]
    BY <1>1, <1>2 DEF HeldOK
  <2>2. \A j \in held'.same : index'[j] = index[j]
    BY <1>2, <1>3 DEF HeldOK
  <2>3. \A j \in held'.life : index'[j].born = index[j].born
    BY <1>2, <1>3 DEF HeldOK
  <2>4. QED
    BY <1>1, <1>2, <2>1, <2>2, <2>3 DEF Drift
<1>7. QED
  BY <1>4, <1>5, <1>6 DEF Drifts

LEMMA OthersDrift == ASSUME ClusterOK, HeldOK, Others PROVE Drifts
<1>1. ASSUME NEW n \in Nodes, Leaves(n) \/ Joins(n) \/ \E s \in Shards : Moves(s, n)
      PROVE  Drifts
  BY <1>1, LeavesDrifts, JoinsDrifts, MovesDrifts
<1>2. ASSUME NEW i \in Indices, Open(i) PROVE Drifts
  <2> DEFINE state == [index[i] EXCEPT !.status = "open"]
  <2>1. index[i] \in State /\ index[i].status = "close" /\ Becomes(i, state, {})
    BY <1>2 DEF Open, ClusterOK
  <2>2. state \in State /\ state.born = index[i].born /\ state.status = "open"
    BY <2>1 DEF State
  <2> HIDE DEF state
  <2>3. QED
    BY <2>1, <2>2, BecomesDrifts DEF Exists
<1>3. ASSUME NEW i \in Indices, Close(i) PROVE Drifts
  <2> DEFINE state == [index[i] EXCEPT !.status = "close"]
  <2>1. index[i] \in State /\ index[i].status = "open" /\ Becomes(i, state, {})
    BY <1>3 DEF Close, ClusterOK
  <2>2. state \in State /\ state.born = index[i].born /\ state.status = "close"
    BY <2>1 DEF State
  <2> HIDE DEF state
  <2>3. QED
    BY <2>1, <2>2, BecomesDrifts DEF Exists
<1>4. ASSUME NEW i \in Indices, NEW b \in BOOLEAN, UpdateReadOnly(i, b) PROVE Drifts
  <2> DEFINE state == [index[i] EXCEPT !.read_only = b]
  <2>1. index[i] \in State /\ Exists(i) /\ Becomes(i, state, {})
    BY <1>4 DEF UpdateReadOnly, ClusterOK
  <2>2. state \in State /\ state.born = index[i].born /\ state.status = index[i].status
    BY <2>1 DEF State
  <2> HIDE DEF state
  <2>3. QED
    BY <2>1, <2>2, BecomesDrifts DEF Exists
<1>5. ASSUME NEW i \in Indices, Delete(i) PROVE Drifts
  <2> DEFINE state == [index[i] EXCEPT !.status = "absent", !.read_only = FALSE]
  <2>1. index[i] \in State /\ Exists(i) /\ Becomes(i, state, {i} \X Copies)
    BY <1>5 DEF Delete, ClusterOK
  <2>2. state \in State /\ state.born = index[i].born /\ state.status = "absent"
    BY <2>1 DEF State
  <2> HIDE DEF state
  <2>3. QED
    BY <2>1, <2>2, BecomesDrifts
<1>6. CASE Tick
  <2>1. UNCHANGED <<cluster, view, held, changes>>
    BY <1>6 DEF Tick
  <2>2. nodes' = nodes /\ master' = master /\ index' = index /\ place' = place
        /\ view' = view /\ held' = held /\ changes' = changes
    BY <2>1 DEF cluster
  <2>3. QED
    BY <2>2 DEF Drifts, Drift, ClusterOK, HeldOK, Exists, Placed
<1>7. QED
  BY <1>1, <1>2, <1>3, <1>4, <1>5, <1>6, CreatedDrifts DEF Others

-----------------------------------------------------------------------------
(* What a step does to the request under way.                                *)

Stands ==
  /\ nodes' = nodes /\ master' = master /\ index' = index /\ place' = place
  /\ held' = held /\ changes' = changes

Said(answer) ==
  LET k == Count + 1
      i == view.asked
  IN  /\ ~view.failed
      /\ \/ view.kind = "list" /\ k = 1 /\ answer = Statuses
         \/ view.kind = "placement" /\ k = 1 /\ answer = master
         \/ view.kind = "placement" /\ k = 2 /\ answer = nodes
         \/ view.kind = "placement" /\ k = 3 /\ answer = Located
         \/ view.kind = "placement" /\ k = 4 /\ answer = Statuses
         \/ view.kind = "detail" /\ k = 1 /\ answer = index[i]
         \/ view.kind = "detail" /\ k = 2
              /\ answer = [read_only |-> index[i].read_only, born |-> index[i].born]
         \/ view.kind = "detail" /\ k \in {3, 4} /\ answer = index[i].born
         \/ view.kind = "detail" /\ k = 5 /\ answer = Stats(i)
         \/ view.kind = "status" /\ k = 1 /\ answer = master
         \/ view.kind = "status" /\ k = 2 /\ answer = nodes
         \/ view.kind = "status" /\ k >= 3 /\ answer \in view.got[2] \ Visited
         \/ view.kind = "chart"

Failing ==
  \/ view.kind = "detail" /\ ~Exists(view.asked)
  \/ view.kind = "status" /\ Given(2) /\ ~(view.got[2] \subseteq nodes)
  \/ view.kind = "chart"

Begins ==
  /\ nodes' = nodes /\ master' = master /\ index' = index /\ place' = place
  /\ changes' = changes /\ held' = Held
  /\ \E kind \in Kinds : \E asked : view' = Request(kind, asked) /\ Parameter(kind, asked)

Ends == Stands /\ view' = Idle

Answers ==
  Stands /\ \E answer : Said(answer) /\ view' = [view EXCEPT !.got = Append(view.got, answer)]

Fails == Stands /\ Failing /\ view' = [view EXCEPT !.failed = TRUE]

(* A good reply is what the call said; a bad one ends a request that fails.  *)
LEMMA GoodReply == ASSUME NEW answer, Said(answer), Reply(TRUE, answer) PROVE Answers
BY DEF Reply, Stands, cluster, Answers

LEMMA BadReply == ASSUME NEW answer, Failing, Reply(FALSE, answer) PROVE Fails
BY DEF Reply, Stands, cluster, Fails

LEMMA AnyReply ==
  ASSUME NEW good \in BOOLEAN, NEW answer, Reply(good, answer),
         Said(answer), ~good => Failing
  PROVE  Answers \/ Fails
<1>1. Stands
  BY DEF Reply, Stands, cluster
<1>2. CASE good
  BY <1>1, <1>2 DEF Reply, Answers
<1>3. CASE ~good
  BY <1>1, <1>3 DEF Reply, Fails
<1>4. QED
  BY <1>2, <1>3

LEMMA CountIsNat == ASSUME ViewOK PROVE Count \in Nat
BY LenProperties DEF ViewOK, IsSequence, Count

LEMMA PlacementStep == ASSUME ViewOK, Placement PROVE Answers
<1>1. Count \in Nat
  BY CountIsNat
<1>2. CASE Calls("placement", 1) /\ Reply(TRUE, master)
  <2>1. Said(master)
    BY <1>1, <1>2 DEF Calls, Count, Said
  <2>2. QED
    BY <1>2, <2>1, GoodReply
<1>3. CASE Calls("placement", 2) /\ Reply(TRUE, nodes)
  <2>1. Said(nodes)
    BY <1>1, <1>3 DEF Calls, Count, Said
  <2>2. QED
    BY <1>3, <2>1, GoodReply
<1>4. CASE Calls("placement", 3) /\ Reply(TRUE, Located)
  <2>1. Said(Located)
    BY <1>1, <1>4 DEF Calls, Count, Said
  <2>2. QED
    BY <1>4, <2>1, GoodReply
<1>5. CASE Calls("placement", 4) /\ Reply(TRUE, Statuses)
  <2>1. Said(Statuses)
    BY <1>1, <1>5 DEF Calls, Count, Said
  <2>2. QED
    BY <1>5, <2>1, GoodReply
<1>6. QED
  BY <1>2, <1>3, <1>4, <1>5 DEF Placement

LEMMA DetailStep == ASSUME ViewOK, Detail PROVE Answers \/ Fails
<1> DEFINE i == view.asked
<1>1. Count \in Nat
  BY CountIsNat
<1>2. CASE Calls("detail", 1) /\ Reply(Exists(i), index[i])
  <2>1. Said(index[i]) /\ (~Exists(i) => Failing)
    BY <1>1, <1>2 DEF Calls, Count, Said, Failing
  <2>2. QED
    BY <1>2, <2>1, AnyReply DEF Exists, StatsFail
<1>3. CASE Calls("detail", 2) /\ Reply(Exists(i), [read_only |-> index[i].read_only, born |-> index[i].born])
  <2>1. Said([read_only |-> index[i].read_only, born |-> index[i].born]) /\ (~Exists(i) => Failing)
    BY <1>1, <1>3 DEF Calls, Count, Said, Failing
  <2>2. QED
    BY <1>3, <2>1, AnyReply DEF Exists, StatsFail
<1>4. CASE Calls("detail", 3) /\ Reply(Exists(i), index[i].born)
  <2>1. Said(index[i].born) /\ (~Exists(i) => Failing)
    BY <1>1, <1>4 DEF Calls, Count, Said, Failing
  <2>2. QED
    BY <1>4, <2>1, AnyReply DEF Exists, StatsFail
<1>5. CASE Calls("detail", 4) /\ Reply(Exists(i), index[i].born)
  <2>1. Said(index[i].born) /\ (~Exists(i) => Failing)
    BY <1>1, <1>5 DEF Calls, Count, Said, Failing
  <2>2. QED
    BY <1>5, <2>1, AnyReply DEF Exists, StatsFail
<1>6. CASE Calls("detail", 5) /\ Reply(~StatsFail(i), Stats(i))
  <2>1. Said(Stats(i)) /\ (~Exists(i) => Failing)
    BY <1>1, <1>6 DEF Calls, Count, Said, Failing
  <2>2. QED
    BY <1>6, <2>1, AnyReply DEF Exists, StatsFail
<1>7. QED
  BY <1>2, <1>3, <1>4, <1>5, <1>6 DEF Detail

LEMMA StatusStep == ASSUME ViewOK, Status PROVE Answers \/ Fails
<1>1. Count \in Nat
  BY CountIsNat
<1>2. CASE Calls("status", 1) /\ Reply(TRUE, master)
  <2>1. Said(master)
    BY <1>1, <1>2 DEF Calls, Count, Said
  <2>2. QED
    BY <1>2, <2>1, GoodReply
<1>3. CASE Calls("status", 2) /\ Reply(TRUE, nodes)
  <2>1. Said(nodes)
    BY <1>1, <1>3 DEF Calls, Count, Said
  <2>2. QED
    BY <1>3, <2>1, GoodReply
<1>4. ASSUME view.kind = "status", ~view.failed, Len(view.got) >= 2,
             NEW n \in view.got[2], \A k \in 3 .. Len(view.got) : view.got[k] # n,
             Reply(n \in nodes, n)
      PROVE  Answers \/ Fails
  <2>1. Said(n)
    BY <1>1, <1>4 DEF Said, Visited, Count
  <2>2. n \notin nodes => Failing
    BY <1>1, <1>4 DEF Failing, Given, Count
  <2>3. CASE n \in nodes
    <3>1. Reply(TRUE, n)
      BY <1>4, <2>3 DEF Reply
    <3>2. QED
      BY <2>1, <3>1, GoodReply
  <2>4. CASE n \notin nodes
    <3>1. Reply(FALSE, n)
      BY <1>4, <2>4 DEF Reply
    <3>2. QED
      BY <2>2, <2>4, <3>1, BadReply
  <2>5. QED
    BY <2>3, <2>4
<1>5. QED
  BY <1>2, <1>3, <1>4 DEF Status

LEMMA StepKinds ==
  ASSUME ClusterOK, HeldOK, ViewOK, [Next]_vars
  PROVE  Drifts \/ Begins \/ Ends \/ Answers \/ Fails
<1>1. CASE UNCHANGED vars
  <2>1. Stands /\ view' = view
    BY <1>1 DEF vars, Stands
  <2>2. QED
    BY <2>1 DEF Stands, Drifts, Drift, ClusterOK, HeldOK, Exists, Placed
<1>2. CASE Others
  BY <1>2, OthersDrift
<1>3. ASSUME NEW kind \in Kinds, NEW asked, Ask(kind, asked), Parameter(kind, asked)
      PROVE  Begins
  BY <1>3 DEF Ask, Begins, cluster
<1>4. ASSUME NEW asked \in BOOLEAN, Ask("list", asked) \/ Ask("placement", asked)
      PROVE  Begins
  BY <1>3, <1>4 DEF Kinds, Parameter
<1>5. ASSUME NEW i \in Indices, Ask("detail", i) PROVE Begins
  BY <1>3, <1>5 DEF Kinds, Parameter
<1>6. ASSUME NEW kind \in {"status", "chart"}, NEW asked, Ask(kind, asked) PROVE Begins
  BY <1>3, <1>6 DEF Kinds, Parameter
<1>7. CASE List
  <2>1. Count \in Nat
    BY CountIsNat
  <2>2. Calls("list", 1) /\ Reply(TRUE, Statuses)
    BY <1>7 DEF List
  <2>3. Said(Statuses)
    BY <2>1, <2>2 DEF Calls, Count, Said
  <2>4. QED
    BY <2>2, <2>3, GoodReply
<1>8. CASE Chart
  <2>1. PICK p \in Parameters : Reply(~Refused(p), p)
    BY <1>8 DEF Chart
  <2>2. Said(p) /\ Failing
    BY <1>8 DEF Chart, Said, Failing
  <2>3. CASE Refused(p)
    <3>1. Reply(FALSE, p)
      BY <2>1, <2>3 DEF Reply
    <3>2. QED
      BY <2>2, <3>1, BadReply
  <2>4. CASE ~Refused(p)
    <3>1. Reply(TRUE, p)
      BY <2>1, <2>4 DEF Reply
    <3>2. QED
      BY <2>2, <3>1, GoodReply
  <2>5. QED
    BY <2>3, <2>4
<1>9. CASE CallFails \/ Shown
  BY <1>9 DEF CallFails, Shown, Ends, Stands, cluster
<1>10. QED
  BY <1>1, <1>2, <1>4, <1>5, <1>6, <1>7, <1>8, <1>9, PlacementStep, DetailStep, StatusStep
  DEF Next, Views

-----------------------------------------------------------------------------
(* Every step keeps what the answers say.                                    *)

LEMMA Appended ==
  ASSUME NEW s, IsSequence(s), NEW x
  PROVE  /\ Len(s) \in Nat /\ IsSequence(Append(s, x)) /\ Len(Append(s, x)) = Len(s) + 1
         /\ Append(s, x)[Len(s) + 1] = x
         /\ \A k \in 1 .. Len(s) : Append(s, x)[k] = s[k]
<1>1. PICK S : s \in Seq(S)
  BY DEF IsSequence
<1>2. s \in Seq(S \cup {x})
  <2>1. Len(s) \in Nat /\ DOMAIN s = 1 .. Len(s) /\ \A k \in 1 .. Len(s) : s[k] \in S
    BY <1>1, LenProperties, ElementOfSeq
  <2>2. s \in [1 .. Len(s) -> S \cup {x}]
    BY <1>1, <2>1, LenProperties
  <2>3. QED
    BY <2>1, <2>2, SeqDef
<1>3. QED
  BY <1>1, <1>2, AppendProperties, LenProperties DEF IsSequence

LEMMA EmptyAnswers == IsSequence(<<>>) /\ Len(<<>>) = 0
BY EmptySeq DEF IsSequence

LEMMA StatusesSay == ASSUME ClusterOK, HeldOK PROVE SaysStatuses(Statuses)
<1>1. \A i \in Indices : Exists(i) => index[i].status \in {"open", "close"}
  BY DEF ClusterOK, State, Exists
<1>2. QED
  BY <1>1 DEF SaysStatuses, Statuses, HeldOK

LEMMA LocatedSays == ASSUME ClusterOK, HeldOK PROVE SaysLocated(Located)
<1>1. DOMAIN Located = {t \in Shards : Exists(t[1])}
  BY DEF Located
<1>2. \A i \in Indices, c \in Copies : Exists(i) <=> <<i, c>> \in DOMAIN Located
  BY <1>1, PairIsShard
<1>3. \A s \in DOMAIN Located : Located[s] = place[s]
  BY DEF Located
<1>4. QED
  BY <1>1, <1>2, <1>3 DEF SaysLocated, HeldOK

LEMMA DriftKeeps == ASSUME ViewsInv, Drifts PROVE ViewsInv'
<1>1. ClusterOK' /\ HeldOK' /\ view' = view
  BY DEF Drifts, Drift
<1>2. ViewOK'
  BY <1>1 DEF ViewsInv, ViewOK, Count
<1>3. ASSUME NEW x, SaysStatuses(x) PROVE SaysStatuses(x)'
  BY <1>3 DEF SaysStatuses, Drifts, Drift
<1>4. ASSUME NEW x, SaysLocated(x) PROVE SaysLocated(x)'
  BY <1>4 DEF SaysLocated, Drifts, Drift
<1>5. ListSays'
  <2>1. PICK x : x = view.got[1]
    OBVIOUS
  <2>2. SaysStatuses(x) => SaysStatuses(x)'
    BY <1>3
  <2>3. QED
    BY <1>1, <2>1, <2>2 DEF ViewsInv, ListSays, Given, Count, SaysStatuses
<1>6. PlacementSays'
  <2>1. PICK x, y : x = view.got[3] /\ y = view.got[4]
    OBVIOUS
  <2>2. (SaysLocated(x) => SaysLocated(x)') /\ (SaysStatuses(y) => SaysStatuses(y)')
    BY <1>3, <1>4
  <2>3. QED
    BY <1>1, <2>1, <2>2 DEF ViewsInv, PlacementSays, Given, Count, SaysStatuses, SaysLocated
<1>7. MasterSays' /\ NodesSay'
  BY <1>1 DEF ViewsInv, MasterSays, NodesSay, Given, Count, Drifts, Drift
<1>8. DetailSays'
  BY <1>1 DEF ViewsInv, DetailSays, Given, Count, Drifts, Drift, HeldOK
<1>9. StatusSays'
  <2>1. Visited' = Visited
    BY <1>1 DEF Visited, Count
  <2>2. QED
    BY <1>1, <2>1 DEF ViewsInv, StatusSays, Given, Count, Drifts, Drift
<1>10. QED
  BY <1>1, <1>2, <1>5, <1>6, <1>7, <1>8, <1>9 DEF ViewsInv

(* A request without answers, and the idle view, say nothing yet.            *)
LEMMA FreshSays ==
  ASSUME ClusterOK', HeldOK', NEW kind \in Kinds \cup {"idle"}, NEW asked,
         view' = Request(kind, asked), Parameter(kind, asked)
  PROVE  ViewsInv'
<1>1. /\ view'.kind = kind /\ view'.asked = asked /\ view'.got = <<>> /\ view'.failed = FALSE
      /\ view' = [kind |-> view'.kind, asked |-> view'.asked, got |-> view'.got,
                  failed |-> view'.failed]
  BY DEF Request
<1>2. Count' = 0 /\ IsSequence(view'.got)
  BY <1>1, EmptyAnswers DEF Count
<1>3. ViewOK'
  <2>1. Limited(view'.kind, Count') /\ Parameter(view'.kind, view'.asked)
    BY <1>1, <1>2 DEF Limited
  <2>2. QED
    BY <1>1, <1>2, <2>1 DEF ViewOK
<1>4. ~Given(1)' /\ ~Given(2)' /\ ~Given(3)' /\ ~Given(4)' /\ ~Given(5)'
  BY <1>2 DEF Given
<1>5. ListSays' /\ MasterSays' /\ NodesSay' /\ PlacementSays' /\ StatusSays'
  BY <1>1, <1>4 DEF ListSays, MasterSays, NodesSay, PlacementSays, StatusSays
<1>6. DetailSays'
  BY <1>1, <1>4 DEF DetailSays
<1>7. QED
  BY <1>3, <1>5, <1>6 DEF ViewsInv

LEMMA ClusterStands ==
  ASSUME ClusterOK, nodes' = nodes, master' = master, index' = index, place' = place,
         changes' = changes
  PROVE  ClusterOK'
BY DEF ClusterOK, Exists, Placed

LEMMA BeginsKeeps == ASSUME ViewsInv, Begins PROVE ViewsInv'
<1>1. ClusterOK'
  BY ClusterStands DEF Begins, ViewsInv
<1>2. HeldOK'
  BY DEF Begins, Held, HeldOK, Exists, ViewsInv, ClusterOK
<1>3. QED
  BY <1>1, <1>2, FreshSays DEF Begins

LEMMA StandsKeeps == ASSUME ViewsInv, Stands PROVE ClusterOK' /\ HeldOK'
<1>1. ClusterOK'
  BY ClusterStands DEF Stands, ViewsInv
<1>2. HeldOK'
  BY DEF Stands, HeldOK, Exists, ViewsInv
<1>3. QED
  BY <1>1, <1>2

LEMMA EndsKeeps == ASSUME ViewsInv, Ends PROVE ViewsInv'
<1>1. ClusterOK' /\ HeldOK' /\ view' = Request("idle", None)
  BY StandsKeeps DEF Ends, Idle
<1>2. Parameter("idle", None)
  BY DEF Parameter
<1>3. QED
  BY <1>1, <1>2, FreshSays

LEMMA FailsKeeps == ASSUME ViewsInv, Fails PROVE ViewsInv'
<1>1. Stands /\ Failing /\ view' = [view EXCEPT !.failed = TRUE] /\ ClusterOK' /\ HeldOK'
  BY StandsKeeps DEF Fails
<1>2. /\ view'.kind = view.kind /\ view'.asked = view.asked /\ view'.got = view.got
      /\ view'.failed = TRUE
      /\ view' = [kind |-> view'.kind, asked |-> view'.asked, got |-> view'.got,
                  failed |-> view'.failed]
  BY <1>1 DEF ViewsInv, ViewOK
<1>3. ViewOK'
  BY <1>2 DEF ViewsInv, ViewOK, Count
<1>4. ListSays' /\ MasterSays' /\ NodesSay'
  BY <1>1, <1>2 DEF ViewsInv, ListSays, MasterSays, NodesSay, SaysStatuses, Given, Count, Stands
<1>5. PlacementSays'
  BY <1>1, <1>2 DEF ViewsInv, PlacementSays, SaysStatuses, SaysLocated, Given, Count, Stands
<1>6. DetailSays'
  <2>1. view.kind = "detail" => view.asked \notin held.life /\ view.asked \notin held.same
    BY <1>1 DEF Failing, ViewsInv, HeldOK
  <2>2. QED
    BY <1>1, <1>2, <2>1 DEF DetailSays, Stands
<1>7. StatusSays'
  <2>1. Visited' = Visited
    BY <1>2 DEF Visited, Count
  <2>2. view.kind = "status" => Given(2) /\ ~(view.got[2] \subseteq held.nodes)
    BY <1>1 DEF Failing, ViewsInv, HeldOK
  <2>3. QED
    BY <1>1, <1>2, <2>1, <2>2 DEF ViewsInv, StatusSays, Given, Count, Stands
<1>8. QED
  BY <1>1, <1>3, <1>4, <1>5, <1>6, <1>7 DEF ViewsInv

(* One more answer: the view after it. *)
Longer(answer) ==
  LET n == Count
  IN  /\ view'.kind = view.kind /\ view'.asked = view.asked
      /\ ~view.failed /\ view'.failed = FALSE
      /\ view' = [kind |-> view'.kind, asked |-> view'.asked, got |-> view'.got,
                  failed |-> view'.failed]
      /\ n \in Nat /\ IsSequence(view'.got) /\ Count' = n + 1
      /\ view'.got[n + 1] = answer
      /\ \A k \in 1 .. n : view'.got[k] = view.got[k]

LEMMA AnsweredLonger ==
  ASSUME ViewOK, NEW answer, Said(answer), view' = [view EXCEPT !.got = Append(view.got, answer)]
  PROVE  Longer(answer)
<1>1. /\ view = [kind |-> view.kind, asked |-> view.asked, got |-> view.got, failed |-> view.failed]
      /\ IsSequence(view.got) /\ view.failed \in BOOLEAN
  BY DEF ViewOK
<1>2. /\ view'.kind = view.kind /\ view'.asked = view.asked /\ view'.failed = view.failed
      /\ view'.got = Append(view.got, answer)
      /\ view' = [kind |-> view'.kind, asked |-> view'.asked, got |-> view'.got,
                  failed |-> view'.failed]
  BY <1>1
<1>3. ~view.failed
  BY DEF Said
<1>4. view'.failed = FALSE
  BY <1>1, <1>2, <1>3
<1>5. QED
  BY <1>1, <1>2, <1>3, <1>4, Appended DEF Longer, Count

LEMMA AnswerKeepsView ==
  ASSUME ViewsInv, NEW answer, Said(answer), Longer(answer) PROVE ViewOK'
<1>1. Limited(view'.kind, Count')
  BY DEF Said, Longer, Limited
<1>2. Parameter(view'.kind, view'.asked)
  BY DEF Longer, ViewsInv, ViewOK
<1>3. view'.kind \in Kinds \cup {"idle"}
  BY DEF Longer, ViewsInv, ViewOK
<1>4. QED
  BY <1>1, <1>2, <1>3 DEF Longer, ViewOK

LEMMA AnswerKeepsList ==
  ASSUME ViewsInv, Stands, NEW answer, Said(answer), Longer(answer) PROVE ListSays'
<1>1. CASE view.kind = "list"
  <2>1. view'.got[1] = Statuses /\ SaysStatuses(Statuses)
    BY <1>1, StatusesSay DEF Said, Longer, ViewsInv
  <2>2. PICK x : x = Statuses
    OBVIOUS
  <2>3. SaysStatuses(x) => SaysStatuses(x)'
    BY DEF SaysStatuses, Stands
  <2>4. QED
    BY <2>1, <2>2, <2>3 DEF ListSays, SaysStatuses
<1>2. CASE view.kind # "list"
  BY <1>2 DEF ListSays, Longer
<1>3. QED
  BY <1>1, <1>2

LEMMA AnswerKeepsMaster ==
  ASSUME ViewsInv, Stands, NEW answer, Said(answer), Longer(answer)
  PROVE  MasterSays' /\ NodesSay'
<1>0. PICK n \in Nat : n = Count
  BY DEF Longer
<1>1. /\ n \in Nat /\ n = Count /\ Count' = n + 1 /\ view'.got[n + 1] = answer
      /\ \A k \in 1 .. n : view'.got[k] = view.got[k]
      /\ view'.kind = view.kind /\ held' = held
  BY <1>0 DEF Longer, Stands
<1>2. ClusterOK /\ HeldOK /\ MasterSays /\ NodesSay
  BY DEF ViewsInv
<1>3. ASSUME view.kind \in {"placement", "status"}
      PROVE  (n = 0 => answer = master) /\ (n = 1 => answer = nodes)
  BY <1>1, <1>3 DEF Said
<1>4. MasterSays'
  <2>1. CASE n = 0
    BY <1>1, <1>2, <1>3, <2>1 DEF MasterSays, HeldOK
  <2>2. CASE n # 0
    BY <1>1, <1>2, <2>2 DEF MasterSays, Given
  <2>3. QED
    BY <2>1, <2>2
<1>5. NodesSay'
  <2>1. CASE n = 0
    BY <1>1, <2>1 DEF NodesSay, Given
  <2>2. CASE n = 1
    BY <1>1, <1>2, <1>3, <2>2 DEF NodesSay, HeldOK, ClusterOK
  <2>3. CASE n \notin {0, 1}
    BY <1>1, <1>2, <2>3 DEF NodesSay, Given
  <2>4. QED
    BY <2>1, <2>2, <2>3
<1>6. QED
  BY <1>4, <1>5

LEMMA AnswerKeepsPlacement ==
  ASSUME ViewsInv, Stands, NEW answer, Said(answer), Longer(answer) PROVE PlacementSays'
<1>0. PICK n \in Nat : n = Count
  BY DEF Longer
<1>1. /\ n \in Nat /\ n = Count /\ Count' = n + 1 /\ view'.got[n + 1] = answer
      /\ \A k \in 1 .. n : view'.got[k] = view.got[k]
      /\ view'.kind = view.kind
  BY <1>0 DEF Longer
<1>2. SaysStatuses(Statuses) /\ SaysLocated(Located) /\ PlacementSays
  BY StatusesSay, LocatedSays DEF ViewsInv
<1>3. PICK x, y : x = view'.got[3] /\ y = view'.got[4]
  OBVIOUS
<1>4. (SaysLocated(x) => SaysLocated(x)') /\ (SaysStatuses(y) => SaysStatuses(y)')
  BY DEF SaysLocated, SaysStatuses, Stands
<1>5. ASSUME view.kind = "placement", 3 <= n + 1 PROVE SaysLocated(x)
  <2>1. CASE n = 2
    <3>1. answer = Located
      BY <1>1, <1>5, <2>1 DEF Said
    <3>2. QED
      BY <1>1, <1>2, <1>3, <2>1, <3>1
  <2>2. CASE n >= 3
    BY <1>1, <1>2, <1>3, <1>5, <2>2 DEF PlacementSays, Given
  <2>3. QED
    BY <1>1, <1>5, <2>1, <2>2
<1>6. ASSUME view.kind = "placement", 4 <= n + 1 PROVE SaysStatuses(y)
  <2>1. CASE n = 3
    <3>1. answer = Statuses
      BY <1>1, <1>6, <2>1 DEF Said
    <3>2. QED
      BY <1>1, <1>2, <1>3, <2>1, <3>1
  <2>2. CASE n >= 4
    BY <1>1, <1>2, <1>3, <1>6, <2>2 DEF PlacementSays, Given
  <2>3. QED
    BY <1>1, <1>6, <2>1, <2>2
<1>7. /\ view'.kind = "placement" /\ Given(3)' => SaysLocated(x)'
      /\ view'.kind = "placement" /\ Given(4)' => SaysStatuses(y)'
  BY <1>1, <1>4, <1>5, <1>6 DEF Given
<1>8. QED
  BY <1>3, <1>7 DEF PlacementSays, SaysLocated, SaysStatuses

LEMMA AnswerKeepsDetail ==
  ASSUME ViewsInv, Stands, NEW answer, Said(answer), Longer(answer) PROVE DetailSays'
<1>1. CASE view.kind = "detail"
  <2>0. PICK n, i : n = Count /\ i = view.asked
    BY DEF Longer
  <2>1. /\ n \in Nat /\ n = Count /\ i = view.asked /\ Count' = n + 1 /\ view'.got[n + 1] = answer
        /\ \A k \in 1 .. n : view'.got[k] = view.got[k]
        /\ view'.kind = view.kind /\ view'.asked = i /\ view'.failed = FALSE
        /\ held' = held /\ index' = index
    BY <2>0 DEF Longer, Stands
  <2>2. /\ i \in Indices /\ index[i] \in State /\ None \notin Int
        /\ held.same \subseteq held.life /\ (i \in held.life => index[i].status # "absent")
    BY <1>1, <2>1, NoneElsewhere DEF ViewsInv, ClusterOK, HeldOK, ViewOK, Parameter, Exists
  <2>3. /\ n <= 4
        /\ n = 0 => answer = index[i]
        /\ n = 1 => answer = [read_only |-> index[i].read_only, born |-> index[i].born]
        /\ n \in {2, 3} => answer = index[i].born
        /\ n = 4 => answer = IF index[i].status = "open" THEN index[i].born ELSE None
    BY <1>1, <2>1 DEF Said, Stats
  <2>4. index[i].born \in Int /\ index[i].status \in {"open", "close", "absent"}
    BY <2>2, NoneElsewhere DEF State
  <2>5. /\ n = 4 => answer \in {index[i].born, None}
        /\ n = 4 /\ index[i].status # "absent" => (answer = None <=> index[i].status = "close")
    BY <2>2, <2>3, <2>4
  <2>6. DetailSays
    BY DEF ViewsInv
  <2>7. QED
    <3>1. CASE n = 0
      BY <1>1, <2>1, <2>2, <2>3, <3>1 DEF DetailSays, Given
    <3>2. CASE n = 1
      BY <1>1, <2>1, <2>2, <2>3, <2>6, <3>2 DEF DetailSays, Given
    <3>3. CASE n \in {2, 3}
      BY <1>1, <2>1, <2>2, <2>3, <2>6, <3>3 DEF DetailSays, Given
    <3>4. CASE n = 4
      BY <1>1, <2>1, <2>2, <2>5, <2>6, <3>4 DEF DetailSays, Given
    <3>5. QED
      BY <2>1, <2>3, <3>1, <3>2, <3>3, <3>4
<1>2. CASE view.kind # "detail"
  BY <1>2 DEF DetailSays, Longer
<1>3. QED
  BY <1>1, <1>2

LEMMA AnswerKeepsStatus ==
  ASSUME ViewsInv, Stands, NEW answer, Said(answer), Longer(answer) PROVE StatusSays'
<1>1. CASE view.kind = "status"
  <2>0. PICK n \in Nat : n = Count
    BY DEF Longer
  <2>1. /\ n \in Nat /\ n = Count /\ Count' = n + 1 /\ view'.got[n + 1] = answer
        /\ \A k \in 1 .. n : view'.got[k] = view.got[k]
        /\ view'.kind = view.kind /\ view'.failed = FALSE
    BY <2>0 DEF Longer
  <2>2. StatusSays /\ NodesSay
    BY DEF ViewsInv
  <2>3. CASE n = 0
    BY <1>1, <2>1, <2>3 DEF StatusSays, Given
  <2>4. CASE n = 1
    <3>1. Visited' = {}
      BY <2>1, <2>4 DEF Visited
    <3>2. QED
      BY <2>1, <2>4, <3>1, FS_EmptySet DEF StatusSays
  <2>5. CASE n >= 2
    <3>1. /\ answer \in view.got[2] \ Visited /\ view'.got[2] = view.got[2]
      BY <1>1, <2>1, <2>5 DEF Said
    <3>2. /\ Visited \subseteq view.got[2] /\ Cardinality(Visited) = n - 2
          /\ view.got[2] \subseteq Nodes
      BY <1>1, <2>1, <2>2, <2>5 DEF StatusSays, NodesSay, Given
    <3>3. Visited' = Visited \cup {answer}
      BY <2>1, <2>5 DEF Visited
    <3>4. Cardinality(Visited') = n - 1
      <4>1. IsFiniteSet(Visited)
        BY <3>2, NoneElsewhere, FS_Subset
      <4>2. Cardinality(Visited \cup {answer}) = Cardinality(Visited) + 1
        BY <3>1, <4>1, FS_AddElement
      <4>3. QED
        BY <2>1, <3>2, <3>3, <4>2
    <3>5. QED
      BY <2>1, <3>1, <3>2, <3>3, <3>4 DEF StatusSays
  <2>6. QED
    BY <2>1, <2>3, <2>4, <2>5
<1>2. CASE view.kind # "status"
  BY <1>2 DEF StatusSays, Longer
<1>3. QED
  BY <1>1, <1>2

LEMMA AnswersKeep == ASSUME ViewsInv, Answers PROVE ViewsInv'
<1>1. Stands /\ ClusterOK' /\ HeldOK'
  BY StandsKeeps DEF Answers
<1>2. PICK answer : Said(answer) /\ view' = [view EXCEPT !.got = Append(view.got, answer)]
  BY DEF Answers
<1>3. Longer(answer)
  BY <1>2, AnsweredLonger DEF ViewsInv
<1>4. ViewOK' /\ ListSays' /\ MasterSays' /\ NodesSay' /\ PlacementSays' /\ DetailSays'
      /\ StatusSays'
  BY <1>1, <1>2, <1>3, AnswerKeepsView, AnswerKeepsList, AnswerKeepsMaster,
     AnswerKeepsPlacement, AnswerKeepsDetail, AnswerKeepsStatus
<1>5. QED
  BY <1>1, <1>4 DEF ViewsInv

LEMMA InitViews == ASSUME Init PROVE ViewsInv
<1>1. ClusterOK
  <2>1. changes \in 0 .. MaxChanges /\ nodes \subseteq Nodes /\ master \in nodes
    BY NoneElsewhere DEF Init
  <2>2. ASSUME NEW i \in Indices PROVE index[i] \in State /\ index[i].born <= changes
    <3>1. index[i] \in [status : {"open", "close", "absent"}, read_only : {FALSE}, born : {0}]
      BY DEF Init
    <3>2. changes = 0 /\ 0 \in 0 .. MaxChanges
      BY NoneElsewhere DEF Init
    <3>3. index[i] \in State /\ index[i].born = 0
      BY <3>1, <3>2 DEF State
    <3>4. QED
      BY <3>2, <3>3
  <2>3. index \in [Indices -> State]
    BY <2>2 DEF Init
  <2>4. QED
    BY <2>1, <2>2, <2>3 DEF Init, ClusterOK
<1>2. HeldOK
  BY DEF Init, Held, HeldOK, Exists
<1>3. view = [kind |-> "idle", asked |-> None, got |-> <<>>, failed |-> FALSE]
  BY DEF Init, Idle, Request
<1>4. ViewOK
  BY <1>3, EmptyAnswers DEF ViewOK, Count, Limited, Parameter
<1>5. ListSays /\ MasterSays /\ NodesSay /\ PlacementSays /\ DetailSays /\ StatusSays
  BY <1>3 DEF ListSays, MasterSays, NodesSay, PlacementSays, DetailSays, StatusSays
<1>6. QED
  BY <1>1, <1>2, <1>4, <1>5 DEF ViewsInv

(* In every reachable state, the answers that a view has got so far say what *)
(* is true of everything that has not changed since it was asked for: where  *)
(* the calls of get_index_placement, get_nodes_status and get_index_detail   *)
(* are separated by changes of the cluster, nothing older is mixed in.       *)
THEOREM AnswersStayTrue == Spec => []ViewsInv
<1>1. Init => ViewsInv
  BY InitViews
<1>2. ViewsInv /\ [Next]_vars => ViewsInv'
  <2> SUFFICES ASSUME ViewsInv, [Next]_vars PROVE ViewsInv'
    OBVIOUS
  <2>1. Drifts \/ Begins \/ Ends \/ Answers \/ Fails
    BY StepKinds DEF ViewsInv
  <2>2. QED
    BY <2>1, DriftKeeps, BeginsKeeps, EndsKeeps, AnswersKeep, FailsKeeps
<1>3. QED
  BY <1>1, <1>2, PTL DEF Spec

-----------------------------------------------------------------------------
(* How a placement is put together: the copies that are shown, and what the  *)
(* entry of an index tells of each.                                          *)

VisibleIn(got, all) == {s \in DOMAIN got[3] : all \/ s[1] \notin LeftOut(got[4])}

EntryOf(got, all, i) ==
  LET Copy(n) == {s[2] : s \in {t \in VisibleIn(got, all) : t[1] = i /\ got[3][t] = n}}
      on      == {got[3][s] : s \in {t \in VisibleIn(got, all) : t[1] = i}}
      away    == {n \in on : NoNode(n, got[2])}
  IN  [status     |-> StatusIn(i, got[4]),
       by_node    |-> [n \in on \ away |-> Copy(n)],
       unassigned |-> UNION {Copy(n) : n \in away}]

LEMMA PlacementIndices ==
  ASSUME NEW got, NEW all
  PROVE  PlacementOf(got, all).indices =
           [i \in {s[1] : s \in VisibleIn(got, all)} |-> EntryOf(got, all, i)]
BY DEF PlacementOf, VisibleIn, EntryOf

(* An entry tells of each copy that is shown: the node it is on, if that     *)
(* node is listed, and that it is unassigned otherwise.                      *)
LEMMA EntryTells ==
  ASSUME NEW got, NEW all, DOMAIN got[3] \subseteq Shards, NEW i, NEW c
  PROVE  LET entry == EntryOf(got, all, i)
             shown == <<i, c>> \in VisibleIn(got, all)
             n0    == got[3][<<i, c>>]
         IN  /\ entry.status = StatusIn(i, got[4])
             /\ \A n \in DOMAIN entry.by_node : ~NoNode(n, got[2])
             /\ \A n : n \in DOMAIN entry.by_node /\ c \in entry.by_node[n]
                         <=> shown /\ n = n0 /\ ~NoNode(n0, got[2])
             /\ c \in entry.unassigned <=> shown /\ NoNode(n0, got[2])
<1> DEFINE V == VisibleIn(got, all)
           Copy(n) == {s[2] : s \in {t \in V : t[1] = i /\ got[3][t] = n}}
           on == {got[3][s] : s \in {t \in V : t[1] = i}}
           away == {n \in on : NoNode(n, got[2])}
           entry == EntryOf(got, all, i)
           shown == <<i, c>> \in V
           n0 == got[3][<<i, c>>]
<1>1. /\ entry.status = StatusIn(i, got[4])
      /\ DOMAIN entry.by_node = on \ away
      /\ \A n \in on \ away : entry.by_node[n] = Copy(n)
      /\ entry.unassigned = UNION {Copy(n) : n \in away}
  BY DEF EntryOf
<1>2. \A s \in V : s = <<s[1], s[2]>>
  BY ShardOf DEF VisibleIn
<1>3. \A n : c \in Copy(n) <=> shown /\ n = n0
  <2>1. ASSUME NEW n, c \in Copy(n) PROVE shown /\ n = n0
    <3>1. PICK s \in V : s[2] = c /\ s[1] = i /\ got[3][s] = n
      BY <2>1
    <3>2. s = <<i, c>>
      BY <1>2, <3>1
    <3>3. QED
      BY <3>1, <3>2
  <2>2. ASSUME shown PROVE c \in Copy(n0)
    <3>1. PICK s \in V : s = <<i, c>>
      BY <2>2
    <3>2. s[1] = i /\ s[2] = c /\ got[3][s] = n0
      BY <3>1
    <3>3. QED
      BY <3>1, <3>2
  <2>3. QED
    BY <2>1, <2>2
<1>4. shown => n0 \in on
  <2>1. ASSUME shown PROVE n0 \in on
    <3>1. PICK s \in V : s = <<i, c>>
      BY <2>1
    <3>2. s[1] = i /\ got[3][s] = n0
      BY <3>1
    <3>3. QED
      BY <3>1, <3>2
  <2>2. QED
    BY <2>1
<1> HIDE DEF V, Copy, on, entry, shown, n0
<1>5. QED
  <2>1. \A n \in DOMAIN entry.by_node : ~NoNode(n, got[2])
    BY <1>1
  <2>2. \A n : n \in DOMAIN entry.by_node /\ c \in entry.by_node[n]
                 <=> shown /\ n = n0 /\ ~NoNode(n0, got[2])
    BY <1>1, <1>3, <1>4
  <2>3. c \in entry.unassigned <=> shown /\ NoNode(n0, got[2])
    BY <1>1, <1>3, <1>4
  <2>4. QED
    BY <1>1, <2>1, <2>2, <2>3 DEF V, entry, shown, n0

-----------------------------------------------------------------------------
(* Types of the cluster, of a request and of what is held.                   *)
THEOREM ViewsTypesCorrect == Spec => []ViewsTypeOK
<1>1. ViewsInv => ViewsTypeOK
  BY DEF ViewsInv, ClusterOK, HeldOK, ViewOK, Limited, Count, ViewsTypeOK
<1>2. QED
  BY <1>1, AnswersStayTrue, PTL

(* A list and a placement are complete when every call was answered. *)
LEMMA DoneCount ==
  /\ Done("list") => view.kind = "list" /\ Given(1)
  /\ Done("placement") => view.kind = "placement" /\ Given(1) /\ Given(2) /\ Given(3) /\ Given(4)
  /\ Done("detail") => view.kind = "detail" /\ Given(1) /\ Given(2) /\ Given(3) /\ Given(4) /\ Given(5)
<1>1. view.kind = "list" /\ Answered => Count = 1
  BY DEF Answered, Count
<1>2. view.kind = "placement" /\ Answered => Count = 4
  BY DEF Answered, Count
<1>3. view.kind = "detail" /\ Answered => Count = 5
  BY DEF Answered, Count
<1>4. QED
  BY <1>1, <1>2, <1>3 DEF Done, Given

(* An index that lives on is left out exactly if it is closed. *)
LEMMA SteadyStatus ==
  ASSUME NEW statuses, SaysStatuses(statuses), HeldOK, NEW i \in held.same
  PROVE  /\ i \in DOMAIN statuses /\ StatusIn(i, statuses) = index[i].status
         /\ index[i].status \in {"open", "close"}
         /\ i \in LeftOut(statuses) <=> index[i].status = "close"
BY DEF SaysStatuses, HeldOK, StatusIn, LeftOut

LEMMA SteadyList ==
  ASSUME ViewsInv, Done("list"), NEW i \in held.same
  PROVE  i \in ListOf(view.got, view.asked) <=> view.asked \/ index[i].status = "open"
<1>1. SaysStatuses(view.got[1]) /\ view.asked \in BOOLEAN /\ HeldOK
  BY DoneCount DEF ViewsInv, ListSays, ViewOK, Parameter
<1>2. PICK x : x = view.got[1]
  OBVIOUS
<1>3. /\ i \in DOMAIN x /\ index[i].status \in {"open", "close"}
      /\ i \in LeftOut(x) <=> index[i].status = "close"
  BY <1>1, <1>2, SteadyStatus
<1>4. QED
  BY <1>1, <1>2, <1>3 DEF ListOf

(* What a complete placement was made of. *)
LEMMA PlacementParts ==
  ASSUME ViewsInv, Done("placement")
  PROVE  /\ view.asked \in BOOLEAN /\ HeldOK /\ ClusterOK
         /\ SaysLocated(view.got[3]) /\ SaysStatuses(view.got[4])
         /\ held.nodes \subseteq view.got[2] /\ view.got[2] \subseteq Nodes
BY DoneCount DEF ViewsInv, PlacementSays, NodesSay, ViewOK, Parameter

(* An index is shown if one of its copies is, and then all of them are. *)
LEMMA IndexShown ==
  ASSUME NEW got, NEW all, SaysLocated(got[3]), HeldOK, NEW i
  PROVE  LET shown == PlacementOf(got, all).indices
         IN  /\ i \in DOMAIN shown =>
                  /\ i \in Indices /\ shown[i] = EntryOf(got, all, i)
                  /\ all \/ i \notin LeftOut(got[4])
                  /\ \A c \in Copies : <<i, c>> \in VisibleIn(got, all)
             /\ i \in held.life /\ (all \/ i \notin LeftOut(got[4])) => i \in DOMAIN shown
<1> DEFINE shown == PlacementOf(got, all).indices
           V == VisibleIn(got, all)
<1>1. /\ DOMAIN shown = {s[1] : s \in V}
      /\ \A j \in DOMAIN shown : shown[j] = EntryOf(got, all, j)
  <2>1. shown = [j \in {s[1] : s \in V} |-> EntryOf(got, all, j)]
    BY PlacementIndices
  <2> HIDE DEF shown, V
  <2>2. QED
    BY <2>1
<1>2. ASSUME i \in DOMAIN shown
      PROVE  /\ i \in Indices /\ (all \/ i \notin LeftOut(got[4]))
             /\ \A c \in Copies : <<i, c>> \in V
  <2>1. PICK s \in V : s[1] = i
    BY <1>1, <1>2
  <2>2. s \in DOMAIN got[3] /\ (all \/ i \notin LeftOut(got[4]))
    BY <2>1 DEF VisibleIn
  <2>3. i \in Indices /\ s[2] \in Copies /\ s = <<i, s[2]>>
    BY <2>1, <2>2, ShardOf DEF SaysLocated
  <2>4. \A c \in Copies : <<i, c>> \in DOMAIN got[3]
    BY <2>2, <2>3 DEF SaysLocated
  <2>5. QED
    BY <2>2, <2>3, <2>4 DEF VisibleIn
<1>3. ASSUME i \in held.life, all \/ i \notin LeftOut(got[4]) PROVE i \in DOMAIN shown
  <2>1. PICK c \in Copies : TRUE
    BY ViewsAssumption
  <2>2. <<i, c>> \in DOMAIN got[3] /\ <<i, c>>[1] = i
    BY <1>3, <2>1 DEF SaysLocated
  <2>3. <<i, c>> \in V
    BY <1>3, <2>2 DEF VisibleIn
  <2>4. QED
    BY <1>1, <2>2, <2>3
<1>4. QED
  BY <1>1, <1>2, <1>3

LEMMA SteadyPlacement ==
  ASSUME ViewsInv, Done("placement"), NEW i \in held.same
  PROVE  LET shown == PlacementOf(view.got, view.asked).indices
         IN  IF ~view.asked /\ index[i].status = "close" THEN i \notin DOMAIN shown
             ELSE /\ i \in DOMAIN shown /\ shown[i].status = index[i].status
                  /\ \A c \in Copies : <<i, c>> \in held.shards =>
                       LET n == place[<<i, c>>]
                       IN  /\ n \in held.nodes => c \in shown[i].by_node[n]
                           /\ n = None => c \in shown[i].unassigned
<1>1. PICK got, all : got = view.got /\ all = view.asked
  OBVIOUS
<1>2. /\ all \in BOOLEAN /\ HeldOK /\ ClusterOK /\ SaysLocated(got[3]) /\ SaysStatuses(got[4])
      /\ held.nodes \subseteq got[2] /\ got[2] \subseteq Nodes
  BY <1>1, PlacementParts
<1>3. /\ StatusIn(i, got[4]) = index[i].status
      /\ i \in LeftOut(got[4]) <=> index[i].status = "close"
      /\ i \in held.life /\ i \in Indices
  BY <1>2, SteadyStatus DEF HeldOK
<1> DEFINE shown == PlacementOf(got, all).indices
<1>4. /\ i \in DOMAIN shown =>
           /\ shown[i] = EntryOf(got, all, i) /\ (all \/ i \notin LeftOut(got[4]))
           /\ \A c \in Copies : <<i, c>> \in VisibleIn(got, all)
      /\ (all \/ i \notin LeftOut(got[4])) => i \in DOMAIN shown
  BY <1>2, <1>3, IndexShown
<1>5. ASSUME i \in DOMAIN shown
      PROVE  /\ shown[i].status = index[i].status
             /\ \A c \in Copies : <<i, c>> \in held.shards =>
                  /\ place[<<i, c>>] \in held.nodes => c \in shown[i].by_node[place[<<i, c>>]]
                  /\ place[<<i, c>>] = None => c \in shown[i].unassigned
  <2>1. shown[i] = EntryOf(got, all, i) /\ DOMAIN got[3] \subseteq Shards
    BY <1>2, <1>4, <1>5 DEF SaysLocated
  <2>2. shown[i].status = index[i].status
    BY <1>3, <2>1, EntryTells
  <2>3. ASSUME NEW c \in Copies, <<i, c>> \in held.shards
        PROVE  /\ place[<<i, c>>] \in held.nodes => c \in shown[i].by_node[place[<<i, c>>]]
               /\ place[<<i, c>>] = None => c \in shown[i].unassigned
    <3>1. <<i, c>> \in VisibleIn(got, all)
      BY <1>4, <1>5
    <3>2. <<i, c>> \in DOMAIN got[3]
      BY <3>1 DEF VisibleIn
    <3>3. got[3][<<i, c>>] = place[<<i, c>>]
      BY <1>2, <2>3, <3>2 DEF SaysLocated
    <3>4. place[<<i, c>>] \in held.nodes => ~NoNode(place[<<i, c>>], got[2])
      BY <1>2, NoneElsewhere DEF NoNode
    <3>5. place[<<i, c>>] = None => NoNode(place[<<i, c>>], got[2])
      BY DEF NoNode
    <3> HIDE DEF shown
    <3>6. QED
      BY <2>1, <3>1, <3>3, <3>4, <3>5, EntryTells
  <2>4. QED
    BY <2>2, <2>3
<1>6. QED
  BY <1>1, <1>2, <1>3, <1>4, <1>5

(* Lists and placements show what did not change while they were put         *)
(* together, whatever else changed between the calls.                        *)
THEOREM SteadyIsShown == Spec => []SteadyShown
<1>1. ViewsInv => SteadyShown
  BY SteadyList, SteadyPlacement DEF SteadyShown
<1>2. QED
  BY <1>1, AnswersStayTrue, PTL

(* The placement has every copy of an index that it shows, on one node of    *)
(* its own list of nodes or unassigned; and of the statuses it shows.        *)
LEMMA PlacementConsistent ==
  ASSUME ViewsInv, Done("placement"),
         NEW i \in DOMAIN PlacementOf(view.got, view.asked).indices
  PROVE  LET answer == PlacementOf(view.got, view.asked)
             entry  == answer.indices[i]
             On(c)  == {n \in DOMAIN entry.by_node : c \in entry.by_node[n]}
         IN  /\ \A c \in Copies :
                  /\ On(c) \subseteq DOMAIN answer.nodes
                  /\ Cardinality(On(c)) = IF c \in entry.unassigned THEN 0 ELSE 1
             /\ ~view.asked =>
                  IF i \in held.life THEN entry.status = "open"
                  ELSE entry.status = "open" => i \in DOMAIN view.got[4]
<1>1. PICK got, all : got = view.got /\ all = view.asked
  OBVIOUS
<1>2. /\ all \in BOOLEAN /\ HeldOK /\ SaysLocated(got[3]) /\ SaysStatuses(got[4])
  BY <1>1, PlacementParts
<1> DEFINE answer == PlacementOf(got, all)
           entry == answer.indices[i]
           On(c) == {n \in DOMAIN entry.by_node : c \in entry.by_node[n]}
<1>3. /\ i \in Indices /\ entry = EntryOf(got, all, i) /\ (all \/ i \notin LeftOut(got[4]))
      /\ \A c \in Copies : <<i, c>> \in VisibleIn(got, all)
      /\ DOMAIN answer.nodes = got[2] /\ DOMAIN got[3] \subseteq Shards
  <2>1. DOMAIN answer.nodes = got[2]
    <3>1. answer.nodes = [n \in got[2] |-> n = got[1]]
      BY DEF PlacementOf
    <3> HIDE DEF answer
    <3>2. QED
      BY <3>1
  <2>2. i \in DOMAIN answer.indices /\ DOMAIN got[3] \subseteq Shards
    BY <1>1, <1>2 DEF SaysLocated
  <2>3. QED
    BY <1>2, <2>1, <2>2, IndexShown
<1>4. ASSUME NEW c \in Copies
      PROVE  /\ On(c) \subseteq DOMAIN answer.nodes
             /\ Cardinality(On(c)) = IF c \in entry.unassigned THEN 0 ELSE 1
  <2>1. PICK n0 : n0 = got[3][<<i, c>>]
    OBVIOUS
  <2>2. /\ \A n \in DOMAIN entry.by_node : ~NoNode(n, got[2])
        /\ \A n : n \in DOMAIN entry.by_node /\ c \in entry.by_node[n]
                    <=> n = n0 /\ ~NoNode(n0, got[2])
        /\ c \in entry.unassigned <=> NoNode(n0, got[2])
    BY <1>3, <2>1, EntryTells
  <2>3. On(c) \subseteq DOMAIN answer.nodes
    BY <1>3, <2>2 DEF NoNode
  <2>4. CASE c \in entry.unassigned
    <3>1. On(c) = {}
      BY <2>2, <2>4
    <3>2. QED
      BY <2>3, <2>4, <3>1, FS_EmptySet
  <2>5. CASE c \notin entry.unassigned
    <3>1. On(c) = {n0}
      BY <2>2, <2>5
    <3>2. QED
      BY <2>3, <2>5, <3>1, FS_Singleton
  <2>6. QED
    BY <2>4, <2>5
<1>5. ASSUME ~all
      PROVE  IF i \in held.life THEN entry.status = "open"
             ELSE entry.status = "open" => i \in DOMAIN got[4]
  <2>1. entry.status = StatusIn(i, got[4]) /\ i \notin LeftOut(got[4])
    BY <1>3, <1>5 DEF EntryOf
  <2>2. i \in DOMAIN got[4] => entry.status = "open"
    BY <1>2, <2>1 DEF SaysStatuses, StatusIn, LeftOut
  <2>3. i \notin DOMAIN got[4] => entry.status = "close" /\ i \notin held.life
    BY <1>2, <2>1 DEF SaysStatuses, StatusIn
  <2>4. QED
    BY <2>2, <2>3
<1>6. QED
  BY <1>1, <1>4, <1>5

(* A placement, put together from four answers at different times, is        *)
(* consistent in itself.                                                     *)
THEOREM PlacementsAreWhole == Spec => []PlacementWhole
<1>1. ViewsInv => PlacementWhole
  BY PlacementConsistent DEF PlacementWhole
<1>2. QED
  BY <1>1, AnswersStayTrue, PTL

(* Marks on the nodes of the second answer: one at most, and the master's if *)
(* it was the master all the time.                                           *)
LEMMA OneMark ==
  ASSUME ViewsInv, view.kind \in {"placement", "status"}, Given(1), Given(2),
         NEW marks, marks = [n \in view.got[2] |-> n = view.got[1]]
  PROVE  LET marked == {n \in DOMAIN marks : marks[n]}
         IN  /\ Cardinality(marked) <= 1 /\ held.nodes \subseteq DOMAIN marks
             /\ held.master # None => marked = {held.master}
<1> DEFINE marked == {n \in DOMAIN marks : marks[n]}
<1>1. PICK first, present : first = view.got[1] /\ present = view.got[2]
  OBVIOUS
<1>2. /\ held.nodes \subseteq present /\ held.master \in present \cup {None}
      /\ held.master \in {None, first}
  BY <1>1 DEF ViewsInv, MasterSays, NodesSay
<1>3. marked = {n \in present : n = first} /\ DOMAIN marks = present
  BY <1>1
<1>4. marked = {} \/ marked = {first}
  BY <1>3
<1>5. Cardinality(marked) <= 1
  <2>1. Cardinality({}) = 0 /\ Cardinality({first}) = 1
    BY FS_EmptySet, FS_Singleton
  <2> HIDE DEF marked
  <2>2. QED
    BY <1>4, <2>1
<1>6. QED
  BY <1>2, <1>3, <1>5

LEMMA DoneStatus ==
  ASSUME ViewsInv, Done("status")
  PROVE  view.kind = "status" /\ Given(1) /\ Given(2) /\ Cardinality(Visited) = Cardinality(view.got[2])
<1>1. view.kind = "status" /\ Count >= 2 /\ Count = 2 + Cardinality(view.got[2])
  BY DEF Done, Answered, Count
<1>2. Count \in Nat
  BY CountIsNat DEF ViewsInv
<1>3. Given(1) /\ Given(2)
  BY <1>1, <1>2 DEF Given
<1>4. IsFiniteSet(view.got[2]) /\ Cardinality(Visited) = Count - 2
  BY <1>1, <1>3, NoneElsewhere, FS_Subset DEF ViewsInv, NodesSay, StatusSays
<1>5. Cardinality(view.got[2]) \in Nat
  BY <1>4, FS_CardinalityType
<1>6. QED
  BY <1>1, <1>2, <1>3, <1>4, <1>5

(* When the status of the nodes is complete, every node was asked: as many   *)
(* were asked as there are, and none twice.                                  *)
LEMMA EveryNodeVisited ==
  ASSUME ViewsInv, Done("status") PROVE Visited = view.got[2]
<1>1. view.kind = "status" /\ Given(2) /\ Cardinality(Visited) = Cardinality(view.got[2])
  BY DoneStatus
<1>2. Visited \subseteq view.got[2] /\ view.got[2] \subseteq Nodes
  BY <1>1 DEF ViewsInv, NodesSay, StatusSays
<1>3. IsFiniteSet(view.got[2])
  BY <1>2, NoneElsewhere, FS_Subset
<1>4. QED
  BY <1>1, <1>2, <1>3, FS_Subset

LEMMA NodesAreShown == ASSUME ViewsInv PROVE NodesShown
<1>1. ASSUME Done("placement") \/ Done("status")
      PROVE  LET marks == IF Done("status") THEN StatusOf(view.got).nodes
                          ELSE PlacementOf(view.got, view.asked).nodes
                 marked == {n \in DOMAIN marks : marks[n]}
             IN  /\ Cardinality(marked) <= 1 /\ held.nodes \subseteq DOMAIN marks
                 /\ held.master # None => marked = {held.master}
  <2>1. view.kind \in {"placement", "status"} /\ Given(1) /\ Given(2)
    BY <1>1, DoneCount, DoneStatus
  <2>2. PICK marks : marks = IF Done("status") THEN StatusOf(view.got).nodes
                             ELSE PlacementOf(view.got, view.asked).nodes
    OBVIOUS
  <2>3. marks = [n \in view.got[2] |-> n = view.got[1]]
    <3>1. PlacementOf(view.got, view.asked).nodes = [n \in view.got[2] |-> n = view.got[1]]
      BY DEF PlacementOf
    <3>2. StatusOf(view.got).nodes = [n \in view.got[2] |-> n = view.got[1]]
      BY DEF StatusOf
    <3>3. QED
      BY <2>2, <3>1, <3>2
  <2>4. QED
    BY <2>1, <2>2, <2>3, OneMark
<1>2. ASSUME Done("status"), NEW n \in DOMAIN StatusOf(view.got).stats
      PROVE  StatusOf(view.got).stats[n]
  <2>1. n \in view.got[2]
    BY <1>2 DEF StatusOf
  <2>2. PICK k \in 3 .. Count : view.got[k] = n
    BY <1>2, <2>1, EveryNodeVisited DEF Visited
  <2>3. k \in 3 .. Len(view.got)
    BY <2>2 DEF Count
  <2>4. QED
    BY <2>1, <2>2, <2>3 DEF StatusOf
<1>3. view.kind = "status" /\ view.failed => ~(view.got[2] \subseteq held.nodes)
  BY DEF ViewsInv, StatusSays
<1>4. QED
  BY <1>1, <1>2, <1>3 DEF NodesShown

(* At most one node is marked as the master, and the one that was it all the *)
(* time; a status that is shown has the statistics of every node it lists;   *)
(* and it fails only if a node was not there all the time.                   *)
THEOREM NodesAreMarkedOnce == Spec => []NodesShown
<1>1. ViewsInv => NodesShown
  BY NodesAreShown
<1>2. QED
  BY <1>1, AnswersStayTrue, PTL

(* The detail of an index that goes on to exist is answered, and all of its  *)
(* answers are of that one index, even if its name was used before or later. *)
THEOREM DetailsAreWhole == Spec => []DetailWhole
<1>1. ASSUME ViewsInv, view.kind = "detail", Answered \/ view.failed,
             NEW i, i = view.asked, NEW got, got = view.got
      PROVE  /\ i \in held.life =>
                  /\ ~view.failed
                  /\ \A b \in {got[1].born, got[2].born, got[3], got[4], got[5]} :
                       b \in {index[i].born, None}
             /\ i \in held.same =>
                  /\ got[1] = index[i] /\ got[2].read_only = index[i].read_only
                  /\ got[5] = None <=> index[i].status = "close"
  <2>1. DetailSays /\ held.same \subseteq held.life
    BY <1>1 DEF ViewsInv, HeldOK
  <2>2. i \in held.life => ~view.failed
    BY <1>1, <2>1 DEF DetailSays
  <2>3. ~view.failed => Given(1) /\ Given(2) /\ Given(3) /\ Given(4) /\ Given(5)
    BY <1>1, DoneCount DEF Done
  <2>4. QED
    BY <1>1, <2>1, <2>2, <2>3 DEF DetailSays
<1>2. ViewsInv => DetailWhole
  BY <1>1 DEF DetailWhole
<1>3. QED
  BY <1>2, AnswersStayTrue, PTL

-----------------------------------------------------------------------------
(* The charts, for every request with integer times, every number of queries *)
(* and every time.                                                           *)

(* The length of a range and the step that belongs to it. *)
LEMMA PresetValues ==
  ASSUME NEW range
  PROVE  \/ range = "15m" /\ Seconds(range) = 900 /\ PresetStep(range) = 15
         \/ range = "6h" /\ Seconds(range) = 21600 /\ PresetStep(range) = 300
         \/ range = "24h" /\ Seconds(range) = 86400 /\ PresetStep(range) = 1200
         \/ range = "7d" /\ Seconds(range) = 604800 /\ PresetStep(range) = 7200
         \/ range \notin {"15m", "6h", "24h", "7d"} /\ Seconds(range) = 3600 /\ PresetStep(range) = 60
BY DEF Seconds, PresetStep

(* A range of a preset's length, given as a start and an end, has its step.  *)
LEMMA PresetLengths ==
  ASSUME NEW range PROVE StepOf(Seconds(range)) = PresetStep(range)
BY PresetValues DEF StepOf

(* From a quarter of an hour to a week, 12 to 84 steps make up a range.      *)
LEMMA StepCounts ==
  ASSUME NEW d \in Int, 900 <= d, d <= 604800 PROVE d \div StepOf(d) \in 12 .. 84
<1>1. CASE d <= 900
  BY <1>1 DEF StepOf
<1>2. CASE d > 900 /\ d <= 3600
  BY <1>2 DEF StepOf
<1>3. CASE d > 3600 /\ d <= 21600
  BY <1>3 DEF StepOf
<1>4. CASE d > 21600 /\ d <= 86400
  BY <1>4 DEF StepOf
<1>5. CASE d > 86400
  BY <1>5 DEF StepOf
<1>6. QED
  BY <1>1, <1>2, <1>3, <1>4, <1>5

Times == [start : Int, end : Int, step : Int]

(* Parameters that are not refused have times; without a step of the caller, *)
(* and with times of one format, theirs is the one for their length.         *)
LEMMA ResolvedTimes ==
  ASSUME NEW asked \in Charted, NEW t \in Int, NEW p \in Resolved(asked, t), ~Refused(p)
  PROVE  p \in Times /\ (asked.step = None /\ ~Mixed(asked) => p.step = StepOf(p.end - p.start))
<1>1. asked.step \in Int \cup {None} /\ p.start # Bad /\ p.end # Bad
  BY DEF Charted, Refused
<1>2. \A d \in Int : StepOf(d) \in Int
  BY DEF StepOf
<1>3. CASE Custom(asked)
  <2>1. PICK d \in Lengths(asked) :
          p = [start |-> asked.start, end |-> asked.end, step |-> Or(asked.step, StepOf(d))]
    BY <1>3 DEF Resolved
  <2>2. asked.start \in Int /\ asked.end \in Int
    BY <1>1, <1>3, <2>1 DEF Charted, Custom
  <2>3. d \in Int /\ (~Mixed(asked) => d = asked.end - asked.start)
    BY <1>1, <2>1, <2>2 DEF Lengths
  <2>4. QED
    BY <1>1, <1>2, <2>1, <2>2, <2>3 DEF Or, Times
<1>4. CASE ~Custom(asked)
  <2> DEFINE n == Seconds(asked.range)
  <2>1. p = [start |-> t - n, end |-> t, step |-> Or(asked.step, PresetStep(asked.range))]
    BY <1>4 DEF Resolved
  <2>2. n \in Int /\ PresetStep(asked.range) \in Int
    BY PresetValues
  <2>3. PresetStep(asked.range) = StepOf(n)
    BY PresetLengths
  <2> HIDE DEF n
  <2>4. t - (t - n) = n
    BY <2>2
  <2>5. QED
    BY <1>1, <2>1, <2>2, <2>3, <2>4 DEF Or, Times
<1>5. QED
  BY <1>3, <1>4

-----------------------------------------------------------------------------
(* The answers of a chart so far were made with one resolution of the times  *)
(* that was asked for.                                                       *)
Resolution(asked, got) ==
  /\ asked \in Asked /\ got \in Seq(Times)
  /\ \A i \in DOMAIN got :
       /\ \E t \in Int : got[i] \in Resolved(asked, t)
       /\ ~Refused(got[i]) /\ got[i] = got[1]

ChartInv ==
  /\ now \in Nat
  /\ view = [kind |-> view.kind, asked |-> view.asked, got |-> view.got, failed |-> view.failed]
  /\ view.kind = "chart" => Resolution(view.asked, view.got)

(* What a step does to the view. *)
LEMMA ViewStep ==
  ASSUME [Next]_vars
  PROVE  \/ view' = view /\ (now' = now \/ now' = now + 1)
         \/ now' = now /\ view' = Idle
         \/ now' = now /\ \E kind, asked : view' = Request(kind, asked)
                                           /\ (kind = "chart" => asked \in Asked)
         \/ now' = now /\ view.kind # "chart" /\ \E good, answer : Reply(good, answer)
         \/ Chart
<1>1. CASE UNCHANGED vars
  BY <1>1 DEF vars
<1>2. CASE Others
  <2>1. ASSUME NEW n \in Nodes, Leaves(n) \/ Joins(n) \/ \E s \in Shards : Moves(s, n)
        PROVE  view' = view /\ now' = now
    BY <2>1 DEF Leaves, Joins, Moves
  <2>2. ASSUME NEW i \in Indices, Created(i) \/ Open(i) \/ Close(i) \/ Delete(i)
        PROVE  view' = view /\ now' = now
    BY <2>2 DEF Created, Open, Close, Delete, Becomes
  <2>3. ASSUME NEW i \in Indices, NEW b \in BOOLEAN, UpdateReadOnly(i, b)
        PROVE  view' = view /\ now' = now
    BY <2>3 DEF UpdateReadOnly, Becomes
  <2>4. QED
    BY <1>2, <2>1, <2>2, <2>3 DEF Others, Tick
<1>3. ASSUME NEW kind, NEW asked, Ask(kind, asked)
      PROVE  now' = now /\ view' = Request(kind, asked)
  BY <1>3 DEF Ask
<1>4. CASE List \/ Placement \/ Detail \/ Status
  <2>1. view.kind # "chart"
    BY <1>4 DEF List, Placement, Detail, Status, Calls
  <2>2. \E good, answer : Reply(good, answer)
    BY <1>4 DEF List, Placement, Detail, Status
  <2>3. now' = now
    BY <2>2 DEF Reply
  <2>4. QED
    BY <2>1, <2>2, <2>3
<1>5. CASE CallFails \/ Shown
  BY <1>5 DEF CallFails, Shown
<1>6. QED
  BY <1>1, <1>2, <1>3, <1>4, <1>5 DEF Next, Views

(* A query is made with the resolution of the first. *)
LEMMA ChartStep == ASSUME ChartInv, Chart PROVE ChartInv'
<1>1. /\ Asked \subseteq Charted /\ view.kind = "chart" /\ now \in Nat
      /\ view.asked \in Asked /\ view.got \in Seq(Times)
  BY ViewsAssumption DEF ChartInv, Resolution, Chart
<1>2. PICK p \in Parameters : Reply(~Refused(p), p)
  BY DEF Chart
<1>3. now' = now
  BY <1>2 DEF Reply
<1>4. CASE Refused(p)
  <2>1. view' = [view EXCEPT !.failed = TRUE]
    BY <1>2, <1>4 DEF Reply
  <2>2. QED
    BY <1>3, <2>1 DEF ChartInv
<1>5. CASE ~Refused(p)
  <2>1. view' = [view EXCEPT !.got = Append(view.got, p)]
    BY <1>2, <1>5 DEF Reply
  <2>2. /\ view'.kind = view.kind /\ view'.asked = view.asked /\ view'.failed = view.failed
        /\ view'.got = Append(view.got, p)
        /\ view' = [kind |-> view'.kind, asked |-> view'.asked, got |-> view'.got,
                    failed |-> view'.failed]
    BY <2>1 DEF ChartInv
  <2>3. (\E t \in Int : p \in Resolved(view.asked, t)) /\ (view.got # <<>> => p = view.got[1])
    <3>1. CASE view.got = <<>>
      BY <1>1, <1>2, <3>1 DEF Parameters, Time, Start
    <3>2. CASE view.got # <<>>
      <4>1. p = view.got[1] /\ 1 \in DOMAIN view.got
        BY <1>1, <1>2, <3>2, EmptySeq, LenProperties DEF Parameters
      <4>2. QED
        BY <1>1, <4>1 DEF ChartInv, Resolution
    <3>3. QED
      BY <3>1, <3>2
  <2>4. p \in Times
    BY <1>1, <1>5, <2>3, ResolvedTimes
  <2> DEFINE n == Len(view.got)
  <2>5. /\ n \in Nat /\ DOMAIN view.got = 1 .. n
        /\ view'.got \in Seq(Times) /\ DOMAIN view'.got = 1 .. n + 1
        /\ view'.got[n + 1] = p /\ \A i \in 1 .. n : view'.got[i] = view.got[i]
    BY <1>1, <2>2, <2>4, LenProperties, AppendProperties
  <2>6. view'.got[1] = IF n = 0 THEN p ELSE view.got[1]
    BY <2>5
  <2>7. n # 0 => p = view.got[1]
    BY <1>1, <2>3, EmptySeq, LenProperties
  <2>8. ASSUME NEW i \in 1 .. n + 1
        PROVE  /\ \E t \in Int : view'.got[i] \in Resolved(view.asked, t)
               /\ ~Refused(view'.got[i]) /\ view'.got[i] = view'.got[1]
    <3>1. CASE i = n + 1
      BY <1>5, <2>3, <2>5, <2>6, <2>7, <3>1
    <3>2. CASE i \in 1 .. n
      <4>1. /\ \E t \in Int : view.got[i] \in Resolved(view.asked, t)
            /\ ~Refused(view.got[i]) /\ view.got[i] = view.got[1]
        BY <1>1, <2>5, <3>2 DEF ChartInv, Resolution
      <4>2. QED
        BY <2>5, <2>6, <3>2, <4>1
    <3>3. QED
      BY <2>5, <3>1, <3>2
  <2>9. Resolution(view.asked, view.got)'
    BY <1>1, <2>2, <2>5, <2>8 DEF Resolution
  <2>10. QED
    BY <1>1, <1>3, <2>2, <2>9 DEF ChartInv
<1>6. QED
  BY <1>4, <1>5

LEMMA ChartAlways == Spec => []ChartInv
<1>1. Init => ChartInv
  BY DEF Init, ChartInv, Idle, Request
<1>2. ChartInv /\ [Next]_vars => ChartInv'
  <2> SUFFICES ASSUME ChartInv, [Next]_vars PROVE ChartInv'
    OBVIOUS
  <2>1. CASE view' = view /\ (now' = now \/ now' = now + 1)
    BY <2>1 DEF ChartInv
  <2>2. CASE now' = now /\ view' = Idle
    BY <2>2 DEF ChartInv, Idle, Request
  <2>3. ASSUME NEW kind, NEW asked, now' = now, view' = Request(kind, asked),
               kind = "chart" => asked \in Asked
        PROVE  ChartInv'
    <3>1. kind = "chart" => Resolution(asked, <<>>)
      BY <2>3, EmptySeq DEF Resolution
    <3>2. /\ view'.kind = kind /\ view'.asked = asked /\ view'.got = <<>> /\ view'.failed = FALSE
      BY <2>3 DEF Request
    <3>3. QED
      BY <2>3, <3>1, <3>2 DEF ChartInv, Request
  <2>4. ASSUME NEW good, NEW answer, now' = now, view.kind # "chart", Reply(good, answer)
        PROVE  ChartInv'
    BY <2>4 DEF ChartInv, Reply
  <2>5. CASE Chart
    BY <2>5, ChartStep
  <2>6. QED
    BY <2>1, <2>2, <2>3, <2>4, <2>5, ViewStep
<1>3. QED
  BY <1>1, <1>2, PTL DEF Spec

(* What the first answer of a chart was made with. *)
LEMMA FirstAnswer ==
  ASSUME ChartInv, view.kind = "chart", Answered, view.asked.step = None,
         ~Mixed(view.asked)
  PROVE  view.got[1] \in Times /\ view.got[1].step = StepOf(view.got[1].end - view.got[1].start)
<1>1. Resolution(view.asked, view.got) /\ Queries \in Nat \ {0} /\ Asked \subseteq Charted
  BY ViewsAssumption DEF ChartInv
<1>2. 1 \in DOMAIN view.got
  BY <1>1, LenProperties DEF Answered, Resolution
<1>3. \E t \in Int : view.got[1] \in Resolved(view.asked, t) /\ ~Refused(view.got[1])
  BY <1>1, <1>2 DEF Resolution
<1>4. QED
  BY <1>1, <1>3, ResolvedTimes DEF Resolution

(* A chart of a quarter of an hour to a week can be read, whatever start and *)
(* end were given in one format, and has the step of the preset of its       *)
(* length.                                                                   *)
THEOREM ChartsAreLegible == Spec => []Legible
<1>1. ASSUME ChartInv, Done("chart"), view.asked.step = None, ~Mixed(view.asked),
             900 <= view.got[1].end - view.got[1].start,
             view.got[1].end - view.got[1].start <= 604800
      PROVE  Intervals(view.got[1]) \in 12 .. 84
  <2> DEFINE d == view.got[1].end - view.got[1].start
  <2>1. d \in Int /\ view.got[1].step = StepOf(d)
    BY <1>1, FirstAnswer DEF Done, Times
  <2>2. d \div StepOf(d) \in 12 .. 84
    BY <1>1, <2>1, StepCounts
  <2>3. QED
    BY <2>1, <2>2 DEF Intervals
<1>2. ASSUME ChartInv, Done("chart"), view.asked.step = None, ~Mixed(view.asked), NEW range \in Presets,
             view.got[1].end - view.got[1].start = Seconds(range)
      PROVE  view.got[1].step = PresetStep(range)
  BY <1>2, FirstAnswer, PresetLengths DEF Done
<1>3. ChartInv => Legible
  BY <1>1, <1>2 DEF Legible
<1>4. QED
  BY <1>3, ChartAlways, PTL
=============================================================================
