---- MODULE MCViews ----
(* Instances of ClusterViews: ranges at and around the boundaries. *)
EXTENDS ClusterViews, TLC

Ask0 == [range |-> "1h", start |-> None, end |-> None, step |-> None, mixed |-> FALSE]

Lengths0 == {900, 3600, 21600, 86400, 604800}

Around == {0, 1800, 43200, 1209600} \cup UNION {{n - 1, n, n + 1} : n \in Lengths0}

SomeAsked ==
  {[Ask0 EXCEPT !.range = r, !.step = s] : r \in Presets \cup {"2h"}, s \in {None, 30}}
    \cup {[Ask0 EXCEPT !.start = 500, !.end = 500 + n, !.step = s, !.mixed = m] :
            n \in Around, s \in {None, 30}, m \in BOOLEAN}
    \cup {[Ask0 EXCEPT !.start = 500], [Ask0 EXCEPT !.end = 500],
          [Ask0 EXCEPT !.start = Bad, !.end = 500], [Ask0 EXCEPT !.start = 500, !.end = 400]}

Exchange == Permutations(Nodes)
====
