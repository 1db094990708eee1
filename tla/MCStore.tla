------------------------------ MODULE MCStore ------------------------------
(* Instances of DictionaryStore: two collections whose lookup is by equality *)
(* of the key, and a collection of synonym groups.                           *)
EXTENDS DictionaryStore

(* A decompound entry can be edited to other components; a stopword has      *)
(* nothing but its key.                                                      *)
ExactCollectionOf == [k \in Keys |-> IF k = "stop" THEN "stopword" ELSE "decompound"]
ExactWords        == [k \in Keys |-> {k}]
ExactContents     == [k \in Keys |-> IF k = "stop" THEN {"c1"} ELSE {"c1", "c2"}]

(* Synonym groups: the key is the list of words. *)
SynonymCollectionOf == [k \in Keys |-> "synonym"]
SynonymWords        == [k \in Keys |-> CASE k = "a" -> {"a"} [] k = "b" -> {"b"}
                                         [] k = "ab" -> {"a", "b"}]
SynonymContents     == [k \in Keys |-> {"c1"}]
=============================================================================
