------------------------------ MODULE MCDeploy ------------------------------
(* Instances of DictionaryDeploy with the lookup by equality of the key.     *)
EXTENDS DictionaryDeploy, TLC

(* "noun" entries are decompound entries with editable components, which may *)
(* be left out ("none"); "name" entries belong to the user collection and    *)
(* have nothing but their key; both go to one file.  "" is the empty compound *)
(* word.                                                                     *)
MCCollectionOf == [k \in Keys |-> IF k = "name1" THEN "user" ELSE "decompound"]
MCWords        == [k \in Keys |-> {k}]
MCContents     == [k \in Keys |-> IF k = "noun1" THEN {"c1", "c2", "none"} ELSE {"c1"}]
MCContents1    == [k \in Keys |-> {"c1"}]
MCLineless     == [k \in Keys |-> IF k = "" THEN AllContents ELSE Contents[k] \cap {"none"}]
MCFileOf       == [c \in Collections |-> 1]
MCSeqNouns     == <<"user", "decompound">>
MCSeqNoun      == <<"decompound">>

OneWorker   == [p \in Publishers |-> "w1"]
OwnWorker   == [p \in Publishers |-> p]

(* Publishers that have a worker each can be exchanged. *)
PublisherSymmetry == Permutations(Publishers)
=============================================================================
