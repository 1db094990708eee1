---------------------------- MODULE MCValidation ----------------------------
(* Instances of DictionaryValidation. *)
EXTENDS DictionaryValidation

OneWorker == [v \in Validators |-> "w1"]
TwoWorkers == [v \in Validators |-> IF v = CHOOSE u \in Validators : TRUE THEN "w1" ELSE "w2"]
AllBlock  == [v \in Validators |-> "block"]
Mixed     == [v \in Validators |-> IF v = CHOOSE u \in Validators : TRUE THEN "block" ELSE "stream"]
=============================================================================
