------------------------ MODULE DictionaryLifecycle ------------------------
(***************************************************************************)
(* What the stored entries promise together: the life of an entry, seen    *)
(* through the status of its active document.  Only a deployment makes an  *)
(* entry APPLIED, and only one that is APPROVED.                           *)
(***************************************************************************)
CONSTANT Keys

VARIABLE life   \* the status of the active entry of each key, or "NONE"

Init == life = [k \in Keys |-> "NONE"]

Becomes(k, st) == life' = [life EXCEPT ![k] = st]

Register(k) == life[k] = "NONE" /\ Becomes(k, "DRAFT")

Edit(k) == life[k] # "NONE" /\ Becomes(k, "DRAFT")

Approve(k) == life[k] # "NONE" /\ Becomes(k, "APPROVED")

Reject(k) == life[k] # "NONE" /\ Becomes(k, "REJECTED")

Remove(k) == life[k] # "NONE" /\ Becomes(k, "NONE")

Apply(k) == life[k] = "APPROVED" /\ Becomes(k, "APPLIED")

Next ==
  \E k \in Keys : Register(k) \/ Edit(k) \/ Approve(k) \/ Reject(k) \/ Remove(k) \/ Apply(k)

Spec == Init /\ [][Next]_life
=============================================================================
