------------------------ MODULE UserAccounts_proofs -------------------------
(***************************************************************************)
(* Proofs about UserAccounts, for every set of ids, roles, names, requests *)
(* and starters and every bound on the accounts.                           *)
(*                                                                         *)
(* A step leaves the documents alone, appends one for a creation that has  *)
(* found nothing, or changes the first of an id.  The invariants say what  *)
(* is known of the requests that are between their calls.                  *)
(***************************************************************************)
EXTENDS UserAccounts, SequenceTheorems, WellFoundedInduction, TLAPS

Less == {ss \in Nat \X Nat : ss[1] < ss[2]}

(* First returns an element of a set of positions that is not empty. *)
LEMMA FirstInSet ==
  ASSUME NEW S, S \subseteq Nat, S # {}
  PROVE  First(S) \in S
<1>1. IsWellFoundedOn(Less, Nat)
  BY NatLessThanWellFounded DEF OpToRel, Less
<1>2. PICK x \in S : \A y \in S : ~ (<<y, x>> \in Less)
  BY <1>1, WFMin
<1>3. ASSUME NEW y \in S PROVE x <= y
  <2>1. <<y, x>> \in Less <=> y < x
    BY DEF Less
  <2>2. QED
    BY <1>2, <2>1
<1>4. QED
  BY <1>3 DEF First

-----------------------------------------------------------------------------
(* Types.                                                                    *)

CreateOps == {"create", "default", "script"}
ClientOps == {"create", "update", "me", "delete"}

(* Creations come with a role and a name; a change of oneself keeps the role.*)
Complete ==
  \A r \in Callers :
    /\ req[r].op \in CreateOps => req[r].role \in Roles /\ req[r].name \in Names
    /\ req[r].op = "me" => req[r].role = None

TypeInv == AccountsTypeOK /\ Complete

LEMMA AccountType ==
  ASSUME users \in Seq(Account), NEW i \in DOMAIN users
  PROVE  users[i] \in Account
BY ElementOfSeq, LenProperties

(* The first document of an id that has one. *)
LEMMA FirstWithId ==
  ASSUME users \in Seq(Account), NEW id, WithId(id) # {}
  PROVE  First(WithId(id)) \in DOMAIN users /\ users[First(WithId(id))].id = id
<1>1. WithId(id) \subseteq Nat
  BY LenProperties DEF WithId
<1>2. First(WithId(id)) \in WithId(id)
  BY <1>1, FirstInSet
<1>3. QED
  BY <1>2 DEF WithId

LEMMA Replaced ==
  ASSUME users \in Seq(Account), NEW p \in DOMAIN users, NEW e \in Account,
         users' = [users EXCEPT ![p] = e]
  PROVE  /\ users' \in Seq(Account)
         /\ Len(users') = Len(users)
         /\ DOMAIN users' = DOMAIN users
         /\ \A i \in DOMAIN users : users'[i] = IF i = p THEN e ELSE users[i]
<1>1. p \in 1 .. Len(users) /\ DOMAIN users = 1 .. Len(users)
  BY LenProperties
<1>2. users' \in Seq(Account) /\ Len(users') = Len(users)
  BY <1>1, ExceptSeq
<1>3. DOMAIN users' = 1 .. Len(users)
  BY <1>2, LenProperties
<1>4. QED
  BY <1>1, <1>2, <1>3, ExceptSeq

(* An update keeps id and deletion of every document, and changes those of   *)
(* its target only; its own account keeps the role.                          *)
LEMMA UpdateShape ==
  ASSUME TypeInv, NEW r \in Callers, Update(r)
  PROVE  /\ users' \in Seq(Account) /\ Len(users') = Len(users)
         /\ DOMAIN users' = DOMAIN users
         /\ \A i \in DOMAIN users :
              /\ users'[i].id = users[i].id /\ users'[i].deleted = users[i].deleted
              /\ users[i].id # req[r].target \/ req[r].op = "me"
                   => users'[i].role = users[i].role
              /\ users'[i].role # users[i].role
                   => users'[i].role = req[r].role /\ req[r].role # None
<1> DEFINE q == req[r]
           p == First(WithId(q.target))
<1>1. users \in Seq(Account) /\ q \in Request
  BY DEF TypeInv, AccountsTypeOK
<1>2. CASE WithId(q.target) = {}
  BY <1>1, <1>2 DEF Update
<1>3. CASE WithId(q.target) # {}
  <2>1. p \in DOMAIN users /\ users[p].id = q.target
    BY <1>1, <1>3, FirstWithId
  <2>2. users[p] \in Account
    BY <1>1, <2>1, AccountType
  <2> DEFINE e == Changed(users[p], q)
  <2>3. e \in Account /\ e.id = users[p].id /\ e.deleted = users[p].deleted
    BY <1>1, <2>2 DEF Changed, Account, Request
  <2>4. /\ q.op = "me" => e.role = users[p].role
        /\ e.role # users[p].role => e.role = q.role /\ q.role # None
    BY <2>2 DEF Changed, Account, TypeInv, Complete
  <2>5. users' = [users EXCEPT ![p] = e]
    BY <1>3 DEF Update
  <2> HIDE DEF e, p
  <2>6. /\ users' \in Seq(Account) /\ Len(users') = Len(users) /\ DOMAIN users' = DOMAIN users
        /\ \A i \in DOMAIN users : users'[i] = IF i = p THEN e ELSE users[i]
    BY <1>1, <2>1, <2>3, <2>5, Replaced
  <2>7. QED
    BY <2>1, <2>3, <2>4, <2>6
<1>4. QED
  BY <1>2, <1>3

(* A deletion marks a document of its target, if there is one, and keeps the *)
(* rest.                                                                     *)
LEMMA DeleteShape ==
  ASSUME TypeInv, NEW r \in Callers, Delete(r)
  PROVE  /\ users' \in Seq(Account) /\ Len(users') = Len(users)
         /\ DOMAIN users' = DOMAIN users
         /\ \A i \in DOMAIN users :
              /\ users'[i].id = users[i].id /\ users'[i].role = users[i].role
              /\ users[i].deleted => users'[i].deleted
              /\ users[i].id # req[r].target => users'[i].deleted = users[i].deleted
         /\ \/ WithId(req[r].target) = {} /\ gone' = gone
            \/ /\ gone' = gone \cup {req[r].target}
               /\ \E p \in DOMAIN users : users[p].id = req[r].target /\ users'[p].deleted
<1> DEFINE q == req[r]
           p == First(WithId(q.target))
<1>1. users \in Seq(Account)
  BY DEF TypeInv, AccountsTypeOK
<1>2. CASE WithId(q.target) = {}
  BY <1>1, <1>2 DEF Delete
<1>3. CASE WithId(q.target) # {}
  <2>1. p \in DOMAIN users /\ users[p].id = q.target
    BY <1>1, <1>3, FirstWithId
  <2>2. users[p] \in Account
    BY <1>1, <2>1, AccountType
  <2> DEFINE e == [users[p] EXCEPT !.deleted = TRUE]
  <2>3. e \in Account /\ e.id = users[p].id /\ e.role = users[p].role /\ e.deleted = TRUE
    BY <2>2 DEF Account
  <2>4. users' = [users EXCEPT ![p] = e] /\ gone' = gone \cup {q.target}
    BY <1>3 DEF Delete
  <2> HIDE DEF e, p
  <2>5. /\ users' \in Seq(Account) /\ Len(users') = Len(users) /\ DOMAIN users' = DOMAIN users
        /\ \A i \in DOMAIN users : users'[i] = IF i = p THEN e ELSE users[i]
    BY <1>1, <2>1, <2>3, <2>4, Replaced
  <2>6. QED
    BY <2>1, <2>3, <2>4, <2>5
<1>4. QED
  BY <1>2, <1>3

(* A creation appends an account of its target. *)
LEMMA InsertShape ==
  ASSUME TypeInv, NEW r \in Callers, Insert(r)
  PROVE  /\ users' \in Seq(Account) /\ Len(users') = Len(users) + 1
         /\ Len(users) + 1 \notin DOMAIN users
         /\ DOMAIN users' = DOMAIN users \cup {Len(users) + 1}
         /\ \A i \in DOMAIN users : users'[i] = users[i]
         /\ users'[Len(users) + 1].id = req[r].target
         /\ ~users'[Len(users) + 1].deleted
<1> DEFINE q == req[r]
           e == [id |-> q.target, role |-> q.role, name |-> q.name, deleted |-> FALSE]
<1>1. users \in Seq(Account) /\ q \in Request
  BY DEF TypeInv, AccountsTypeOK
<1>2. q.role \in Roles /\ q.name \in Names
  BY DEF Insert, TypeInv, Complete, CreateOps
<1>3. e \in Account /\ e.id = q.target /\ e.deleted = FALSE
  BY <1>1, <1>2 DEF Account, Request
<1>4. users' = Append(users, e)
  BY DEF Insert
<1> HIDE DEF e
<1>5. /\ Len(users) \in Nat /\ DOMAIN users = 1 .. Len(users)
      /\ users' \in Seq(Account) /\ Len(users') = Len(users) + 1
  BY <1>1, <1>3, <1>4, LenProperties
<1>6. DOMAIN users' = 1 .. Len(users) + 1
  BY <1>5, LenProperties
<1>7. /\ \A i \in DOMAIN users : users'[i] = users[i]
      /\ users'[Len(users) + 1] = e
  BY <1>1, <1>3, <1>4, <1>5
<1>8. QED
  BY <1>3, <1>5, <1>6, <1>7

(* Serving a request moves it on or ends it, and touches no other. *)
LEMMA ServeShape ==
  ASSUME TypeInv, NEW r \in Callers, Serve(r)
  PROVE  /\ req' \in [Callers -> Request]
         /\ ~At(r, "idle")
         /\ \A s \in Callers : s # r => req'[s] = req[s]
         /\ \/ req'[r] = Idle
            \/ /\ req'[r].op = req[r].op /\ req'[r].target = req[r].target
               /\ req'[r].caller = req[r].caller
               /\ req'[r].role = req[r].role /\ req'[r].name = req[r].name
               /\ \/ Find(r) /\ req'[r].pc = "write" /\ Found(req[r]) = {}
                  \/ /\ Authenticate(r) /\ Allowed(users[First(ActiveWithId(req[r].caller))], req[r])
                     /\ ActiveWithId(req[r].caller) # {}
                     /\ req'[r].seen = users[First(ActiveWithId(req[r].caller))].role
                     /\ req'[r].pc = IF req[r].op = "create" THEN "find" ELSE "write"
<1>1. req \in [Callers -> Request] /\ req[r] \in Request /\ Idle \in Request
  BY AccountsAssumption DEF TypeInv, AccountsTypeOK, Idle, Request, Ops
<1>2. ASSUME Done(r)
      PROVE  /\ req' \in [Callers -> Request] /\ req'[r] = Idle
             /\ \A s \in Callers : s # r => req'[s] = req[s]
  BY <1>1, <1>2 DEF Done
<1>3. ASSUME NEW pc \in {"find", "write"}, NEW seen \in Roles \cup {None},
             req' = [req EXCEPT ![r].pc = pc, ![r].seen = seen]
      PROVE  /\ req' \in [Callers -> Request]
             /\ \A s \in Callers : s # r => req'[s] = req[s]
             /\ req'[r].op = req[r].op /\ req'[r].target = req[r].target
             /\ req'[r].caller = req[r].caller /\ req'[r].pc = pc /\ req'[r].seen = seen
             /\ req'[r].role = req[r].role /\ req'[r].name = req[r].name
  <2>1. [req[r] EXCEPT !.pc = pc, !.seen = seen] \in Request
    BY <1>1 DEF Request
  <2>2. req'[r] = [req[r] EXCEPT !.pc = pc, !.seen = seen]
    BY <1>1, <1>3
  <2>3. QED
    BY <1>1, <1>3, <2>1, <2>2 DEF Request
<1>4. CASE Authenticate(r)
  <2>1. ~At(r, "idle")
    BY <1>4 DEF Authenticate, At
  <2>2. CASE Done(r)
    BY <1>2, <2>1, <2>2
  <2>3. CASE ~Done(r)
    <3> DEFINE A    == ActiveWithId(req[r].caller)
               pc   == IF req[r].op = "create" THEN "find" ELSE "write"
               seen == users[First(A)].role
    <3>1. A # {} /\ Allowed(users[First(A)], req[r])
          /\ req' = [req EXCEPT ![r].pc = pc, ![r].seen = seen]
      BY <1>4, <2>3 DEF Authenticate
    <3>2. users \in Seq(Account) /\ A \subseteq DOMAIN users /\ A \subseteq Nat
      BY LenProperties DEF TypeInv, AccountsTypeOK, ActiveWithId, WithId
    <3>3. First(A) \in DOMAIN users
      BY <3>1, <3>2, FirstInSet
    <3>4. seen \in Roles \cup {None} /\ pc \in {"find", "write"}
      BY <3>2, <3>3, AccountType DEF Account
    <3> HIDE DEF seen, pc
    <3>5. /\ req' \in [Callers -> Request]
          /\ \A s \in Callers : s # r => req'[s] = req[s]
          /\ req'[r].op = req[r].op /\ req'[r].target = req[r].target
          /\ req'[r].caller = req[r].caller /\ req'[r].pc = pc /\ req'[r].seen = seen
          /\ req'[r].role = req[r].role /\ req'[r].name = req[r].name
      BY <1>3, <3>1, <3>4
    <3>6. QED
      BY <1>4, <2>1, <3>1, <3>5 DEF seen, pc
  <2>4. QED
    BY <2>2, <2>3
<1>5. CASE Find(r)
  <2>1. ~At(r, "idle")
    BY <1>5 DEF Find, At
  <2>2. CASE Done(r)
    BY <1>2, <2>1, <2>2
  <2>3. CASE Found(req[r]) = {} /\ Goto(r, "write")
    <3>1. req' = [req EXCEPT ![r].pc = "write", ![r].seen = req[r].seen]
      <4>1. [req[r] EXCEPT !.pc = "write"] = [req[r] EXCEPT !.pc = "write", !.seen = @]
        BY <1>1 DEF Request
      <4>2. QED
        BY <1>1, <2>3, <4>1 DEF Goto
    <3>2. req[r].seen \in Roles \cup {None}
      BY <1>1 DEF Request
    <3>3. QED
      BY <1>3, <1>5, <2>1, <2>3, <3>1, <3>2
  <2>4. QED
    BY <1>5, <2>2, <2>3 DEF Find
<1>6. CASE Insert(r) \/ Update(r) \/ Delete(r)
  <2>1. Done(r) /\ ~At(r, "idle")
    BY <1>6 DEF Insert, Update, Delete, At
  <2>2. QED
    BY <1>2, <2>1
<1>7. QED
  BY <1>4, <1>5, <1>6 DEF Serve

(* What is left after an authentication, a lookup or an exception. *)
LEMMA ServeElsewhere ==
  ASSUME TypeInv, NEW r \in Callers, Serve(r)
  PROVE  \/ UNCHANGED <<users, tokens, gone>>
         \/ Insert(r) \/ Update(r) \/ Delete(r)
BY DEF Serve, Authenticate, Find

(* A request is sent by nobody else's leave, when no creation of its id is   *)
(* under way, if such creations are kept apart.                              *)
LEMMA SendShape ==
  ASSUME TypeInv, NEW r \in Callers, NEW op \in ClientOps, NEW caller \in Ids, NEW target \in Ids,
         NEW role \in Roles \cup {None}, NEW name \in Names \cup {None},
         Send(r, op, caller, target, role, name)
  PROVE  /\ req' \in [Callers -> Request] /\ UNCHANGED <<users, tokens, gone>>
         /\ At(r, "idle") /\ MayRun(op)
         /\ op = "create" => MayCreate(target, op) /\ role \in Roles /\ name \in Names
         /\ op = "me" => role = None
         /\ op = "delete" => MayDelete(target)
         /\ \A s \in Callers : s # r => req'[s] = req[s]
         /\ req'[r].pc = "auth" /\ req'[r].op = op /\ req'[r].target = target
         /\ req'[r].role = role /\ req'[r].name = name
BY DEF Send, TypeInv, AccountsTypeOK, Request, Ops, ClientOps

LEMMA BeginShape ==
  ASSUME TypeInv, NEW w \in Callers, NEW op \in {"default", "script"}, Begin(w, op)
  PROVE  /\ req' \in [Callers -> Request] /\ UNCHANGED <<users, tokens, gone>>
         /\ At(w, "idle") /\ MayCreate(Admin, op)
         /\ \A s \in Callers : s # w => req'[s] = req[s]
         /\ req'[w].pc = "find" /\ req'[w].op = op /\ req'[w].target = Admin
         /\ req'[w].role \in Roles /\ req'[w].name \in Names
<1>1. DefaultName \in Names /\ Admin \in Ids /\ "ADMIN" \in Roles /\ op \in Ops
  BY AccountsAssumption DEF Ops
<1>2. QED
  BY <1>1 DEF Begin, TypeInv, AccountsTypeOK, Request

(* What no step of the documents and no end of a request brings back. *)
LEMMA AbandonShape ==
  ASSUME TypeInv, NEW S, Abandon(S)
  PROVE  /\ req' \in [Callers -> Request] /\ UNCHANGED <<users, tokens, gone>>
         /\ \A s \in Callers : req'[s] = req[s] \/ req'[s] = Idle
<1>1. Idle \in Request
  BY AccountsAssumption DEF Idle, Request, Ops
<1>2. QED
  BY <1>1 DEF Abandon, TypeInv, AccountsTypeOK

(* The cases of a step, with the requests among Callers. *)
LEMMA StepCases ==
  ASSUME [AccountsNext]_accounts
  PROVE  \/ UNCHANGED accounts
         \/ \E id \in Ids : Login(id) \/ Expire(id)
         \/ \E r \in Callers, op \in ClientOps, caller \in Ids, target \in Ids,
               role \in Roles \cup {None}, name \in Names \cup {None} :
              r \in Requests /\ Send(r, op, caller, target, role, name)
         \/ \E w \in Callers, op \in {"default", "script"} : Begin(w, op)
         \/ \E r \in Callers : Serve(r)
         \/ \E S \in SUBSET Callers : Abandon(S)
BY DEF AccountsNext, Callers, ClientOps

LEMMA TypeInit == AccountsInit => TypeInv
<1>1. Idle \in Request /\ Idle.op = "me" /\ Idle.role = None
  BY AccountsAssumption DEF Idle, Request, Ops
<1>2. QED
  BY <1>1, AccountsAssumption, EmptySeq
     DEF AccountsInit, TypeInv, AccountsTypeOK, Complete, CreateOps

LEMMA TypeStep == TypeInv /\ [AccountsNext]_accounts => TypeInv'
<1> SUFFICES ASSUME TypeInv, [AccountsNext]_accounts PROVE TypeInv'
  OBVIOUS
<1> DEFINE Fields(s) == /\ req'[s].op \in CreateOps => req'[s].role \in Roles /\ req'[s].name \in Names
                        /\ req'[s].op = "me" => req'[s].role = None
<1>1. /\ users \in Seq(Account) /\ Len(users) \in Nat /\ Len(users) <= MaxAccounts
      /\ req \in [Callers -> Request] /\ tokens \subseteq Ids /\ gone \subseteq Ids
  BY LenProperties DEF TypeInv, AccountsTypeOK
<1>2. Idle.op = "me" /\ Idle.role = None
  BY DEF Idle
<1>3. ASSUME NEW s \in Callers, req'[s] = req[s] \/ req'[s] = Idle PROVE Fields(s)
  BY <1>2, <1>3 DEF TypeInv, Complete, CreateOps
<1>4. CASE UNCHANGED accounts
  BY <1>4 DEF accounts, TypeInv, AccountsTypeOK, Complete
<1>5. CASE \E id \in Ids : Login(id) \/ Expire(id)
  <2>1. UNCHANGED <<users, req, gone>> /\ tokens' \subseteq Ids
    BY <1>1, <1>5 DEF Login, Expire
  <2>2. QED
    BY <2>1 DEF TypeInv, AccountsTypeOK, Complete
<1>6. ASSUME NEW r \in Callers, NEW op \in ClientOps, NEW caller \in Ids, NEW target \in Ids,
             NEW role \in Roles \cup {None}, NEW name \in Names \cup {None},
             Send(r, op, caller, target, role, name)
      PROVE  TypeInv'
  <2>1. /\ req' \in [Callers -> Request] /\ UNCHANGED <<users, tokens, gone>>
        /\ op = "create" => role \in Roles /\ name \in Names
        /\ op = "me" => role = None
        /\ \A s \in Callers : s # r => req'[s] = req[s]
        /\ req'[r].op = op /\ req'[r].role = role /\ req'[r].name = name
    BY <1>6, SendShape
  <2>2. op \notin {"default", "script"}
    BY DEF ClientOps
  <2>3. Fields(r)
    BY <2>1, <2>2 DEF CreateOps
  <2>4. Complete'
    BY <1>3, <2>1, <2>3 DEF Complete
  <2>5. QED
    BY <1>1, <2>1, <2>4 DEF TypeInv, AccountsTypeOK
<1>7. ASSUME NEW w \in Callers, NEW op \in {"default", "script"}, Begin(w, op)
      PROVE  TypeInv'
  <2>1. /\ req' \in [Callers -> Request] /\ UNCHANGED <<users, tokens, gone>>
        /\ \A s \in Callers : s # w => req'[s] = req[s]
        /\ req'[w].op = op /\ req'[w].role \in Roles /\ req'[w].name \in Names
    BY <1>7, BeginShape
  <2>2. Fields(w)
    BY <2>1
  <2>3. Complete'
    BY <1>3, <2>1, <2>2 DEF Complete
  <2>4. QED
    BY <1>1, <2>1, <2>3 DEF TypeInv, AccountsTypeOK
<1>8. ASSUME NEW r \in Callers, Serve(r)
      PROVE  TypeInv'
  <2>1. /\ req' \in [Callers -> Request]
        /\ \A s \in Callers : s # r => req'[s] = req[s]
        /\ \/ req'[r] = Idle
           \/ req'[r].op = req[r].op /\ req'[r].role = req[r].role /\ req'[r].name = req[r].name
    BY <1>8, ServeShape
  <2>2. Fields(r)
    BY <1>2, <2>1 DEF TypeInv, Complete, CreateOps
  <2>3. Complete'
    BY <1>3, <2>1, <2>2 DEF Complete
  <2>4. req[r].target \in Ids
    BY <1>1 DEF Request
  <2>5. CASE UNCHANGED <<users, tokens, gone>>
    BY <1>1, <2>1, <2>3, <2>5 DEF TypeInv, AccountsTypeOK
  <2>6. CASE Insert(r)
    <3>1. users' \in Seq(Account) /\ Len(users') = Len(users) + 1
      BY <2>6, InsertShape
    <3>2. Len(users) < MaxAccounts /\ tokens' = tokens /\ gone' \subseteq gone
      BY <2>6 DEF Insert
    <3>3. Len(users') <= MaxAccounts
      BY <1>1, <3>1, <3>2, AccountsAssumption
    <3>4. QED
      BY <1>1, <2>1, <2>3, <3>1, <3>2, <3>3 DEF TypeInv, AccountsTypeOK
  <2>7. CASE Update(r)
    <3>1. users' \in Seq(Account) /\ Len(users') = Len(users)
      BY <2>7, UpdateShape
    <3>2. tokens' = tokens /\ gone' = gone
      BY <2>7 DEF Update
    <3>3. QED
      BY <1>1, <2>1, <2>3, <3>1, <3>2 DEF TypeInv, AccountsTypeOK
  <2>8. CASE Delete(r)
    <3>1. users' \in Seq(Account) /\ Len(users') = Len(users)
      BY <2>8, DeleteShape
    <3>2. tokens' = tokens /\ gone' \subseteq gone \cup {req[r].target}
      BY <2>8 DEF Delete
    <3>3. QED
      BY <1>1, <2>1, <2>3, <2>4, <3>1, <3>2 DEF TypeInv, AccountsTypeOK
  <2>9. QED
    BY <1>8, <2>5, <2>6, <2>7, <2>8, ServeElsewhere
<1>9. ASSUME NEW S \in SUBSET Callers, Abandon(S)
      PROVE  TypeInv'
  <2>1. /\ req' \in [Callers -> Request] /\ UNCHANGED <<users, tokens, gone>>
        /\ \A s \in Callers : req'[s] = req[s] \/ req'[s] = Idle
    BY <1>9, AbandonShape
  <2>2. Complete'
    BY <1>3, <2>1 DEF Complete
  <2>3. QED
    BY <1>1, <2>1, <2>2 DEF TypeInv, AccountsTypeOK
<1>10. QED
  BY <1>4, <1>5, <1>6, <1>7, <1>8, <1>9, StepCases

(* Documents, requests, tokens and confirmed deletions are always well typed.*)
THEOREM AccountsTypeCorrect == AccountsSpec => []AccountsTypeOK
<1>1. AccountsSpec => []TypeInv
  BY TypeInit, TypeStep, PTL DEF AccountsSpec
<1>2. TypeInv => AccountsTypeOK
  BY DEF TypeInv
<1>3. QED
  BY <1>1, <1>2, PTL

-----------------------------------------------------------------------------
(* What the requests are apart from the documents.                           *)

(* No two creations of an id overlap. *)
OneEach == \A r, s \in Callers, id \in Ids : Creating(r, id) /\ Creating(s, id) => r = s

(* Operations of clients are those of requests; they authenticate, and only   *)
(* creations look up.                                                        *)
Sent ==
  \A r \in Callers : ~At(r, "idle") =>
    /\ req[r].op \in ClientOps => r \in Requests
    /\ At(r, "auth") => req[r].op \in ClientOps
    /\ At(r, "find") => req[r].op \in CreateOps

OneExclusive ==
  \A r, s \in Callers :
    /\ ~At(r, "idle") /\ req[r].op \in Exclusive
    /\ ~At(s, "idle") /\ req[s].op \in Exclusive
    => r = s

NoDeletion ==
  \A r, s \in Callers, id \in Ids :
    Creating(r, id) /\ req[r].op = "create" => ~Deleting(s, id)

Apart ==
  /\ OneCreatePerId => OneEach
  /\ Sent
  /\ OneExclusive
  /\ ~Reregister => NoDeletion

(* A step that begins nothing goes on with requests or ends them. *)
Continued ==
  \A s \in Callers :
    \/ req'[s] = req[s]
    \/ req'[s].pc = "idle"
    \/ /\ req[s].pc # "idle" /\ req'[s].pc \in {"find", "write"}
       /\ req'[s].pc = "find" => req[s].op = "create"
       /\ req'[s].op = req[s].op /\ req'[s].target = req[s].target

LEMMA ContinuedApart ==
  ASSUME Apart, Continued PROVE Apart'
<1>1. ASSUME NEW s \in Callers, ~At(s, "idle")'
      PROVE  ~At(s, "idle") /\ req'[s].op = req[s].op /\ req'[s].target = req[s].target
  BY <1>1 DEF Continued, At
<1>2. ASSUME NEW s \in Callers, NEW id \in Ids
      PROVE  (Creating(s, id)' => Creating(s, id)) /\ (Deleting(s, id)' => Deleting(s, id))
  BY <1>1 DEF Creating, Deleting
<1>3. (OneCreatePerId => OneEach)'
  BY <1>2 DEF Apart, OneEach
<1>4. Sent'
  BY <1>1 DEF Apart, Sent, Continued, At, CreateOps
<1>5. OneExclusive'
  BY <1>1 DEF Apart, OneExclusive
<1>6. (~Reregister => NoDeletion)'
  BY <1>1, <1>2 DEF Apart, NoDeletion, Creating
<1>7. QED
  BY <1>3, <1>4, <1>5, <1>6 DEF Apart

LEMMA ApartInit == AccountsInit => Apart
BY DEF AccountsInit, Apart, OneEach, Sent, OneExclusive, NoDeletion, Creating, Deleting, At, Idle

LEMMA ApartStep == TypeInv /\ Apart /\ [AccountsNext]_accounts => Apart'
<1> SUFFICES ASSUME TypeInv, Apart, [AccountsNext]_accounts PROVE Apart'
  OBVIOUS
<1>1. CASE UNCHANGED accounts \/ \E id \in Ids : Login(id) \/ Expire(id)
  <2>1. req' = req
    BY <1>1 DEF accounts, Login, Expire
  <2>2. Continued
    BY <2>1 DEF Continued
  <2>3. QED
    BY <2>2, ContinuedApart
<1>2. ASSUME NEW r \in Callers, Serve(r) PROVE Apart'
  <2>1. Continued
    BY <1>2, ServeShape DEF Continued, At, Idle
  <2>2. QED
    BY <2>1, ContinuedApart
<1>3. ASSUME NEW S \in SUBSET Callers, Abandon(S) PROVE Apart'
  <2>1. Continued
    BY <1>3, AbandonShape DEF Continued, Idle
  <2>2. QED
    BY <2>1, ContinuedApart
<1>4. ASSUME NEW r \in Callers, NEW op \in Ops, NEW target \in Ids,
             At(r, "idle"),
             \A s \in Callers : s # r => req'[s] = req[s],
             req'[r].pc \in {"auth", "find"}, req'[r].op = op, req'[r].target = target,
             op \in ClientOps => r \in Requests /\ MayRun(op),
             req'[r].pc = "auth" => op \in ClientOps,
             req'[r].pc = "find" => op \in CreateOps,
             op \in CreateOps => MayCreate(target, op),
             op = "delete" => MayDelete(target)
      PROVE  Apart'
  <2>1. ASSUME NEW s \in Callers, s # r
        PROVE  /\ At(s, "idle")' = At(s, "idle") /\ At(s, "auth")' = At(s, "auth")
               /\ At(s, "find")' = At(s, "find")
               /\ req'[s].op = req[s].op
               /\ \A id \in Ids : /\ Creating(s, id)' = Creating(s, id)
                                  /\ Deleting(s, id)' = Deleting(s, id)
    BY <1>4, <2>1 DEF At, Creating, Deleting
  <2>2. /\ \A id \in Ids : Creating(r, id)' => id = target /\ op \in CreateOps
        /\ \A id \in Ids : Deleting(r, id)' => id = target /\ op = "delete"
    BY <1>4 DEF Creating, Deleting, CreateOps
  <2>3. (OneCreatePerId => OneEach)'
    <3> SUFFICES ASSUME OneCreatePerId, NEW a \in Callers, NEW b \in Callers, NEW id \in Ids,
                        Creating(a, id)', Creating(b, id)'
                 PROVE  a = b
      BY DEF OneEach
    <3>1. CASE a # r /\ b # r
      BY <2>1, <3>1 DEF Apart, OneEach
    <3>2. CASE (a = r /\ b # r) \/ (a # r /\ b = r)
      <4>1. PICK s \in Callers : s # r /\ Creating(s, id) /\ id = target /\ op \in CreateOps
        BY <2>1, <2>2, <3>2
      <4>2. QED
        BY <1>4, <4>1 DEF MayCreate
    <3>3. QED
      BY <3>1, <3>2
  <2>4. Sent'
    <3>1. ASSUME NEW s \in Callers, ~At(s, "idle")'
          PROVE  /\ req'[s].op \in ClientOps => s \in Requests
                 /\ At(s, "auth")' => req'[s].op \in ClientOps
                 /\ At(s, "find")' => req'[s].op \in CreateOps
      <4>1. CASE s = r
        BY <1>4, <4>1 DEF At
      <4>2. CASE s # r
        BY <2>1, <3>1, <4>2 DEF Apart, Sent
      <4>3. QED
        BY <4>1, <4>2
    <3>2. QED
      BY <3>1 DEF Sent
  <2>5. OneExclusive'
    <3> SUFFICES ASSUME NEW a \in Callers, NEW b \in Callers,
                        ~At(a, "idle")', req'[a].op \in Exclusive,
                        ~At(b, "idle")', req'[b].op \in Exclusive
                 PROVE  a = b
      BY DEF OneExclusive
    <3>1. CASE a # r /\ b # r
      BY <2>1, <3>1 DEF Apart, OneExclusive
    <3>2. CASE (a = r /\ b # r) \/ (a # r /\ b = r)
      <4>1. op \in Exclusive /\ \E s \in Callers : s # r /\ ~At(s, "idle") /\ req[s].op \in Exclusive
        BY <1>4, <2>1, <3>2
      <4>2. op \in ClientOps
        BY <4>1, AccountsAssumption DEF ClientOps
      <4>3. QED
        BY <1>4, <4>1, <4>2 DEF MayRun
    <3>3. QED
      BY <3>1, <3>2
  <2>6. (~Reregister => NoDeletion)'
    <3> SUFFICES ASSUME ~Reregister, NEW a \in Callers, NEW b \in Callers, NEW id \in Ids,
                        Creating(a, id)', req'[a].op = "create", Deleting(b, id)'
                 PROVE  FALSE
      BY DEF NoDeletion
    <3>1. CASE a # r /\ b # r
      BY <2>1, <3>1 DEF Apart, NoDeletion
    <3>2. CASE a = r /\ b # r
      <4>1. id = target /\ op = "create" /\ Deleting(b, id)
        BY <1>4, <2>1, <2>2, <3>2
      <4>2. QED
        BY <1>4, <4>1 DEF MayCreate, CreateOps
    <3>3. CASE a # r /\ b = r
      <4>1. id = target /\ op = "delete" /\ Creating(a, id)
        BY <1>4, <2>1, <2>2, <3>3
      <4>2. QED
        BY <1>4, <4>1 DEF MayDelete
    <3>4. CASE a = r /\ b = r
      BY <2>2, <3>4, <1>4 DEF CreateOps
    <3>5. QED
      BY <3>1, <3>2, <3>3, <3>4
  <2>7. QED
    BY <2>3, <2>4, <2>5, <2>6 DEF Apart
<1>5. ASSUME NEW r \in Callers, NEW op \in ClientOps, NEW caller \in Ids, NEW target \in Ids,
             NEW role \in Roles \cup {None}, NEW name \in Names \cup {None},
             r \in Requests, Send(r, op, caller, target, role, name)
      PROVE  Apart'
  <2>1. op \in Ops /\ (op \in CreateOps => op = "create")
    BY DEF ClientOps, Ops, CreateOps
  <2>2. QED
    BY <1>4, <1>5, <2>1, SendShape
<1>6. ASSUME NEW w \in Callers, NEW op \in {"default", "script"}, Begin(w, op)
      PROVE  Apart'
  <2>1. op \in Ops /\ op \notin ClientOps /\ op # "delete" /\ op \in CreateOps /\ Admin \in Ids
    BY AccountsAssumption DEF ClientOps, Ops, CreateOps
  <2>2. QED
    BY <1>4, <1>6, <2>1, BeginShape
<1>7. QED
  BY <1>1, <1>2, <1>3, <1>5, <1>6, StepCases

-----------------------------------------------------------------------------
(* Accounts are unique if no two creations of an id overlap.                 *)

(* What a creation looked up stays true until it inserts. *)
Fresh ==
  \A r \in Callers :
    At(r, "write") /\ req[r].op \in CreateOps => ActiveWithId(req[r].target) = {}

UniqueInv == TypeInv /\ Apart /\ UniqueAccount /\ Fresh

(* A step that leaves documents out or as they are keeps what is unique. *)
LEMMA UniqueKept ==
  ASSUME UniqueAccount, Fresh,
         DOMAIN users' = DOMAIN users,
         \A i \in DOMAIN users :
           users'[i].id = users[i].id /\ (users[i].deleted => users'[i].deleted),
         \A s \in Callers :
           At(s, "write")' /\ req'[s].op \in CreateOps =>
             \/ At(s, "write") /\ req[s].op = req'[s].op /\ req[s].target = req'[s].target
             \/ ActiveWithId(req'[s].target) = {}
  PROVE  UniqueAccount' /\ Fresh'
<1>1. UniqueAccount'
  BY DEF UniqueAccount, AnyActive
<1>2. ASSUME NEW id, ActiveWithId(id) = {} PROVE ActiveWithId(id)' = {}
  BY <1>2 DEF ActiveWithId, WithId
<1>3. ASSUME NEW s \in Callers, At(s, "write")', req'[s].op \in CreateOps
      PROVE  ActiveWithId(req'[s].target) = {}
  BY <1>3 DEF Fresh
<1>4. Fresh'
  BY <1>2, <1>3 DEF Fresh, ActiveWithId, WithId
<1>5. QED
  BY <1>1, <1>4

(* What a step is for one request that it changes and does not end. *)
LEMMA Progress ==
  ASSUME TypeInv, [AccountsNext]_accounts, NEW s \in Callers
  PROVE  \/ req'[s] = req[s]
         \/ req'[s].pc = "idle"
         \/ Serve(s) /\ req'[s] # Idle
         \/ /\ req'[s].pc \in {"auth", "find"} /\ UNCHANGED <<users, tokens, gone>>
            /\ req'[s].op = "create" => MayCreate(req'[s].target, "create")
<1>1. CASE UNCHANGED accounts \/ \E id \in Ids : Login(id) \/ Expire(id)
  BY <1>1 DEF accounts, Login, Expire
<1>2. ASSUME NEW r \in Callers, NEW op \in ClientOps, NEW caller \in Ids, NEW target \in Ids,
             NEW role \in Roles \cup {None}, NEW name \in Names \cup {None},
             Send(r, op, caller, target, role, name), req'[s] # req[s]
      PROVE  /\ req'[s].pc = "auth" /\ UNCHANGED <<users, tokens, gone>>
             /\ req'[s].op = "create" => MayCreate(req'[s].target, "create")
  <2>1. s = r
    BY <1>2, SendShape
  <2>2. QED
    BY <1>2, <2>1, SendShape
<1>3. ASSUME NEW w \in Callers, NEW op \in {"default", "script"}, Begin(w, op), req'[s] # req[s]
      PROVE  /\ req'[s].pc = "find" /\ UNCHANGED <<users, tokens, gone>>
             /\ req'[s].op # "create"
  <2>1. s = w
    BY <1>3, BeginShape
  <2>2. QED
    BY <1>3, <2>1, BeginShape
<1>4. ASSUME NEW S \in SUBSET Callers, Abandon(S), req'[s] # req[s] PROVE req'[s].pc = "idle"
  BY <1>4, AbandonShape DEF Idle
<1>5. ASSUME NEW r \in Callers, Serve(r), req'[s] # req[s]
      PROVE  req'[s].pc = "idle" \/ (Serve(s) /\ req'[s] # Idle)
  <2>1. s = r
    BY <1>5, ServeShape
  <2>2. QED
    BY <1>5, <2>1, ServeShape DEF Idle
<1>6. QED
  BY <1>1, <1>2, <1>3, <1>4, <1>5, StepCases

(* The requests that are about to insert were so before, unless they looked. *)
LEMMA WritersKept ==
  ASSUME TypeInv, Apart, [AccountsNext]_accounts, NEW s \in Callers,
         At(s, "write")', req'[s].op \in CreateOps
  PROVE  \/ At(s, "write") /\ req'[s] = req[s]
         \/ Find(s) /\ Found(req[s]) = {} /\ req'[s].op = req[s].op /\ req'[s].target = req[s].target
<1>1. CASE req'[s] = req[s]
  BY <1>1 DEF At
<1>2. CASE req'[s] # req[s]
  <2>1. Serve(s) /\ req'[s] # Idle
    BY <1>2, Progress DEF At
  <2>2. CASE Find(s)
    BY <2>1, <2>2, ServeShape DEF Find, Authenticate, At
  <2>3. CASE Authenticate(s)
    <3>1. req'[s].op = req[s].op /\ req'[s].pc = IF req[s].op = "create" THEN "find" ELSE "write"
      BY <2>1, <2>3, ServeShape DEF Find, Authenticate, At
    <3>2. req[s].op \in ClientOps
      BY <2>3 DEF Apart, Sent, Authenticate, At
    <3>3. QED
      BY <3>1, <3>2 DEF At, CreateOps, ClientOps
  <2>4. CASE ~Find(s) /\ ~Authenticate(s)
    BY <2>1, <2>4, ServeShape
  <2>5. QED
    BY <2>2, <2>3, <2>4
<1>3. QED
  BY <1>1, <1>2

(* A lookup that finds nothing finds no account of the id. *)
LEMMA FoundCovers ==
  ASSUME NEW q, q.op \in CreateOps, Found(q) = {} PROVE ActiveWithId(q.target) = {}
BY DEF Found, CreateOps, ActiveWithId, AnyActive, WithId

LEMMA UniqueInit == AccountsInit => UniqueInv
<1> SUFFICES ASSUME AccountsInit PROVE UniqueInv
  OBVIOUS
<1>1. \A s \in Callers : ~At(s, "write")
  BY DEF AccountsInit, At, Idle
<1>2. DOMAIN users = {}
  BY DEF AccountsInit
<1>3. QED
  BY <1>1, <1>2, TypeInit, ApartInit DEF UniqueInv, UniqueAccount, Fresh, AnyActive

LEMMA UniqueStep ==
  ASSUME OneCreatePerId PROVE UniqueInv /\ [AccountsNext]_accounts => UniqueInv'
<1> SUFFICES ASSUME UniqueInv, [AccountsNext]_accounts PROVE UniqueInv'
  OBVIOUS
<1>1. TypeInv /\ TypeInv' /\ Apart /\ Apart' /\ UniqueAccount /\ Fresh
  BY TypeStep, ApartStep DEF UniqueInv
<1>2. ASSUME NEW s \in Callers, At(s, "write")', req'[s].op \in CreateOps
      PROVE  \/ At(s, "write") /\ req[s].op = req'[s].op /\ req[s].target = req'[s].target
             \/ ActiveWithId(req'[s].target) = {}
  <2>1. CASE At(s, "write") /\ req'[s] = req[s]
    BY <2>1
  <2>2. CASE Found(req[s]) = {} /\ req'[s].op = req[s].op /\ req'[s].target = req[s].target
    BY <1>2, <2>2, FoundCovers
  <2>3. QED
    BY <1>1, <1>2, <2>1, <2>2, WritersKept
<1>3. CASE UNCHANGED users
  <2>1. UniqueAccount' /\ Fresh'
    BY <1>1, <1>2, <1>3, UniqueKept
  <2>2. QED
    BY <1>1, <2>1 DEF UniqueInv
<1>4. ASSUME NEW r \in Callers, Insert(r) PROVE UniqueInv'
  <2> DEFINE t == req[r].target
             n == Len(users) + 1
  <2>1. /\ n \notin DOMAIN users /\ DOMAIN users' = DOMAIN users \cup {n}
        /\ \A i \in DOMAIN users : users'[i] = users[i]
        /\ users'[n].id = t
    BY <1>1, <1>4, InsertShape
  <2>2. At(r, "write") /\ req[r].op \in CreateOps
    BY <1>4 DEF Insert, CreateOps
  <2>3. ActiveWithId(t) = {}
    BY <1>1, <2>2 DEF Fresh
  <2> HIDE DEF n
  <2>4. UniqueAccount'
    BY <1>1, <2>1, <2>3 DEF UniqueAccount, AnyActive, ActiveWithId, WithId
  <2>5. ASSUME NEW s \in Callers, At(s, "write")', req'[s].op \in CreateOps
        PROVE  (ActiveWithId(req[s].target) = {})'
    <3>1. req'[r].pc = "idle" /\ s # r
      BY <1>1, <1>4, <2>5 DEF Insert, Done, Idle, At, TypeInv, AccountsTypeOK
    <3>2. req'[s] = req[s] /\ At(s, "write")
      BY <1>1, <1>4, <2>5, <3>1 DEF Insert, Done, At, TypeInv, AccountsTypeOK
    <3>3. req[s].target # t
      <4>1. t \in Ids /\ req[s].target \in Ids
        BY <1>1 DEF TypeInv, AccountsTypeOK, Request
      <4>2. Creating(r, t) /\ Creating(s, req[s].target)
        BY <2>2, <2>5, <3>2 DEF Creating, At, CreateOps
      <4>3. OneEach
        BY <1>1 DEF Apart
      <4>4. QED
        BY <3>1, <4>1, <4>2, <4>3 DEF OneEach
    <3>4. ActiveWithId(req[s].target) = {}
      BY <1>1, <2>5, <3>2 DEF Fresh
    <3>5. QED
      BY <2>1, <3>2, <3>3, <3>4 DEF ActiveWithId, WithId
  <2>6. Fresh'
    BY <2>5 DEF Fresh
  <2>7. QED
    BY <1>1, <2>4, <2>6 DEF UniqueInv
<1>5. ASSUME NEW r \in Callers, Update(r) \/ Delete(r) PROVE UniqueInv'
  <2>1. /\ DOMAIN users' = DOMAIN users
        /\ \A i \in DOMAIN users :
             users'[i].id = users[i].id /\ (users[i].deleted => users'[i].deleted)
    BY <1>1, <1>5, UpdateShape, DeleteShape
  <2>2. UniqueAccount' /\ Fresh'
    BY <1>1, <1>2, <2>1, UniqueKept
  <2>3. QED
    BY <1>1, <2>2 DEF UniqueInv
<1>6. CASE \E r \in Callers : Serve(r)
  BY <1>1, <1>3, <1>4, <1>5, <1>6, ServeElsewhere
<1>7. CASE ~\E r \in Callers : Serve(r)
  <2>1. UNCHANGED users
    <3>1. ASSUME NEW r \in Callers, NEW op \in ClientOps, NEW caller \in Ids, NEW target \in Ids,
                 NEW role \in Roles \cup {None}, NEW name \in Names \cup {None},
                 Send(r, op, caller, target, role, name)
          PROVE  UNCHANGED users
      BY <3>1 DEF Send
    <3>2. ASSUME NEW w \in Callers, NEW op \in {"default", "script"}, Begin(w, op)
          PROVE  UNCHANGED users
      BY <3>2 DEF Begin
    <3>3. ASSUME NEW S \in SUBSET Callers, Abandon(S) PROVE UNCHANGED users
      BY <3>3 DEF Abandon
    <3>4. QED
      BY <1>7, <3>1, <3>2, <3>3, StepCases DEF accounts, Login, Expire
  <2>2. QED
    BY <1>3, <2>1
<1>8. QED
  BY <1>6, <1>7

(* However requests, starts and failures interleave, no id has two accounts  *)
(* that can be used, if no two creations of an id overlap.                   *)
THEOREM AccountsAreUnique == ASSUME OneCreatePerId PROVE AccountsSpec => []UniqueAccount
<1>1. UniqueInv /\ [AccountsNext]_accounts => UniqueInv'
  BY UniqueStep
<1>2. AccountsSpec => []UniqueInv
  BY <1>1, UniqueInit, PTL DEF AccountsSpec
<1>3. UniqueInv => UniqueAccount
  BY DEF UniqueInv
<1>4. QED
  BY <1>2, <1>3, PTL

-----------------------------------------------------------------------------
(* Deletions hold, if in addition no id is registered again and clients       *)
(* update and delete one at a time.                                          *)

Alone == OneCreatePerId /\ ~Reregister /\ {"update", "delete"} \subseteq Exclusive

OneDocument == \A i, j \in DOMAIN users : users[i].id = users[j].id => i = j

FreshId ==
  \A r \in Callers : At(r, "write") /\ req[r].op \in CreateOps => WithId(req[r].target) = {}

NoneDeleted ==
  \A r \in Callers, id \in Ids :
    Creating(r, id) /\ req[r].op = "create" => \A i \in WithId(id) : ~users[i].deleted

NotEmptied == users # <<>> => AnyActive # {}

(* Whoever is about to update or delete is an administrator still. *)
ActorIsAdmin ==
  \A r \in Callers : At(r, "write") /\ req[r].op \in {"update", "delete"} =>
    /\ \E i \in AnyActive : users[i].id = req[r].caller /\ users[i].role = "ADMIN"
    /\ req[r].op = "delete" => req[r].caller # req[r].target

DeletionInv ==
  /\ TypeInv /\ Apart
  /\ OneDocument /\ FreshId /\ NoneDeleted /\ ActorIsAdmin
  /\ NotEmptied /\ DeletionHolds

(* A lookup that finds nothing finds no document of the id. *)
LEMMA FoundCoversDeleted ==
  ASSUME TypeInv, NotEmptied, NoneDeleted, NEW r \in Callers,
         Find(r), req[r].op \in CreateOps, Found(req[r]) = {}
  PROVE  WithId(req[r].target) = {}
<1>1. users \in Seq(Account) /\ Creating(r, req[r].target) /\ req[r].target \in Ids
  BY DEF TypeInv, AccountsTypeOK, Request, Find, At, Creating, CreateOps
<1>2. CASE req[r].op = "create"
  <2>1. ActiveWithId(req[r].target) = {}
    BY <1>2, FoundCovers
  <2>2. QED
    BY <1>1, <1>2, <2>1 DEF NoneDeleted, ActiveWithId, WithId
<1>3. CASE req[r].op = "default"
  <2>1. AnyActive = {}
    BY <1>3 DEF Found
  <2>2. DOMAIN users = {}
    BY <1>1, <2>1, EmptySeq, LenProperties DEF NotEmptied
  <2>3. QED
    BY <2>2 DEF WithId
<1>4. CASE req[r].op = "script"
  BY <1>4 DEF Found
<1>5. QED
  BY <1>2, <1>3, <1>4 DEF CreateOps

LEMMA CreatorsKept ==
  ASSUME TypeInv, [AccountsNext]_accounts, ~Reregister,
         NEW s \in Callers, NEW id, Creating(s, id)', req'[s].op = "create"
  PROVE  \/ Creating(s, id) /\ req[s].op = "create"
         \/ UNCHANGED users /\ \A i \in WithId(id) : ~users[i].deleted
<1>1. CASE req'[s] = req[s]
  BY <1>1 DEF Creating, At
<1>2. CASE Serve(s) /\ req'[s] # Idle
  BY <1>2, ServeShape DEF Creating, At
<1>3. CASE /\ UNCHANGED <<users, tokens, gone>>
           /\ req'[s].op = "create" => MayCreate(req'[s].target, "create")
  BY <1>3 DEF Creating, MayCreate
<1>4. QED
  BY <1>1, <1>2, <1>3, Progress DEF Creating, At

LEMMA ActorsKept ==
  ASSUME TypeInv, Apart, [AccountsNext]_accounts, NEW s \in Callers,
         At(s, "write")', req'[s].op \in {"update", "delete"}
  PROVE  \/ At(s, "write") /\ req'[s] = req[s]
         \/ /\ req'[s].op = req[s].op /\ req'[s].caller = req[s].caller
            /\ req'[s].target = req[s].target
            /\ \E i \in AnyActive : users[i].id = req[s].caller /\ users[i].role = "ADMIN"
            /\ req[s].op = "delete" => req[s].caller # req[s].target
            /\ req'[s].seen = "ADMIN"
            /\ UNCHANGED users
<1>1. CASE req'[s] = req[s]
  BY <1>1 DEF At
<1>2. CASE Serve(s) /\ req'[s] # Idle
  <2>1. CASE Find(s)
    <3>1. req'[s].op = req[s].op
      BY <1>2, ServeShape
    <3>2. req[s].op \in CreateOps
      BY <2>1 DEF Apart, Sent, Find, At
    <3>3. QED
      BY <3>1, <3>2 DEF CreateOps
  <2>2. CASE ~Find(s)
    <3> DEFINE A == ActiveWithId(req[s].caller)
    <3>1. /\ Authenticate(s) /\ Allowed(users[First(A)], req[s]) /\ A # {}
          /\ req'[s].op = req[s].op /\ req'[s].caller = req[s].caller
          /\ req'[s].target = req[s].target /\ req'[s].seen = users[First(A)].role
      BY <1>2, <2>2, ServeShape
    <3>2. A \subseteq Nat
      BY LenProperties DEF ActiveWithId, WithId, TypeInv, AccountsTypeOK
    <3>3. First(A) \in A
      BY <3>1, <3>2, FirstInSet
    <3>4. First(A) \in AnyActive /\ users[First(A)].id = req[s].caller
      BY <3>3 DEF ActiveWithId, WithId, AnyActive
    <3>5. users[First(A)].role = "ADMIN" /\ (req[s].op = "delete" => req[s].caller # req[s].target)
      BY <3>1 DEF Allowed
    <3>6. UNCHANGED users
      BY <3>1 DEF Authenticate
    <3>7. QED
      BY <3>1, <3>4, <3>5, <3>6
  <2>3. QED
    BY <2>1, <2>2
<1>3. QED
  BY <1>1, <1>2, Progress DEF At

LEMMA DeletionInit == AccountsInit => DeletionInv
<1> SUFFICES ASSUME AccountsInit PROVE DeletionInv
  OBVIOUS
<1>1. users = <<>> /\ DOMAIN users = {} /\ gone = {}
  BY DEF AccountsInit
<1>2. \A s \in Callers : At(s, "idle") /\ ~At(s, "write")
  BY DEF AccountsInit, At, Idle
<1>3. QED
  BY <1>1, <1>2, TypeInit, ApartInit
     DEF DeletionInv, OneDocument, FreshId, NoneDeleted, ActorIsAdmin, NotEmptied,
         DeletionHolds, Creating

(* A step that writes no id, no mark of deletion, and no role while an       *)
(* administrator is about to act.                                            *)
LEMMA DeletionKept ==
  ASSUME ~Reregister, DeletionInv, TypeInv', Apart', [AccountsNext]_accounts,
         gone' = gone, DOMAIN users' = DOMAIN users,
         \A i \in DOMAIN users :
           users'[i].id = users[i].id /\ users'[i].deleted = users[i].deleted,
         \/ UNCHANGED users
         \/ \A s \in Callers :
              At(s, "write") /\ req'[s] = req[s] /\ req[s].op \in {"update", "delete"}
                => \A i \in DOMAIN users : users'[i].role = users[i].role
  PROVE  DeletionInv'
<1>1. /\ TypeInv /\ Apart /\ OneDocument /\ FreshId /\ NoneDeleted /\ ActorIsAdmin
      /\ NotEmptied /\ DeletionHolds
  BY DEF DeletionInv
<1>2. OneDocument'
  BY <1>1 DEF OneDocument
<1>3. \A id : WithId(id)' = WithId(id) /\ ActiveWithId(id)' = ActiveWithId(id)
  BY DEF WithId, ActiveWithId
<1>4. AnyActive' = AnyActive
  BY DEF AnyActive
<1>5. FreshId'
  <2> SUFFICES ASSUME NEW s \in Callers, At(s, "write")', req'[s].op \in CreateOps
               PROVE  WithId(req'[s].target) = {}
    BY <1>3 DEF FreshId
  <2>1. CASE At(s, "write") /\ req'[s] = req[s]
    BY <1>1, <2>1 DEF FreshId
  <2>2. CASE Find(s) /\ Found(req[s]) = {} /\ req'[s].op = req[s].op /\ req'[s].target = req[s].target
    BY <1>1, <2>2, FoundCoversDeleted
  <2>3. QED
    BY <1>1, <2>1, <2>2, WritersKept
<1>6. NoneDeleted'
  <2> SUFFICES ASSUME NEW s \in Callers, NEW id \in Ids, Creating(s, id)', req'[s].op = "create",
                      NEW i \in WithId(id)
               PROVE  ~users'[i].deleted
    BY <1>3 DEF NoneDeleted
  <2>1. ~users[i].deleted
    BY <1>1, CreatorsKept DEF NoneDeleted
  <2>2. QED
    BY <2>1 DEF WithId
<1>7. ActorIsAdmin'
  <2> SUFFICES ASSUME NEW s \in Callers, At(s, "write")', req'[s].op \in {"update", "delete"}
               PROVE  /\ \E i \in AnyActive : users'[i].id = req'[s].caller /\ users'[i].role = "ADMIN"
                      /\ req'[s].op = "delete" => req'[s].caller # req'[s].target
    BY <1>4 DEF ActorIsAdmin
  <2>1. AnyActive \subseteq DOMAIN users
    BY DEF AnyActive
  <2>2. CASE At(s, "write") /\ req'[s] = req[s]
    BY <1>1, <2>1, <2>2 DEF ActorIsAdmin
  <2>3. CASE /\ req'[s].op = req[s].op /\ req'[s].caller = req[s].caller
             /\ req'[s].target = req[s].target
             /\ \E i \in AnyActive : users[i].id = req[s].caller /\ users[i].role = "ADMIN"
             /\ req[s].op = "delete" => req[s].caller # req[s].target
             /\ UNCHANGED users
    BY <2>1, <2>3
  <2>4. QED
    BY <1>1, <2>2, <2>3, ActorsKept
<1>8. NotEmptied'
  <2>1. users \in Seq(Account) /\ users' \in Seq(Account)
    BY <1>1 DEF TypeInv, AccountsTypeOK
  <2>2. users' # <<>> => users # <<>>
    BY <2>1, EmptySeq, LenProperties
  <2>3. QED
    BY <1>1, <1>4, <2>2 DEF NotEmptied
<1>9. DeletionHolds'
  BY <1>1, <1>3 DEF DeletionHolds
<1>10. QED
  BY <1>2, <1>5, <1>6, <1>7, <1>8, <1>9 DEF DeletionInv

(* What a request that inserts, updates or deletes leaves of the others. *)
LEMMA WriteEnds ==
  ASSUME TypeInv, NEW r \in Callers, Insert(r) \/ Update(r) \/ Delete(r)
  PROVE  /\ At(r, "write") /\ req'[r] = Idle
         /\ \A s \in Callers : ~At(s, "idle")' => s # r /\ req'[s] = req[s]
<1>1. req \in [Callers -> Request] /\ At(r, "write") /\ req' = [req EXCEPT ![r] = Idle]
  BY DEF TypeInv, AccountsTypeOK, Insert, Update, Delete, Done
<1>2. QED
  BY <1>1 DEF At, Idle

LEMMA DeletionInsert ==
  ASSUME OneCreatePerId, DeletionInv, TypeInv', Apart', NEW r \in Callers, Insert(r)
  PROVE  DeletionInv'
<1> DEFINE t == req[r].target
           n == Len(users) + 1
<1>1. /\ TypeInv /\ Apart /\ OneDocument /\ FreshId /\ NoneDeleted /\ ActorIsAdmin
      /\ NotEmptied /\ DeletionHolds
  BY DEF DeletionInv
<1>2. /\ n \notin DOMAIN users /\ DOMAIN users' = DOMAIN users \cup {n}
      /\ \A i \in DOMAIN users : users'[i] = users[i]
      /\ users'[n].id = t /\ ~users'[n].deleted
  BY <1>1, InsertShape
<1>3. At(r, "write") /\ req[r].op \in CreateOps /\ gone' = gone \ {t} /\ t \in Ids
  BY <1>1 DEF Insert, CreateOps, TypeInv, AccountsTypeOK, Request
<1>4. WithId(t) = {}
  BY <1>1, <1>3 DEF FreshId
<1> HIDE DEF n
<1>5. \A s \in Callers : ~At(s, "idle")' => s # r /\ req'[s] = req[s]
  BY <1>1, WriteEnds
<1>6. \A id : id # t => WithId(id)' = WithId(id) /\ ActiveWithId(id)' = ActiveWithId(id)
  BY <1>2 DEF WithId, ActiveWithId
<1>7. OneDocument'
  BY <1>2, <1>1, <1>4 DEF OneDocument, WithId
<1>8. FreshId'
  <2> SUFFICES ASSUME NEW s \in Callers, At(s, "write")', req'[s].op \in CreateOps
               PROVE  (WithId(req[s].target) = {})'
    BY DEF FreshId
  <2>1. s # r /\ req'[s] = req[s] /\ At(s, "write")
    BY <1>5 DEF At
  <2>2. req[s].target \in Ids
    BY <1>1 DEF TypeInv, AccountsTypeOK, Request
  <2>3. Creating(r, t) /\ Creating(s, req[s].target)
    BY <1>3, <2>1 DEF Creating, At, CreateOps
  <2>4. req[s].target # t
    BY <1>1, <1>3, <2>1, <2>2, <2>3 DEF Apart, OneEach
  <2>5. WithId(req[s].target) = {}
    BY <1>1, <2>1 DEF FreshId
  <2>6. QED
    BY <1>2, <2>1, <2>4, <2>5 DEF WithId
<1>9. NoneDeleted'
  <2> SUFFICES ASSUME NEW s \in Callers, NEW id \in Ids, Creating(s, id)', req'[s].op = "create",
                      NEW i \in DOMAIN users', users'[i].id = id
               PROVE  ~users'[i].deleted
    BY DEF NoneDeleted, WithId
  <2>1. Creating(s, id) /\ req[s].op = "create"
    BY <1>5 DEF Creating, At
  <2>2. QED
    BY <1>1, <1>2, <2>1 DEF NoneDeleted, WithId
<1>10. ActorIsAdmin'
  <2> SUFFICES ASSUME NEW s \in Callers, At(s, "write")', req'[s].op \in {"update", "delete"}
               PROVE  /\ (\E i \in AnyActive : users[i].id = req[s].caller /\ users[i].role = "ADMIN")'
                      /\ req'[s].op = "delete" => req'[s].caller # req'[s].target
    BY DEF ActorIsAdmin
  <2>1. req'[s] = req[s] /\ At(s, "write")
    BY <1>5 DEF At
  <2>2. QED
    BY <1>1, <1>2, <2>1 DEF ActorIsAdmin, AnyActive
<1>11. NotEmptied'
  BY <1>2 DEF NotEmptied, AnyActive
<1>12. DeletionHolds'
  BY <1>1, <1>3, <1>6 DEF DeletionHolds
<1>13. QED
  BY <1>7, <1>8, <1>9, <1>10, <1>11, <1>12 DEF DeletionInv

LEMMA DeletionDelete ==
  ASSUME Alone, DeletionInv, TypeInv', Apart', NEW r \in Callers, Delete(r)
  PROVE  DeletionInv'
<1> DEFINE t == req[r].target
<1>1. /\ TypeInv /\ Apart /\ OneDocument /\ FreshId /\ NoneDeleted /\ ActorIsAdmin
      /\ NotEmptied /\ DeletionHolds
  BY DEF DeletionInv
<1>2. /\ DOMAIN users' = DOMAIN users
      /\ \A i \in DOMAIN users :
           /\ users'[i].id = users[i].id /\ users'[i].role = users[i].role
           /\ users[i].deleted => users'[i].deleted
           /\ users[i].id # t => users'[i].deleted = users[i].deleted
      /\ \/ WithId(t) = {} /\ gone' = gone
         \/ /\ gone' = gone \cup {t}
            /\ \E p \in DOMAIN users : users[p].id = t /\ users'[p].deleted
  BY <1>1, DeleteShape
<1>3. At(r, "write") /\ req[r].op = "delete" /\ t \in Ids
  BY <1>1 DEF Delete, TypeInv, AccountsTypeOK, Request
<1>4. \A s \in Callers : ~At(s, "idle")' => s # r /\ req'[s] = req[s]
  BY <1>1, WriteEnds
<1>5. \A id : WithId(id)' = WithId(id)
  BY <1>2 DEF WithId
<1>6. OneDocument'
  BY <1>1, <1>2 DEF OneDocument
<1>7. FreshId'
  BY <1>1, <1>4, <1>5 DEF FreshId, At
<1>8. NoneDeleted'
  <2> SUFFICES ASSUME NEW s \in Callers, NEW id \in Ids, Creating(s, id)', req'[s].op = "create",
                      NEW i \in WithId(id)
               PROVE  ~users'[i].deleted
    BY <1>5 DEF NoneDeleted
  <2>1. Creating(s, id) /\ req[s].op = "create"
    BY <1>4 DEF Creating, At
  <2>2. Deleting(r, t)
    BY <1>3 DEF Deleting, At
  <2>3. id # t
    BY <1>1, <1>3, <2>1, <2>2 DEF Apart, NoDeletion, Alone
  <2>4. QED
    BY <1>1, <1>2, <2>1, <2>3 DEF NoneDeleted, WithId
<1>9. ASSUME NEW s \in Callers, At(s, "write")', req'[s].op \in {"update", "delete"} PROVE FALSE
  <2>1. s # r /\ ~At(s, "idle") /\ req[s].op \in Exclusive
    BY <1>4, <1>9 DEF At, Alone
  <2>2. ~At(r, "idle") /\ req[r].op \in Exclusive
    BY <1>3 DEF At, Alone
  <2>3. QED
    BY <1>1, <2>1, <2>2 DEF Apart, OneExclusive
<1>10. ActorIsAdmin'
  BY <1>9 DEF ActorIsAdmin
<1>11. PICK a \in AnyActive : users[a].id = req[r].caller /\ users[a].role = "ADMIN" /\ users[a].id # t
  BY <1>1, <1>3 DEF ActorIsAdmin
<1>12. a \in AnyActive'
  BY <1>2, <1>11 DEF AnyActive
<1>13. NotEmptied'
  BY <1>12 DEF NotEmptied
<1>14. DeletionHolds'
  <2>1. ASSUME NEW id, id # t PROVE ActiveWithId(id)' = ActiveWithId(id)
    BY <1>2, <2>1 DEF ActiveWithId, WithId
  <2>2. CASE WithId(t) = {} /\ gone' = gone
    <3>1. \A id : id = t => ActiveWithId(id)' = {}
      BY <1>5, <2>2 DEF ActiveWithId
    <3>2. QED
      BY <1>1, <2>1, <2>2, <3>1 DEF DeletionHolds
  <2>3. CASE /\ gone' = gone \cup {t}
             /\ \E p \in DOMAIN users : users[p].id = t /\ users'[p].deleted
    <3>1. \A id : id = t => ActiveWithId(id)' = {}
      BY <1>1, <1>2, <2>3 DEF OneDocument, ActiveWithId, WithId
    <3>2. QED
      BY <1>1, <2>1, <2>3, <3>1 DEF DeletionHolds
  <2>4. QED
    BY <1>2, <2>2, <2>3
<1>15. QED
  BY <1>6, <1>7, <1>8, <1>10, <1>13, <1>14 DEF DeletionInv

LEMMA DeletionStep ==
  ASSUME Alone PROVE DeletionInv /\ [AccountsNext]_accounts => DeletionInv'
<1> SUFFICES ASSUME DeletionInv, [AccountsNext]_accounts PROVE DeletionInv'
  OBVIOUS
<1>1. TypeInv /\ Apart /\ TypeInv' /\ Apart' /\ ~Reregister /\ OneCreatePerId
  BY TypeStep, ApartStep DEF DeletionInv, Alone
<1>2. CASE UNCHANGED <<users, gone>>
  BY <1>1, <1>2, DeletionKept
<1>3. ASSUME NEW r \in Callers, Update(r) PROVE DeletionInv'
  <2>1. /\ DOMAIN users' = DOMAIN users /\ gone' = gone
        /\ \A i \in DOMAIN users :
             /\ users'[i].id = users[i].id /\ users'[i].deleted = users[i].deleted
             /\ req[r].op = "me" => users'[i].role = users[i].role
    BY <1>1, <1>3, UpdateShape DEF Update
  <2>2. ASSUME NEW s \in Callers, At(s, "write"), req'[s] = req[s],
               req[s].op \in {"update", "delete"}
        PROVE  \A i \in DOMAIN users : users'[i].role = users[i].role
    <3>1. At(r, "write") /\ req'[r] = Idle /\ req[r].op \in {"me", "update"}
      BY <1>1, <1>3, WriteEnds DEF Update
    <3>2. s # r /\ ~At(s, "idle") /\ ~At(r, "idle")
      BY <2>2, <3>1 DEF At, Idle
    <3>3. req[r].op # "update"
      BY <1>1, <2>2, <3>2 DEF Apart, OneExclusive, Alone
    <3>4. QED
      BY <2>1, <3>1, <3>3
  <2>3. QED
    BY <1>1, <2>1, <2>2, DeletionKept
<1>4. ASSUME NEW r \in Callers, Serve(r) PROVE DeletionInv'
  <2>1. Insert(r) => DeletionInv'
    BY <1>1, DeletionInsert
  <2>2. Delete(r) => DeletionInv'
    BY <1>1, DeletionDelete
  <2>3. QED
    BY <1>1, <1>2, <1>3, <1>4, <2>1, <2>2, ServeElsewhere
<1>5. CASE ~\E r \in Callers : Serve(r)
  <2>1. ASSUME NEW r \in Callers, NEW op \in ClientOps, NEW caller \in Ids, NEW target \in Ids,
               NEW role \in Roles \cup {None}, NEW name \in Names \cup {None},
               Send(r, op, caller, target, role, name)
        PROVE  UNCHANGED <<users, gone>>
    BY <2>1 DEF Send
  <2>2. ASSUME NEW w \in Callers, NEW op \in {"default", "script"}, Begin(w, op)
        PROVE  UNCHANGED <<users, gone>>
    BY <2>2 DEF Begin
  <2>3. ASSUME NEW S \in SUBSET Callers, Abandon(S) PROVE UNCHANGED <<users, gone>>
    BY <2>3 DEF Abandon
  <2>4. UNCHANGED <<users, gone>>
    BY <1>5, <2>1, <2>2, <2>3, StepCases DEF accounts, Login, Expire
  <2>5. QED
    BY <1>2, <2>4
<1>6. QED
  BY <1>4, <1>5

LEMMA DeletionAlways == ASSUME Alone PROVE AccountsSpec => []DeletionInv
<1>1. DeletionInv /\ [AccountsNext]_accounts => DeletionInv'
  BY DeletionStep
<1>2. QED
  BY <1>1, DeletionInit, PTL DEF AccountsSpec

(* A confirmed deletion stands: no account of the id can be used, whatever   *)
(* creation, start or change was under way.                                  *)
THEOREM DeletionsHold == ASSUME Alone PROVE AccountsSpec => []DeletionHolds
<1>1. AccountsSpec => []DeletionInv
  BY DeletionAlways
<1>2. DeletionInv => DeletionHolds
  BY DEF DeletionInv
<1>3. QED
  BY <1>1, <1>2, PTL

-----------------------------------------------------------------------------
(* How the last account and the last administrator are lost, whatever        *)
(* overlaps and however often ids are registered.                            *)

(* Whoever is about to update or delete was an administrator when he was     *)
(* checked, and does not delete himself.                                     *)
Checked ==
  \A r \in Callers : At(r, "write") /\ req[r].op \in {"update", "delete"} =>
    /\ req[r].seen = "ADMIN"
    /\ req[r].op = "delete" => req[r].caller # req[r].target

CheckedInv == TypeInv /\ Apart /\ Checked

LEMMA CheckedInit == AccountsInit => CheckedInv
<1> SUFFICES ASSUME AccountsInit PROVE CheckedInv
  OBVIOUS
<1>1. \A s \in Callers : ~At(s, "write")
  BY DEF AccountsInit, At, Idle
<1>2. QED
  BY <1>1, TypeInit, ApartInit DEF CheckedInv, Checked

LEMMA CheckedStep == CheckedInv /\ [AccountsNext]_accounts => CheckedInv'
<1> SUFFICES ASSUME CheckedInv, [AccountsNext]_accounts PROVE CheckedInv'
  OBVIOUS
<1>1. TypeInv /\ Apart /\ Checked
  BY DEF CheckedInv
<1>2. ASSUME NEW s \in Callers, At(s, "write")', req'[s].op \in {"update", "delete"}
      PROVE  /\ req'[s].seen = "ADMIN"
             /\ req'[s].op = "delete" => req'[s].caller # req'[s].target
  <2>1. CASE At(s, "write") /\ req'[s] = req[s]
    BY <1>1, <1>2, <2>1 DEF Checked
  <2>2. CASE /\ req'[s].op = req[s].op /\ req'[s].caller = req[s].caller
             /\ req'[s].target = req[s].target /\ req'[s].seen = "ADMIN"
             /\ req[s].op = "delete" => req[s].caller # req[s].target
    BY <2>2
  <2>3. QED
    BY <1>1, <1>2, <2>1, <2>2, ActorsKept
<1>3. QED
  BY <1>1, <1>2, TypeStep, ApartStep DEF CheckedInv, Checked

LEMMA CheckedAlways == AccountsSpec => []CheckedInv
BY CheckedInit, CheckedStep, PTL DEF AccountsSpec

(* A step that takes an account or a role away is a write, which ends its    *)
(* request.                                                                  *)
LEMMA LossIsWrite ==
  ASSUME TypeInv, [AccountsNext]_accounts, users' # users
  PROVE  \E r \in Callers : /\ Insert(r) \/ Update(r) \/ Delete(r)
                            /\ Ends(r)
<1>1. ASSUME NEW r \in Callers, NEW op \in ClientOps, NEW caller \in Ids, NEW target \in Ids,
             NEW role \in Roles \cup {None}, NEW name \in Names \cup {None}
      PROVE  ~Send(r, op, caller, target, role, name)
  BY DEF Send
<1>2. ASSUME NEW w \in Callers, NEW op \in {"default", "script"} PROVE ~Begin(w, op)
  BY DEF Begin
<1>3. ASSUME NEW S \in SUBSET Callers PROVE ~Abandon(S)
  BY DEF Abandon
<1>4. PICK r \in Callers : Serve(r)
  BY <1>1, <1>2, <1>3, StepCases DEF accounts, Login, Expire
<1>5. Insert(r) \/ Update(r) \/ Delete(r)
  BY <1>4, ServeElsewhere
<1>6. At(r, "write") /\ req'[r] = Idle
  BY <1>5, WriteEnds
<1>7. Ends(r)
  BY <1>6 DEF Ends, At, Idle
<1>8. QED
  BY <1>5, <1>7

(* An insertion loses nobody. *)
LEMMA InsertLosesNone ==
  ASSUME TypeInv, NEW r \in Callers, Insert(r)
  PROVE  (AnyActive # {} => AnyActive' # {}) /\ (HasAdmin => HasAdmin')
<1>1. DOMAIN users \subseteq DOMAIN users' /\ \A i \in DOMAIN users : users'[i] = users[i]
  BY InsertShape
<1>2. QED
  BY <1>1 DEF HasAdmin, AnyActive

LEMMA EmptyStep ==
  ASSUME CheckedInv, [AccountsNext]_accounts, AnyActive # {}, AnyActive' = {}
  PROVE  \E r \in Requests : /\ Ends(r) /\ req[r].op = "delete"
                             /\ req[r].seen = "ADMIN" /\ ActiveWithId(req[r].caller) = {}
<1>1. TypeInv /\ Apart /\ Checked
  BY DEF CheckedInv
<1>2. PICK r \in Callers : (Insert(r) \/ Update(r) \/ Delete(r)) /\ Ends(r)
  <2>1. users' # users
    BY DEF AnyActive
  <2>2. QED
    BY <1>1, <2>1, LossIsWrite
<1>3. ~Insert(r)
  BY <1>1, InsertLosesNone
<1>4. ~Update(r)
  <2> SUFFICES ASSUME Update(r) PROVE FALSE
    OBVIOUS
  <2>1. DOMAIN users' = DOMAIN users /\ \A i \in DOMAIN users : users'[i].deleted = users[i].deleted
    BY <1>1, UpdateShape
  <2>2. QED
    BY <2>1 DEF AnyActive
<1>5. Delete(r) /\ req[r].op = "delete" /\ At(r, "write")
  BY <1>2, <1>3, <1>4 DEF Delete
<1>6. req[r].seen = "ADMIN" /\ req[r].caller # req[r].target
  BY <1>1, <1>5 DEF Checked
<1>7. ActiveWithId(req[r].caller) = {}
  <2> SUFFICES ASSUME NEW i \in ActiveWithId(req[r].caller) PROVE FALSE
    OBVIOUS
  <2>1. i \in DOMAIN users /\ users[i].id = req[r].caller /\ ~users[i].deleted
    BY DEF ActiveWithId, WithId
  <2>2. i \in AnyActive'
    BY <1>1, <1>5, <1>6, <2>1, DeleteShape DEF AnyActive
  <2>3. QED
    BY <2>2
<1>8. r \in Requests
  BY <1>1, <1>5 DEF Apart, Sent, ClientOps, At
<1>9. QED
  BY <1>2, <1>5, <1>6, <1>7, <1>8

(* With any number of overlapping requests, starts and failures, the last    *)
(* account that can be used is deleted only by an administrator whose own    *)
(* was deleted after he had been checked.                                    *)
THEOREM AnAccountRemains == AccountsSpec => AccountRemains
<1> DEFINE Lost == \E r \in Requests : /\ Ends(r) /\ req[r].op = "delete"
                                       /\ req[r].seen = "ADMIN" /\ ActiveWithId(req[r].caller) = {}
<1>1. CheckedInv /\ [AccountsNext]_accounts => [AnyActive # {} /\ AnyActive' = {} => Lost]_accounts
  BY EmptyStep
<1>2. QED
  BY <1>1, CheckedAlways, PTL DEF AccountsSpec, AccountRemains

LEMMA AdminStep ==
  ASSUME CheckedInv, [AccountsNext]_accounts, HasAdmin, ~HasAdmin'
  PROVE  \E r \in Requests : Ends(r) /\ (GivesUp(r) \/ Overtaken(r))
<1>1. TypeInv /\ Apart /\ Checked
  BY DEF CheckedInv
<1>2. PICK a \in AnyActive : users[a].role = "ADMIN"
  BY DEF HasAdmin
<1>3. PICK r \in Callers : (Insert(r) \/ Update(r) \/ Delete(r)) /\ Ends(r)
  <2>1. users' # users
    BY DEF HasAdmin, AnyActive
  <2>2. QED
    BY <1>1, <2>1, LossIsWrite
<1>4. ~Insert(r)
  BY <1>1, InsertLosesNone
<1>5. /\ DOMAIN users' = DOMAIN users
      /\ \A i \in DOMAIN users :
           users[i].id # req[r].target /\ ~users[i].deleted
             => users'[i].role = users[i].role /\ ~users'[i].deleted
  BY <1>1, <1>3, <1>4, UpdateShape, DeleteShape
<1>6. req[r].op \in {"update", "delete"} /\ At(r, "write")
  <2>1. CASE Delete(r)
    BY <2>1 DEF Delete
  <2>2. CASE Update(r)
    <3>1. req[r].op \in {"me", "update"} /\ At(r, "write")
      BY <2>2 DEF Update
    <3>2. /\ DOMAIN users' = DOMAIN users
          /\ \A i \in DOMAIN users :
               /\ users'[i].deleted = users[i].deleted
               /\ req[r].op = "me" => users'[i].role = users[i].role
      BY <1>1, <2>2, UpdateShape
    <3>3. QED
      BY <1>2, <3>1, <3>2 DEF HasAdmin, AnyActive
  <2>3. QED
    BY <1>3, <1>4, <2>1, <2>2
<1>7. r \in Requests /\ req[r].seen = "ADMIN"
  BY <1>1, <1>6 DEF Apart, Sent, ClientOps, At, Checked
<1>8. ASSUME ~Overtaken(r) PROVE GivesUp(r)
  <2>1. PICK i \in ActiveWithId(req[r].caller) : users[i].role = "ADMIN"
    BY <1>7, <1>8 DEF Overtaken
  <2>2. i \in AnyActive /\ i \in DOMAIN users /\ users[i].id = req[r].caller /\ ~users[i].deleted
    BY <2>1 DEF ActiveWithId, WithId, AnyActive
  <2>3. req[r].caller = req[r].target
    BY <1>5, <2>1, <2>2 DEF HasAdmin, AnyActive
  <2>4. req[r].op = "update" /\ Update(r)
    BY <1>1, <1>3, <1>4, <1>6, <2>3 DEF Checked, Delete
  <2>5. /\ users'[i].deleted = users[i].deleted
        /\ users'[i].role # users[i].role => users'[i].role = req[r].role /\ req[r].role # None
    BY <1>1, <2>2, <2>4, UpdateShape
  <2>6. req[r].role \notin {None, "ADMIN"}
    BY <1>5, <2>1, <2>2, <2>5 DEF HasAdmin, AnyActive
  <2>7. QED
    BY <2>3, <2>4, <2>6 DEF GivesUp
<1>9. QED
  BY <1>3, <1>7, <1>8

(* With any number of overlapping requests, starts and failures, the last    *)
(* administrator gives up the role himself, or is taken away by one who was  *)
(* an administrator when he was checked and is not any more.                 *)
THEOREM LastAdminStays == AccountsSpec => LastAdmin
<1> DEFINE Lost == \E r \in Requests : Ends(r) /\ (GivesUp(r) \/ Overtaken(r))
<1>1. CheckedInv /\ [AccountsNext]_accounts => [HasAdmin /\ ~HasAdmin' => Lost]_accounts
  BY AdminStep
<1>2. QED
  BY <1>1, CheckedAlways, PTL DEF AccountsSpec, LastAdmin
=============================================================================
