---------------------------- MODULE UserAccounts ----------------------------
(***************************************************************************)
(* The accounts: the users collection of MongoDB and everything that       *)
(* writes it.  An account is created by an administrator's request, by a   *)
(* worker that starts and counts no user, and by the script create_admin;  *)
(* each looks first and inserts later, in a second call to MongoDB.  An    *)
(* update or a deletion takes the first document with the user_id,         *)
(* deleted or not, while logins and tokens look for one not deleted.       *)
(*                                                                         *)
(* A request authenticates its caller in one call and acts in others; what *)
(* other requests do in between, also to the caller, takes effect.         *)
(***************************************************************************)
EXTENDS Integers, Sequences

CONSTANTS
  Ids,             \* the user ids
  Admin,           \* the id of the default administrator
  Roles,           \* the roles, "ADMIN" among them
  Names,           \* values of name and password
  DefaultName,     \* name and password of the default account
  None,            \* a field an update leaves alone
  Requests,        \* the requests of clients
  Starters,        \* the workers and the script, which create the default account
  Exclusive,       \* operations of which clients send one at a time
  OneCreatePerId,  \* no two creations of one id overlap
  Reregister,      \* an id can be registered again after its deletion
  MaxAccounts      \* bound on the documents in users

Ops == {"create", "update", "me", "delete", "default", "script"}

ASSUME AccountsAssumption ==
  /\ Admin \in Ids /\ "ADMIN" \in Roles
  /\ DefaultName \in Names
  /\ None \notin Roles /\ None \notin Names
  /\ Requests \cap Starters = {}
  /\ Exclusive \subseteq {"update", "delete"}
  /\ OneCreatePerId \in BOOLEAN /\ Reregister \in BOOLEAN
  /\ MaxAccounts \in Nat

VARIABLES
  users,    \* the documents of the collection, in natural order
  req,      \* the progress of each request and each start
  tokens,   \* the ids somebody holds a token of
  gone      \* ids whose deletion was confirmed and that were not registered since

accounts == <<users, req, tokens, gone>>

Callers == Requests \cup Starters

Account == [id : Ids, role : Roles, name : Names, deleted : BOOLEAN]

(* seen: the role that current_user has, read when the request begins. *)
Request == [pc : {"idle", "auth", "find", "write"}, op : Ops, caller : Ids, target : Ids,
            role : Roles \cup {None}, name : Names \cup {None}, seen : Roles \cup {None}]

Idle == [pc |-> "idle", op |-> "me", caller |-> Admin, target |-> Admin,
         role |-> None, name |-> None, seen |-> None]

AccountsInit ==
  /\ users = <<>>
  /\ req = [r \in Callers |-> Idle]
  /\ tokens = {}
  /\ gone = {}

WithId(id) == {i \in DOMAIN users : users[i].id = id}

ActiveWithId(id) == {i \in WithId(id) : ~users[i].deleted}

AnyActive == {i \in DOMAIN users : ~users[i].deleted}

First(S) == CHOOSE i \in S : \A j \in S : i <= j

At(r, pc) == req[r].pc = pc

Done(r) == req' = [req EXCEPT ![r] = Idle]

Goto(r, pc) == req' = [req EXCEPT ![r].pc = pc]

-----------------------------------------------------------------------------
(* Tokens name a user and live for a day, whatever becomes of the account. *)
Login(id) ==
  /\ ActiveWithId(id) # {}
  /\ tokens' = tokens \cup {id}
  /\ UNCHANGED <<users, req, gone>>

Expire(id) ==
  /\ tokens' = tokens \ {id}
  /\ UNCHANGED <<users, req, gone>>

Creating(r, id) == ~At(r, "idle") /\ req[r].op \in {"create", "default", "script"} /\ req[r].target = id

Deleting(r, id) == ~At(r, "idle") /\ req[r].op = "delete" /\ req[r].target = id

(* What the clients of an instance observe among themselves. *)
MayCreate(id, op) ==
  /\ OneCreatePerId => \A r \in Callers : ~Creating(r, id)
  /\ op = "create" /\ ~Reregister =>
       /\ \A i \in WithId(id) : ~users[i].deleted
       /\ \A r \in Callers : ~Deleting(r, id)

MayDelete(id) == ~Reregister => \A r \in Callers : ~Creating(r, id)

MayRun(op) ==
  op \in Exclusive => \A r \in Callers : At(r, "idle") \/ req[r].op \notin Exclusive

Send(r, op, caller, target, role, name) ==
  /\ At(r, "idle") /\ caller \in tokens
  /\ MayRun(op)
  /\ op = "create" => MayCreate(target, op) /\ role \in Roles /\ name \in Names
  /\ op = "me" => target = caller /\ role = None
  /\ op = "delete" => MayDelete(target) /\ role = None /\ name = None
  /\ req' = [req EXCEPT ![r] = [pc |-> "auth", op |-> op, caller |-> caller,
                                target |-> target, role |-> role, name |-> name,
                                seen |-> None]]
  /\ UNCHANGED <<users, tokens, gone>>

(* Mutants: an administrator may delete himself; the role is not looked at. *)
AllowedSelf(me, q) ==
  /\ q.op # "me" => me.role = "ADMIN"
  /\ q.op \in {"me", "update"} => q.role # None \/ q.name # None

AllowedAny(me, q) ==
  /\ q.op = "delete" => q.caller # q.target
  /\ q.op \in {"me", "update"} => q.role # None \/ q.name # None

(* The checks of an endpoint once the account of the caller is known. *)
Allowed(me, q) ==
  /\ q.op # "me" => me.role = "ADMIN"
  /\ q.op = "delete" => q.caller # q.target
  /\ q.op \in {"me", "update"} => q.role # None \/ q.name # None

Authenticate(r) ==
  LET q    == req[r]
      mine == ActiveWithId(q.caller)
  IN  /\ At(r, "auth")
      /\ \/ /\ mine # {} /\ Allowed(users[First(mine)], q)
            /\ req' = [req EXCEPT ![r].pc = IF q.op = "create" THEN "find" ELSE "write",
                                  ![r].seen = users[First(mine)].role]
         \/ /\ mine # {} => ~Allowed(users[First(mine)], q)
            /\ Done(r)
      /\ UNCHANGED <<users, tokens, gone>>

(* A worker starts, or the script is run: no caller, and the default account. *)
Begin(w, op) ==
  /\ At(w, "idle") /\ MayCreate(Admin, op)
  /\ req' = [req EXCEPT ![w] = [pc |-> "find", op |-> op, caller |-> Admin, target |-> Admin,
                                role |-> "ADMIN", name |-> DefaultName, seen |-> None]]
  /\ UNCHANGED <<users, tokens, gone>>

(* Mutant: what the lookup finds does not matter. *)
FoundNothing(q) == {}

(* The documents that keep a creation from taking place. *)
Found(q) ==
  CASE q.op = "create"  -> ActiveWithId(q.target)
    [] q.op = "default" -> AnyActive
    [] OTHER            -> WithId(q.target)

Find(r) ==
  /\ At(r, "find")
  /\ IF Found(req[r]) = {} THEN Goto(r, "write") ELSE Done(r)
  /\ UNCHANGED <<users, tokens, gone>>

Insert(r) ==
  LET q == req[r]
  IN  /\ At(r, "write") /\ q.op \in {"create", "default", "script"}
      /\ Len(users) < MaxAccounts
      /\ users' = Append(users, [id |-> q.target, role |-> q.role, name |-> q.name,
                                 deleted |-> FALSE])
      /\ gone' = gone \ {q.target}
      /\ Done(r)
      /\ UNCHANGED tokens

(* Mutant: the update writes a whole entity, with its default delete_yn. *)
ChangedWhole(u, q) ==
  [u EXCEPT !.role = IF q.role = None THEN @ ELSE q.role,
            !.name = IF q.name = None THEN @ ELSE q.name, !.deleted = FALSE]

(* Mutant: fields that are not given are written as well. *)
ChangedUnset(u, q) == [u EXCEPT !.role = q.role, !.name = q.name]

Changed(u, q) ==
  [u EXCEPT !.role = IF q.role = None THEN @ ELSE q.role,
            !.name = IF q.name = None THEN @ ELSE q.name]

Update(r) ==
  LET q == req[r]
      i == First(WithId(q.target))
  IN  /\ At(r, "write") /\ q.op \in {"me", "update"}
      /\ users' = IF WithId(q.target) = {} THEN users
                  ELSE [users EXCEPT ![i] = Changed(users[i], q)]
      /\ Done(r)
      /\ UNCHANGED <<tokens, gone>>

(* The time of the change is written as well: a match is a modification, and *)
(* a document that is deleted already is deleted with success.               *)
Delete(r) ==
  LET q == req[r]
      i == First(WithId(q.target))
  IN  /\ At(r, "write") /\ q.op = "delete"
      /\ IF WithId(q.target) = {} THEN UNCHANGED <<users, gone>>
         ELSE /\ users' = [users EXCEPT ![i].deleted = TRUE]
              /\ gone' = gone \cup {q.target}
      /\ Done(r)
      /\ UNCHANGED tokens

(* MongoDB answers with an error, or the worker that serves them ends. *)
Abandon(S) ==
  /\ req' = [r \in Callers |-> IF r \in S THEN Idle ELSE req[r]]
  /\ UNCHANGED <<users, tokens, gone>>

Serve(r) == Authenticate(r) \/ Find(r) \/ Insert(r) \/ Update(r) \/ Delete(r)

AccountsNext ==
  \/ \E id \in Ids : Login(id) \/ Expire(id)
  \/ \E r \in Requests :
       \/ \E op \in {"create", "update", "me", "delete"}, caller \in Ids, target \in Ids,
             role \in Roles \cup {None}, name \in Names \cup {None} :
            Send(r, op, caller, target, role, name)
       \/ Serve(r)
  \/ \E w \in Starters : (\E op \in {"default", "script"} : Begin(w, op)) \/ Serve(w)
  \/ \E S \in SUBSET Callers : Abandon(S)

AccountsSpec == AccountsInit /\ [][AccountsNext]_accounts

-----------------------------------------------------------------------------
AccountsTypeOK ==
  /\ users \in Seq(Account) /\ Len(users) <= MaxAccounts
  /\ req \in [Callers -> Request]
  /\ tokens \subseteq Ids /\ gone \subseteq Ids

(* No id has two accounts that can be used, as long as no two creations of   *)
(* it overlap: a request looks for accounts that can be used, the script for *)
(* any of the id, a worker for any at all, and each finds enough.            *)
UniqueAccount ==
  \A i, j \in AnyActive : users[i].id = users[j].id => i = j

(* An id whose deletion was confirmed stays out: no account of it can log in *)
(* or act until it is registered again, whatever was under way meanwhile.    *)
DeletionHolds == \A id \in gone : ActiveWithId(id) = {}

Ends(r) == At(r, "write") /\ req'[r] # req[r]

(* The last account that can be used is deleted only by an administrator     *)
(* whose own account was deleted after he had been checked.                  *)
AccountRemains ==
  [][AnyActive # {} /\ AnyActive' = {} =>
       \E r \in Requests : /\ Ends(r) /\ req[r].op = "delete"
                           /\ req[r].seen = "ADMIN" /\ ActiveWithId(req[r].caller) = {}]_accounts

HasAdmin == \E i \in AnyActive : users[i].role = "ADMIN"

GivesUp(r) ==
  req[r].op = "update" /\ req[r].caller = req[r].target /\ req[r].role \notin {None, "ADMIN"}

(* Checked as an administrator, and not one any more when the write is made. *)
Overtaken(r) ==
  req[r].seen = "ADMIN" /\ \A i \in ActiveWithId(req[r].caller) : users[i].role # "ADMIN"

(* The last administrator is lost in two ways only: he gives up the role, or *)
(* one who is no longer an administrator still acts on an earlier check.     *)
LastAdmin ==
  [][HasAdmin /\ ~HasAdmin' =>
       \E r \in Requests : Ends(r) /\ (GivesUp(r) \/ Overtaken(r))]_accounts
=============================================================================
