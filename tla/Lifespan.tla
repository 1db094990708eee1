------------------------------ MODULE Lifespan ------------------------------
(***************************************************************************)
(* The workers of the application around the accounts: a start opens the   *)
(* clients of Elasticsearch, MongoDB and Prometheus one after another and  *)
(* creates the default account; a stop, or a start that fails, closes them *)
(* one after another, and the first exception leaves the rest as it is.    *)
(* Requests are served by the worker they were sent to while it serves.    *)
(***************************************************************************)
EXTENDS UserAccounts

CONSTANTS
  Workers,     \* the processes of the application; they are Starters
  WorkerOf,    \* the worker a request is sent to
  Together,    \* workers may start at the same time
  MaxFaults    \* bound on failures and crashes

ASSUME LifespanAssumption ==
  /\ Workers \subseteq Starters
  /\ WorkerOf \in [Requests -> Workers]
  /\ Together \in BOOLEAN
  /\ MaxFaults \in Nat

VARIABLES
  app,      \* the state of each worker
  faults    \* the number of failures so far

vars == <<users, req, tokens, gone, app, faults>>

Opening == <<"es", "mongo", "prometheus", "session">>
Closing == <<"close_es", "close_mongo", "close_session">>

(* made: the managers in app.state; open: the clients that hold connections; *)
(* hurt: a closing of this process has failed.                               *)
Worker == [pc : {"off", "admin", "created", "serving"} \cup {Opening[i] : i \in 1 .. 4}
                \cup {Closing[i] : i \in 1 .. 3},
           made : SUBSET {"es", "mongo", "prometheus"},
           open : SUBSET {"es", "mongo", "session"}, hurt : BOOLEAN]

Off == [pc |-> "off", made |-> {}, open |-> {}, hurt |-> FALSE]

Init == AccountsInit /\ app = [w \in Workers |-> Off] /\ faults = 0

On(w, pc) == app[w].pc = pc

Become(w, state) == app' = [app EXCEPT ![w] = state]

Fault == faults < MaxFaults /\ faults' = faults + 1

StartingUp(w) == app[w].pc \in {Opening[i] : i \in 1 .. 4} \cup {"admin", "created"}

Start(w) ==
  /\ On(w, "off")
  /\ Together \/ \A v \in Workers : ~StartingUp(v)
  /\ Become(w, [Off EXCEPT !.pc = "es"])
  /\ UNCHANGED <<accounts, faults>>

(* The client of MongoDB and of Elasticsearch is made with its manager, the  *)
(* session of Prometheus in a step of its own.                               *)
Opened(a) ==
  CASE a.pc = "es"         -> [a EXCEPT !.pc = "mongo", !.made = @ \cup {"es"}, !.open = @ \cup {"es"}]
    [] a.pc = "mongo"      -> [a EXCEPT !.pc = "prometheus", !.made = @ \cup {"mongo"},
                                        !.open = @ \cup {"mongo"}]
    [] a.pc = "prometheus" -> [a EXCEPT !.pc = "session", !.made = @ \cup {"prometheus"}]
    [] a.pc = "session"    -> [a EXCEPT !.pc = "admin", !.open = @ \cup {"session"}]

Open(w) ==
  /\ app[w].pc \in {Opening[i] : i \in 1 .. 4}
  /\ Become(w, Opened(app[w]))
  /\ UNCHANGED <<accounts, faults>>

(* The finally clause runs for a start that failed as well.                  *)
EndsBy(a) == [a EXCEPT !.pc = "close_es"]

OpenFails(w) ==
  /\ app[w].pc \in {Opening[i] : i \in 1 .. 4} /\ Fault
  /\ Become(w, EndsBy(app[w]))
  /\ UNCHANGED accounts

(* An exception in the creation of the default account is only logged.       *)
DefaultAccount(w) ==
  /\ \/ On(w, "admin") /\ Begin(w, "default") /\ Become(w, [app[w] EXCEPT !.pc = "created"])
     \/ On(w, "created") /\ Serve(w) /\ UNCHANGED app
  /\ UNCHANGED faults

Ready(w) ==
  /\ On(w, "created") /\ At(w, "idle")
  /\ Become(w, [app[w] EXCEPT !.pc = "serving"])
  /\ UNCHANGED <<accounts, faults>>

Handle(r) ==
  /\ On(WorkerOf[r], "serving")
  /\ \/ \E op \in {"create", "update", "me", "delete"}, caller \in tokens, target \in Ids,
           role \in Roles \cup {None}, name \in Names \cup {None} :
          Send(r, op, caller, target, role, name)
     \/ Serve(r)
  /\ UNCHANGED <<app, faults>>

LogsIn(id) ==
  /\ \E w \in Workers : On(w, "serving")
  /\ Login(id)
  /\ UNCHANGED <<app, faults>>

Expires(id) == Expire(id) /\ UNCHANGED <<app, faults>>

(* create_admin.py, run by hand on any of the hosts. *)
Script(s) == (Begin(s, "script") \/ Serve(s)) /\ UNCHANGED <<app, faults>>

MongoFails(r) == ~At(r, "idle") /\ Fault /\ Abandon({r}) /\ UNCHANGED app

RequestsOf(w) == {w} \cup {r \in Requests : WorkerOf[r] = w}

(* A worker is stopped when the requests it has are answered.                *)
Stop(w) ==
  /\ On(w, "serving") /\ \A r \in RequestsOf(w) : At(r, "idle")
  /\ Become(w, EndsBy(app[w]))
  /\ UNCHANGED <<accounts, faults>>

(* Mutant: MongoDB is forgotten. *)
ClosedWithoutMongo(a) ==
  CASE a.pc = "close_es"      -> IF "es" \in a.made THEN [a EXCEPT !.pc = "close_session", !.open = @ \ {"es"}]
                                 ELSE [a EXCEPT !.pc = "off"]
    [] a.pc = "close_mongo"   -> [a EXCEPT !.pc = "close_session", !.open = @ \ {"mongo"}]
    [] a.pc = "close_session" -> [a EXCEPT !.pc = "off", !.open = @ \ {"session"}]

(* Without a manager of Elasticsearch the first closing raises, and nothing  *)
(* follows it; the others look whether there is something to close.          *)
Closed(a) ==
  CASE a.pc = "close_es"      -> IF "es" \in a.made THEN [a EXCEPT !.pc = "close_mongo", !.open = @ \ {"es"}]
                                 ELSE [a EXCEPT !.pc = "off"]
    [] a.pc = "close_mongo"   -> [a EXCEPT !.pc = "close_session", !.open = @ \ {"mongo"}]
    [] a.pc = "close_session" -> [a EXCEPT !.pc = "off", !.open = @ \ {"session"}]

Close(w) ==
  /\ app[w].pc \in {Closing[i] : i \in 1 .. 3}
  /\ Become(w, Closed(app[w]))
  /\ UNCHANGED <<accounts, faults>>

CloseFails(w) ==
  /\ app[w].pc \in {Closing[i] : i \in 1 .. 3} /\ Fault
  /\ Become(w, [app[w] EXCEPT !.pc = "off", !.hurt = TRUE])
  /\ UNCHANGED accounts

Crash(w) ==
  /\ ~On(w, "off") /\ Fault
  /\ Become(w, Off)
  /\ Abandon(RequestsOf(w))

Next ==
  \/ \E w \in Workers :
       \/ Start(w) \/ Open(w) \/ OpenFails(w) \/ DefaultAccount(w) \/ Ready(w)
       \/ Stop(w) \/ Close(w) \/ CloseFails(w) \/ Crash(w)
  \/ \E r \in Requests : Handle(r)
  \/ \E r \in Callers : MongoFails(r)
  \/ \E id \in Ids : LogsIn(id) \/ Expires(id)
  \/ \E s \in Starters \ Workers : Script(s)

Spec == Init /\ [][Next]_vars

-----------------------------------------------------------------------------
LifespanTypeOK ==
  /\ AccountsTypeOK
  /\ app \in [Workers -> Worker] /\ faults \in 0 .. MaxFaults

(* Whatever step of the start failed, a worker whose closings all succeeded  *)
(* leaves no connection behind.                                              *)
AllClosed == \A w \in Workers : On(w, "off") /\ ~app[w].hurt => app[w].open = {}
=============================================================================
