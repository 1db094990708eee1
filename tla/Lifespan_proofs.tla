-------------------------- MODULE Lifespan_proofs ---------------------------
(***************************************************************************)
(* Proofs about Lifespan, for every set of workers, ids and requests and   *)
(* every bound on the failures.  Each step of the workers is one of the    *)
(* accounts or leaves them alone, so what is proved of UserAccounts holds  *)
(* here; what is open follows from how far a worker has come.              *)
(***************************************************************************)
EXTENDS Lifespan, UserAccounts_proofs

(* The workers' steps for the accounts. *)
LEMMA StepSimulates == TypeInv /\ [Next]_vars => [AccountsNext]_accounts
<1> SUFFICES ASSUME TypeInv, [Next]_vars PROVE [AccountsNext]_accounts
  OBVIOUS
<1>1. tokens \subseteq Ids /\ Workers \subseteq Starters
  BY LifespanAssumption DEF TypeInv, AccountsTypeOK
<1>2. CASE UNCHANGED vars
  BY <1>2 DEF vars, accounts
<1>3. ASSUME NEW w \in Workers,
             Start(w) \/ Open(w) \/ OpenFails(w) \/ Ready(w) \/ Stop(w) \/ Close(w) \/ CloseFails(w)
      PROVE  UNCHANGED accounts
  BY <1>3 DEF Start, Open, OpenFails, Ready, Stop, Close, CloseFails
<1>4. ASSUME NEW w \in Workers, DefaultAccount(w) PROVE AccountsNext
  BY <1>1, <1>4 DEF DefaultAccount, AccountsNext
<1>5. ASSUME NEW w \in Workers, Crash(w) PROVE AccountsNext
  <2>1. RequestsOf(w) \in SUBSET Callers
    BY <1>1 DEF RequestsOf, Callers
  <2>2. QED
    BY <1>5, <2>1 DEF Crash, AccountsNext
<1>6. ASSUME NEW r \in Requests, Handle(r) PROVE AccountsNext
  BY <1>1, <1>6 DEF Handle, AccountsNext
<1>7. ASSUME NEW r \in Callers, MongoFails(r) PROVE AccountsNext
  <2>1. {r} \in SUBSET Callers /\ Abandon({r})
    BY <1>7 DEF MongoFails
  <2>2. QED
    BY <2>1 DEF AccountsNext
<1>8. ASSUME NEW id \in Ids, LogsIn(id) \/ Expires(id) PROVE AccountsNext
  BY <1>8 DEF LogsIn, Expires, AccountsNext
<1>9. ASSUME NEW s \in Starters \ Workers, Script(s) PROVE AccountsNext
  BY <1>9 DEF Script, AccountsNext
<1>10. QED
  BY <1>2, <1>3, <1>4, <1>5, <1>6, <1>7, <1>8, <1>9 DEF Next

(* The workers, with their starts, stops, failures and crashes, implement    *)
(* the accounts.                                                             *)
THEOREM LifespanImplements == Spec => AccountsSpec
<1>1. Init => AccountsInit /\ TypeInv
  BY TypeInit DEF Init
<1>2. TypeInv /\ [Next]_vars => [AccountsNext]_accounts /\ TypeInv'
  BY StepSimulates, TypeStep
<1>3. QED
  BY <1>1, <1>2, PTL DEF Spec, AccountsSpec

(* So a crash or a failure of MongoDB between the calls of a request, a      *)
(* start or the script cannot break what holds of the accounts.              *)
COROLLARY LifespanKeepsAccounts ==
  ASSUME Alone
  PROVE  Spec => [](UniqueAccount /\ DeletionHolds)
<1>4. AccountsSpec => []UniqueAccount
  BY AccountsAreUnique DEF Alone
<1>5. AccountsSpec => []DeletionHolds
  BY DeletionsHold
<1>6. QED
  BY <1>4, <1>5, LifespanImplements, PTL

(* Nor does a failure take the last account or administrator away. *)
COROLLARY LifespanKeepsAdmins == Spec => AccountRemains /\ LastAdmin
<1>7. AccountsSpec => AccountRemains
  BY AnAccountRemains
<1>8. AccountsSpec => LastAdmin
  BY LastAdminStays
<1>9. QED
  BY <1>7, <1>8, LifespanImplements, PTL

-----------------------------------------------------------------------------
All == {"es", "mongo", "session"}

Starting == {"es", "mongo", "prometheus", "session"}
Ending   == {"close_es", "close_mongo", "close_session"}
Up       == {"admin", "created", "serving"}

(* What a worker has open and made, by how far it has come.  The first       *)
(* closing needs the manager of Elasticsearch, made before all else.         *)
Progressed(a) ==
  /\ a.pc = "es" => a.open = {}
  /\ a.pc = "mongo" => a.open = {"es"}
  /\ a.pc \in {"prometheus", "session"} => a.open = {"es", "mongo"}
  /\ a.pc \in Up => a.open = All
  /\ a.pc = "close_mongo" => "es" \notin a.open
  /\ a.pc = "close_session" => a.open \subseteq {"session"}
  /\ a.pc # "off" /\ a.open # {} => "es" \in a.made
  /\ a.pc = "off" /\ ~a.hurt => a.open = {}

Bounded == app \in [Workers -> Worker] /\ faults \in 0 .. MaxFaults

LifeInv == TypeInv /\ Bounded /\ (\A w \in Workers : Progressed(app[w]))

LEMMA Positions ==
  /\ {Opening[i] : i \in 1 .. 4} = Starting
  /\ {Closing[i] : i \in 1 .. 3} = Ending
<1>1. 1 .. 4 = {1, 2, 3, 4} /\ 1 .. 3 = {1, 2, 3}
  OBVIOUS
<1>2. /\ Opening[1] = "es" /\ Opening[2] = "mongo" /\ Opening[3] = "prometheus"
      /\ Opening[4] = "session"
      /\ Closing[1] = "close_es" /\ Closing[2] = "close_mongo" /\ Closing[3] = "close_session"
  BY DEF Opening, Closing
<1>3. QED
  BY <1>1, <1>2 DEF Starting, Ending

(* The states of a worker, with the steps of the start and the end listed.   *)
LEMMA WorkerType ==
  Worker = [pc : {"off"} \cup Up \cup Starting \cup Ending,
            made : SUBSET {"es", "mongo", "prometheus"}, open : SUBSET All, hurt : BOOLEAN]
BY Positions DEF Worker, Up, All

LEMMA OpenedState ==
  ASSUME NEW a \in Worker, Progressed(a), a.pc \in Starting
  PROVE  Opened(a) \in Worker /\ Progressed(Opened(a)) /\ Opened(a).pc # "off"
BY WorkerType DEF Opened, Progressed, Starting, Up, Ending, All

LEMMA ClosedState ==
  ASSUME NEW a \in Worker, Progressed(a), a.pc \in Ending
  PROVE  Closed(a) \in Worker /\ Progressed(Closed(a))
BY WorkerType DEF Closed, Progressed, Starting, Up, Ending, All

(* A worker changes alone. *)
LEMMA BecomeState ==
  ASSUME Bounded, NEW w \in Workers, NEW state \in Worker, Become(w, state)
  PROVE  /\ app' \in [Workers -> Worker] /\ app'[w] = state
         /\ \A v \in Workers : v # w => app'[v] = app[v]
BY DEF Bounded, Become

LEMMA LifeInit == Init => LifeInv
<1> SUFFICES ASSUME Init PROVE LifeInv
  OBVIOUS
<1>1. Off \in Worker /\ Progressed(Off)
  BY WorkerType DEF Off, Progressed, Up, Starting, Ending
<1>2. Bounded /\ \A w \in Workers : Progressed(app[w])
  BY <1>1, LifespanAssumption DEF Init, Bounded
<1>3. QED
  BY <1>2, TypeInit DEF Init, LifeInv

(* A step that takes one worker to a state it may have.                      *)
LEMMA LifeWorker ==
  ASSUME LifeInv, TypeInv', NEW w \in Workers, NEW state \in Worker, Become(w, state),
         Progressed(state), faults' \in 0 .. MaxFaults
  PROVE  LifeInv'
<1>1. /\ app' \in [Workers -> Worker] /\ app'[w] = state
      /\ \A v \in Workers : v # w => app'[v] = app[v]
  BY BecomeState DEF LifeInv
<1>2. QED
  BY <1>1 DEF LifeInv, Bounded, Progressed

(* A step of the accounts only. *)
LEMMA LifeAccounts ==
  ASSUME LifeInv, TypeInv', UNCHANGED app, faults' \in 0 .. MaxFaults
  PROVE  LifeInv'
BY DEF LifeInv, Bounded, Progressed

LEMMA LifeStep == LifeInv /\ [Next]_vars => LifeInv'
<1> SUFFICES ASSUME LifeInv, [Next]_vars PROVE LifeInv'
  OBVIOUS
<1>1. TypeInv /\ Bounded /\ \A w \in Workers : Progressed(app[w])
  BY DEF LifeInv
<1>2. TypeInv'
  BY <1>1, StepSimulates, TypeStep
<1>3. faults \in 0 .. MaxFaults /\ (Fault => faults' \in 0 .. MaxFaults)
  BY <1>1, LifespanAssumption DEF Bounded, Fault
<1>4. CASE UNCHANGED vars
  BY <1>1, <1>2, <1>4 DEF vars, LifeInv, Bounded, Progressed
<1>5. ASSUME NEW w \in Workers PROVE app[w] \in Worker /\ Progressed(app[w])
  BY <1>1 DEF Bounded
<1>6. ASSUME NEW w \in Workers, Start(w) PROVE LifeInv'
  <2> DEFINE state == [Off EXCEPT !.pc = "es"]
  <2>1. state \in Worker /\ Progressed(state)
    BY <1>6, WorkerType DEF Start, Off, On, Progressed, Up, Starting, Ending
  <2>2. QED
    BY <1>2, <1>3, <1>6, <2>1, LifeWorker DEF Start
<1>7. ASSUME NEW w \in Workers, Open(w) PROVE LifeInv'
  <2>1. app[w].pc \in Starting
    BY <1>7, Positions DEF Open
  <2>2. Opened(app[w]) \in Worker /\ Progressed(Opened(app[w]))
    BY <1>5, <2>1, OpenedState DEF On, Starting
  <2>3. QED
    BY <1>2, <1>3, <1>7, <2>2, LifeWorker DEF Open
<1>8. ASSUME NEW w \in Workers, OpenFails(w) PROVE LifeInv'
  <2>1. app[w].pc \in Starting /\ faults' \in 0 .. MaxFaults
    BY <1>3, <1>8, Positions DEF OpenFails
  <2>2. EndsBy(app[w]) \in Worker /\ Progressed(EndsBy(app[w]))
    BY <1>5, <2>1, WorkerType DEF EndsBy, Progressed, On, Starting, Up, Ending
  <2>3. QED
    BY <1>2, <1>8, <2>1, <2>2, LifeWorker DEF OpenFails
<1>9. ASSUME NEW w \in Workers, Ready(w) PROVE LifeInv'
  <2> DEFINE state == [app[w] EXCEPT !.pc = "serving"]
  <2>1. state \in Worker /\ Progressed(state)
    BY <1>5, <1>9, WorkerType DEF Ready, Progressed, On, Starting, Up, Ending
  <2>2. QED
    BY <1>2, <1>3, <1>9, <2>1, LifeWorker DEF Ready
<1>10. ASSUME NEW w \in Workers, Stop(w) PROVE LifeInv'
  <2>1. EndsBy(app[w]) \in Worker /\ Progressed(EndsBy(app[w]))
    BY <1>5, <1>10, WorkerType DEF Stop, EndsBy, Progressed, On, Starting, Up, Ending
  <2>2. QED
    BY <1>2, <1>3, <1>10, <2>1, LifeWorker DEF Stop
<1>11. ASSUME NEW w \in Workers, Close(w) PROVE LifeInv'
  <2>1. app[w].pc \in Ending
    BY <1>11, Positions DEF Close
  <2>2. Closed(app[w]) \in Worker /\ Progressed(Closed(app[w]))
    BY <1>5, <2>1, ClosedState DEF On, Ending
  <2>3. QED
    BY <1>2, <1>3, <1>11, <2>2, LifeWorker DEF Close
<1>12. ASSUME NEW w \in Workers, CloseFails(w) PROVE LifeInv'
  <2> DEFINE state == [app[w] EXCEPT !.pc = "off", !.hurt = TRUE]
  <2>1. app[w].pc \in Ending /\ faults' \in 0 .. MaxFaults
    BY <1>3, <1>12, Positions DEF CloseFails
  <2>2. state \in Worker /\ Progressed(state)
    BY <1>5, <2>1, WorkerType DEF Progressed, On, Starting, Up, Ending
  <2>3. QED
    BY <1>2, <1>12, <2>1, <2>2, LifeWorker DEF CloseFails
<1>13. ASSUME NEW w \in Workers, DefaultAccount(w) PROVE LifeInv'
  <2>1. faults' \in 0 .. MaxFaults
    BY <1>3, <1>13 DEF DefaultAccount
  <2>2. CASE UNCHANGED app
    BY <1>2, <2>1, <2>2, LifeAccounts
  <2>3. CASE On(w, "admin") /\ Become(w, [app[w] EXCEPT !.pc = "created"])
    <3>1. [app[w] EXCEPT !.pc = "created"] \in Worker /\ Progressed([app[w] EXCEPT !.pc = "created"])
      BY <1>5, <2>3, WorkerType DEF Progressed, On, Starting, Up, Ending
    <3>2. QED
      BY <1>2, <2>1, <2>3, <3>1, LifeWorker
  <2>4. QED
    BY <1>13, <2>2, <2>3 DEF DefaultAccount
<1>14. ASSUME NEW w \in Workers, Crash(w) PROVE LifeInv'
  <2>1. Off \in Worker /\ Progressed(Off)
    BY WorkerType DEF Off, Progressed, Up, Starting, Ending
  <2>2. QED
    BY <1>2, <1>3, <1>14, <2>1, LifeWorker DEF Crash
<1>15. CASE \/ \E r \in Requests : Handle(r)
            \/ \E id \in Ids : LogsIn(id) \/ Expires(id)
            \/ \E s \in Starters \ Workers : Script(s)
  <2>1. UNCHANGED <<app, faults>>
    BY <1>15 DEF Handle, LogsIn, Expires, Script
  <2>2. QED
    BY <1>2, <1>3, <2>1, LifeAccounts
<1>16. ASSUME NEW r \in Callers, MongoFails(r) PROVE LifeInv'
  BY <1>2, <1>3, <1>16, LifeAccounts DEF MongoFails
<1>17. QED
  BY <1>4, <1>6, <1>7, <1>8, <1>9, <1>10, <1>11, <1>12, <1>13, <1>14, <1>15, <1>16 DEF Next

LEMMA LifeAlways == Spec => []LifeInv
BY LifeInit, LifeStep, PTL DEF Spec

(* Workers, accounts and the count of failures are always well typed. *)
THEOREM LifespanTypeCorrect == Spec => []LifespanTypeOK
<1>1. LifeInv => LifespanTypeOK
  BY DEF LifeInv, Bounded, LifespanTypeOK, TypeInv
<1>2. QED
  BY <1>1, LifeAlways, PTL

(* Whatever step of a start fails, closings that succeed leave nothing open. *)
THEOREM NothingLeftOpen == Spec => []AllClosed
<1>1. LifeInv => AllClosed
  BY DEF LifeInv, AllClosed, Progressed, On
<1>2. QED
  BY <1>1, LifeAlways, PTL
=============================================================================
