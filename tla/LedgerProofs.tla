---------------------------- MODULE LedgerProofs ----------------------------
(***************************************************************************)
(* Theorems about Ledger for every set of nodes and requests, every finite *)
(* set of tunnels, every schedule and every bound.                         *)
(***************************************************************************)
EXTENDS Ledger, Induction

(* Heartbeats are credited for time that has passed: the clock of the last *)
(* one is not in the future.                                               *)
PrevPast == \A t \in Tunnels : prev[t] # Absent => prev[t] <= now

(* A task that stores a node runs for a tunnel that has a Session. *)
TasksOwned == \A task \in opening : owner[task[1]] # Absent

Typed == TypeOK /\ PrevPast /\ TasksOwned

LEMMA AbsentIsNoNumber == Absent \notin Nat
BY LedgerAssumption

(* A beat of a tunnel that has one under way. *)
LEMMA BeatTypes ==
  ASSUME TypeOK, NEW t \in Tunnels, beat[t] # Absent
  PROVE  beat[t] \in Beat
BY DEF TypeOK

(* What a write of the open rows leaves in the table are rows. *)
LEMMA RowUpdates ==
  ASSUME TypeOK, NEW i \in 1 .. Len(sessions), NEW d \in Nat
  PROVE  /\ [sessions EXCEPT ![i].open = FALSE] \in Seq(SessionRow)
         /\ [sessions EXCEPT ![i].awake = @ + d] \in Seq(SessionRow)
<1>1. sessions \in Seq(SessionRow) /\ sessions[i] \in SessionRow
  BY DEF TypeOK
<1>2. [sessions[i] EXCEPT !.open = FALSE] \in SessionRow
  BY <1>1 DEF SessionRow
<1>3. [sessions[i] EXCEPT !.awake = @ + d] \in SessionRow
  <2>1. sessions[i].awake + d \in Nat
    BY <1>1 DEF SessionRow
  <2>2. \A a \in Nat : [sessions[i] EXCEPT !.awake = a] \in SessionRow
    BY <1>1 DEF SessionRow
  <2> QED BY <2>1, <2>2
<1> QED BY <1>1, <1>2, <1>3

LEMMA SessionWrites ==
  ASSUME TypeOK, NEW n, NEW d \in Nat, NEW s \in Nat
  PROVE  /\ open_session(n, s) => sessions' \in Seq(SessionRow)
         /\ close_session(n) => sessions' \in Seq(SessionRow)
         /\ touch_session_awake(n, d) => sessions' \in Seq(SessionRow)
<1>1. NewestOpen(n) \subseteq 1 .. Len(sessions)
  BY DEF NewestOpen
<1>2. sessions \in Seq(SessionRow) /\ now \in Nat
  BY DEF TypeOK
<1>3. ASSUME open_session(n, s) PROVE sessions' \in Seq(SessionRow)
  <2>1. [node |-> n, at |-> s, open |-> TRUE, awake |-> 0] \in SessionRow
    BY <1>2, <1>3 DEF SessionRow, open_session, TypeOK
  <2> QED BY <1>2, <1>3, <2>1 DEF open_session
<1>4. ASSUME close_session(n) PROVE sessions' \in Seq(SessionRow)
  <2>1. CASE NewestOpen(n) = {}
    BY <1>2, <1>4, <2>1 DEF close_session
  <2>2. CASE NewestOpen(n) # {}
    <3>1. PICK i \in NewestOpen(n) : sessions' = [sessions EXCEPT ![i].open = FALSE]
      BY <1>4, <2>2 DEF close_session
    <3> QED BY <1>1, <3>1, RowUpdates
  <2> QED BY <2>1, <2>2
<1>5. ASSUME touch_session_awake(n, d) PROVE sessions' \in Seq(SessionRow)
  <2>1. CASE NewestOpen(n) = {}
    BY <1>2, <1>5, <2>1 DEF touch_session_awake
  <2>2. CASE NewestOpen(n) # {}
    <3>1. PICK i \in NewestOpen(n) : sessions' = [sessions EXCEPT ![i].awake = @ + d]
      BY <1>5, <2>2 DEF touch_session_awake
    <3> QED BY <1>1, <3>1, RowUpdates
  <2> QED BY <2>1, <2>2
<1> QED BY <1>3, <1>4, <1>5

(* The statements of credit_points keep the tables typed. *)
PointTypes ==
  /\ ledger \in [Nodes -> [Kinds -> Nat]] /\ balance \in [Nodes -> Nat]
  /\ txn \in Credit \cup {Absent}

LEMMA CreditStatements ==
  ASSUME TypeOK, NEW id \in Tunnels \cup Requests, NEW n, NEW k \in Kinds,
         NEW p \in Nat, InsertEntry(id, n, k, p) \/ CommitCredit(id) \/ CreditFails(id)
  PROVE  PointTypes'
<1>1. PointTypes /\ known \subseteq Nodes
  BY DEF TypeOK, PointTypes
<1>2. CASE InsertEntry(id, n, k, p)
  BY <1>1, <1>2 DEF InsertEntry, PointTypes, Credit
<1>3. CASE CommitCredit(id)
  <2>1. txn \in Credit /\ txn.node \in Nodes /\ txn.kind \in Kinds /\ txn.points \in Nat
    BY <1>1, <1>3 DEF PointTypes, CommitCredit, Credit
  <2>2. ledger[txn.node] \in [Kinds -> Nat]
    BY <1>1, <2>1 DEF PointTypes
  <2>3. [ledger[txn.node] EXCEPT ![txn.kind] = @ + txn.points] \in [Kinds -> Nat]
    BY <2>1, <2>2
  <2>4. ledger' \in [Nodes -> [Kinds -> Nat]]
    BY <1>1, <1>3, <2>1, <2>3 DEF PointTypes, CommitCredit
  <2>5. balance' \in [Nodes -> Nat]
    BY <1>1, <1>3, <2>1 DEF PointTypes, CommitCredit
  <2> QED BY <1>3, <2>4, <2>5 DEF PointTypes, CommitCredit
<1>4. CASE CreditFails(id)
  BY <1>1, <1>4 DEF CreditFails, PointTypes
<1> QED BY <1>2, <1>3, <1>4

LEMMA InitTyped == Init => Typed
BY LedgerAssumption DEF Init, Typed, TypeOK, PrevPast, TasksOwned, Kinds

LEMMA ReaderTyped ==
  ASSUME Typed, NEW t \in Tunnels,
         HandleRegister(t) \/ HandleHeartbeat(t) \/ TouchSession(t) \/ CreditCapacity(t)
           \/ EndTunnel(t) \/ CloseSession(t)
  PROVE  Typed'
<1> USE DEF tunnelVars, postVars, pointVars
<1>0. TypeOK /\ PrevPast /\ TasksOwned
  BY DEF Typed
<1>1. CASE HandleRegister(t)
  <2>1. PICK n \in Nodes, x \in Rates :
          owner' = [owner EXCEPT ![t] = n] /\ rate' = [rate EXCEPT ![t] = x]
    BY <1>1 DEF HandleRegister
  <2>2. rate' \in [Tunnels -> Nat] /\ owner' \in [Tunnels -> Nodes \cup {Absent}]
    BY <1>0, <2>1, LedgerAssumption DEF TypeOK
  <2>3. opening' = opening \cup {<<t, registers[t], Absent>>}
    BY <1>1 DEF HandleRegister
  <2>4. opening' \subseteq Tunnels \X Nat \X (Nat \cup {Absent})
    BY <1>0, <2>3 DEF TypeOK
  <2>5. registers' \in [Tunnels -> Nat] /\ prev' \in [Tunnels -> Nat \cup {Absent}]
    BY <1>0, <1>1 DEF HandleRegister, TypeOK
  <2>6. PrevPast'
    BY <1>0, <1>1 DEF HandleRegister, PrevPast, TypeOK
  <2>7. TasksOwned'
    BY <1>0, <2>1, <2>3, LedgerAssumption DEF TasksOwned, TypeOK
  <2>8. TypeOK'
    BY <1>0, <1>1, <2>2, <2>4, <2>5 DEF HandleRegister, TypeOK
  <2> QED BY <2>6, <2>7, <2>8 DEF Typed
<1>2. CASE HandleHeartbeat(t)
  <2>1. now \in Nat /\ rate[t] \in Nat
    BY <1>0 DEF TypeOK
  <2> DEFINE delta == IF prev[t] = Absent THEN 0 ELSE now - prev[t]
  <2>2. delta \in Nat
    BY <1>0, <2>1 DEF TypeOK, PrevPast
  <2>3. beat' \in [Tunnels -> Beat \cup {Absent}]
    BY <1>0, <1>2, <2>2 DEF HandleHeartbeat, TypeOK, Beat
  <2>4. prev' \in [Tunnels -> Nat \cup {Absent}] /\ PrevPast'
    BY <1>0, <1>2, <2>1 DEF HandleHeartbeat, PrevHeartbeat, TypeOK, PrevPast
  <2>5. TypeOK' /\ TasksOwned'
    BY <1>0, <1>2, <2>3, <2>4 DEF HandleHeartbeat, TypeOK, TasksOwned
  <2> QED BY <2>4, <2>5 DEF Typed
<1>3. CASE TouchSession(t)
  <2>1. beat[t] \in Beat /\ beat[t].delta \in Nat
    BY <1>0, <1>3, BeatTypes DEF TouchSession, Beat
  <2>2. [beat[t] EXCEPT !.at = "credit"] \in Beat
    BY <2>1 DEF Beat
  <2>3. beat' \in [Tunnels -> Beat \cup {Absent}]
    BY <1>0, <1>3, <2>2 DEF TouchSession, TypeOK
  <2>4. sessions' \in Seq(SessionRow)
    <3>1. CASE UNCHANGED sessions
      BY <1>0, <3>1 DEF TypeOK
    <3>2. CASE touch_session_awake(owner[t], beat[t].delta)
      BY <1>0, <2>1, <3>2, SessionWrites
    <3> QED BY <1>3, <3>1, <3>2 DEF TouchSession
  <2> QED BY <1>0, <1>3, <2>3, <2>4 DEF TouchSession, Typed, TypeOK, PrevPast, TasksOwned
<1>4. CASE CreditCapacity(t)
  <2>1. beat[t] \in Beat /\ beat[t].delta \in Nat /\ rate[t] \in Nat
    BY <1>0, <1>4, BeatTypes DEF CreditCapacity, Beat, TypeOK
  <2>2. beat[t].delta * rate[t] \in Nat
    BY <2>1
  <2>3. PointTypes'
    BY <1>0, <1>4, <2>2, CreditStatements DEF CreditCapacity, Kinds
  <2>4. beat' \in [Tunnels -> Beat \cup {Absent}]
    BY <1>0, <1>4 DEF CreditCapacity, TypeOK
  <2> QED BY <1>0, <1>4, <2>3, <2>4 DEF CreditCapacity, PointTypes, Typed, TypeOK, PrevPast, TasksOwned
<1>5. CASE EndTunnel(t)
  BY <1>0, <1>5 DEF EndTunnel, Typed, TypeOK, PrevPast, TasksOwned
<1>6. CASE CloseSession(t)
  <2>1. sessions' \in Seq(SessionRow)
    <3>1. CASE UNCHANGED sessions
      BY <1>0, <3>1 DEF TypeOK
    <3>2. CASE close_session(owner[t])
      BY <1>0, <3>2, SessionWrites
    <3> QED BY <1>6, <3>1, <3>2 DEF CloseSession
  <2> QED BY <1>0, <1>6, <2>1 DEF CloseSession, Typed, TypeOK, PrevPast, TasksOwned
<1> QED BY <1>1, <1>2, <1>3, <1>4, <1>5, <1>6

LEMMA OpeningTyped ==
  ASSUME Typed, OpeningStep
  PROVE  Typed'
<1> USE DEF tunnelVars, postVars, pointVars
<1>0. TypeOK /\ PrevPast /\ TasksOwned
  BY DEF Typed
<1>1. PICK task \in opening : StoreNode(task) \/ OpenSession(task)
  BY DEF OpeningStep
<1>2. task \in Tunnels \X Nat \X (Nat \cup {Absent}) /\ owner[task[1]] \in Nodes
  BY <1>0 DEF TypeOK, TasksOwned
<1>3. opening' \subseteq Tunnels \X Nat \X (Nat \cup {Absent})
  BY <1>0, <1>1, <1>2 DEF TypeOK, StoreNode, OpenSession
<1>4. UNCHANGED owner
  BY DEF OpeningStep
<1>5. TasksOwned'
  BY <1>0, <1>1, <1>2, <1>4 DEF TasksOwned, StoreNode, OpenSession
<1>6. known' \subseteq Nodes /\ sessions' \in Seq(SessionRow)
  <2>1. CASE StoreNode(task)
    BY <1>0, <1>2, <2>1 DEF StoreNode, TypeOK
  <2>2. CASE OpenSession(task)
    <3>1. task[3] \in Nat
      BY <1>2, <2>2 DEF OpenSession
    <3>2. open_session(owner[task[1]], task[3]) => sessions' \in Seq(SessionRow)
      BY <1>0, <3>1, SessionWrites
    <3> QED BY <1>0, <2>2, <3>2 DEF OpenSession, TypeOK
  <2> QED BY <1>1, <2>1, <2>2
<1> QED BY <1>0, <1>3, <1>5, <1>6 DEF OpeningStep, Typed, TypeOK, PrevPast

LEMMA RequestTyped ==
  ASSUME Typed, NEW r \in Requests,
         Dispatch(r) \/ HandleDone(r) \/ CompleteRequest(r) \/ RecordDelivery(r)
           \/ CreditDelivery(r)
  PROVE  Typed'
<1> USE DEF tunnelVars, postVars, pointVars
<1>0. TypeOK /\ PrevPast /\ TasksOwned
  BY DEF Typed
<1>1. CASE Dispatch(r)
  <2>1. PICK t \in Tunnels : Reading(t) /\ pending' = [pending EXCEPT ![r] = owner[t]]
    BY <1>1 DEF Dispatch
  <2>2. pending' \in [Requests -> Nodes \cup {Absent}]
    BY <1>0, <2>1 DEF TypeOK
  <2>3. asked' \in [Requests -> BOOLEAN]
    BY <1>0, <1>1 DEF Dispatch, TypeOK
  <2> QED BY <1>0, <1>1, <2>2, <2>3 DEF Dispatch, Typed, TypeOK, PrevPast, TasksOwned
<1>2. CASE HandleDone(r)
  <2>1. /\ post' \in [Requests -> {Absent, "record", "credit"}]
        /\ poster' \in [Requests -> Nodes \cup {Absent}]
    BY <1>0, <1>2 DEF HandleDone, TypeOK
  <2> QED BY <1>0, <1>2, <2>1 DEF HandleDone, Typed, TypeOK, PrevPast, TasksOwned
<1>3. CASE CompleteRequest(r)
  BY <1>0, <1>3 DEF CompleteRequest, Typed, TypeOK, PrevPast, TasksOwned
<1>4. CASE RecordDelivery(r)
  <2>1. post' \in [Requests -> {Absent, "record", "credit"}]
    BY <1>0, <1>4 DEF RecordDelivery, TypeOK
  <2>2. deliveries' \in [Requests -> Nat]
    BY <1>0, <1>4 DEF RecordDelivery, TypeOK
  <2> QED BY <1>0, <1>4, <2>1, <2>2 DEF RecordDelivery, Typed, TypeOK, PrevPast, TasksOwned
<1>5. CASE CreditDelivery(r)
  <2>1. PointTypes'
    BY <1>0, <1>5, CreditStatements, LedgerAssumption DEF CreditDelivery, Kinds
  <2>2. post' \in [Requests -> {Absent, "record", "credit"}]
    BY <1>0, <1>5 DEF CreditDelivery, TypeOK
  <2> QED BY <1>0, <1>5, <2>1, <2>2 DEF CreditDelivery, PointTypes, Typed, TypeOK, PrevPast, TasksOwned
<1> QED BY <1>1, <1>2, <1>3, <1>4, <1>5

LEMMA EnvironmentTyped ==
  ASSUME Typed, Tick \/ Crash \/ UNCHANGED vars
  PROVE  Typed'
<1> USE DEF tunnelVars, postVars, pointVars
<1>0. TypeOK /\ PrevPast /\ TasksOwned
  BY DEF Typed
<1>1. CASE Tick
  <2>1. now' \in Nat /\ now <= now' /\ now \in Nat
    BY <1>0, <1>1 DEF Tick, TypeOK
  <2>2. PrevPast'
    <3> SUFFICES ASSUME NEW t \in Tunnels, prev'[t] # Absent PROVE prev'[t] <= now'
      BY DEF PrevPast
    <3>1. prev'[t] = prev[t] /\ prev[t] \in Nat /\ prev[t] <= now
      BY <1>0, <1>1 DEF Tick, TypeOK, PrevPast
    <3> QED BY <2>1, <3>1
  <2>3. lasted' \in [Tunnels -> Nat]
    BY <1>0, <1>1 DEF Tick, TypeOK
  <2> QED BY <1>0, <1>1, <2>1, <2>2, <2>3 DEF Tick, Typed, TypeOK, TasksOwned
<1>2. CASE Crash
  BY <1>0, <1>2 DEF Crash, Typed, TypeOK, PrevPast, TasksOwned
<1>3. CASE UNCHANGED vars
  BY <1>0, <1>3 DEF vars, Typed, TypeOK, PrevPast, TasksOwned
<1> QED BY <1>1, <1>2, <1>3

LEMMA StepTyped == Typed /\ [Next]_vars => Typed'
BY ReaderTyped, OpeningTyped, RequestTyped, EnvironmentTyped DEF Next

(* Every reachable state is well typed; in particular no interval credited *)
(* by HandleHeartbeat is negative.                                         *)
THEOREM TypeCorrect == Spec => []TypeOK
<1>1. Spec => []Typed
  BY InitTyped, StepTyped, PTL DEF Spec
<1>2. Typed => TypeOK
  BY DEF Typed
<1> QED BY <1>1, <1>2, PTL

(* Only the commit of a transaction changes ledger or balance, and it      *)
(* changes both by the same points (db.rs:190-228).                        *)
LEMMA PointsMoveTogether ==
  ASSUME TypeOK, BalanceIsLedgerSum, NEW id, CommitCredit(id)
  PROVE  BalanceIsLedgerSum'
<1>1. txn \in Credit /\ txn.node \in Nodes /\ txn.kind \in Kinds /\ txn.points \in Nat
  BY DEF TypeOK, CommitCredit, Credit
<1>2. \A n \in Nodes : ledger[n] \in [Kinds -> Nat] /\ balance[n] \in Nat
  BY DEF TypeOK
<1> SUFFICES ASSUME NEW n \in Nodes
             PROVE  balance'[n] = ledger'[n]["capacity"] + ledger'[n]["delivery"]
  BY DEF BalanceIsLedgerSum
<1>3. CASE n # txn.node
  BY <1>1, <1>3 DEF CommitCredit, BalanceIsLedgerSum, TypeOK
<1>4. CASE n = txn.node
  <2>1. balance'[n] = balance[n] + txn.points
    BY <1>1, <1>4 DEF CommitCredit, TypeOK
  <2>2. ledger'[n] = [ledger[n] EXCEPT ![txn.kind] = ledger[n][txn.kind] + txn.points]
    BY <1>1, <1>4 DEF CommitCredit, TypeOK
  <2>3. balance[n] = ledger[n]["capacity"] + ledger[n]["delivery"]
    BY DEF BalanceIsLedgerSum
  <2>4. ledger[n]["capacity"] \in Nat /\ ledger[n]["delivery"] \in Nat
    BY <1>2 DEF Kinds
  <2>5. CASE txn.kind = "capacity"
    <3>1. /\ ledger'[n]["capacity"] = ledger[n]["capacity"] + txn.points
          /\ ledger'[n]["delivery"] = ledger[n]["delivery"]
      BY <1>2, <2>2, <2>5 DEF Kinds
    <3> QED BY <1>1, <2>1, <2>3, <2>4, <3>1
  <2>6. CASE txn.kind = "delivery"
    <3>1. /\ ledger'[n]["delivery"] = ledger[n]["delivery"] + txn.points
          /\ ledger'[n]["capacity"] = ledger[n]["capacity"]
      BY <1>2, <2>2, <2>6 DEF Kinds
    <3> QED BY <1>1, <2>1, <2>3, <2>4, <3>1
  <2> QED BY <1>1, <2>5, <2>6 DEF Kinds
<1> QED BY <1>3, <1>4

LEMMA StepBalanced ==
  ASSUME TypeOK, BalanceIsLedgerSum, [Next]_vars
  PROVE  BalanceIsLedgerSum'
<1> USE DEF pointVars
<1>1. CASE UNCHANGED <<ledger, balance>>
  BY <1>1 DEF BalanceIsLedgerSum
<1>2. CASE \E id \in Tunnels \cup Requests : CommitCredit(id)
  BY <1>2, PointsMoveTogether
<1>3. UNCHANGED <<ledger, balance>> \/ \E id \in Tunnels \cup Requests : CommitCredit(id)
  <2>1. ASSUME NEW t \in Tunnels, CreditCapacity(t)
        PROVE  UNCHANGED <<ledger, balance>> \/ CommitCredit(t)
    BY <2>1 DEF CreditCapacity, InsertEntry, CreditFails
  <2>2. ASSUME NEW r \in Requests, CreditDelivery(r)
        PROVE  UNCHANGED <<ledger, balance>> \/ CommitCredit(r)
    BY <2>2 DEF CreditDelivery, InsertEntry, CreditFails
  <2>3. ASSUME NEW t \in Tunnels,
               HandleRegister(t) \/ HandleHeartbeat(t) \/ TouchSession(t) \/ EndTunnel(t)
                 \/ CloseSession(t)
        PROVE  UNCHANGED <<ledger, balance>>
    BY <2>3 DEF HandleRegister, HandleHeartbeat, TouchSession, EndTunnel, CloseSession
  <2>4. ASSUME NEW r \in Requests,
               Dispatch(r) \/ HandleDone(r) \/ CompleteRequest(r) \/ RecordDelivery(r)
        PROVE  UNCHANGED <<ledger, balance>>
    BY <2>4 DEF Dispatch, HandleDone, CompleteRequest, RecordDelivery
  <2>5. OpeningStep \/ Tick \/ Crash \/ UNCHANGED vars => UNCHANGED <<ledger, balance>>
    BY DEF OpeningStep, Tick, Crash, vars
  <2> QED BY <2>1, <2>2, <2>3, <2>4, <2>5 DEF Next
<1> QED BY <1>1, <1>2, <1>3

(* A balance is the sum of its ledger entries in every reachable state,    *)
(* whatever statements fail and whenever the process restarts.             *)
THEOREM BalancesAreLedgerSums == Spec => []BalanceIsLedgerSum
<1>1. Init => BalanceIsLedgerSum
  BY DEF Init, BalanceIsLedgerSum, Kinds
<1>2. TypeOK /\ BalanceIsLedgerSum /\ [Next]_vars => BalanceIsLedgerSum'
  BY StepBalanced
<1> QED BY <1>1, <1>2, TypeCorrect, PTL DEF Spec

(* A row that is closed is not written again: every UPDATE chooses among the *)
(* open rows of a node, and an INSERT adds one (db.rs:96-180).              *)
THEOREM ClosedRowsStay == Spec => ClosedRowsAreFinal
<1> DEFINE Good == \A i \in 1 .. Len(sessions) : sessions[i].open \/ sessions'[i] = sessions[i]
<1>1. TypeOK /\ [Next]_vars => [Good]_vars
  <2> SUFFICES ASSUME TypeOK, Next, NEW i \in 1 .. Len(sessions), ~sessions[i].open
               PROVE  sessions'[i] = sessions[i]
    BY DEF vars
  <2>0. sessions \in Seq(SessionRow)
    BY DEF TypeOK
  <2>1. \A n : i \notin NewestOpen(n)
    BY DEF NewestOpen
  <2>2. \A n, s : open_session(n, s) => sessions'[i] = sessions[i]
    BY <2>0 DEF open_session
  <2>3. ASSUME NEW n, close_session(n) PROVE sessions'[i] = sessions[i]
    BY <2>0, <2>1, <2>3 DEF close_session
  <2>4. ASSUME NEW n, NEW d, touch_session_awake(n, d) PROVE sessions'[i] = sessions[i]
    BY <2>0, <2>1, <2>4 DEF touch_session_awake
  <2>5. \/ UNCHANGED sessions
        \/ \E n, s : open_session(n, s)
        \/ \E n : close_session(n)
        \/ \E n, d : touch_session_awake(n, d)
    BY DEF Next, HandleRegister, HandleHeartbeat, TouchSession, CreditCapacity, EndTunnel,
           CloseSession, OpeningStep, StoreNode, OpenSession, Dispatch, HandleDone,
           CompleteRequest, RecordDelivery, CreditDelivery, Tick, Crash
  <2> QED BY <2>2, <2>3, <2>4, <2>5
<1>2. ClosedRowsAreFinal <=> [][Good]_vars
  BY DEF ClosedRowsAreFinal
<1> QED BY <1>1, <1>2, TypeCorrect, PTL DEF Spec

-----------------------------------------------------------------------------
(* What is earned.                                                         *)

MaxRate == Max(Rates)

(* How much of a tunnel's time its heartbeats have covered: up to the last   *)
(* one while it lives and has sent one, all of it otherwise.                *)
Until(t) == IF Live(t) /\ prev[t] # Absent THEN lasted[t] - (now - prev[t]) ELSE lasted[t]

(* Points, and awake time, of a heartbeat that are still to be written. *)
Owed(t) == IF beat[t] = Absent THEN 0 ELSE beat[t].delta * rate[t]
Untouched(t) == IF beat[t] # Absent /\ beat[t].at = "touch" THEN beat[t].delta ELSE 0

(* What may have been written for a tunnel so far. *)
CreditRoom == [t \in Tunnels |-> MaxRate * Until(t) - Owed(t)]
AwakeRoom == [t \in Tunnels |-> Until(t) - Untouched(t)]

Of(n) == {t \in Tunnels : owner[t] = n}
Rows(n) == {i \in 1 .. Len(sessions) : sessions[i].node = n}
AwakeOf == [i \in 1 .. Len(sessions) |-> sessions[i].awake]

(* A tunnel has lasted for as long as it has been since its last heartbeat, *)
(* and a heartbeat under way covers no more than the time until then.       *)
Clocked == \A t \in Tunnels :
  /\ rate[t] \in Rates \cup {0}
  /\ Live(t) /\ prev[t] # Absent => now - prev[t] <= lasted[t]
  /\ beat[t] # Absent => Live(t) /\ prev[t] # Absent /\ beat[t].delta <= Until(t)

(* An open transaction for capacity is the one of a heartbeat under way.    *)
TxnOwned == txn # Absent /\ txn.kind = "capacity" =>
  /\ txn.by \in Tunnels /\ beat[txn.by] # Absent /\ beat[txn.by].at = "credit"
  /\ txn.node = owner[txn.by] /\ txn.points = beat[txn.by].delta * rate[txn.by]

Earned == \A n \in Nodes :
  /\ ledger[n]["capacity"] <= Total(CreditRoom, Of(n))
  /\ Total(AwakeOf, Rows(n)) <= Total(AwakeRoom, Of(n))

(* Every rate a Register may bring is at most MaxRate. *)
LEMMA MaxRateIsMax == MaxRate \in Nat /\ \A x \in Rates \cup {0} : x \in Nat /\ x <= MaxRate
<1>1. \E m \in Rates : \A y \in Rates : m >= y
  BY LedgerAssumption, GreatestOf
<1>2. MaxRate \in Rates /\ \A y \in Rates : MaxRate >= y
  BY <1>1 DEF MaxRate, Max
<1> QED BY <1>2, LedgerAssumption

(* Products of natural numbers are ordered as their factors are. *)
LEMMA ProductBound ==
  ASSUME NEW a \in Nat, NEW b \in Nat, NEW c \in Nat, NEW d \in Nat, a <= c, b <= d
  PROVE  a * b \in Nat /\ d * c \in Nat /\ a * b <= d * c /\ d * a <= d * c
<1>1. a * b <= c * b
  OBVIOUS
<1>2. c * b <= c * d
  OBVIOUS
<1>3. d * a <= d * c
  OBVIOUS
<1>4. a * b \in Nat /\ c * b \in Nat /\ c * d \in Nat /\ c * d = d * c
  OBVIOUS
<1> QED BY <1>1, <1>2, <1>3, <1>4

(* There is room for what a heartbeat under way is owed. *)
LEMMA RoomTypes ==
  ASSUME Typed, Clocked, NEW t \in Tunnels
  PROVE  /\ Until(t) \in Nat /\ Until(t) <= lasted[t] /\ lasted[t] \in Nat
         /\ Owed(t) \in Nat /\ Owed(t) <= MaxRate * Until(t) /\ MaxRate * Until(t) \in Nat
         /\ Untouched(t) \in Nat /\ Untouched(t) <= Until(t)
         /\ CreditRoom[t] = MaxRate * Until(t) - Owed(t) /\ CreditRoom[t] \in Nat
         /\ AwakeRoom[t] = Until(t) - Untouched(t) /\ AwakeRoom[t] \in Nat
<1>1. lasted[t] \in Nat /\ now \in Nat /\ rate[t] \in Nat /\ prev[t] \in Nat \cup {Absent}
  BY DEF Typed, TypeOK
<1>2. Until(t) \in Nat /\ Until(t) <= lasted[t]
  BY <1>1 DEF Until, Clocked, Typed, PrevPast
<1>3. beat[t] # Absent => beat[t].delta \in Nat /\ beat[t].delta <= Until(t)
  BY BeatTypes DEF Typed, Clocked, Beat
<1>4. rate[t] <= MaxRate /\ MaxRate \in Nat
  BY MaxRateIsMax DEF Clocked
<1>5. MaxRate * Until(t) \in Nat /\ Owed(t) \in Nat /\ Owed(t) <= MaxRate * Until(t)
  <2>1. CASE beat[t] = Absent
    <3>1. 0 * 0 \in Nat /\ MaxRate * Until(t) \in Nat
      BY <1>2, <1>4, ProductBound
    <3> QED BY <2>1, <3>1 DEF Owed
  <2>2. CASE beat[t] # Absent
    BY <1>1, <1>2, <1>3, <1>4, <2>2, ProductBound DEF Owed
  <2> QED BY <2>1, <2>2
<1>6. Untouched(t) \in Nat /\ Untouched(t) <= Until(t)
  BY <1>2, <1>3 DEF Untouched
<1>7. CreditRoom[t] = MaxRate * Until(t) - Owed(t) /\ AwakeRoom[t] = Until(t) - Untouched(t)
  BY DEF CreditRoom, AwakeRoom
<1> QED BY <1>1, <1>2, <1>5, <1>6, <1>7

(* Nothing is earned, and no time has passed, at the start. *)
LEMMA InitEarned == Init => Clocked /\ TxnOwned /\ Earned
<1> SUFFICES ASSUME Init PROVE Clocked /\ TxnOwned /\ Earned
  OBVIOUS
<1>1. Clocked /\ TxnOwned
  BY DEF Init, Clocked, TxnOwned, Live
<1>2. ASSUME NEW n \in Nodes
      PROVE  ledger[n]["capacity"] = 0 /\ Of(n) = {} /\ Rows(n) = {}
  BY <1>2, LedgerAssumption DEF Init, Of, Rows, Kinds
<1>3. Total(CreditRoom, {}) = 0 /\ Total(AwakeOf, {}) = 0 /\ Total(AwakeRoom, {}) = 0
  BY TotalEmpty
<1> QED BY <1>1, <1>2, <1>3 DEF Earned

(* What the room of a tunnel depends on. *)
clockVars == <<now, owner, ended, lasted, prev, rate, beat>>

(* A step leaves a tunnel's room as it is or larger: time passes, or what is *)
(* owed is settled; or a heartbeat covers time d, and owes no more than that. *)
Waits(x) == Until(x) <= Until(x)' /\ Owed(x)' <= Owed(x) /\ Untouched(x)' <= Untouched(x)

Beats(x, d) ==
  /\ Until(x)' = Until(x) + d /\ Owed(x) = 0 /\ Untouched(x) = 0
  /\ Owed(x)' <= MaxRate * d /\ Untouched(x)' <= d

(* Clocked, of one tunnel. *)
ClockOf(x) ==
  /\ rate[x] \in Rates \cup {0}
  /\ Live(x) /\ prev[x] # Absent => now - prev[x] <= lasted[x]
  /\ beat[x] # Absent => Live(x) /\ prev[x] # Absent /\ beat[x].delta <= Until(x)

(* What every step keeps of a tunnel. *)
RoomGrows(x) == ClockOf(x)' /\ (Waits(x) \/ \E d \in Nat : Beats(x, d))

(* What the reader of a tunnel may rely on about its clock. *)
LEMMA ClockFacts ==
  ASSUME Typed, Clocked, NEW x \in Tunnels
  PROVE  /\ ClockOf(x)
         /\ now \in Nat /\ lasted[x] \in Nat /\ rate[x] \in Nat /\ prev[x] \in Nat \cup {Absent}
         /\ (prev[x] # Absent => prev[x] <= now)
         /\ (beat[x] # Absent => beat[x] \in Beat /\ beat[x].delta \in Nat)
         /\ Until(x) \in Nat /\ Owed(x) \in Nat /\ Untouched(x) \in Nat
         /\ Until(x) <= lasted[x] /\ (~Live(x) \/ prev[x] = Absent => Until(x) = lasted[x])
         /\ (beat[x] = Absent => Owed(x) = 0 /\ Untouched(x) = 0)
<1>1. ClockOf(x)
  BY DEF Clocked, ClockOf
<1>2. now \in Nat /\ lasted[x] \in Nat /\ rate[x] \in Nat /\ prev[x] \in Nat \cup {Absent}
  BY DEF Typed, TypeOK
<1>3. prev[x] # Absent => prev[x] <= now
  BY DEF Typed, PrevPast
<1>4. beat[x] # Absent => beat[x] \in Beat /\ beat[x].delta \in Nat
  BY BeatTypes DEF Typed, Beat
<1>5. (~Live(x) \/ prev[x] = Absent => Until(x) = lasted[x]) /\ (beat[x] = Absent => Owed(x) = 0 /\ Untouched(x) = 0)
  BY DEF Until, Owed, Untouched
<1> QED BY <1>1, <1>2, <1>3, <1>4, <1>5, RoomTypes

(* A step that touches no clock leaves every room as it is. *)
LEMMA ClockStays ==
  ASSUME Typed, Clocked, UNCHANGED clockVars, NEW x \in Tunnels
  PROVE  RoomGrows(x)
<1>1. ClockOf(x) /\ Until(x) \in Nat /\ Owed(x) \in Nat /\ Untouched(x) \in Nat
  BY ClockFacts
<1>2. ClockOf(x)' /\ Until(x)' = Until(x) /\ Owed(x)' = Owed(x) /\ Untouched(x)' = Untouched(x)
  BY <1>1 DEF clockVars, ClockOf, Until, Owed, Untouched, Live
<1> QED BY <1>1, <1>2 DEF RoomGrows, Waits

(* A tunnel without a heartbeat under way whose clock restarts, or stops. *)
LEMMA ClockIdle ==
  ASSUME Typed, Clocked, Typed', NEW x \in Tunnels,
         beat'[x] = Absent, prev'[x] = Absent, rate'[x] \in Rates \cup {0}, lasted'[x] = lasted[x]
  PROVE  RoomGrows(x)
<1>1. Until(x)' = lasted[x] /\ Owed(x)' = 0 /\ Untouched(x)' = 0 /\ ClockOf(x)'
  BY DEF Until, Owed, Untouched, ClockOf
<1>2. /\ Until(x) <= lasted[x] /\ Until(x) \in Nat /\ lasted[x] \in Nat
      /\ Owed(x) \in Nat /\ Untouched(x) \in Nat
  BY ClockFacts
<1> QED BY <1>1, <1>2 DEF RoomGrows, Waits

(* The steps of a reader: a Register restarts the interval, a heartbeat
   closes one and opens the next, the two statements settle what it owes. *)
LEMMA ReaderClock ==
  ASSUME Typed, Clocked, Typed', NEW t \in Tunnels, NEW x \in Tunnels,
         HandleRegister(t) \/ HandleHeartbeat(t) \/ TouchSession(t) \/ CreditCapacity(t)
           \/ EndTunnel(t) \/ CloseSession(t)
  PROVE  RoomGrows(x)
<1>0. CASE UNCHANGED clockVars
  BY <1>0, ClockStays
<1>1. ASSUME x # t, UNCHANGED <<now, lasted>>, owner'[x] = owner[x], ended'[x] = ended[x],
             prev'[x] = prev[x], rate'[x] = rate[x], beat'[x] = beat[x]
      PROVE  RoomGrows(x)
  <2>1. ClockOf(x) /\ Until(x) \in Nat /\ Owed(x) \in Nat /\ Untouched(x) \in Nat
    BY ClockFacts
  <2>2. ClockOf(x)' /\ Until(x)' = Until(x) /\ Owed(x)' = Owed(x) /\ Untouched(x)' = Untouched(x)
    BY <1>1, <2>1 DEF ClockOf, Until, Owed, Untouched, Live
  <2> QED BY <2>1, <2>2 DEF RoomGrows, Waits
<1>2. CASE x # t
  <2>1. /\ owner \in [Tunnels -> Nodes \cup {Absent}] /\ ended \in [Tunnels -> BOOLEAN]
        /\ prev \in [Tunnels -> Nat \cup {Absent}] /\ rate \in [Tunnels -> Nat]
        /\ beat \in [Tunnels -> Beat \cup {Absent}]
    BY DEF Typed, TypeOK
  <2>2. /\ UNCHANGED <<now, lasted>> /\ owner'[x] = owner[x] /\ ended'[x] = ended[x]
        /\ prev'[x] = prev[x] /\ rate'[x] = rate[x] /\ beat'[x] = beat[x]
    BY <1>2, <2>1 DEF HandleRegister, HandleHeartbeat, TouchSession, CreditCapacity, EndTunnel, CloseSession
  <2> QED BY <1>1, <1>2, <2>2
<1>3. CASE x = t /\ HandleRegister(t)
  <2>1. beat[t] = Absent
    <3>1. Live(t) \/ beat[t] = Absent
      BY ClockFacts DEF ClockOf
    <3> QED BY <1>3, <3>1 DEF HandleRegister, Reading, Live
  <2>2. PICK n \in Nodes, y \in Rates : rate' = [rate EXCEPT ![t] = y]
    BY <1>3 DEF HandleRegister
  <2>3. rate'[t] = y /\ prev'[t] = Absent /\ beat'[t] = Absent /\ lasted' = lasted
    BY <1>3, <2>1, <2>2 DEF HandleRegister, Typed, TypeOK
  <2> QED BY <1>3, <2>3, ClockIdle
<1>4. CASE x = t /\ EndTunnel(t)
  <2>1. prev'[t] = Absent /\ beat'[t] = Absent /\ lasted' = lasted /\ rate' = rate
    BY <1>4 DEF EndTunnel, Reading, Typed, TypeOK
  <2>2. rate'[t] \in Rates \cup {0}
    BY <2>1 DEF Clocked
  <2> QED BY <1>4, <2>1, <2>2, ClockIdle
<1>5. CASE x = t /\ HandleHeartbeat(t)
  <2>1. Live(t) /\ beat[t] = Absent /\ UNCHANGED <<now, owner, ended, lasted, rate>>
    BY <1>5 DEF HandleHeartbeat, Reading
  <2> DEFINE delta == IF prev[t] = Absent THEN 0 ELSE now - prev[t]
  <2>2. /\ ClockOf(t) /\ now \in Nat /\ lasted[t] \in Nat /\ rate[t] \in Nat
        /\ prev[t] \in Nat \cup {Absent} /\ (prev[t] # Absent => prev[t] <= now)
        /\ Owed(t) = 0 /\ Untouched(t) = 0
    BY <2>1, ClockFacts
  <2>3. delta \in Nat /\ delta <= lasted[t] /\ Until(t) = lasted[t] - delta
    BY <2>1, <2>2 DEF Until, ClockOf
  <2>4. Live(t)' /\ prev'[t] = now /\ now' = now /\ now # Absent /\ lasted' = lasted
    BY <1>5, <2>1, <2>2, LedgerAssumption DEF Live, HandleHeartbeat, PrevHeartbeat, Typed, TypeOK
  <2>5. Until(t)' = lasted[t]
    BY <2>2, <2>4 DEF Until
  <2>6. \/ beat'[t] = Absent
        \/ beat'[t] = [delta |-> delta, at |-> "touch"]
    BY <1>5, <2>1 DEF HandleHeartbeat, Typed, TypeOK
  <2>7. rate'[t] = rate[t] /\ rate[t] \in Rates \cup {0} /\ rate[t] <= MaxRate /\ MaxRate \in Nat
    BY <2>1, MaxRateIsMax DEF Clocked
  <2>8. delta * rate[t] <= MaxRate * delta /\ MaxRate * delta \in Nat
    BY <2>2, <2>3, <2>7, ProductBound
  <2> HIDE DEF delta
  <2>9. Owed(t)' <= MaxRate * delta /\ Untouched(t)' <= delta
    BY <2>3, <2>6, <2>7, <2>8 DEF Owed, Untouched
  <2>10. ClockOf(t)'
    BY <2>2, <2>3, <2>4, <2>5, <2>6, <2>7 DEF ClockOf
  <2>11. Beats(t, delta)
    BY <2>2, <2>3, <2>5, <2>9 DEF Beats
  <2> QED BY <1>5, <2>3, <2>10, <2>11 DEF RoomGrows
<1>6. CASE x = t /\ TouchSession(t)
  <2>1. /\ UNCHANGED <<now, owner, ended, lasted, prev, rate>>
        /\ beat[t] # Absent /\ beat' = [beat EXCEPT ![t].at = "credit"]
    BY <1>6 DEF TouchSession
  <2>2. /\ ClockOf(t) /\ beat[t] \in Beat /\ Until(t) \in Nat /\ Owed(t) \in Nat /\ Untouched(t) \in Nat
    BY <2>1, ClockFacts
  <2>3. beat'[t].delta = beat[t].delta /\ beat'[t].at = "credit"
    <3>1. beat \in [Tunnels -> Beat \cup {Absent}] /\ beat' \in [Tunnels -> Beat \cup {Absent}]
      BY DEF Typed, TypeOK
    <3>2. beat'[t] = [beat[t] EXCEPT !.at = "credit"]
      BY <2>1, <3>1
    <3>3. [beat[t] EXCEPT !.at = "credit"] = [delta |-> beat[t].delta, at |-> "credit"]
      BY <2>2 DEF Beat
    <3> QED BY <3>2, <3>3
  <2>4. Until(t)' = Until(t) /\ Owed(t)' \in {Owed(t), 0} /\ Untouched(t)' = 0 /\ ClockOf(t)'
    BY <2>1, <2>2, <2>3 DEF Until, Owed, Untouched, ClockOf, Live
  <2> QED BY <1>6, <2>2, <2>4 DEF RoomGrows, Waits
<1>7. CASE x = t /\ CreditCapacity(t)
  <2>1. CASE UNCHANGED beat
    BY <1>0, <1>7, <2>1 DEF CreditCapacity, clockVars
  <2>2. CASE beat' = [beat EXCEPT ![t] = Absent]
    <3>1. beat'[t] = Absent /\ UNCHANGED <<now, owner, ended, lasted, prev, rate>>
      BY <1>7, <2>2 DEF CreditCapacity, Typed, TypeOK
    <3>2. ClockOf(t) /\ Until(t) \in Nat /\ Owed(t) \in Nat /\ Untouched(t) \in Nat
      BY ClockFacts
    <3>3. Until(t)' = Until(t) /\ Owed(t)' = 0 /\ Untouched(t)' = 0 /\ ClockOf(t)'
      BY <3>1, <3>2 DEF Until, Owed, Untouched, ClockOf, Live
    <3> QED BY <1>7, <3>2, <3>3 DEF RoomGrows, Waits
  <2> QED BY <1>7, <2>1, <2>2 DEF CreditCapacity
<1>8. CASE CloseSession(t)
  BY <1>0, <1>8 DEF CloseSession, clockVars
<1> QED BY <1>2, <1>3, <1>4, <1>5, <1>6, <1>7, <1>8

(* Time passes for the tunnels that live; a restart of the process ends them. *)
LEMMA EnvironmentClock ==
  ASSUME Typed, Clocked, Typed', NEW x \in Tunnels, Tick \/ Crash
  PROVE  RoomGrows(x)
<1>1. CASE Tick
  <2>1. UNCHANGED <<owner, ended, prev, rate, beat>> /\ now' = now + 1
    BY <1>1 DEF Tick
  <2>2. lasted'[x] = IF Live(x) THEN lasted[x] + 1 ELSE lasted[x]
    BY <1>1 DEF Tick
  <2>3. /\ ClockOf(x) /\ now \in Nat /\ lasted[x] \in Nat /\ prev[x] \in Nat \cup {Absent}
        /\ Until(x) \in Nat /\ Owed(x) \in Nat /\ Untouched(x) \in Nat
        /\ (prev[x] # Absent => prev[x] <= now)
    BY ClockFacts
  <2>4. Live(x)' = Live(x) /\ prev'[x] = prev[x]
    BY <2>1 DEF Live
  <2>5. Until(x) <= Until(x)' /\ (Live(x) /\ prev[x] # Absent => Until(x)' = Until(x))
    BY <2>1, <2>2, <2>3, <2>4 DEF Until
  <2>6. Owed(x)' = Owed(x) /\ Untouched(x)' = Untouched(x)
    BY <2>1 DEF Owed, Untouched
  <2>7. ClockOf(x)'
    BY <2>1, <2>2, <2>3, <2>4, <2>5 DEF ClockOf
  <2> QED BY <2>3, <2>5, <2>6, <2>7 DEF RoomGrows, Waits
<1>2. CASE Crash
  <2>1. beat'[x] = Absent /\ prev'[x] = Absent /\ lasted' = lasted /\ rate' = rate
    BY <1>2 DEF Crash
  <2>2. rate'[x] \in Rates \cup {0}
    BY <2>1 DEF Clocked
  <2> QED BY <2>1, <2>2, ClockIdle
<1> QED BY <1>1, <1>2

(* Every step keeps the clocks in order, and no room shrinks. *)
LEMMA ClockStep ==
  ASSUME Typed, Clocked, Typed', [Next]_vars
  PROVE  Clocked' /\ \A x \in Tunnels : RoomGrows(x)
<1>1. ASSUME NEW x \in Tunnels PROVE RoomGrows(x)
  <2>1. CASE \E t \in Tunnels :
               \/ HandleRegister(t) \/ HandleHeartbeat(t) \/ TouchSession(t) \/ CreditCapacity(t)
               \/ EndTunnel(t) \/ CloseSession(t)
    BY <2>1, ReaderClock
  <2>2. CASE Tick \/ Crash
    BY <2>2, EnvironmentClock
  <2>3. CASE \/ OpeningStep \/ UNCHANGED vars
             \/ \E r \in Requests :
                  \/ Dispatch(r) \/ HandleDone(r) \/ CompleteRequest(r)
                  \/ RecordDelivery(r) \/ CreditDelivery(r)
    <3>1. UNCHANGED clockVars
      BY <2>3 DEF clockVars, OpeningStep, vars, tunnelVars, Dispatch, HandleDone, CompleteRequest,
                  RecordDelivery, CreditDelivery
    <3> QED BY <3>1, ClockStays
  <2> QED BY <2>1, <2>2, <2>3 DEF Next
<1>2. Clocked' <=> \A x \in Tunnels : ClockOf(x)'
  BY DEF Clocked, ClockOf
<1> QED BY <1>1, <1>2 DEF RoomGrows

Rooms == \A t \in Tunnels :
  /\ Until(t) \in Nat /\ Owed(t) \in Nat /\ MaxRate * Until(t) \in Nat /\ Untouched(t) \in Nat
  /\ CreditRoom[t] = MaxRate * Until(t) - Owed(t) /\ CreditRoom[t] \in Nat
  /\ AwakeRoom[t] = Until(t) - Untouched(t) /\ AwakeRoom[t] \in Nat

(* There is room for what is owed, in every state. *)
LEMMA RoomsHold == Typed /\ Clocked => Rooms
BY RoomTypes DEF Rooms

(* What may have been written for a tunnel only grows. *)
LEMMA RoomKept ==
  ASSUME Typed, Clocked, Typed', Clocked', NEW x \in Tunnels, RoomGrows(x)
  PROVE  CreditRoom[x] <= CreditRoom'[x] /\ AwakeRoom[x] <= AwakeRoom'[x]
<1>1. /\ Until(x) \in Nat /\ Owed(x) \in Nat /\ MaxRate * Until(x) \in Nat /\ Untouched(x) \in Nat
      /\ CreditRoom[x] = MaxRate * Until(x) - Owed(x)
      /\ AwakeRoom[x] = Until(x) - Untouched(x)
  BY RoomTypes
<1>0. Rooms'
  BY RoomsHold, PTL
<1>2. /\ Until(x)' \in Nat /\ Owed(x)' \in Nat /\ MaxRate * Until(x)' \in Nat /\ Untouched(x)' \in Nat
      /\ CreditRoom'[x] = MaxRate * Until(x)' - Owed(x)'
      /\ AwakeRoom'[x] = Until(x)' - Untouched(x)'
  BY <1>0 DEF Rooms
<1>3. CASE Waits(x)
  <2>1. MaxRate * Until(x) <= MaxRate * Until(x)'
    <3>1. MaxRate \in Nat /\ Until(x) <= Until(x)'
      BY <1>3, MaxRateIsMax DEF Waits
    <3> QED BY <1>1, <1>2, <3>1, ProductBound
  <2> QED BY <1>1, <1>2, <1>3, <2>1 DEF Waits
<1>4. ASSUME NEW d \in Nat, Beats(x, d) PROVE CreditRoom[x] <= CreditRoom'[x] /\ AwakeRoom[x] <= AwakeRoom'[x]
  <2>1. MaxRate * Until(x)' = MaxRate * Until(x) + MaxRate * d /\ MaxRate * d \in Nat
    <3>1. MaxRate \in Nat /\ Until(x)' = Until(x) + d
      BY <1>4, MaxRateIsMax DEF Beats
    <3>2. MaxRate * (Until(x) + d) = MaxRate * Until(x) + MaxRate * d
      BY <1>1, <3>1
    <3> QED BY <3>1, <3>2
  <2> QED BY <1>1, <1>2, <1>4, <2>1 DEF Beats
<1> QED BY <1>3, <1>4 DEF RoomGrows

(* A transaction for capacity stays the one of a heartbeat under way. *)
LEMMA TxnStep ==
  ASSUME Typed, Clocked, TxnOwned, [Next]_vars
  PROVE  TxnOwned'
<1>0. /\ owner \in [Tunnels -> Nodes \cup {Absent}] /\ rate \in [Tunnels -> Nat]
      /\ beat \in [Tunnels -> Beat \cup {Absent}]
  BY DEF Typed, TypeOK
<1>1. ASSUME UNCHANGED txn, \A t \in Tunnels : beat[t] # Absent /\ beat[t].at = "credit" =>
               owner'[t] = owner[t] /\ beat'[t] = beat[t] /\ rate'[t] = rate[t]
      PROVE  TxnOwned'
  BY <1>1 DEF TxnOwned
<1>2. ASSUME NEW t \in Tunnels,
             HandleRegister(t) \/ HandleHeartbeat(t) \/ TouchSession(t) \/ EndTunnel(t) \/ CloseSession(t)
      PROVE  TxnOwned'
  <2>1. UNCHANGED txn
    BY <1>2 DEF HandleRegister, HandleHeartbeat, TouchSession, EndTunnel, CloseSession, pointVars
  <2>2. beat[t] # Absent => Live(t)
    BY DEF Clocked
  <2>3. ASSUME NEW x \in Tunnels, beat[x] # Absent, beat[x].at = "credit"
        PROVE  owner'[x] = owner[x] /\ beat'[x] = beat[x] /\ rate'[x] = rate[x]
    BY <1>0, <1>2, <2>2, <2>3 DEF HandleRegister, HandleHeartbeat, TouchSession, EndTunnel,
       CloseSession, Reading, Live
  <2> QED BY <1>1, <2>1, <2>3
<1>3. ASSUME NEW t \in Tunnels, CreditCapacity(t) PROVE TxnOwned'
  <2>0. UNCHANGED <<owner, rate>> /\ beat[t] # Absent /\ beat[t].at = "credit"
    BY <1>3 DEF CreditCapacity
  <2>1. CASE InsertEntry(t, owner[t], "capacity", beat[t].delta * rate[t]) /\ UNCHANGED beat
    <3>1. txn' = [by |-> t, node |-> owner[t], kind |-> "capacity", points |-> beat[t].delta * rate[t]]
      BY <2>1 DEF InsertEntry
    <3> QED BY <2>0, <2>1, <3>1 DEF TxnOwned
  <2>2. CASE CommitCredit(t)
    BY <2>2 DEF CommitCredit, TxnOwned
  <2>3. CASE CreditFails(t) /\ beat' = [beat EXCEPT ![t] = Absent]
    <3>1. (txn' = txn /\ txn.by # t) \/ txn' = Absent
      BY <2>3 DEF CreditFails
    <3>2. txn' # Absent /\ txn'.kind = "capacity" => txn'.by # t /\ beat'[txn'.by] = beat[txn'.by]
      BY <1>0, <2>3, <3>1 DEF TxnOwned
    <3> QED BY <2>0, <3>1, <3>2 DEF TxnOwned
  <2> QED BY <1>3, <2>1, <2>2, <2>3 DEF CreditCapacity
<1>4. ASSUME NEW r \in Requests, CreditDelivery(r) PROVE TxnOwned'
  <2>1. CASE InsertEntry(r, poster[r], "delivery", DeliveryPoints)
    <3>1. txn'.kind = "delivery"
      BY <2>1 DEF InsertEntry
    <3> QED BY <3>1 DEF TxnOwned
  <2>2. CASE CommitCredit(r)
    BY <2>2 DEF CommitCredit, TxnOwned
  <2>3. CASE CreditFails(r)
    <3>1. txn' = txn \/ txn' = Absent
      BY <2>3 DEF CreditFails
    <3> QED BY <1>4, <3>1 DEF TxnOwned, CreditDelivery, tunnelVars
  <2> QED BY <1>4, <2>1, <2>2, <2>3 DEF CreditDelivery
<1>5. CASE Crash
  BY <1>5 DEF Crash, TxnOwned
<1>6. CASE \/ OpeningStep \/ UNCHANGED vars \/ Tick
           \/ \E r \in Requests :
                Dispatch(r) \/ HandleDone(r) \/ CompleteRequest(r) \/ RecordDelivery(r)
  <2>1. UNCHANGED <<txn, owner, beat, rate>>
    BY <1>6 DEF vars, tunnelVars, pointVars, OpeningStep, Tick, Dispatch, HandleDone,
                CompleteRequest, RecordDelivery
  <2> QED BY <2>1 DEF TxnOwned
<1> QED BY <1>2, <1>3, <1>4, <1>5, <1>6 DEF Next

(* The tunnels and the rows of a node are finitely many. *)
LEMMA FiniteParts ==
  ASSUME Typed, NEW n
  PROVE  /\ IsFiniteSet(Of(n)) /\ IsFiniteSet(Rows(n))
         /\ Len(sessions) \in Nat /\ \A i \in 1 .. Len(sessions) : AwakeOf[i] = sessions[i].awake /\ AwakeOf[i] \in Nat
<1>1. sessions \in Seq(SessionRow) /\ Len(sessions) \in Nat
  BY DEF Typed, TypeOK
<1>2. IsFiniteSet(1 .. Len(sessions))
  BY <1>1, FS_Interval
<1>3. IsFiniteSet(Rows(n))
  BY <1>2, FS_Subset DEF Rows
<1>4. IsFiniteSet(Of(n))
  BY FS_Subset, LedgerAssumption DEF Of
<1>5. \A i \in 1 .. Len(sessions) : sessions[i] \in SessionRow
  BY <1>1
<1> QED BY <1>1, <1>3, <1>4, <1>5 DEF AwakeOf, SessionRow

(* A tunnel stays with its node. *)
LEMMA OwnersStay ==
  ASSUME Typed, [Next]_vars, NEW n \in Nodes
  PROVE  Of(n) \subseteq Of(n)'
<1>1. owner \in [Tunnels -> Nodes \cup {Absent}] /\ n # Absent
  BY LedgerAssumption DEF Typed, TypeOK
<1>2. \/ UNCHANGED owner
      \/ \E t \in Tunnels : HandleRegister(t)
  BY DEF Next, vars, tunnelVars, HandleHeartbeat, TouchSession, CreditCapacity, EndTunnel, CloseSession,
     OpeningStep, Dispatch, HandleDone, CompleteRequest, RecordDelivery, CreditDelivery, Tick, Crash
<1>3. ASSUME NEW t \in Tunnels, HandleRegister(t), NEW x \in Tunnels, owner[x] = n PROVE owner'[x] = n
  BY <1>1, <1>3 DEF HandleRegister
<1> QED BY <1>2, <1>3 DEF Of

(* What a node has of capacity grows by a heartbeat's points, once. *)
LEMMA CapacityWritten ==
  ASSUME Typed, TxnOwned, [Next]_vars, NEW n \in Nodes
  PROVE  \/ ledger'[n]["capacity"] = ledger[n]["capacity"]
         \/ \E t \in Tunnels :
              /\ CreditCapacity(t) /\ beat' = [beat EXCEPT ![t] = Absent] /\ beat[t] # Absent
              /\ owner[t] = n /\ ledger'[n]["capacity"] = ledger[n]["capacity"] + Owed(t)
<1>0. /\ ledger \in [Nodes -> [Kinds -> Nat]] /\ txn \in Credit \cup {Absent}
      /\ "capacity" \in Kinds
  BY DEF Typed, TypeOK, Kinds
<1>1. ASSUME NEW by, CommitCredit(by), txn.kind # "capacity"
      PROVE  ledger'[n]["capacity"] = ledger[n]["capacity"]
  BY <1>0, <1>1 DEF CommitCredit, Credit
<1>2. ASSUME NEW r \in Requests, CreditDelivery(r) PROVE ledger'[n]["capacity"] = ledger[n]["capacity"]
  <2>1. CASE CommitCredit(r)
    <3>1. txn # Absent /\ txn.by = r /\ r \notin Tunnels
      BY <2>1, LedgerAssumption DEF CommitCredit
    <3>2. txn.kind # "capacity"
      BY <3>1 DEF TxnOwned
    <3> QED BY <1>1, <2>1, <3>2
  <2> QED BY <1>2, <2>1 DEF CreditDelivery, InsertEntry, CreditFails
<1>3. ASSUME NEW t \in Tunnels, CreditCapacity(t), CommitCredit(t)
      PROVE  \/ ledger'[n]["capacity"] = ledger[n]["capacity"]
             \/ /\ beat' = [beat EXCEPT ![t] = Absent] /\ beat[t] # Absent
                /\ owner[t] = n /\ ledger'[n]["capacity"] = ledger[n]["capacity"] + Owed(t)
  <2>1. txn # Absent /\ txn.by = t /\ txn' = Absent
    BY <1>3 DEF CommitCredit
  <2>2. CASE txn.kind # "capacity"
    BY <1>1, <1>3, <2>2
  <2>3. CASE txn.kind = "capacity"
    <3>1. txn.node = owner[t] /\ txn.points = Owed(t) /\ beat[t] # Absent
      BY <2>1, <2>3 DEF TxnOwned, Owed
    <3>2. beat' = [beat EXCEPT ![t] = Absent]
      BY <1>3, <2>1 DEF CreditCapacity, InsertEntry, Writable
    <3>3. txn.node \in Nodes /\ ledger' = [ledger EXCEPT ![txn.node]["capacity"] = @ + txn.points]
      BY <1>0, <1>3, <2>1, <2>3 DEF CommitCredit, Credit
    <3>4. ledger'[n]["capacity"] = IF n = txn.node THEN ledger[n]["capacity"] + txn.points
                                                   ELSE ledger[n]["capacity"]
      BY <1>0, <3>3
    <3> QED BY <3>1, <3>2, <3>4
  <2> QED BY <2>2, <2>3
<1>4. ASSUME NEW t \in Tunnels, CreditCapacity(t), ~CommitCredit(t) PROVE UNCHANGED ledger
  BY <1>4 DEF CreditCapacity, InsertEntry, CreditFails
<1>5. \/ UNCHANGED ledger
      \/ \E t \in Tunnels : CreditCapacity(t)
      \/ \E r \in Requests : CreditDelivery(r)
  BY DEF Next, vars, pointVars, HandleRegister, HandleHeartbeat, TouchSession, EndTunnel, CloseSession,
     OpeningStep, Dispatch, HandleDone, CompleteRequest, RecordDelivery, Tick, Crash
<1> QED BY <1>2, <1>3, <1>4, <1>5

(* The ledger stays within the room: the commit of a heartbeat's points makes
   as much room as it writes. *)
LEMMA CreditEarned ==
  ASSUME Typed, Clocked, TxnOwned, Typed', Clocked', [Next]_vars, NEW n \in Nodes,
         ledger[n]["capacity"] <= Total(CreditRoom, Of(n))
  PROVE  ledger'[n]["capacity"] <= Total(CreditRoom', Of(n)')
<1>1. Of(n) \in SUBSET Of(n)' /\ IsFiniteSet(Of(n)) /\ IsFiniteSet(Of(n)')
  BY OwnersStay, FS_Subset, LedgerAssumption DEF Of
<1>2. Rooms /\ Rooms'
  BY RoomsHold, PTL
<1>3. \A x \in Tunnels : CreditRoom[x] \in Nat /\ CreditRoom[x] <= CreditRoom'[x] /\ CreditRoom'[x] \in Nat
  BY <1>2, ClockStep, RoomKept DEF Rooms
<1>4. (\A x \in Of(n) : x \in Tunnels) /\ (\A x \in Of(n)' : x \in Tunnels)
  BY DEF Of
<1>5. Total(CreditRoom, Of(n)) <= Total(CreditRoom', Of(n)')
  BY <1>1, <1>3, <1>4, TotalExceeds
<1>6. /\ Total(CreditRoom, Of(n)) \in Nat /\ Total(CreditRoom', Of(n)') \in Nat
      /\ ledger[n]["capacity"] \in Nat
  BY <1>1, <1>3, <1>4, TotalSplits DEF Typed, TypeOK, Kinds
<1>7. CASE ledger'[n]["capacity"] = ledger[n]["capacity"]
  BY <1>5, <1>6, <1>7
<1>8. ASSUME NEW t \in Tunnels, CreditCapacity(t), beat' = [beat EXCEPT ![t] = Absent], beat[t] # Absent,
             owner[t] = n, ledger'[n]["capacity"] = ledger[n]["capacity"] + Owed(t)
      PROVE  ledger'[n]["capacity"] <= Total(CreditRoom', Of(n)')
  <2>1. UNCHANGED <<now, owner, ended, lasted, prev, rate>>
    BY <1>8 DEF CreditCapacity
  <2>2. Until(t)' = Until(t) /\ Owed(t)' = 0 /\ Of(n)' = Of(n) /\ t \in Of(n)
    BY <1>8, <2>1 DEF Until, Live, Owed, Of, Typed, TypeOK
  <2>3. /\ CreditRoom'[t] = MaxRate * Until(t)' - Owed(t)' /\ CreditRoom[t] = MaxRate * Until(t) - Owed(t)
        /\ Owed(t) \in Nat /\ MaxRate * Until(t) \in Nat
    BY <1>2 DEF Rooms
  <2>4. CreditRoom[t] + Owed(t) <= CreditRoom'[t]
    BY <2>2, <2>3
  <2>5. Total(CreditRoom, Of(n)) + Owed(t) <= Total(CreditRoom', Of(n))
    BY <1>1, <1>3, <1>4, <2>2, <2>3, <2>4, TotalRaise
  <2> QED BY <1>6, <1>8, <2>2, <2>3, <2>5
<1> QED BY <1>7, <1>8, CapacityWritten

(* A new row has no awake time. *)
LEMMA OpenedSum ==
  ASSUME Typed, Typed', NEW m, NEW s, open_session(m, s), NEW n \in Nodes
  PROVE  Total(AwakeOf', Rows(n)') = Total(AwakeOf, Rows(n))
<1> DEFINE k == Len(sessions) + 1
<1>1. sessions \in Seq(SessionRow) /\ sessions' = Append(sessions, [node |-> m, at |-> s, open |-> TRUE, awake |-> 0])
  BY DEF Typed, TypeOK, open_session
<1>2. /\ Len(sessions') = k /\ Len(sessions) \in Nat /\ sessions'[k].node = m /\ sessions'[k].awake = 0
      /\ \A i \in 1 .. Len(sessions) : sessions'[i] = sessions[i]
  BY <1>1
<1>3. \A i \in Rows(n) : AwakeOf'[i] = AwakeOf[i]
  BY <1>2 DEF Rows, AwakeOf
<1>4. AwakeOf'[k] = 0 /\ k \notin Rows(n)
  BY <1>2 DEF AwakeOf, Rows
<1>5. /\ IsFiniteSet(Rows(n)) /\ IsFiniteSet(Rows(n)') /\ \A i \in Rows(n) : AwakeOf[i] \in Nat
  <2>1. IsFiniteSet(1 .. Len(sessions)) /\ IsFiniteSet(1 .. Len(sessions'))
    BY <1>2, FS_Interval
  <2> QED BY <2>1, FiniteParts, FS_Subset DEF Rows
<1>6. CASE m # n
  <2>1. Rows(n)' = Rows(n)
    BY <1>2, <1>6 DEF Rows
  <2> QED BY <1>3, <1>5, <2>1, TotalCongruent
<1>7. CASE m = n
  <2>1. Rows(n)' = Rows(n) \cup {k}
    BY <1>2, <1>7 DEF Rows
  <2>2. Rows(n)' \ {k} = Rows(n) /\ k \in Rows(n)'
    BY <1>4, <2>1
  <2>3. \A i \in Rows(n)' : AwakeOf'[i] \in Nat
    BY <1>3, <1>4, <1>5, <2>1
  <2>4. Total(AwakeOf', Rows(n)') = AwakeOf'[k] + Total(AwakeOf', Rows(n))
    BY <1>5, <2>2, <2>3, TotalSplits
  <2>5. Total(AwakeOf', Rows(n)) = Total(AwakeOf, Rows(n)) /\ Total(AwakeOf, Rows(n)) \in Nat
    BY <1>3, <1>5, TotalCongruent, TotalSplits
  <2> QED BY <1>4, <2>4, <2>5
<1> QED BY <1>6, <1>7

(* Closing a row changes no awake time. *)
LEMMA ClosedSum ==
  ASSUME Typed, NEW m, close_session(m), NEW n \in Nodes
  PROVE  Total(AwakeOf', Rows(n)') = Total(AwakeOf, Rows(n))
<1>1. sessions \in Seq(SessionRow)
  BY DEF Typed, TypeOK
<1>2. UNCHANGED sessions \/ \E i \in 1 .. Len(sessions) : sessions' = [sessions EXCEPT ![i].open = FALSE]
  BY DEF close_session, NewestOpen
<1>3. /\ Len(sessions') = Len(sessions)
      /\ \A i \in 1 .. Len(sessions) : sessions'[i].node = sessions[i].node /\ sessions'[i].awake = sessions[i].awake
  <2>1. ASSUME NEW i \in 1 .. Len(sessions), sessions' = [sessions EXCEPT ![i].open = FALSE]
        PROVE  /\ Len(sessions') = Len(sessions)
               /\ \A j \in 1 .. Len(sessions) : sessions'[j].node = sessions[j].node /\ sessions'[j].awake = sessions[j].awake
    <3>1. sessions[i] \in SessionRow
      BY <1>1, <2>1
    <3> DEFINE row == [sessions[i] EXCEPT !.open = FALSE]
    <3>2. row.node = sessions[i].node /\ row.awake = sessions[i].awake
      BY <3>1 DEF SessionRow
    <3>3. sessions' = [sessions EXCEPT ![i] = row]
      BY <2>1
    <3> HIDE DEF row
    <3> QED BY <1>1, <3>2, <3>3
  <2> QED BY <1>2, <2>1
<1>4. Rows(n)' = Rows(n) /\ \A i \in Rows(n) : AwakeOf'[i] = AwakeOf[i]
  BY <1>3 DEF Rows, AwakeOf
<1> QED BY <1>4, FiniteParts, TotalCongruent

(* A touch adds its time to one row of its node, or to none. *)
LEMMA TouchedSum ==
  ASSUME Typed, NEW m, NEW d \in Nat, touch_session_awake(m, d), NEW n \in Nodes
  PROVE  \/ Total(AwakeOf', Rows(n)') = Total(AwakeOf, Rows(n))
         \/ m = n /\ Total(AwakeOf', Rows(n)') = Total(AwakeOf, Rows(n)) + d
<1>1. sessions \in Seq(SessionRow)
  BY DEF Typed, TypeOK
<1>2. CASE UNCHANGED sessions
  BY <1>2 DEF AwakeOf, Rows
<1>3. ASSUME NEW i \in NewestOpen(m), sessions' = [sessions EXCEPT ![i].awake = @ + d]
      PROVE  \/ Total(AwakeOf', Rows(n)') = Total(AwakeOf, Rows(n))
             \/ m = n /\ Total(AwakeOf', Rows(n)') = Total(AwakeOf, Rows(n)) + d
  <2>1. i \in 1 .. Len(sessions) /\ sessions[i].node = m
    BY DEF NewestOpen
  <2>2. /\ Len(sessions') = Len(sessions)
        /\ \A j \in 1 .. Len(sessions) :
             /\ sessions'[j].node = sessions[j].node
             /\ sessions'[j].awake = IF j = i THEN sessions[j].awake + d ELSE sessions[j].awake
    BY <1>1, <1>3, <2>1 DEF SessionRow
  <2>3. Rows(n)' = Rows(n)
    BY <2>2 DEF Rows
  <2>4. \A j \in Rows(n) : AwakeOf'[j] = IF j = i THEN AwakeOf[j] + d ELSE AwakeOf[j]
    BY <2>2 DEF Rows, AwakeOf
  <2>5. IsFiniteSet(Rows(n)) /\ \A j \in Rows(n) : AwakeOf[j] \in Nat
    BY FiniteParts DEF Rows
  <2>6. CASE m # n
    <3>1. i \notin Rows(n)
      BY <2>1, <2>6 DEF Rows
    <3> QED BY <2>3, <2>4, <2>5, <3>1, TotalCongruent
  <2>7. CASE m = n
    <3>1. i \in Rows(n)
      BY <2>1, <2>7 DEF Rows
    <3>2. \A j \in Rows(n) : AwakeOf'[j] \in Nat
      BY <2>4, <2>5
    <3>3. Total(AwakeOf', Rows(n)) = AwakeOf'[i] + Total(AwakeOf', Rows(n) \ {i})
      BY <2>5, <3>1, <3>2, TotalSplits
    <3>4. Total(AwakeOf, Rows(n)) = AwakeOf[i] + Total(AwakeOf, Rows(n) \ {i})
      BY <2>5, <3>1, TotalSplits
    <3>5. IsFiniteSet(Rows(n) \ {i}) /\ \A j \in Rows(n) \ {i} : AwakeOf'[j] = AwakeOf[j] /\ AwakeOf[j] \in Nat
      BY <2>4, <2>5, FS_RemoveElement
    <3>6. Total(AwakeOf', Rows(n) \ {i}) = Total(AwakeOf, Rows(n) \ {i}) /\ Total(AwakeOf, Rows(n) \ {i}) \in Nat
      BY <3>5, TotalCongruent, TotalSplits
    <3>7. AwakeOf'[i] = AwakeOf[i] + d /\ AwakeOf[i] \in Nat
      BY <2>4, <2>5, <3>1
    <3> QED BY <2>3, <2>7, <3>3, <3>4, <3>6, <3>7
  <2> QED BY <2>6, <2>7
<1> QED BY <1>2, <1>3 DEF touch_session_awake

(* A node's rows gain awake time by a heartbeat's touch, once. *)
LEMMA AwakeWritten ==
  ASSUME Typed, Typed', [Next]_vars, NEW n \in Nodes
  PROVE  \/ Total(AwakeOf', Rows(n)') = Total(AwakeOf, Rows(n))
         \/ \E t \in Tunnels :
              /\ TouchSession(t) /\ owner[t] = n
              /\ Total(AwakeOf', Rows(n)') = Total(AwakeOf, Rows(n)) + Untouched(t)
<1>1. CASE UNCHANGED sessions
  BY <1>1 DEF AwakeOf, Rows
<1>2. ASSUME NEW t \in Tunnels, TouchSession(t), touch_session_awake(owner[t], beat[t].delta)
      PROVE  \/ Total(AwakeOf', Rows(n)') = Total(AwakeOf, Rows(n))
             \/ /\ owner[t] = n
                /\ Total(AwakeOf', Rows(n)') = Total(AwakeOf, Rows(n)) + Untouched(t)
  <2>1. beat[t].delta \in Nat /\ Untouched(t) = beat[t].delta
    BY <1>2, BeatTypes DEF TouchSession, Untouched, Typed, Beat
  <2> QED BY <1>2, <2>1, TouchedSum
<1>3. \/ UNCHANGED sessions
      \/ \E m, s : open_session(m, s)
      \/ \E m : close_session(m)
      \/ \E t \in Tunnels : TouchSession(t) /\ touch_session_awake(owner[t], beat[t].delta)
  BY DEF Next, vars, HandleRegister, HandleHeartbeat, TouchSession, CreditCapacity, EndTunnel,
         CloseSession, OpeningStep, StoreNode, OpenSession, Dispatch, HandleDone,
         CompleteRequest, RecordDelivery, CreditDelivery, Tick, Crash
<1> QED BY <1>1, <1>2, <1>3, OpenedSum, ClosedSum

(* The rows stay within the room, by the same argument. *)
LEMMA AwakeEarned ==
  ASSUME Typed, Clocked, Typed', Clocked', [Next]_vars, NEW n \in Nodes,
         Total(AwakeOf, Rows(n)) <= Total(AwakeRoom, Of(n))
  PROVE  Total(AwakeOf', Rows(n)') <= Total(AwakeRoom', Of(n)')
<1>1. Of(n) \in SUBSET Of(n)' /\ IsFiniteSet(Of(n)) /\ IsFiniteSet(Of(n)')
  BY OwnersStay, FS_Subset, LedgerAssumption DEF Of
<1>2. Rooms /\ Rooms'
  BY RoomsHold, PTL
<1>3. \A x \in Tunnels : AwakeRoom[x] \in Nat /\ AwakeRoom[x] <= AwakeRoom'[x] /\ AwakeRoom'[x] \in Nat
  BY <1>2, ClockStep, RoomKept DEF Rooms
<1>4. (\A x \in Of(n) : x \in Tunnels) /\ (\A x \in Of(n)' : x \in Tunnels)
  BY DEF Of
<1>5. Total(AwakeRoom, Of(n)) <= Total(AwakeRoom', Of(n)')
  BY <1>1, <1>3, <1>4, TotalExceeds
<1>6. /\ Total(AwakeRoom, Of(n)) \in Nat /\ Total(AwakeRoom', Of(n)') \in Nat
      /\ Total(AwakeOf, Rows(n)) \in Nat
  <2>1. IsFiniteSet(Rows(n)) /\ \A i \in Rows(n) : AwakeOf[i] \in Nat
    BY FiniteParts DEF Rows
  <2> QED BY <1>1, <1>3, <1>4, <2>1, TotalSplits
<1>7. CASE Total(AwakeOf', Rows(n)') = Total(AwakeOf, Rows(n))
  BY <1>5, <1>6, <1>7
<1>8. ASSUME NEW t \in Tunnels, TouchSession(t), owner[t] = n,
             Total(AwakeOf', Rows(n)') = Total(AwakeOf, Rows(n)) + Untouched(t)
      PROVE  Total(AwakeOf', Rows(n)') <= Total(AwakeRoom', Of(n)')
  <2>1. UNCHANGED <<now, owner, ended, lasted, prev, rate>> /\ beat' = [beat EXCEPT ![t].at = "credit"]
    BY <1>8 DEF TouchSession
  <2>2. beat[t] # Absent /\ beat[t] \in Beat /\ beat \in [Tunnels -> Beat \cup {Absent}]
    BY <1>8, BeatTypes DEF TouchSession, Typed, TypeOK
  <2>3. beat'[t].at = "credit"
    <3>1. beat'[t] = [beat[t] EXCEPT !.at = "credit"]
      BY <2>1, <2>2
    <3>2. [beat[t] EXCEPT !.at = "credit"] = [delta |-> beat[t].delta, at |-> "credit"]
      BY <2>2 DEF Beat
    <3> QED BY <3>1, <3>2
  <2>4. Until(t)' = Until(t) /\ Untouched(t)' = 0 /\ Of(n)' = Of(n) /\ t \in Of(n)
    BY <1>8, <2>1, <2>3 DEF Until, Live, Untouched, Of
  <2>5. /\ AwakeRoom'[t] = Until(t)' - Untouched(t)' /\ AwakeRoom[t] = Until(t) - Untouched(t)
        /\ Untouched(t) \in Nat /\ Until(t) \in Nat
    BY <1>2 DEF Rooms
  <2>6. AwakeRoom[t] + Untouched(t) <= AwakeRoom'[t]
    BY <2>4, <2>5
  <2>7. Total(AwakeRoom, Of(n)) + Untouched(t) <= Total(AwakeRoom', Of(n))
    BY <1>1, <1>3, <1>4, <2>4, <2>5, <2>6, TotalRaise
  <2> QED BY <1>6, <1>8, <2>4, <2>5, <2>7
<1> QED BY <1>7, <1>8, AwakeWritten

(* The three invariants together are inductive. *)
LEMMA EarnedStep == Typed /\ Clocked /\ TxnOwned /\ Earned /\ Typed' /\ [Next]_vars => Clocked' /\ TxnOwned' /\ Earned'
<1> SUFFICES ASSUME Typed, Clocked, TxnOwned, Earned, Typed', [Next]_vars
             PROVE  Clocked' /\ TxnOwned' /\ Earned'
  OBVIOUS
<1>1. Clocked' /\ TxnOwned'
  BY ClockStep, TxnStep
<1>2. ASSUME NEW n \in Nodes
      PROVE  /\ ledger'[n]["capacity"] <= Total(CreditRoom', Of(n)')
             /\ Total(AwakeOf', Rows(n)') <= Total(AwakeRoom', Of(n)')
  BY <1>1, CreditEarned, AwakeEarned DEF Earned
<1> QED BY <1>1, <1>2 DEF Earned

(* The sum the module takes with FoldSet is Total. *)
LEMMA SumIsTotal == \A f, S : Sum(f, S) = Total(f, S)
BY DEF Sum, FoldSet, MapThenFoldSet, Total

(* The room is within the time the tunnels lasted. *)
LEMMA EarnedIsWithin == Typed /\ Clocked /\ Earned => EarnedWithinConnection
<1> SUFFICES ASSUME Typed, Clocked, Earned, NEW n \in Nodes
             PROVE  /\ ledger[n]["capacity"] <= Max(Rates) * Connected(n)
                    /\ Sum([i \in 1 .. Len(sessions) |-> sessions[i].awake],
                           {i \in 1 .. Len(sessions) : sessions[i].node = n}) <= Connected(n)
  BY DEF EarnedWithinConnection
<1>1. Connected(n) = Total(lasted, Of(n))
  BY SumIsTotal DEF Connected, Of
<1>2. Sum([i \in 1 .. Len(sessions) |-> sessions[i].awake],
          {i \in 1 .. Len(sessions) : sessions[i].node = n}) = Total(AwakeOf, Rows(n))
  BY SumIsTotal DEF AwakeOf, Rows
<1>3. /\ IsFiniteSet(Of(n)) /\ MaxRate \in Nat
      /\ Total(AwakeOf, Rows(n)) \in Nat /\ ledger[n]["capacity"] \in Nat
  <2>1. IsFiniteSet(Rows(n)) /\ \A i \in Rows(n) : AwakeOf[i] \in Nat
    BY FiniteParts DEF Rows
  <2>2. Total(AwakeOf, Rows(n)) \in Nat
    BY <2>1, TotalSplits
  <2>3. ledger[n]["capacity"] \in Nat
    BY DEF Typed, TypeOK, Kinds
  <2> QED BY <2>2, <2>3, FiniteParts, MaxRateIsMax
<1>4. ASSUME NEW x \in Of(n)
      PROVE  /\ lasted[x] \in Nat /\ CreditRoom[x] \in Nat /\ AwakeRoom[x] \in Nat
             /\ CreditRoom[x] <= MaxRate * lasted[x] /\ AwakeRoom[x] <= lasted[x]
  <2>1. x \in Tunnels
    BY DEF Of
  <2>2. /\ Until(x) \in Nat /\ Until(x) <= lasted[x] /\ lasted[x] \in Nat /\ Owed(x) \in Nat
        /\ Untouched(x) \in Nat
        /\ CreditRoom[x] = MaxRate * Until(x) - Owed(x) /\ CreditRoom[x] \in Nat
        /\ AwakeRoom[x] = Until(x) - Untouched(x) /\ AwakeRoom[x] \in Nat
    BY <2>1, RoomTypes
  <2>3. MaxRate * Until(x) <= MaxRate * lasted[x] /\ MaxRate * Until(x) \in Nat /\ MaxRate * lasted[x] \in Nat
    BY <1>3, <2>2, ProductBound
  <2> QED BY <2>2, <2>3
<1>5. Total(CreditRoom, Of(n)) <= MaxRate * Total(lasted, Of(n))
  BY <1>3, <1>4, TotalBound
<1>6. Total(AwakeRoom, Of(n)) <= Total(lasted, Of(n))
  BY <1>3, <1>4, TotalGrows
<1>7. /\ Total(CreditRoom, Of(n)) \in Nat /\ Total(AwakeRoom, Of(n)) \in Nat
      /\ Total(lasted, Of(n)) \in Nat
  BY <1>3, <1>4, TotalSplits
<1>8. MaxRate * Total(lasted, Of(n)) \in Nat
  BY <1>3, <1>7
<1>9. /\ ledger[n]["capacity"] <= MaxRate * Total(lasted, Of(n))
      /\ Total(AwakeOf, Rows(n)) <= Total(lasted, Of(n))
  BY <1>3, <1>5, <1>6, <1>7, <1>8 DEF Earned
<1> QED BY <1>1, <1>2, <1>9 DEF MaxRate

(* No node is credited more capacity than its tunnels lasted at the best rate,
   and its rows show no more awake time than that: the intervals between the
   heartbeats of a tunnel never overlap, over failed credits, repeated
   Registers and restarts (tunnel.rs:158-195, db.rs:118-180). *)
THEOREM EarningsAreConnected == Spec => []EarnedWithinConnection
<1>1. Init => Typed /\ Clocked /\ TxnOwned /\ Earned
  BY InitTyped, InitEarned
<1>2. Typed /\ Clocked /\ TxnOwned /\ Earned /\ [Next]_vars => (Typed /\ Clocked /\ TxnOwned /\ Earned)'
  BY StepTyped, EarnedStep
<1> QED BY <1>1, <1>2, EarnedIsWithin, PTL DEF Spec
=============================================================================
