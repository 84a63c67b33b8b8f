------------------------------- MODULE Ledger -------------------------------
(***************************************************************************)
(* The Fleet Manager's durable side: what the tunnels' readers write, or   *)
(* spawn tasks to write, into SQLite (tunnel.rs, db.rs, accounting.rs).    *)
(* Registers open session rows, heartbeats credit capacity, Dones credit   *)
(* deliveries, and the end of a tunnel closes a row.  Tasks of different   *)
(* tunnels interleave statement by statement, any statement may fail (the   *)
(* callers log the error or drop it), and the process may stop and restart. *)
(*                                                                         *)
(* Time is the wall clock, in units of a heartbeat's interval, and does not *)
(* step back.  Points are in units of one interval at the lowest rate.  Of *)
(* the points_ledger the totals by node and kind are kept.                 *)
(***************************************************************************)
EXTENDS Integers, Sequences, FiniteSets, FiniteSetsExt

CONSTANTS
  Nodes,           \* node ids
  Tunnels,         \* tunnel connections, each used once
  Requests,        \* chat requests, each dispatched at most once
  Absent,          \* "None", NULL
  AwakeAt,         \* the times at which the owners' schedules are awake
  Rates,           \* capacity points an interval earns (GPU power x VRAM x weight)
  DeliveryPoints,  \* points of a delivered answer
  MaxTime,         \* bound: the clock
  MaxRegisters,    \* bound: Registers sent on one tunnel
  MaxCrashes       \* bound: restarts of the process

ASSUME LedgerAssumption ==
  /\ Absent \notin Nodes \cup Tunnels \cup Requests \cup Nat
  /\ Tunnels \cap Requests = {} /\ IsFiniteSet(Tunnels)
  /\ IsFiniteSet(Rates) /\ Rates \subseteq Nat /\ Rates # {}
  /\ DeliveryPoints \in Nat /\ AwakeAt \subseteq Nat
  /\ MaxTime \in Nat /\ MaxRegisters \in Nat /\ MaxCrashes \in Nat

VARIABLES
  now,          \* the clock
  owner,        \* tunnel: its Session's node id, or Absent
  ended,        \* tunnel: has its reader left, after a Register?
  lasted,       \* tunnel: time from its first Register to its end (history)
  prev, rate,   \* tunnel: its Session's prev_heartbeat_ms and rate
  registers,    \* tunnel: Registers handled
  opening,      \* spawned by Registers: tasks <<tunnel, number, when it called
                \* open_session, or Absent while it stores the node>>
  closing,      \* spawned by ended tunnels: whose row is to be closed
  beat,         \* tunnel: the heartbeat being credited [delta, at], or Absent
  pending,      \* registry: request -> the node it waits for, or Absent
  asked,        \* request: dispatched before?
  post,         \* request: the statement of its spawned posting, or Absent
  poster,       \* request: the node the posting is for
  known,        \* table nodes: the ids in it
  sessions,     \* table sessions
  deliveries,   \* table deliveries: rows of a request
  ledger,       \* table points_ledger: totals by node and kind
  balance,      \* table node_balances (no row: 0)
  txn,          \* the open transaction of credit_points, or Absent
  crashes       \* restarts so far

tunnelVars == <<owner, ended, lasted, prev, rate, registers, opening, closing, beat>>
postVars   == <<pending, asked, post, poster>>
pointVars  == <<ledger, balance, txn>>
vars == <<now, tunnelVars, postVars, pointVars, known, sessions, deliveries, crashes>>

Kinds == {"capacity", "delivery"}

SessionRow == [node: Nodes, at: Nat, open: BOOLEAN, awake: Nat]

Beat == [delta: Nat, at: {"touch", "credit"}]

Credit == [by: Tunnels \cup Requests, node: Nodes, kind: Kinds, points: Nat]

TypeOK ==
  /\ now \in Nat
  /\ owner \in [Tunnels -> Nodes \cup {Absent}]
  /\ ended \in [Tunnels -> BOOLEAN] /\ lasted \in [Tunnels -> Nat]
  /\ prev \in [Tunnels -> Nat \cup {Absent}] /\ rate \in [Tunnels -> Nat]
  /\ registers \in [Tunnels -> Nat]
  /\ opening \subseteq Tunnels \X Nat \X (Nat \cup {Absent})
  /\ closing \subseteq Tunnels
  /\ beat \in [Tunnels -> Beat \cup {Absent}]
  /\ pending \in [Requests -> Nodes \cup {Absent}] /\ asked \in [Requests -> BOOLEAN]
  /\ post \in [Requests -> {Absent, "record", "credit"}]
  /\ poster \in [Requests -> Nodes \cup {Absent}]
  /\ known \subseteq Nodes
  /\ sessions \in Seq(SessionRow)
  /\ deliveries \in [Requests -> Nat]
  /\ ledger \in [Nodes -> [Kinds -> Nat]] /\ balance \in [Nodes -> Nat]
  /\ txn \in Credit \cup {Absent}
  /\ crashes \in Nat

Init ==
  /\ now = 0
  /\ owner = [t \in Tunnels |-> Absent]
  /\ ended = [t \in Tunnels |-> FALSE]
  /\ lasted = [t \in Tunnels |-> 0]
  /\ prev = [t \in Tunnels |-> Absent]
  /\ rate = [t \in Tunnels |-> 0]
  /\ registers = [t \in Tunnels |-> 0]
  /\ opening = {} /\ closing = {}
  /\ beat = [t \in Tunnels |-> Absent]
  /\ pending = [r \in Requests |-> Absent]
  /\ asked = [r \in Requests |-> FALSE]
  /\ post = [r \in Requests |-> Absent]
  /\ poster = [r \in Requests |-> Absent]
  /\ known = {} /\ sessions = <<>>
  /\ deliveries = [r \in Requests |-> 0]
  /\ ledger = [n \in Nodes |-> [k \in Kinds |-> 0]]
  /\ balance = [n \in Nodes |-> 0]
  /\ txn = Absent
  /\ crashes = 0

-----------------------------------------------------------------------------
(* The database.  A write waits until no transaction is open.              *)

Writable == txn = Absent

\* The row an UPDATE ... ORDER BY connected_at DESC LIMIT 1 may choose.
NewestOpen(n) ==
  LET open == {i \in 1 .. Len(sessions) : sessions[i].node = n /\ sessions[i].open}
  IN {i \in open : \A j \in open : sessions[j].at <= sessions[i].at}

\* mutated: awake_seconds without its default
OpenNull(n, at) ==
  /\ Writable /\ n \in known
  /\ sessions' = Append(sessions, [node |-> n, at |-> at, open |-> TRUE, awake |-> Absent])

\* A row of a table that references nodes needs its node there.  Its time was
\* read when open_session was called, before the statement runs.
open_session(n, at) ==
  /\ Writable /\ n \in known
  /\ sessions' = Append(sessions, [node |-> n, at |-> at, open |-> TRUE, awake |-> 0])

close_session(n) ==
  /\ Writable
  /\ IF NewestOpen(n) = {} THEN UNCHANGED sessions
     ELSE \E i \in NewestOpen(n) : sessions' = [sessions EXCEPT ![i].open = FALSE]

\* mutated: without disconnected_at IS NULL
TouchAny(n, delta) ==
  /\ Writable
  /\ LET rows == {i \in 1 .. Len(sessions) : sessions[i].node = n}
     IN IF rows = {} THEN UNCHANGED sessions
        ELSE sessions' = [sessions EXCEPT ![Max(rows)].awake = @ + delta]

touch_session_awake(n, delta) ==
  /\ Writable
  /\ IF NewestOpen(n) = {} THEN UNCHANGED sessions
     ELSE \E i \in NewestOpen(n) : sessions' = [sessions EXCEPT ![i].awake = @ + delta]

\* mutated: the entry is inserted outside of the transaction
InsertAtOnce(by, n, kind, points) ==
  /\ Writable /\ n \in known
  /\ txn' = [by |-> by, node |-> n, kind |-> kind, points |-> points]
  /\ ledger' = [ledger EXCEPT ![n][kind] = @ + points]
  /\ UNCHANGED balance

\* credit_points, first statement: begin, and the ledger entry.
InsertEntry(by, n, kind, points) ==
  /\ Writable /\ n \in known
  /\ txn' = [by |-> by, node |-> n, kind |-> kind, points |-> points]
  /\ UNCHANGED <<ledger, balance>>

\* credit_points, second statement: the balance, and commit.
CommitCredit(by) ==
  /\ txn # Absent /\ txn.by = by
  /\ ledger' = [ledger EXCEPT ![txn.node][txn.kind] = @ + txn.points]
  /\ balance' = [balance EXCEPT ![txn.node] = @ + txn.points]
  /\ txn' = Absent

\* credit_points returns an error: what it did is rolled back.
CreditFails(by) ==
  /\ txn' = IF txn # Absent /\ txn.by = by THEN Absent ELSE txn
  /\ UNCHANGED <<ledger, balance>>

-----------------------------------------------------------------------------
(* The tunnels' readers and the tasks they spawn.                          *)

Live(t) == owner[t] # Absent /\ ~ended[t]

\* The reader is between two frames.
Reading(t) == Live(t) /\ beat[t] = Absent

\* A new Session, and a task that stores the node and opens a row.
HandleRegister(t) ==
  /\ owner[t] = Absent \/ Reading(t)
  /\ registers[t] < MaxRegisters
  /\ \E n \in Nodes, x \in Rates :
       /\ owner[t] \in {Absent, n}
       /\ owner' = [owner EXCEPT ![t] = n]
       /\ rate' = [rate EXCEPT ![t] = x]
  /\ prev' = [prev EXCEPT ![t] = Absent]
  /\ registers' = [registers EXCEPT ![t] = @ + 1]
  /\ opening' = opening \cup {<<t, registers[t], Absent>>}
  /\ UNCHANGED <<now, ended, lasted, closing, beat, postVars, pointVars, known,
                 sessions, deliveries, crashes>>

StoreNode(task) ==
  /\ task[3] = Absent
  /\ opening' = (opening \ {task}) \cup {<<task[1], task[2], now>>}
  /\ known' = known \/ (Writable /\ known' = known \cup {owner[task[1]]})
  /\ UNCHANGED <<sessions>>

OpenSession(task) ==
  /\ task[3] # Absent
  /\ opening' = opening \ {task}
  /\ UNCHANGED sessions \/ open_session(owner[task[1]], task[3])
  /\ UNCHANGED known

OpeningStep ==
  /\ \E task \in opening : StoreNode(task) \/ OpenSession(task)
  /\ UNCHANGED <<now, owner, ended, lasted, prev, rate, registers, closing, beat,
                 postVars, pointVars, deliveries, crashes>>

\* mutated: the interval runs from the first heartbeat
BeatFromFirst(t) == IF prev[t] = Absent THEN now ELSE prev[t]

\* The next interval starts with this heartbeat, whatever becomes of its credit.
PrevHeartbeat(t) == now

HandleHeartbeat(t) ==
  /\ Reading(t)
  /\ LET delta == IF prev[t] = Absent THEN 0 ELSE now - prev[t]
     IN beat' = IF delta * rate[t] > 0 /\ now \in AwakeAt
                THEN [beat EXCEPT ![t] = [delta |-> delta, at |-> "touch"]] ELSE beat
  /\ prev' = [prev EXCEPT ![t] = PrevHeartbeat(t)]
  /\ UNCHANGED <<now, owner, ended, lasted, rate, registers, opening, closing,
                 postVars, pointVars, known, sessions, deliveries, crashes>>

\* The reader awaits both statements; an error is logged.
TouchSession(t) ==
  /\ beat[t] # Absent /\ beat[t].at = "touch"
  /\ UNCHANGED sessions \/ touch_session_awake(owner[t], beat[t].delta)
  /\ beat' = [beat EXCEPT ![t].at = "credit"]
  /\ UNCHANGED <<now, owner, ended, lasted, prev, rate, registers, opening, closing,
                 postVars, pointVars, known, deliveries, crashes>>

CreditCapacity(t) ==
  /\ beat[t] # Absent /\ beat[t].at = "credit"
  /\ \/ /\ InsertEntry(t, owner[t], "capacity", beat[t].delta * rate[t])
        /\ UNCHANGED beat
     \/ (CommitCredit(t) \/ CreditFails(t)) /\ beat' = [beat EXCEPT ![t] = Absent]
  /\ UNCHANGED <<now, owner, ended, lasted, prev, rate, registers, opening, closing,
                 postVars, known, sessions, deliveries, crashes>>

\* The socket ended: a task closes a row of the node.
EndTunnel(t) ==
  /\ Reading(t)
  /\ ended' = [ended EXCEPT ![t] = TRUE]
  /\ prev' = [prev EXCEPT ![t] = Absent]
  /\ closing' = closing \cup {t}
  /\ UNCHANGED <<now, owner, lasted, rate, registers, opening, beat, postVars,
                 pointVars, known, sessions, deliveries, crashes>>

CloseSession(t) ==
  /\ t \in closing
  /\ closing' = closing \ {t}
  /\ UNCHANGED sessions \/ close_session(owner[t])
  /\ UNCHANGED <<now, owner, ended, lasted, prev, rate, registers, opening, beat,
                 postVars, pointVars, known, deliveries, crashes>>

-----------------------------------------------------------------------------
(* Requests: only what a Done's posting needs of them.                     *)

Dispatch(r) ==
  /\ ~asked[r]
  /\ asked' = [asked EXCEPT ![r] = TRUE]
  /\ \E t \in Tunnels : Reading(t) /\ pending' = [pending EXCEPT ![r] = owner[t]]
  /\ UNCHANGED <<now, tunnelVars, post, poster, pointVars, known, sessions,
                 deliveries, crashes>>

\* Its node sends one Done, on the tunnel it has then; a request that is no
\* longer pending is not posted.
HandleDone(r) ==
  /\ pending[r] # Absent /\ poster[r] = Absent
  /\ \E t \in Tunnels : Reading(t) /\ owner[t] = pending[r]
  /\ post' = [post EXCEPT ![r] = "record"]
  /\ poster' = [poster EXCEPT ![r] = pending[r]]
  /\ UNCHANGED <<now, tunnelVars, pending, asked, pointVars, known, sessions,
                 deliveries, crashes>>

\* The handler has its answer, or its client has left.
CompleteRequest(r) ==
  /\ pending[r] # Absent
  /\ pending' = [pending EXCEPT ![r] = Absent]
  /\ UNCHANGED <<now, tunnelVars, asked, post, poster, pointVars, known, sessions,
                 deliveries, crashes>>

RecordDelivery(r) ==
  /\ post[r] = "record"
  /\ \/ UNCHANGED deliveries
     \/ /\ Writable /\ poster[r] \in known
        /\ deliveries' = [deliveries EXCEPT ![r] = @ + 1]
  /\ post' = [post EXCEPT ![r] = "credit"]
  /\ UNCHANGED <<now, tunnelVars, pending, asked, poster, pointVars, known,
                 sessions, crashes>>

CreditDelivery(r) ==
  /\ post[r] = "credit"
  /\ \/ InsertEntry(r, poster[r], "delivery", DeliveryPoints) /\ UNCHANGED post
     \/ (CommitCredit(r) \/ CreditFails(r)) /\ post' = [post EXCEPT ![r] = Absent]
  /\ UNCHANGED <<now, tunnelVars, pending, asked, poster, known, sessions,
                 deliveries, crashes>>

-----------------------------------------------------------------------------
(* The environment: the clock, and restarts of the process, which keep the *)
(* tables and lose everything else.                                        *)

Tick ==
  /\ now < MaxTime
  /\ now' = now + 1
  /\ lasted' = [t \in Tunnels |-> IF Live(t) THEN lasted[t] + 1 ELSE lasted[t]]
  /\ UNCHANGED <<owner, ended, prev, rate, registers, opening, closing, beat, postVars,
                 pointVars, known, sessions, deliveries, crashes>>

Crash ==
  /\ crashes < MaxCrashes
  /\ crashes' = crashes + 1
  /\ ended' = [t \in Tunnels |-> owner[t] # Absent]
  /\ prev' = [t \in Tunnels |-> Absent]
  /\ opening' = {} /\ closing' = {}
  /\ beat' = [t \in Tunnels |-> Absent]
  /\ pending' = [r \in Requests |-> Absent]
  /\ post' = [r \in Requests |-> Absent]
  /\ txn' = Absent
  /\ UNCHANGED <<now, owner, lasted, rate, registers, asked, poster, ledger,
                 balance, known, sessions, deliveries>>

Next ==
  \/ \E t \in Tunnels :
       \/ HandleRegister(t) \/ HandleHeartbeat(t) \/ TouchSession(t) \/ CreditCapacity(t)
       \/ EndTunnel(t) \/ CloseSession(t)
  \/ OpeningStep
  \/ \E r \in Requests :
       \/ Dispatch(r) \/ HandleDone(r) \/ CompleteRequest(r)
       \/ RecordDelivery(r) \/ CreditDelivery(r)
  \/ Tick
  \/ Crash

Spec == Init /\ [][Next]_vars

-----------------------------------------------------------------------------
(* Properties *)

\* A node's balance is the sum of its ledger entries, through failures and
\* restarts between the two statements of credit_points.
BalanceIsLedgerSum ==
  \A n \in Nodes : balance[n] = ledger[n]["capacity"] + ledger[n]["delivery"]

Sum(f, S) == FoldSet(LAMBDA x, y : f[x] + y, 0, S)

\* How long the node's tunnels have lasted, all together.
Connected(n) == Sum(lasted, {t \in Tunnels : owner[t] = n})

\* The intervals between heartbeats never overlap on a tunnel, over failed credits
\* and repeated Registers: a node earns no more capacity, and its rows have no more
\* awake time, than its tunnels lasted (tunnel.rs:158-195).
EarnedWithinConnection ==
  \A n \in Nodes :
    /\ ledger[n]["capacity"] <= Max(Rates) * Connected(n)
    /\ Sum([i \in 1 .. Len(sessions) |-> sessions[i].awake],
           {i \in 1 .. Len(sessions) : sessions[i].node = n}) <= Connected(n)

\* A closed row never changes, also when a tunnel of the same node lives on
\* (DESIGN.md:194 "close the sessions row (disconnected_at, final awake seconds)").
ClosedRowsAreFinal ==
  [][\A i \in 1 .. Len(sessions) : sessions[i].open \/ sessions'[i] = sessions[i]]_vars
=============================================================================
