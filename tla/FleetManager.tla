---------------------------- MODULE FleetManager ----------------------------
(***************************************************************************)
(* The Fleet Manager's concurrent core: the in-memory registry             *)
(* (registry.rs), one reader and one writer task per node tunnel           *)
(* (tunnel.rs) and one handler per chat request (api.rs), with the nodes   *)
(* and their links as the environment.  Every action is the code between   *)
(* two points where another task can run: two acquisitions of the          *)
(* registry's RwLock, or two awaits.                                       *)
(*                                                                         *)
(* A tunnel connection is used once; so is a request (its id is a fresh    *)
(* UUID).  A frame from a node is a record with a type t; the only frame to *)
(* a node that matters here, a PromptDispatch, is its request.  Metrics are *)
(* left out, so a Heartbeat and a ScheduleState do the same to the registry *)
(* and one frame type stands for both; a CatalogRequest changes nothing    *)
(* here and is left out.  The database is a sink that no handler reads: the *)
(* points posted for a request are counted.                                *)
(***************************************************************************)
EXTENDS Naturals, Sequences, FiniteSets

CONSTANTS
  Nodes,         \* node ids
  Conns,         \* tunnel connections, each opened at most once
  Requests,      \* chat requests
  Models,        \* catalog aliases
  Absent,        \* "None" of every map
  StatusKinds,   \* bound: the status frames an instance's nodes send,
  AwakeReports,  \*   the schedule states they report
  ReadyReports,  \*   and the ready models
  MaxUp,         \* bound: frames unread in a tunnel when its node adds a status frame
  MaxChunks,     \* bound: TokenChunks of one answer
  MaxCuts        \* bound: lost links and node crashes in a behaviour

ASSUME AbsentAssumption ==
  Absent \notin Nodes \cup Conns \cup Requests \cup Models

ASSUME BoundsAssumption ==
  /\ MaxUp \in Nat /\ MaxChunks \in Nat /\ MaxCuts \in Nat
  /\ StatusKinds \subseteq {"Register", "Heartbeat", "ModelStatus"}
  /\ AwakeReports \subseteq BOOLEAN /\ ReadyReports \subseteq SUBSET Models

VARIABLES
  nodes,      \* registry: node id -> live state, or Absent
  pending,    \* registry: request id -> the node it waits for, or Absent
  phase,      \* tunnel: "unused", "reading" or "draining" (reader loop left)
  session,    \* tunnel: the node id of the reader's Session, or Absent
  handling,   \* tunnel: the request of a Done between its two registry calls
  writer,     \* tunnel: does the writer task run?
  up, down,   \* tunnel: frames node -> FM; dispatches FM -> node (mpsc and socket)
  cut,        \* tunnel: has its link been lost?
  pc,         \* handler: where it is
  stream,     \* handler: "stream": true in the body?
  model,      \* handler: the requested alias
  target,     \* handler: the node the router picked
  via,        \* handler: the tunnel whose sender it holds
  held,       \* handler: the tunnels of the senders in its locals
  events,     \* handler: its RequestEvent channel
  got,        \* handler: TokenChunks handed to the client
  reply,      \* handler: what the client was told
  credited,   \* database: delivery postings spawned for the request
  peer,       \* environment: the node that opened a connection
  link,       \* environment: a node's current connection, or Absent
  job,        \* environment: the node generating the answer, or Absent
  sent,       \* environment: TokenChunks generated
  cuts        \* environment: links lost so far

registryVars == <<nodes, pending>>
tunnelVars   == <<phase, session, handling, writer>>
wireVars     == <<up, down, cut>>
handlerVars  == <<pc, stream, model, target, via, held, events, got, reply>>
nodeVars     == <<peer, link, job, sent, cuts>>
vars == <<registryVars, tunnelVars, wireVars, handlerVars, credited, nodeVars>>

NodeState == [tx: Conns, ready: SUBSET Models, awake: BOOLEAN]

StatusFrame(n) ==
     [t: {"Register"}, node: {n}]
  \cup [t: {"Heartbeat"}, node: {n}, awake: BOOLEAN]
  \cup [t: {"ModelStatus"}, node: {n}, ready: SUBSET Models]

ReportFrame(r) == [t: {"TokenChunk", "Done", "Error"}, req: {r}]

UpFrame ==
  (UNION {StatusFrame(n) : n \in Nodes}) \cup (UNION {ReportFrame(r) : r \in Requests})

\* Where a chat handler can be: not posted; node picked; sender in hand;
\* channel registered; waiting for events; over; over with the future dropped.
PCs == {"new", "picked", "ready", "dispatching", "streaming", "buffering",
        "closed", "abandoned"}

\* While the handler is here its end of the event channel exists.
Listening == {"dispatching", "streaming", "buffering"}

TypeOK ==
  /\ nodes \in [Nodes -> NodeState \cup {Absent}]
  /\ pending \in [Requests -> Nodes \cup {Absent}]
  /\ phase \in [Conns -> {"unused", "reading", "draining"}]
  /\ session \in [Conns -> Nodes \cup {Absent}]
  /\ handling \in [Conns -> Requests \cup {Absent}]
  /\ writer \in [Conns -> BOOLEAN]
  /\ up \in [Conns -> Seq(UpFrame)]
  /\ down \in [Conns -> Seq(Requests)]
  /\ cut \in [Conns -> BOOLEAN]
  /\ pc \in [Requests -> PCs]
  /\ stream \in [Requests -> BOOLEAN]
  /\ model \in [Requests -> Models \cup {Absent}]
  /\ target \in [Requests -> Nodes \cup {Absent}]
  /\ via \in [Requests -> Conns \cup {Absent}]
  /\ \A r \in Requests :
       /\ pc[r] \in {"picked", "ready"} \cup Listening => target[r] \in Nodes
       /\ pc[r] \in {"ready"} \cup Listening => via[r] \in Conns
  /\ held \in [Requests -> SUBSET Conns]
  /\ events \in [Requests -> Seq({"TokenChunk", "Done", "Error"})]
  /\ got \in [Requests -> Nat]
  /\ reply \in [Requests -> {"none", "ok", "error", "unavailable"}]
  /\ credited \in [Requests -> Nat]
  /\ peer \in [Conns -> Nodes \cup {Absent}]
  /\ link \in [Nodes -> Conns \cup {Absent}]
  /\ job \in [Requests -> Nodes \cup {Absent}]
  /\ sent \in [Requests -> Nat]
  /\ cuts \in Nat

Init ==
  /\ nodes = [n \in Nodes |-> Absent]
  /\ pending = [r \in Requests |-> Absent]
  /\ phase = [c \in Conns |-> "unused"]
  /\ session = [c \in Conns |-> Absent]
  /\ handling = [c \in Conns |-> Absent]
  /\ writer = [c \in Conns |-> FALSE]
  /\ up = [c \in Conns |-> <<>>]
  /\ down = [c \in Conns |-> <<>>]
  /\ cut = [c \in Conns |-> FALSE]
  /\ pc = [r \in Requests |-> "new"]
  /\ stream = [r \in Requests |-> FALSE]
  /\ model = [r \in Requests |-> Absent]
  /\ target = [r \in Requests |-> Absent]
  /\ via = [r \in Requests |-> Absent]
  /\ held = [r \in Requests |-> {}]
  /\ events = [r \in Requests |-> <<>>]
  /\ got = [r \in Requests |-> 0]
  /\ reply = [r \in Requests |-> "none"]
  /\ credited = [r \in Requests |-> 0]
  /\ peer = [c \in Conns |-> Absent]
  /\ link = [n \in Nodes |-> Absent]
  /\ job = [r \in Requests |-> Absent]
  /\ sent = [r \in Requests |-> 0]
  /\ cuts = 0

-----------------------------------------------------------------------------
(* Registry: one operator per method, each one acquisition of the lock.    *)

upsert_node(n, c) ==
  nodes' = [nodes EXCEPT ![n] = [tx |-> c, ready |-> {}, awake |-> FALSE]]

\* mutated: teardown leaves the entry
RemoveNothing(n) == UNCHANGED nodes

\* mutated: the key goes from the map's domain
RemoveKey(n) == nodes' = [x \in Nodes \ {n} |-> nodes[x]]

remove_node(n) == nodes' = [nodes EXCEPT ![n] = Absent]

\* update_metrics and update_schedule
update_schedule(n, awake) ==
  nodes' = IF nodes[n] = Absent THEN nodes ELSE [nodes EXCEPT ![n].awake = awake]

update_ready_models(n, ready) ==
  nodes' = IF nodes[n] = Absent THEN nodes ELSE [nodes EXCEPT ![n].ready = ready]

can_serve(n, m) == nodes[n] # Absent /\ nodes[n].awake /\ m \in nodes[n].ready

register_request(r) == pending' = [pending EXCEPT ![r] = target[r]]

\* mutated: the entry stays
CompleteNothing(r) == UNCHANGED pending

complete_request(r) == pending' = [pending EXCEPT ![r] = Absent]

\* mutated: the Done arm takes the entry out
TakePending(r) == pending' = [pending EXCEPT ![r] = Absent]

\* Looking a request up leaves it in the map.
get_pending(r) == UNCHANGED pending

\* mutated: the latest event overtakes the others
DispatchFirst(r, e) ==
  events' = IF pending[r] # Absent /\ pc[r] \in Listening
            THEN [events EXCEPT ![r] = <<e>> \o @]
            ELSE events

\* An event for an unknown request, or for a handler that is gone, is dropped.
dispatch_event(r, e) ==
  events' = IF pending[r] # Absent /\ pc[r] \in Listening
            THEN [events EXCEPT ![r] = Append(@, e)]
            ELSE events

\* mutated: no posting when the node has left the registry meanwhile
PostIfRegistered(r) ==
  credited' = IF pending[r] = Absent \/ nodes[pending[r]] = Absent
              THEN credited ELSE [credited EXCEPT ![r] = @ + 1]

\* The database task a Done spawns: a delivery row and a ledger entry.
post_delivery(r) ==
  credited' = IF pending[r] = Absent THEN credited ELSE [credited EXCEPT ![r] = @ + 1]

-----------------------------------------------------------------------------
(* A tunnel's reader: it takes the next frame and runs handle_message on it.*)

Reads(c, t) ==
  /\ phase[c] = "reading" /\ handling[c] = Absent
  /\ up[c] # <<>> /\ Head(up[c]).t = t

Consume(c) == up' = [up EXCEPT ![c] = Tail(@)]

Frame(c) == Head(up[c])

HandleRegister(c) ==
  /\ Reads(c, "Register") /\ Consume(c)
  /\ upsert_node(Frame(c).node, c)
  /\ session' = [session EXCEPT ![c] = Frame(c).node]
  /\ UNCHANGED <<pending, phase, handling, writer, down, cut, handlerVars, credited, nodeVars>>

HandleHeartbeat(c) ==
  /\ Reads(c, "Heartbeat") /\ Consume(c)
  /\ update_schedule(Frame(c).node, Frame(c).awake)
  /\ UNCHANGED <<pending, tunnelVars, down, cut, handlerVars, credited, nodeVars>>

HandleModelStatus(c) ==
  /\ Reads(c, "ModelStatus") /\ Consume(c)
  /\ update_ready_models(Frame(c).node, Frame(c).ready)
  /\ UNCHANGED <<pending, tunnelVars, down, cut, handlerVars, credited, nodeVars>>

\* TokenChunk and Error only relay their event.
HandleRelayed(c, t) ==
  /\ Reads(c, t) /\ Consume(c)
  /\ dispatch_event(Frame(c).req, t)
  /\ UNCHANGED <<registryVars, tunnelVars, down, cut, pc, stream, model, target,
                 via, held, got, reply, credited, nodeVars>>

HandleTokenChunk(c) == HandleRelayed(c, "TokenChunk")

\* mutated: an Error ends the request as a Done would
ErrorAsDone(c) ==
  /\ Reads(c, "Error") /\ Consume(c)
  /\ dispatch_event(Frame(c).req, "Done")
  /\ UNCHANGED <<registryVars, tunnelVars, down, cut, pc, stream, model, target,
                 via, held, got, reply, credited, nodeVars>>

\* mutated: an Error is only logged
ErrorIgnored(c) ==
  /\ Reads(c, "Error") /\ Consume(c)
  /\ UNCHANGED <<registryVars, tunnelVars, down, cut, handlerVars, credited, nodeVars>>

HandleError(c) == HandleRelayed(c, "Error")

\* A Done looks the request up, spawns its posting, and only then, after
\* another acquisition of the lock, relays the event.
HandleDone(c) ==
  /\ Reads(c, "Done") /\ Consume(c)
  /\ get_pending(Frame(c).req)
  /\ post_delivery(Frame(c).req)
  /\ handling' = [handling EXCEPT ![c] = Frame(c).req]
  /\ UNCHANGED <<nodes, phase, session, writer, down, cut, handlerVars, nodeVars>>

RelayDone(c) ==
  /\ handling[c] # Absent
  /\ dispatch_event(handling[c], "Done")
  /\ handling' = [handling EXCEPT ![c] = Absent]
  /\ UNCHANGED <<registryVars, phase, session, writer, wireVars, pc, stream, model,
                 target, via, held, got, reply, credited, nodeVars>>

\* The socket ended.  The reader takes its session's node out of the
\* registry, drops its own sender and waits for the writer.
CloseTunnel(c) ==
  /\ phase[c] = "reading" /\ handling[c] = Absent /\ cut[c] /\ up[c] = <<>>
  /\ phase' = [phase EXCEPT ![c] = "draining"]
  /\ IF session[c] # Absent THEN remove_node(session[c]) ELSE UNCHANGED nodes
  /\ UNCHANGED <<pending, session, handling, writer, wireVars, handlerVars, credited, nodeVars>>

-----------------------------------------------------------------------------
(* A tunnel's writer.  Between the mpsc channel and the node nothing is    *)
(* reordered, so one queue stands for both.                                *)

\* The sends on a lost link may still land in a buffer, and are lost ...
WriterLoses(c) ==
  /\ writer[c] /\ cut[c] /\ down[c] # <<>>
  /\ down' = [down EXCEPT ![c] = Tail(@)]
  /\ UNCHANGED <<registryVars, tunnelVars, up, cut, handlerVars, credited, nodeVars>>

\* ... or fail, which ends the task: later sends on the channel are errors.
WriterFails(c) ==
  /\ writer[c] /\ cut[c] /\ down[c] # <<>>
  /\ writer' = [writer EXCEPT ![c] = FALSE]
  /\ down' = [down EXCEPT ![c] = <<>>]
  /\ UNCHANGED <<registryVars, phase, session, handling, up, cut, handlerVars, credited, nodeVars>>

\* The senders of a tunnel's channel: its reader's, the registry's, and those
\* in the locals of the handlers that have not returned.
SenderExists(c) ==
  \/ phase[c] = "reading"
  \/ \E n \in Nodes : nodes[n] # Absent /\ nodes[n].tx = c
  \/ \E r \in Requests : c \in held[r]

WriterEnds(c) ==
  /\ writer[c] /\ ~SenderExists(c) /\ down[c] = <<>>
  /\ writer' = [writer EXCEPT ![c] = FALSE]
  /\ UNCHANGED <<registryVars, phase, session, handling, wireVars, handlerVars, credited, nodeVars>>

\* handle_socket has returned, and the socket is closed.
TunnelOver(c) == phase[c] = "draining" /\ ~writer[c]

-----------------------------------------------------------------------------
(* A chat handler (chat_completions and what it returns).                  *)

Senders == {nodes[n].tx : n \in {x \in Nodes : nodes[x] # Absent}}

\* mutated: the senders outlive the handler
ReturnLeaks(r, answer) ==
  /\ pc' = [pc EXCEPT ![r] = "closed"]
  /\ reply' = [reply EXCEPT ![r] = answer]
  /\ UNCHANGED held

\* The future returns: its locals, among them its senders, are dropped.
Return(r, answer) ==
  /\ pc' = [pc EXCEPT ![r] = "closed"]
  /\ reply' = [reply EXCEPT ![r] = answer]
  /\ held' = [held EXCEPT ![r] = {}]

\* The request is posted, and the router picks from a snapshot, whose clones
\* (a sender of every node) stay in the handler's locals.
PickNode(r) ==
  /\ pc[r] = "new"
  /\ \E m \in Models, s \in BOOLEAN, n \in Nodes :
       /\ can_serve(n, m)
       /\ model' = [model EXCEPT ![r] = m]
       /\ stream' = [stream EXCEPT ![r] = s]
       /\ target' = [target EXCEPT ![r] = n]
  /\ pc' = [pc EXCEPT ![r] = "picked"]
  /\ held' = [held EXCEPT ![r] = Senders]
  /\ UNCHANGED <<registryVars, tunnelVars, wireVars, via, events, got, reply, credited, nodeVars>>

\* "no node available for model"
PickNone(r) ==
  /\ pc[r] = "new"
  /\ \E m \in Models : \A n \in Nodes : ~can_serve(n, m)
  /\ Return(r, "unavailable")
  /\ UNCHANGED <<registryVars, tunnelVars, wireVars, stream, model, target, via,
                 events, got, credited, nodeVars>>

\* mutated: some sender of the snapshot
AnySender(n) == CHOOSE c \in Senders : TRUE

\* The node's current sender, whichever tunnel it is now.
node_sender(n) == nodes[n].tx

GetSender(r) ==
  /\ pc[r] = "picked" /\ nodes[target[r]] # Absent
  /\ via' = [via EXCEPT ![r] = node_sender(target[r])]
  /\ held' = [held EXCEPT ![r] = @ \cup {node_sender(target[r])}]
  /\ pc' = [pc EXCEPT ![r] = "ready"]
  /\ UNCHANGED <<registryVars, tunnelVars, wireVars, stream, model, target,
                 events, got, reply, credited, nodeVars>>

\* "selected node disconnected"
NoSender(r) ==
  /\ pc[r] = "picked" /\ nodes[target[r]] = Absent
  /\ Return(r, "unavailable")
  /\ UNCHANGED <<registryVars, tunnelVars, wireVars, stream, model, target, via,
                 events, got, credited, nodeVars>>

RegisterRequest(r) ==
  /\ pc[r] = "ready"
  /\ register_request(r)
  /\ pc' = [pc EXCEPT ![r] = "dispatching"]
  /\ UNCHANGED <<nodes, tunnelVars, wireVars, stream, model, target, via, held,
                 events, got, reply, credited, nodeVars>>

\* A streaming handler returns its response here; a buffering one keeps its
\* locals, and the senders in them, until it has the whole answer.
SendDispatch(r) ==
  /\ pc[r] = "dispatching" /\ writer[via[r]]
  /\ down' = [down EXCEPT ![via[r]] = Append(@, r)]
  /\ pc' = [pc EXCEPT ![r] = IF stream[r] THEN "streaming" ELSE "buffering"]
  /\ held' = IF stream[r] THEN [held EXCEPT ![r] = {}] ELSE held
  /\ UNCHANGED <<registryVars, tunnelVars, up, cut, stream, model, target, via,
                 events, got, reply, credited, nodeVars>>

\* "failed to dispatch to node": the tunnel's writer has ended.
DispatchFails(r) ==
  /\ pc[r] = "dispatching" /\ ~writer[via[r]]
  /\ complete_request(r)
  /\ Return(r, "unavailable")
  /\ UNCHANGED <<nodes, tunnelVars, wireVars, stream, model, target, via,
                 events, got, credited, nodeVars>>

TakeEvent(r, e) ==
  /\ events[r] # <<>> /\ Head(events[r]) = e
  /\ events' = [events EXCEPT ![r] = Tail(@)]

\* A chunk joins the buffered content, or goes out on the stream.
TakeChunk(r) ==
  /\ pc[r] \in {"streaming", "buffering"}
  /\ TakeEvent(r, "TokenChunk")
  /\ got' = [got EXCEPT ![r] = @ + 1]
  /\ UNCHANGED <<registryVars, tunnelVars, wireVars, pc, stream, model, target, via,
                 held, reply, credited, nodeVars>>

\* 200 with the whole answer, or 502.
BufferedAnswer(r, e, answer) ==
  /\ pc[r] = "buffering"
  /\ TakeEvent(r, e)
  /\ complete_request(r)
  /\ Return(r, answer)
  /\ UNCHANGED <<nodes, tunnelVars, wireVars, stream, model, target, via, got,
                 credited, nodeVars>>

\* The finish chunk or the error, and [DONE]; the stream itself stays open,
\* because its channel's sender is in the registry.
StreamAnswer(r, e, answer) ==
  /\ pc[r] = "streaming"
  /\ TakeEvent(r, e)
  /\ reply' = [reply EXCEPT ![r] = answer]
  /\ UNCHANGED <<registryVars, tunnelVars, wireVars, pc, stream, model, target, via,
                 held, got, credited, nodeVars>>

BufferedOk(r)    == BufferedAnswer(r, "Done", "ok")
BufferedError(r) == BufferedAnswer(r, "Error", "error")
StreamOk(r)      == StreamAnswer(r, "Done", "ok")
StreamError(r)   == StreamAnswer(r, "Error", "error")

\* The client closes its connection.  The stream's CleanupGuard completes
\* the request; the buffering future has no guard, and only its locals go.
ClientLeaves(r) ==
  /\ \/ pc[r] = "streaming" /\ complete_request(r) /\ pc' = [pc EXCEPT ![r] = "closed"]
     \/ pc[r] = "buffering" /\ UNCHANGED pending /\ pc' = [pc EXCEPT ![r] = "abandoned"]
  /\ held' = [held EXCEPT ![r] = {}]
  /\ events' = [events EXCEPT ![r] = <<>>]
  /\ UNCHANGED <<nodes, tunnelVars, wireVars, stream, model, target, via, got, reply,
                 credited, nodeVars>>

-----------------------------------------------------------------------------
(* The environment: what the node applications do to a tunnel.  A node     *)
(* runs one connection at a time, registers under its own id, and answers a *)
(* dispatch with TokenChunks and then one Done or one Error.               *)

NodeConnect(n) ==
  /\ link[n] = Absent
  /\ \E c \in Conns :
       /\ phase[c] = "unused"
       /\ phase' = [phase EXCEPT ![c] = "reading"]
       /\ writer' = [writer EXCEPT ![c] = TRUE]
       /\ peer' = [peer EXCEPT ![c] = n]
       /\ link' = [link EXCEPT ![n] = c]
  /\ UNCHANGED <<registryVars, session, handling, wireVars, handlerVars, credited,
                 job, sent, cuts>>

Send(n, frame) == up' = [up EXCEPT ![link[n]] = Append(@, frame)]

NodeStatus(n) ==
  /\ link[n] # Absent /\ Len(up[link[n]]) < MaxUp
  /\ \E f \in StatusFrame(n) :
       /\ f.t \in StatusKinds
       /\ f.t = "Heartbeat" => f.awake \in AwakeReports
       /\ f.t = "ModelStatus" => f.ready \in ReadyReports
       /\ Send(n, f)
  /\ UNCHANGED <<registryVars, tunnelVars, down, cut, handlerVars, credited, nodeVars>>

NodeReceive(n) ==
  /\ link[n] # Absent /\ down[link[n]] # <<>>
  /\ job' = [job EXCEPT ![Head(down[link[n]])] = n]
  /\ down' = [down EXCEPT ![link[n]] = Tail(@)]
  /\ UNCHANGED <<registryVars, tunnelVars, up, cut, handlerVars, credited,
                 peer, link, sent, cuts>>

NodeChunk(r) ==
  /\ job[r] # Absent /\ link[job[r]] # Absent /\ sent[r] < MaxChunks
  /\ Send(job[r], [t |-> "TokenChunk", req |-> r])
  /\ sent' = [sent EXCEPT ![r] = @ + 1]
  /\ UNCHANGED <<registryVars, tunnelVars, down, cut, handlerVars, credited,
                 peer, link, job, cuts>>

NodeFinish(r) ==
  /\ job[r] # Absent /\ link[job[r]] # Absent
  /\ \E t \in {"Done", "Error"} : Send(job[r], [t |-> t, req |-> r])
  /\ job' = [job EXCEPT ![r] = Absent]
  /\ UNCHANGED <<registryVars, tunnelVars, down, cut, handlerVars, credited,
                 peer, link, sent, cuts>>

\* The link goes: of what the node wrote, some prefix still reaches the
\* Fleet Manager, which notices later; the node may reconnect before that.
Cut(n) ==
  /\ link[n] # Absent /\ cuts < MaxCuts
  /\ cuts' = cuts + 1
  /\ cut' = [cut EXCEPT ![link[n]] = TRUE]
  /\ \E k \in 0 .. Len(up[link[n]]) : up' = [up EXCEPT ![link[n]] = SubSeq(@, 1, k)]
  /\ link' = [link EXCEPT ![n] = Absent]
  /\ UNCHANGED <<registryVars, tunnelVars, down, handlerVars, credited, peer, sent>>

LinkLost(n) == Cut(n) /\ UNCHANGED job

NodeCrash(n) ==
  /\ Cut(n)
  /\ job' = [r \in Requests |-> IF job[r] = n THEN Absent ELSE job[r]]

-----------------------------------------------------------------------------
Reader(c) ==
  \/ HandleRegister(c) \/ HandleHeartbeat(c) \/ HandleModelStatus(c)
  \/ HandleTokenChunk(c) \/ HandleDone(c) \/ RelayDone(c) \/ HandleError(c)
  \/ CloseTunnel(c)

Writer(c) == WriterLoses(c) \/ WriterFails(c) \/ WriterEnds(c)

Routing(r) ==
  \/ GetSender(r) \/ NoSender(r) \/ RegisterRequest(r) \/ SendDispatch(r)
  \/ DispatchFails(r)

Answering(r) ==
  \/ TakeChunk(r) \/ BufferedOk(r) \/ BufferedError(r) \/ StreamOk(r) \/ StreamError(r)

Handler(r) == PickNode(r) \/ PickNone(r) \/ Routing(r) \/ Answering(r)

Node(n) == NodeConnect(n) \/ NodeStatus(n) \/ NodeReceive(n) \/ LinkLost(n) \/ NodeCrash(n)

Next ==
  \/ \E c \in Conns : Reader(c) \/ Writer(c)
  \/ \E r \in Requests : Handler(r) \/ ClientLeaves(r) \/ NodeChunk(r) \/ NodeFinish(r)
  \/ \E n \in Nodes : Node(n)

Spec == Init /\ [][Next]_vars

\* tokio runs every task that can run; a node reads its socket and finishes
\* what it generates.  Nobody has to post, to send status frames or to leave.
Fairness ==
  /\ \A c \in Conns : WF_vars(Reader(c)) /\ WF_vars(Writer(c))
  /\ \A r \in Requests : WF_vars(Routing(r)) /\ WF_vars(Answering(r)) /\ WF_vars(NodeFinish(r))
  /\ \A n \in Nodes : WF_vars(NodeReceive(n))

FairSpec == Spec /\ Fairness

-----------------------------------------------------------------------------
(* Properties *)

\* A node the router can pick is the node of a tunnel whose reader still runs:
\* the registry never outlives a connection (upsert_node, handle_socket's end).
RegisteredTunnelIsServed ==
  \A n \in Nodes : nodes[n] # Absent =>
    /\ phase[nodes[n].tx] = "reading"
    /\ session[nodes[n].tx] = n

\* A handler that waits has its entry in the pending map under the node it was
\* routed to, so no event can fall on the floor while it listens (api.rs:86-111).
WaitingHasChannel ==
  \A r \in Requests : pc[r] \in Listening => pending[r] = target[r]

\* A handler that returned, or a stream that was dropped, left no entry behind
\* (complete_request on every way out, and the CleanupGuard).
ClosedIsForgotten ==
  \A r \in Requests : pc[r] = "closed" => pending[r] = Absent

\* Points are posted once for an answer the client saw finished, never twice,
\* and never for one that failed, whatever the tunnels do (tunnel.rs:210-253).
CreditMatchesReply ==
  \A r \in Requests :
    /\ credited[r] <= 1
    /\ reply[r] = "ok" => credited[r] = 1
    /\ reply[r] \in {"error", "unavailable"} => credited[r] = 0

\* Across the pick, the lookup of the sender and a reconnect in between, a prompt
\* only ever travels to the node the request is accounted to (api.rs:65-99).
DispatchReachesTarget ==
  \A r \in Requests :
    /\ job[r] \in {Absent, target[r]}
    /\ \A c \in Conns : \A i \in 1 .. Len(down[c]) :
         down[c][i] = r => peer[c] = target[r]

\* As long as no link was lost, a finished answer has every chunk the node
\* generated, though Done takes another path through the reader than chunks.
AnswerIsComplete ==
  \A r \in Requests : cuts = 0 /\ reply[r] = "ok" => got[r] = sent[r]

\* The promise of ChatService.
Service == INSTANCE ChatService WITH
  status <- [r \in Requests |->
    CASE reply[r] = "unavailable" -> "refused"
      [] reply[r] = "ok" -> "answered"
      [] reply[r] = "error" -> "failed"
      [] reply[r] = "none" /\ pc[r] \in {"closed", "abandoned"} -> "left"
      [] reply[r] = "none" /\ pc[r] \in {"streaming", "buffering"} -> "open"
      [] OTHER -> "new"],
  credit <- credited

ServiceSpec == Service!Spec

\* A buffering client gets its answer (or its error) as long as no link is lost:
\* the node finishes, the reader relays, the handler takes the event.
BufferedIsAnswered ==
  \A r \in Requests : pc[r] = "buffering" ~> (pc[r] # "buffering" \/ cuts > 0)

\* After a connection ends, its registration goes, so the router stops
\* picking it (tunnel.rs:87-89).
LostTunnelIsUnregistered ==
  \A c \in Conns : cut[c] ~> \A n \in Nodes : nodes[n] # Absent => nodes[n].tx # c

\* The tunnel's task ends after its connection, unless a buffering handler
\* that still waits keeps a sender of its channel (api.rs:65,76 and tunnel.rs:99-100).
LostTunnelEnds ==
  \A c \in Conns : cut[c] ~> (TunnelOver(c) \/ \E r \in Requests : pc[r] = "buffering" /\ c \in held[r])

\* DESIGN.md:128 "Registry - in-memory map of connected nodes and their live
\* state": a node whose Register was handled on the link it still has is in it.
RegistryHoldsConnected ==
  \A n \in Nodes : link[n] # Absent /\ session[link[n]] = n => nodes[n] # Absent

\* api.rs:134-135 "when the SSE stream is dropped (client disconnect or normal
\* completion)": an answered stream completes its request.
AnsweredStreamCompletes ==
  \A r \in Requests : (pc[r] = "streaming" /\ reply[r] # "none") ~> pending[r] = Absent
=============================================================================
