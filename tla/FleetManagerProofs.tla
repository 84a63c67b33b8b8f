-------------------------- MODULE FleetManagerProofs --------------------------
(***************************************************************************)
(* Theorems about FleetManager for every set of nodes, connections and     *)
(* requests and every bound, and about the Router for every snapshot.      *)
(***************************************************************************)
EXTENDS FleetManager, Router, SequenceTheorems, FunctionTheorems, Induction

USE DEF registryVars, tunnelVars, wireVars, handlerVars, nodeVars

(* What the fields of a frame that a reader handles can be. *)
LEMMA FrameFields ==
  ASSUME NEW f \in UpFrame
  PROVE  /\ f.t = "Register" => f.node \in Nodes
         /\ f.t = "Heartbeat" => f.node \in Nodes /\ f.awake \in BOOLEAN
         /\ f.t = "ModelStatus" => f.node \in Nodes /\ f.ready \in SUBSET Models
         /\ f.t \in {"TokenChunk", "Done", "Error"} => f.req \in Requests
BY DEF UpFrame, StatusFrame, ReportFrame

(* Taking a frame off a tunnel's queue leaves a queue of frames. *)
LEMMA TakeFrame ==
  ASSUME TypeOK, NEW c \in Conns, up[c] # <<>>
  PROVE  /\ Frame(c) \in UpFrame
         /\ Tail(up[c]) \in Seq(UpFrame)
BY HeadTailProperties DEF TypeOK, Frame

(* The registry's updates of one field keep an entry an entry. *)
LEMMA EntryUpdates ==
  ASSUME NEW s \in NodeState
  PROVE  /\ \A a \in BOOLEAN : [s EXCEPT !.awake = a] \in NodeState
         /\ \A m \in SUBSET Models : [s EXCEPT !.ready = m] \in NodeState
BY DEF NodeState

(* What dispatch_event leaves in the channels are events. *)
LEMMA DispatchTypes ==
  ASSUME TypeOK, NEW r \in Requests, NEW e \in {"TokenChunk", "Done", "Error"},
         dispatch_event(r, e)
  PROVE  events' \in [Requests -> Seq({"TokenChunk", "Done", "Error"})]
<1>1. events \in [Requests -> Seq({"TokenChunk", "Done", "Error"})]
  BY DEF TypeOK
<1>2. Append(events[r], e) \in Seq({"TokenChunk", "Done", "Error"})
  BY <1>1
<1> QED BY <1>1, <1>2 DEF dispatch_event

(* The reader's steps keep the types. *)
LEMMA ReaderKeepsTypes ==
  ASSUME TypeOK, NEW c \in Conns, Reader(c)
  PROVE  TypeOK'
<1> USE DEF Reads, Consume
<1>1. CASE HandleRegister(c)
  <2>1. Frame(c) \in UpFrame /\ Tail(up[c]) \in Seq(UpFrame) /\ Frame(c).node \in Nodes
    BY <1>1, TakeFrame, FrameFields DEF HandleRegister, Frame
  <2> QED BY <1>1, <2>1 DEF HandleRegister, upsert_node, TypeOK, NodeState
<1>3. CASE HandleHeartbeat(c)
  <2>1. Tail(up[c]) \in Seq(UpFrame) /\ Frame(c).node \in Nodes /\ Frame(c).awake \in BOOLEAN
    BY <1>3, TakeFrame, FrameFields DEF HandleHeartbeat, Frame
  <2> DEFINE n == Frame(c).node
  <2>2. CASE nodes[n] = Absent
    BY <1>3, <2>1, <2>2 DEF HandleHeartbeat, update_schedule, TypeOK
  <2>3. CASE nodes[n] # Absent
    <3>1. [nodes[n] EXCEPT !.awake = Frame(c).awake] \in NodeState
      <4>1. nodes[n] \in NodeState
        BY <2>1, <2>3 DEF TypeOK
      <4> QED BY <2>1, <4>1, EntryUpdates
    <3>2. nodes' = [nodes EXCEPT ![n] = [nodes[n] EXCEPT !.awake = Frame(c).awake]]
      BY <1>3, <2>3 DEF HandleHeartbeat, update_schedule
    <3> QED BY <1>3, <2>1, <3>1, <3>2 DEF HandleHeartbeat, TypeOK
  <2> QED BY <2>2, <2>3
<1>4. CASE HandleModelStatus(c)
  <2>1. Tail(up[c]) \in Seq(UpFrame) /\ Frame(c).node \in Nodes /\ Frame(c).ready \in SUBSET Models
    BY <1>4, TakeFrame, FrameFields DEF HandleModelStatus, Frame
  <2> DEFINE n == Frame(c).node
  <2>2. CASE nodes[n] = Absent
    BY <1>4, <2>1, <2>2 DEF HandleModelStatus, update_ready_models, TypeOK
  <2>3. CASE nodes[n] # Absent
    <3>1. [nodes[n] EXCEPT !.ready = Frame(c).ready] \in NodeState
      <4>1. nodes[n] \in NodeState
        BY <2>1, <2>3 DEF TypeOK
      <4> QED BY <2>1, <4>1, EntryUpdates
    <3>2. nodes' = [nodes EXCEPT ![n] = [nodes[n] EXCEPT !.ready = Frame(c).ready]]
      BY <1>4, <2>3 DEF HandleModelStatus, update_ready_models
    <3> QED BY <1>4, <2>1, <3>1, <3>2 DEF HandleModelStatus, TypeOK
  <2> QED BY <2>2, <2>3
<1>5. ASSUME NEW t \in {"TokenChunk", "Error"}, HandleRelayed(c, t)
      PROVE  TypeOK'
  <2>1. Tail(up[c]) \in Seq(UpFrame) /\ Frame(c).req \in Requests
    BY <1>5, TakeFrame, FrameFields DEF HandleRelayed, Frame
  <2>2. events' \in [Requests -> Seq({"TokenChunk", "Done", "Error"})]
    BY <1>5, <2>1, DispatchTypes DEF HandleRelayed
  <2> QED BY <1>5, <2>1, <2>2 DEF HandleRelayed, TypeOK
<1>6. CASE HandleDone(c)
  <2>1. Tail(up[c]) \in Seq(UpFrame) /\ Frame(c).req \in Requests
    BY <1>6, TakeFrame, FrameFields DEF HandleDone, Frame
  <2>2. credited' \in [Requests -> Nat]
    BY <1>6, <2>1 DEF HandleDone, post_delivery, TypeOK
  <2>3. handling' \in [Conns -> Requests \cup {Absent}] /\ up' \in [Conns -> Seq(UpFrame)]
    BY <1>6, <2>1 DEF HandleDone, TypeOK
  <2> QED BY <1>6, <2>2, <2>3 DEF HandleDone, get_pending, TypeOK
<1>7. CASE RelayDone(c)
  <2>1. events' \in [Requests -> Seq({"TokenChunk", "Done", "Error"})]
    BY <1>7, DispatchTypes DEF RelayDone, TypeOK
  <2> QED BY <1>7, <2>1 DEF RelayDone, TypeOK
<1>8. CASE CloseTunnel(c)
  BY <1>8 DEF CloseTunnel, remove_node, TypeOK
<1> QED
  BY <1>1, <1>3, <1>4, <1>5, <1>6, <1>7, <1>8 DEF Reader, HandleTokenChunk, HandleError

(* The writer's. *)
LEMMA WriterKeepsTypes ==
  ASSUME TypeOK, NEW c \in Conns, Writer(c)
  PROVE  TypeOK'
<1>1. CASE WriterLoses(c)
  <2>1. down' \in [Conns -> Seq(Requests)]
    BY <1>1, HeadTailProperties DEF WriterLoses, TypeOK
  <2> QED BY <1>1, <2>1 DEF WriterLoses, TypeOK
<1>2. CASE WriterFails(c)
  BY <1>2 DEF WriterFails, TypeOK
<1>3. CASE WriterEnds(c)
  BY <1>3 DEF WriterEnds, TypeOK
<1> QED BY <1>1, <1>2, <1>3 DEF Writer

(* The handler's, and a client that leaves. *)
LEMMA HandlerKeepsTypes ==
  ASSUME TypeOK, NEW r \in Requests, Handler(r) \/ ClientLeaves(r)
  PROVE  TypeOK'
<1> USE DEF Return, TypeOK, PCs, Listening, complete_request
<1>1. CASE PickNode(r)
  <2>1. Senders \in SUBSET Conns
    BY DEF Senders, NodeState
  <2>2. PICK m \in Models, s \in BOOLEAN, n \in Nodes :
          /\ model' = [model EXCEPT ![r] = m]
          /\ stream' = [stream EXCEPT ![r] = s]
          /\ target' = [target EXCEPT ![r] = n]
    BY <1>1 DEF PickNode
  <2>3. held' \in [Requests -> SUBSET Conns]
    BY <1>1, <2>1 DEF PickNode
  <2> QED BY <1>1, <2>2, <2>3 DEF PickNode
<1>2. CASE PickNone(r)
  BY <1>2 DEF PickNone
<1>3. CASE GetSender(r)
  <2>1. node_sender(target[r]) \in Conns
    BY <1>3, AbsentAssumption DEF GetSender, node_sender, NodeState
  <2> QED BY <1>3, <2>1 DEF GetSender
<1>4. CASE NoSender(r)
  BY <1>4 DEF NoSender
<1>5. CASE RegisterRequest(r)
  BY <1>5 DEF RegisterRequest, register_request
<1>6. CASE SendDispatch(r)
  <2>2. Append(down[via[r]], r) \in Seq(Requests)
    BY <1>6 DEF SendDispatch
  <2>3. down' \in [Conns -> Seq(Requests)]
    BY <1>6, <2>2 DEF SendDispatch
  <2>4. pc' \in [Requests -> PCs] /\ held' \in [Requests -> SUBSET Conns]
    BY <1>6 DEF SendDispatch
  <2> QED BY <1>6, <2>3, <2>4 DEF SendDispatch
<1>7. CASE DispatchFails(r)
  BY <1>7 DEF DispatchFails
<1>8. CASE TakeChunk(r)
  <2>1. events' \in [Requests -> Seq({"TokenChunk", "Done", "Error"})]
    BY <1>8, HeadTailProperties DEF TakeChunk, TakeEvent
  <2>2. got' \in [Requests -> Nat]
    BY <1>8 DEF TakeChunk
  <2> QED BY <1>8, <2>1, <2>2 DEF TakeChunk
<1>9. ASSUME NEW e \in {"Done", "Error"}, NEW a \in {"ok", "error"}, BufferedAnswer(r, e, a)
      PROVE  TypeOK'
  <2>1. events' \in [Requests -> Seq({"TokenChunk", "Done", "Error"})]
    BY <1>9, HeadTailProperties DEF BufferedAnswer, TakeEvent
  <2> QED BY <1>9, <2>1 DEF BufferedAnswer
<1>10. ASSUME NEW e \in {"Done", "Error"}, NEW a \in {"ok", "error"}, StreamAnswer(r, e, a)
       PROVE  TypeOK'
  <2>1. events' \in [Requests -> Seq({"TokenChunk", "Done", "Error"})]
    BY <1>10, HeadTailProperties DEF StreamAnswer, TakeEvent
  <2> QED BY <1>10, <2>1 DEF StreamAnswer
<1>11. CASE ClientLeaves(r)
  <2>1. pc' \in [Requests -> PCs] /\ pending' \in [Requests -> Nodes \cup {Absent}]
    BY <1>11 DEF ClientLeaves
  <2>2. events' \in [Requests -> Seq({"TokenChunk", "Done", "Error"})]
    BY <1>11 DEF ClientLeaves
  <2> QED BY <1>11, <2>1, <2>2 DEF ClientLeaves
<1> QED
  BY <1>1, <1>2, <1>3, <1>4, <1>5, <1>6, <1>7, <1>8, <1>9, <1>10, <1>11
  DEF Handler, Routing, Answering, BufferedOk, BufferedError, StreamOk, StreamError

(* The nodes'. *)
LEMMA NodeKeepsTypes ==
  ASSUME TypeOK,
         (\E n \in Nodes : Node(n)) \/ (\E r \in Requests : NodeChunk(r) \/ NodeFinish(r))
  PROVE  TypeOK'
<1> USE DEF TypeOK
<1>1. ASSUME NEW n \in Nodes, NodeConnect(n) PROVE TypeOK'
  BY <1>1 DEF NodeConnect
<1>2. ASSUME NEW n \in Nodes, NodeStatus(n) PROVE TypeOK'
  <2>1. PICK f \in StatusFrame(n) : Send(n, f)
    BY <1>2 DEF NodeStatus
  <2>2. f \in UpFrame
    BY DEF UpFrame
  <2>3. up' \in [Conns -> Seq(UpFrame)]
    BY <2>1, <2>2, <1>2 DEF NodeStatus, Send
  <2> QED BY <1>2, <2>3 DEF NodeStatus
<1>3. ASSUME NEW n \in Nodes, NodeReceive(n) PROVE TypeOK'
  <2>1. Head(down[link[n]]) \in Requests /\ Tail(down[link[n]]) \in Seq(Requests)
    BY <1>3, HeadTailProperties DEF NodeReceive
  <2>3. job' \in [Requests -> Nodes \cup {Absent}]
    BY <1>3, <2>1 DEF NodeReceive
  <2>4. down' \in [Conns -> Seq(Requests)]
    BY <1>3, <2>1 DEF NodeReceive
  <2> QED BY <1>3, <2>3, <2>4 DEF NodeReceive
<1>4. ASSUME NEW r \in Requests, NodeChunk(r) PROVE TypeOK'
  <2>1. [t |-> "TokenChunk", req |-> r] \in UpFrame
    BY DEF UpFrame, ReportFrame
  <2>2. up' \in [Conns -> Seq(UpFrame)]
    BY <1>4, <2>1 DEF NodeChunk, Send
  <2> QED BY <1>4, <2>2 DEF NodeChunk
<1>5. ASSUME NEW r \in Requests, NodeFinish(r) PROVE TypeOK'
  <2>1. \A t \in {"Done", "Error"} : [t |-> t, req |-> r] \in UpFrame
    BY DEF UpFrame, ReportFrame
  <2>2. up' \in [Conns -> Seq(UpFrame)]
    <3>1. job[r] \in Nodes /\ link[job[r]] \in Conns /\ up \in [Conns -> Seq(UpFrame)]
      BY <1>5 DEF NodeFinish, TypeOK
    <3>2. \E f \in UpFrame : up' = [up EXCEPT ![link[job[r]]] = Append(@, f)]
      BY <1>5, <2>1 DEF NodeFinish, Send
    <3> QED BY <3>1, <3>2
  <2> QED BY <1>5, <2>2 DEF NodeFinish
<1>6. ASSUME NEW n \in Nodes, Cut(n),
             job' \in [Requests -> Nodes \cup {Absent}]
      PROVE  TypeOK'
  <2>1. PICK k \in 0 .. Len(up[link[n]]) : up' = [up EXCEPT ![link[n]] = SubSeq(@, 1, k)]
    BY <1>6 DEF Cut
  <2>2. up' \in [Conns -> Seq(UpFrame)]
    BY <1>6, <2>1, SubSeqProperties DEF Cut
  <2> QED BY <1>6, <2>2 DEF Cut
<1>7. ASSUME NEW n \in Nodes, LinkLost(n) \/ NodeCrash(n) PROVE TypeOK'
  BY <1>6, <1>7 DEF LinkLost, NodeCrash
<1> QED BY <1>1, <1>2, <1>3, <1>4, <1>5, <1>7 DEF Node

\* TypeOK is inductive on its own.
THEOREM TypeCorrect == Spec => []TypeOK
<1>1. Init => TypeOK
  BY DEF Init, TypeOK, PCs, Listening
<1>2. TypeOK /\ [Next]_vars => TypeOK'
  <2> SUFFICES ASSUME TypeOK, [Next]_vars PROVE TypeOK'
    OBVIOUS
  <2>1. CASE UNCHANGED vars
    BY <2>1 DEF TypeOK, vars
  <2> QED
    BY <2>1, ReaderKeepsTypes, WriterKeepsTypes, HandlerKeepsTypes, NodeKeepsTypes DEF Next
<1> QED BY <1>1, <1>2, PTL DEF Spec

-----------------------------------------------------------------------------
(* RegisteredTunnelIsServed is not inductive: a Register could come from    *)
(* another node's tunnel, or a fresh connection could carry an old session. *)
(* What excludes both is that a tunnel only ever speaks for its peer.       *)

FrameOf(n) == {f \in UpFrame : f.t = "Register" => f.node = n}

OwnTunnel ==
  /\ \A c \in Conns : up[c] \in Seq(FrameOf(peer[c]))
  /\ \A c \in Conns : session[c] \in {Absent, peer[c]}
  /\ \A c \in Conns : phase[c] = "unused" => peer[c] = Absent /\ up[c] = <<>>
  /\ \A n \in Nodes : link[n] # Absent => phase[link[n]] # "unused" /\ peer[link[n]] = n

Served == OwnTunnel /\ RegisteredTunnelIsServed

servedVars == <<nodes, phase, session, up, peer, link>>

(* Steps of other variables. *)
LEMMA ServedUnchanged ==
  ASSUME Served, UNCHANGED servedVars
  PROVE  Served'
BY DEF Served, OwnTunnel, RegisteredTunnelIsServed, servedVars

(* Consuming a frame leaves only frames of the peer, and the one taken is too. *)
LEMMA ServedConsume ==
  ASSUME TypeOK, Served, NEW c \in Conns, up[c] # <<>>, Consume(c), UNCHANGED peer
  PROVE  /\ \A d \in Conns : up'[d] \in Seq(FrameOf(peer'[d]))
         /\ Frame(c) \in FrameOf(peer[c])
<1>1. up \in [Conns -> Seq(UpFrame)]
  BY DEF TypeOK
<1>2. up[c] \in Seq(FrameOf(peer[c]))
  BY DEF Served, OwnTunnel
<1>3. Head(up[c]) \in FrameOf(peer[c]) /\ Tail(up[c]) \in Seq(FrameOf(peer[c]))
  BY <1>2, HeadTailProperties
<1> QED BY <1>1, <1>3 DEF Consume, Frame, Served, OwnTunnel

(* The reader registers its own peer only, and takes it out when it ends. *)
LEMMA ReaderKeepsServed ==
  ASSUME TypeOK, Served, NEW c \in Conns, Reader(c)
  PROVE  Served'
<1> USE DEF Reads
<1>1. CASE HandleRegister(c)
  <2> DEFINE n == Frame(c).node
  <2>1. /\ \A d \in Conns : up'[d] \in Seq(FrameOf(peer'[d]))
        /\ Frame(c) \in FrameOf(peer[c])
    BY <1>1, ServedConsume DEF HandleRegister
  <2>2. Frame(c).t = "Register" /\ n \in Nodes /\ n = peer[c]
    BY <1>1, <2>1, FrameFields DEF HandleRegister, FrameOf, Frame
  <2>3. session' = [session EXCEPT ![c] = n] /\ UNCHANGED <<phase, peer, link>>
    BY <1>1 DEF HandleRegister
  <2>4. \A d \in Conns : phase'[d] = "unused" => peer'[d] = Absent /\ up'[d] = <<>>
    BY <1>1, <2>3 DEF HandleRegister, Consume, Served, OwnTunnel, TypeOK
  <2>5. OwnTunnel'
    BY <2>1, <2>2, <2>3, <2>4 DEF Served, OwnTunnel, TypeOK
  <2>6. nodes' = [nodes EXCEPT ![n] = [tx |-> c, ready |-> {}, awake |-> FALSE]]
    BY <1>1 DEF HandleRegister, upsert_node
  <2>7. RegisteredTunnelIsServed'
    <3> SUFFICES ASSUME NEW m \in Nodes, nodes'[m] # Absent
                 PROVE  phase'[nodes'[m].tx] = "reading" /\ session'[nodes'[m].tx] = m
      BY DEF RegisteredTunnelIsServed
    <3>1. CASE m = n
      BY <3>1, <1>1, <2>2, <2>3, <2>6 DEF HandleRegister, TypeOK
    <3>2. CASE m # n
      <4>1. nodes'[m] = nodes[m] /\ nodes[m] # Absent
        BY <3>2, <2>2, <2>6 DEF TypeOK
      <4>2. nodes[m].tx \in Conns
        BY <4>1 DEF TypeOK, NodeState
      <4>3. phase[nodes[m].tx] = "reading" /\ session[nodes[m].tx] = m
        BY <4>1 DEF Served, RegisteredTunnelIsServed
      <4>4. nodes[m].tx # c
        BY <4>3, <2>2, <3>2, AbsentAssumption DEF Served, OwnTunnel
      <4> QED BY <4>1, <4>2, <4>3, <4>4, <2>3 DEF TypeOK
    <3> QED BY <3>1, <3>2
  <2> QED BY <2>5, <2>7 DEF Served
<1>2. ASSUME up[c] # <<>>, phase[c] = "reading", Consume(c),
             UNCHANGED <<phase, session, peer, link>>,
             \A n \in Nodes : nodes'[n] # Absent => nodes[n] # Absent /\ nodes'[n].tx = nodes[n].tx
      PROVE  Served'
  <2>1. \A d \in Conns : up'[d] \in Seq(FrameOf(peer'[d]))
    BY <1>2, ServedConsume
  <2>2. \A d \in Conns : phase'[d] = "unused" => peer'[d] = Absent /\ up'[d] = <<>>
    BY <1>2 DEF Consume, Served, OwnTunnel, TypeOK
  <2>3. OwnTunnel'
    BY <1>2, <2>1, <2>2 DEF Served, OwnTunnel
  <2>4. RegisteredTunnelIsServed'
    BY <1>2 DEF Served, RegisteredTunnelIsServed
  <2> QED BY <2>3, <2>4 DEF Served
<1>4. CASE HandleHeartbeat(c)
  <2>1. Frame(c).node \in Nodes
    BY <1>4, TakeFrame, FrameFields DEF HandleHeartbeat, Frame
  <2>2. \A n \in Nodes : nodes'[n] # Absent => nodes[n] # Absent /\ nodes'[n].tx = nodes[n].tx
    BY <1>4, <2>1 DEF HandleHeartbeat, update_schedule, TypeOK, NodeState
  <2> QED BY <1>4, <2>2, <1>2 DEF HandleHeartbeat
<1>5. CASE HandleModelStatus(c)
  <2>1. Frame(c).node \in Nodes
    BY <1>5, TakeFrame, FrameFields DEF HandleModelStatus, Frame
  <2>2. \A n \in Nodes : nodes'[n] # Absent => nodes[n] # Absent /\ nodes'[n].tx = nodes[n].tx
    BY <1>5, <2>1 DEF HandleModelStatus, update_ready_models, TypeOK, NodeState
  <2> QED BY <1>5, <2>2, <1>2 DEF HandleModelStatus
<1>6. ASSUME NEW t \in {"TokenChunk", "Error"}, HandleRelayed(c, t)
      PROVE  Served'
  BY <1>6, <1>2 DEF HandleRelayed
<1>7. CASE HandleDone(c)
  BY <1>7, <1>2 DEF HandleDone
<1>8. CASE RelayDone(c)
  BY <1>8, ServedUnchanged DEF RelayDone, servedVars
<1>9. CASE CloseTunnel(c)
  <2>1. phase' = [phase EXCEPT ![c] = "draining"] /\ UNCHANGED <<session, up, peer, link>>
    BY <1>9 DEF CloseTunnel
  <2>2. OwnTunnel'
    BY <2>1 DEF Served, OwnTunnel, TypeOK
  <2>3. RegisteredTunnelIsServed'
    <3> SUFFICES ASSUME NEW n \in Nodes, nodes'[n] # Absent
                 PROVE  phase'[nodes'[n].tx] = "reading" /\ session'[nodes'[n].tx] = n
      BY DEF RegisteredTunnelIsServed
    <3>1. nodes'[n] = nodes[n] /\ session[c] # n
      BY <1>9, AbsentAssumption DEF CloseTunnel, remove_node, TypeOK
    <3>2. nodes[n].tx \in Conns
      BY <3>1 DEF TypeOK, NodeState
    <3>3. phase[nodes[n].tx] = "reading" /\ session[nodes[n].tx] = n
      BY <3>1 DEF Served, RegisteredTunnelIsServed
    <3> QED BY <2>1, <3>1, <3>2, <3>3 DEF TypeOK
  <2> QED BY <2>2, <2>3 DEF Served
<1> QED
  BY <1>1, <1>4, <1>5, <1>6, <1>7, <1>8, <1>9
  DEF Reader, HandleTokenChunk, HandleError

(* A frame the node adds is one of its own. *)
LEMMA ServedSend ==
  ASSUME TypeOK, Served, NEW n \in Nodes, link[n] # Absent,
         NEW f \in FrameOf(n), Send(n, f),
         UNCHANGED <<nodes, phase, session, peer, link>>
  PROVE  Served'
<1>1. link[n] \in Conns /\ peer[link[n]] = n /\ phase[link[n]] # "unused"
  BY DEF TypeOK, Served, OwnTunnel
<1>2. up[link[n]] \in Seq(FrameOf(n))
  BY <1>1 DEF Served, OwnTunnel
<1>3. Append(up[link[n]], f) \in Seq(FrameOf(n))
  BY <1>2
<1>4. up' = [up EXCEPT ![link[n]] = Append(up[link[n]], f)]
  BY DEF Send
<1>5. \A c \in Conns : up'[c] \in Seq(FrameOf(peer[c]))
  BY <1>1, <1>3, <1>4 DEF TypeOK, Served, OwnTunnel
<1>6. \A c \in Conns : phase[c] = "unused" => up'[c] = <<>>
  BY <1>1, <1>4 DEF TypeOK, Served, OwnTunnel
<1> QED BY <1>5, <1>6 DEF Served, OwnTunnel, RegisteredTunnelIsServed

(* Nodes send on their own tunnels. *)
LEMMA NodeKeepsServed ==
  ASSUME TypeOK, Served,
         (\E n \in Nodes : Node(n)) \/ (\E r \in Requests : NodeChunk(r) \/ NodeFinish(r))
  PROVE  Served'
<1>1. ASSUME NEW n \in Nodes, NodeConnect(n) PROVE Served'
  <2>1. PICK c \in Conns :
          /\ phase[c] = "unused"
          /\ phase' = [phase EXCEPT ![c] = "reading"]
          /\ peer' = [peer EXCEPT ![c] = n]
          /\ link' = [link EXCEPT ![n] = c]
    BY <1>1 DEF NodeConnect
  <2>2. UNCHANGED <<nodes, session, up>>
    BY <1>1 DEF NodeConnect
  <2>3. peer[c] = Absent /\ up[c] = <<>> /\ session[c] = Absent
    BY <2>1 DEF Served, OwnTunnel
  <2>4. \A d \in Conns : up'[d] \in Seq(FrameOf(peer'[d]))
    BY <2>1, <2>2, <2>3 DEF TypeOK, Served, OwnTunnel
  <2>5. \A m \in Nodes : link'[m] # Absent => phase'[link'[m]] # "unused" /\ peer'[link'[m]] = m
    BY <2>1 DEF TypeOK, Served, OwnTunnel
  <2>6. OwnTunnel'
    BY <2>1, <2>2, <2>3, <2>4, <2>5 DEF TypeOK, Served, OwnTunnel
  <2>7. RegisteredTunnelIsServed'
    BY <2>1, <2>2 DEF TypeOK, NodeState, Served, RegisteredTunnelIsServed
  <2> QED BY <2>6, <2>7 DEF Served
<1>2. ASSUME NEW n \in Nodes, NodeStatus(n) PROVE Served'
  <2>1. PICK f \in StatusFrame(n) : Send(n, f)
    BY <1>2 DEF NodeStatus
  <2>2. f \in FrameOf(n)
    BY DEF FrameOf, UpFrame, StatusFrame
  <2> QED BY <1>2, <2>1, <2>2, ServedSend DEF NodeStatus
<1>3. ASSUME NEW n \in Nodes, NodeReceive(n) PROVE Served'
  BY <1>3, ServedUnchanged DEF NodeReceive, servedVars
<1>4. ASSUME NEW r \in Requests, NEW n \in Nodes, NEW t \in {"TokenChunk", "Done", "Error"}
      PROVE  [t |-> t, req |-> r] \in FrameOf(n)
  BY DEF FrameOf, UpFrame, ReportFrame
<1>5. ASSUME NEW r \in Requests, NodeChunk(r) PROVE Served'
  <2>1. job[r] \in Nodes
    BY <1>5 DEF NodeChunk, TypeOK
  <2> QED BY <1>4, <1>5, <2>1, ServedSend DEF NodeChunk
<1>6. ASSUME NEW r \in Requests, NodeFinish(r) PROVE Served'
  <2>1. job[r] \in Nodes
    BY <1>6 DEF NodeFinish, TypeOK
  <2>2. PICK t \in {"Done", "Error"} : Send(job[r], [t |-> t, req |-> r])
    BY <1>6 DEF NodeFinish
  <2> QED BY <1>4, <1>6, <2>1, <2>2, ServedSend DEF NodeFinish
<1>7. ASSUME NEW n \in Nodes, Cut(n) PROVE Served'
  <2>1. PICK k \in 0 .. Len(up[link[n]]) : up' = [up EXCEPT ![link[n]] = SubSeq(@, 1, k)]
    BY <1>7 DEF Cut
  <2>2. link[n] \in Conns /\ phase[link[n]] # "unused" /\ up[link[n]] \in Seq(FrameOf(peer[link[n]]))
    BY <1>7 DEF Cut, TypeOK, Served, OwnTunnel
  <2>3. SubSeq(up[link[n]], 1, k) \in Seq(FrameOf(peer[link[n]]))
    BY <2>2, SubSeqProperties
  <2>4. UNCHANGED <<nodes, phase, session, peer>> /\ link' = [link EXCEPT ![n] = Absent]
    BY <1>7 DEF Cut
  <2>5. \A c \in Conns : up'[c] \in Seq(FrameOf(peer'[c]))
    BY <2>1, <2>2, <2>3, <2>4 DEF TypeOK, Served, OwnTunnel
  <2>6. \A c \in Conns : phase[c] = "unused" => up'[c] = <<>>
    BY <2>1, <2>2 DEF TypeOK, Served, OwnTunnel
  <2> QED BY <2>4, <2>5, <2>6 DEF TypeOK, Served, OwnTunnel, RegisteredTunnelIsServed
<1>8. ASSUME NEW n \in Nodes, LinkLost(n) \/ NodeCrash(n) PROVE Served'
  BY <1>7, <1>8 DEF LinkLost, NodeCrash
<1> QED BY <1>1, <1>2, <1>3, <1>5, <1>6, <1>8 DEF Node

(* Writers and handlers touch none of it. *)
LEMMA TasksKeepServed ==
  ASSUME Served,
         \/ \E c \in Conns : Writer(c)
         \/ \E r \in Requests : Handler(r) \/ ClientLeaves(r)
  PROVE  Served'
<1>1. UNCHANGED servedVars
  BY DEF servedVars, Writer, WriterLoses, WriterFails, WriterEnds, Handler, PickNode, PickNone,
         Routing, GetSender, NoSender, RegisterRequest, SendDispatch, DispatchFails,
         Answering, TakeChunk, BufferedOk, BufferedError, BufferedAnswer,
         StreamOk, StreamError, StreamAnswer, ClientLeaves
<1> QED BY <1>1, ServedUnchanged

\* A tunnel only ever speaks for its peer, and the registry only names tunnels
\* whose readers run.
THEOREM ServedKept == Spec => []Served
<1>1. Init => Served
  BY DEF Init, Served, OwnTunnel, RegisteredTunnelIsServed
<1>2. TypeOK /\ Served /\ [Next]_vars => Served'
  <2> SUFFICES ASSUME TypeOK, Served, [Next]_vars PROVE Served'
    OBVIOUS
  <2>1. CASE UNCHANGED vars
    BY <2>1, ServedUnchanged DEF vars, servedVars
  <2> QED BY <2>1, ReaderKeepsServed, NodeKeepsServed, TasksKeepServed DEF Next
<1> QED BY <1>1, <1>2, TypeCorrect, PTL DEF Spec

\* The registry never holds a node whose tunnel's reader has ended, nor under
\* another node's name: what handle_socket's end and upsert_node keep up between
\* them, across any number of reconnects.
THEOREM RegisteredTunnelsAreServed == Spec => []RegisteredTunnelIsServed
BY ServedKept, PTL DEF Served

-----------------------------------------------------------------------------
(* A request's entry in the pending map: made by its handler, kept as long  *)
(* as it listens, gone when it closes.  Only an abandoned one stays.        *)

Channel ==
  /\ \A r \in Requests : pc[r] \in {"new", "picked", "ready"} => pending[r] = Absent
  /\ WaitingHasChannel
  /\ ClosedIsForgotten

channelVars == <<pc, pending, target>>

(* Steps of other variables. *)
LEMMA ChannelUnchanged ==
  ASSUME Channel, UNCHANGED channelVars
  PROVE  Channel'
BY DEF Channel, WaitingHasChannel, ClosedIsForgotten, channelVars

(* The handler makes its entry, and completes it on every way out. *)
LEMMA HandlerKeepsChannel ==
  ASSUME TypeOK, Channel, NEW r \in Requests, Handler(r) \/ ClientLeaves(r)
  PROVE  Channel'
<1> USE DEF Channel, WaitingHasChannel, ClosedIsForgotten, TypeOK, Listening,
            Return, complete_request
<1>1. CASE PickNode(r)
  <2>1. PICK n \in Nodes : target' = [target EXCEPT ![r] = n]
    BY <1>1 DEF PickNode
  <2> QED BY <1>1, <2>1 DEF PickNode
<1>2. CASE PickNone(r)
  BY <1>2 DEF PickNone
<1>3. CASE GetSender(r)
  BY <1>3 DEF GetSender
<1>4. CASE NoSender(r)
  BY <1>4 DEF NoSender
<1>5. CASE RegisterRequest(r)
  BY <1>5 DEF RegisterRequest, register_request
<1>6. CASE SendDispatch(r)
  BY <1>6 DEF SendDispatch
<1>7. CASE DispatchFails(r)
  BY <1>7 DEF DispatchFails
<1>8. CASE TakeChunk(r) \/ StreamOk(r) \/ StreamError(r)
  <2>1. UNCHANGED channelVars
    BY <1>8 DEF TakeChunk, StreamOk, StreamError, StreamAnswer, channelVars
  <2> QED BY <2>1, ChannelUnchanged
<1>10. CASE BufferedOk(r) \/ BufferedError(r)
  <2>1. /\ pending' = [pending EXCEPT ![r] = Absent]
        /\ pc' = [pc EXCEPT ![r] = "closed"]
        /\ target' = target
    BY <1>10 DEF BufferedOk, BufferedError, BufferedAnswer
  <2> QED BY <2>1
<1>9. CASE ClientLeaves(r)
  <2>1. target' = target
    BY <1>9 DEF ClientLeaves
  <2>2. CASE pc[r] = "streaming"
    <3>1. pending' = [pending EXCEPT ![r] = Absent] /\ pc' = [pc EXCEPT ![r] = "closed"]
      BY <1>9, <2>2 DEF ClientLeaves
    <3> QED BY <2>1, <3>1
  <2>3. CASE pc[r] = "buffering"
    <3>1. pending' = pending /\ pc' = [pc EXCEPT ![r] = "abandoned"]
      BY <1>9, <2>3 DEF ClientLeaves
    <3> QED BY <2>1, <3>1
  <2> QED BY <1>9, <2>2, <2>3 DEF ClientLeaves
<1> QED BY <1>1, <1>2, <1>3, <1>4, <1>5, <1>6, <1>7, <1>8, <1>9, <1>10
  DEF Handler, Routing, Answering

(* Tunnels and nodes only read it. *)
LEMMA TunnelsKeepChannel ==
  ASSUME Channel,
         \/ \E c \in Conns : Reader(c) \/ Writer(c)
         \/ \E r \in Requests : NodeChunk(r) \/ NodeFinish(r)
         \/ \E n \in Nodes : Node(n)
  PROVE  Channel'
<1>1. UNCHANGED channelVars
  BY DEF channelVars, Reader, HandleRegister, HandleHeartbeat,
         HandleModelStatus, HandleTokenChunk, HandleError, HandleRelayed, HandleDone,
         get_pending, RelayDone, CloseTunnel, Writer, WriterLoses, WriterFails, WriterEnds,
         NodeChunk, NodeFinish, Node, NodeConnect, NodeStatus, NodeReceive,
         LinkLost, NodeCrash, Cut
<1> QED BY <1>1, ChannelUnchanged

\* The entry of a request lives exactly as long as its handler listens.
THEOREM ChannelKept == Spec => []Channel
<1>1. Init => Channel
  BY DEF Init, Channel, WaitingHasChannel, ClosedIsForgotten, Listening
<1>2. TypeOK /\ Channel /\ [Next]_vars => Channel'
  <2> SUFFICES ASSUME TypeOK, Channel, [Next]_vars PROVE Channel'
    OBVIOUS
  <2>1. CASE UNCHANGED vars
    BY <2>1, ChannelUnchanged DEF vars, channelVars
  <2> QED BY <2>1, HandlerKeepsChannel, TunnelsKeepChannel DEF Next
<1> QED BY <1>1, <1>2, TypeCorrect, PTL DEF Spec

\* While a handler listens for events, its channel is in the registry under the
\* node it was routed to: dispatch_event finds it.
THEOREM WaitingHandlersHaveChannels == Spec => []WaitingHasChannel
BY ChannelKept, PTL DEF Channel

\* No handler that returned, and no dropped stream, leaves an entry behind.
THEOREM ClosedHandlersAreForgotten == Spec => []ClosedIsForgotten
BY ChannelKept, PTL DEF Channel
-----------------------------------------------------------------------------
(* Queues: whether an element of F is in one, and that there is one at most. *)

Occurs(s, F) == \E i \in 1 .. Len(s) : s[i] \in F

AtMostOnce(s, F) == \A i, j \in 1 .. Len(s) : s[i] \in F /\ s[j] \in F => i = j

(* Nothing occurs in an empty queue. *)
LEMMA EmptyQueue ==
  ASSUME NEW F
  PROVE  ~Occurs(<<>>, F) /\ AtMostOnce(<<>>, F)
BY DEF Occurs, AtMostOnce

(* What Append adds to a queue. *)
LEMMA OccursAppend ==
  ASSUME NEW S, NEW s \in Seq(S), NEW e \in S, NEW F
  PROVE  /\ Occurs(Append(s, e), F) <=> Occurs(s, F) \/ e \in F
         /\ AtMostOnce(s, F) /\ ~(Occurs(s, F) /\ e \in F) => AtMostOnce(Append(s, e), F)
<1> DEFINE t == Append(s, e)
<1>1. /\ Len(t) = Len(s) + 1 /\ Len(s) \in Nat
      /\ \A i \in 1 .. Len(s) : t[i] = s[i]
      /\ t[Len(s) + 1] = e
  BY AppendProperties, LenProperties
<1> HIDE DEF t
<1>2. \A i \in 1 .. Len(t) : i \in 1 .. Len(s) \/ i = Len(s) + 1
  BY <1>1
<1>3. Len(s) + 1 \in 1 .. Len(t) /\ \A i \in 1 .. Len(s) : i \in 1 .. Len(t)
  BY <1>1
<1>4. Occurs(t, F) <=> Occurs(s, F) \/ e \in F
  BY <1>1, <1>2, <1>3 DEF Occurs
<1>5. AtMostOnce(s, F) /\ ~(Occurs(s, F) /\ e \in F) => AtMostOnce(t, F)
  BY <1>1, <1>2 DEF Occurs, AtMostOnce
<1> QED BY <1>4, <1>5 DEF t

(* What Tail takes from a queue. *)
LEMMA OccursTail ==
  ASSUME NEW S, NEW s \in Seq(S), s # <<>>, NEW F
  PROVE  /\ Occurs(s, F) <=> Head(s) \in F \/ Occurs(Tail(s), F)
         /\ AtMostOnce(s, F) => AtMostOnce(Tail(s), F)
         /\ AtMostOnce(s, F) /\ Head(s) \in F => ~Occurs(Tail(s), F)
<1>1. /\ Len(s) \in Nat /\ Len(s) >= 1
      /\ Len(Tail(s)) = Len(s) - 1
      /\ \A i \in 1 .. Len(Tail(s)) : Tail(s)[i] = s[i + 1]
      /\ Head(s) = s[1]
  BY HeadTailProperties, LenProperties, EmptySeq
<1>2. \A i \in 1 .. Len(Tail(s)) : i + 1 \in 1 .. Len(s) /\ i + 1 # 1
  BY <1>1
<1>3. \A i \in 1 .. Len(s) : i = 1 \/ (i - 1 \in 1 .. Len(Tail(s)) /\ s[i] = Tail(s)[i - 1])
  <2>1. \A i \in 1 .. Len(s) : i = 1 \/ (i - 1 \in 1 .. Len(Tail(s)) /\ (i - 1) + 1 = i)
    BY <1>1
  <2> QED BY <2>1, <1>1
<1>4. Occurs(s, F) <=> Head(s) \in F \/ Occurs(Tail(s), F)
  <2>1. 1 \in 1 .. Len(s)
    BY <1>1
  <2> QED BY <2>1, <1>1, <1>2, <1>3 DEF Occurs
<1>5. AtMostOnce(s, F) => AtMostOnce(Tail(s), F)
  <2> SUFFICES ASSUME AtMostOnce(s, F), NEW i \in 1 .. Len(Tail(s)), NEW j \in 1 .. Len(Tail(s)),
                      Tail(s)[i] \in F, Tail(s)[j] \in F
               PROVE  i = j
    BY DEF AtMostOnce
  <2>1. i + 1 = j + 1
    BY <1>1, <1>2 DEF AtMostOnce
  <2> QED BY <2>1
<1>6. AtMostOnce(s, F) /\ Head(s) \in F => ~Occurs(Tail(s), F)
  <2>1. 1 \in 1 .. Len(s)
    BY <1>1
  <2> QED BY <2>1, <1>1, <1>2 DEF Occurs, AtMostOnce
<1> QED BY <1>4, <1>5, <1>6

(* A prefix of a queue has nothing new. *)
LEMMA OccursPrefix ==
  ASSUME NEW S, NEW s \in Seq(S), NEW k \in 0 .. Len(s), NEW F
  PROVE  /\ SubSeq(s, 1, k) \in Seq(S)
         /\ Occurs(SubSeq(s, 1, k), F) => Occurs(s, F)
         /\ AtMostOnce(s, F) => AtMostOnce(SubSeq(s, 1, k), F)
<1>1. Len(s) \in Nat /\ \A i \in 1 .. k : i \in 1 .. Len(s) /\ s[i] \in S
  BY LenProperties, ElementOfSeq
<1>2. /\ SubSeq(s, 1, k) \in Seq(S)
      /\ Len(SubSeq(s, 1, k)) = k
      /\ \A i \in 1 .. k : SubSeq(s, 1, k)[i] = s[i]
  <2>1. \A i \in 1 .. k : s[i] \in S
    BY <1>1
  <2>2. k \in Int /\ 1 \in Int /\ k - 1 + 1 = k /\ \A i \in 1 .. k : 1 + i - 1 = i
    OBVIOUS
  <2>3. /\ SubSeq(s,1,k) \in Seq(S)
        /\ Len(SubSeq(s,1,k)) = IF 1<=k THEN k-1+1 ELSE 0
        /\ \A i \in 1 .. k-1+1 : SubSeq(s,1,k)[i] = s[1+i-1]
    BY <2>1, <2>2, SubSeqProperties
  <2> QED BY <2>2, <2>3
<1> QED BY <1>1, <1>2 DEF Occurs, AtMostOnce

-----------------------------------------------------------------------------
(* CreditMatchesReply is far from inductive: that a Done finds its request  *)
(* unpaid and its client without an answer rests on where the answer was in *)
(* every earlier state.  Each request's answer is a token: it waits in a    *)
(* tunnel as a dispatch, is a node's job, travels back as a Done or Error,  *)
(* is in the hands of a reader between its two registry calls, waits in the *)
(* handler's channel, and is told to the client, or is lost on the way.  At *)
(* most one of these holds, in at most one place, and the posting is made   *)
(* between the third and the fifth.                                         *)

Finals == {"Done", "Error"}

\* The Done and the Error of a request.
Endings(r) == [t: Finals, req: {r}]

\* A request's answer is asked for, or on its way back, in a tunnel's queue.
Asked(r, c) == Occurs(down[c], {r})
Ended(r, c) == Occurs(up[c], Endings(r))
Told(r) == Occurs(events[r], Finals)

\* The handler has not sent its dispatch.
Early == {"new", "picked", "ready", "dispatching"}

\* In each place, at most one of it.
OnceEach(r) ==
  /\ AtMostOnce(events[r], Finals)
  /\ \A c \in Conns : AtMostOnce(down[c], {r}) /\ AtMostOnce(up[c], Endings(r))
  /\ \A c, d \in Conns :
       \/ Asked(r, c) /\ Asked(r, d)
       \/ Ended(r, c) /\ Ended(r, d)
       \/ handling[c] = r /\ handling[d] = r
       => c = d

\* At most one place: none before or after the one it is at.
OnePlace(r) ==
  \A c, d \in Conns :
    /\ Asked(r, c) => job[r] = Absent
    /\ Asked(r, c) \/ job[r] # Absent => ~Ended(r, d)
    /\ Asked(r, c) \/ job[r] # Absent \/ Ended(r, c) => handling[d] # r
    /\ Asked(r, c) \/ job[r] # Absent \/ Ended(r, c) \/ handling[c] = r => ~Told(r)
    /\ Asked(r, c) \/ job[r] # Absent \/ Ended(r, c) \/ handling[c] = r \/ Told(r) => reply[r] = "none"

\* None before the dispatch, nor after a refusal.
Unsent(r) ==
  pc[r] \in Early \/ reply[r] = "unavailable" =>
    /\ \A c \in Conns : ~Asked(r, c) /\ ~Ended(r, c) /\ handling[c] # r
    /\ job[r] = Absent /\ ~Told(r) /\ credited[r] = 0

\* What the client was told goes with where the handler is.
Replies(r) ==
  /\ pc[r] \in Early \cup {"buffering", "abandoned"} => reply[r] = "none"
  /\ reply[r] = "unavailable" => pc[r] = "closed"

\* The posting is made when a reader takes the Done, while the entry is there.
Paid(r) ==
  /\ \A c \in Conns : Asked(r, c) \/ job[r] # Absent \/ Ended(r, c) => credited[r] = 0
  /\ \A c \in Conns : handling[c] = r /\ pending[r] # Absent => credited[r] = 1
  /\ Occurs(events[r], {"Done"}) => credited[r] = 1
  /\ Occurs(events[r], {"Error"}) => credited[r] = 0
  /\ credited[r] <= 1
  /\ reply[r] = "ok" => credited[r] = 1
  /\ reply[r] \in {"error", "unavailable"} => credited[r] = 0

OneAnswer(r) == OnceEach(r) /\ OnePlace(r) /\ Unsent(r) /\ Replies(r) /\ Paid(r)

OneAnswerEach == \A r \in Requests : OneAnswer(r)

(* A final event is a Done or an Error. *)
LEMMA FinalIsEither ==
  ASSUME NEW s
  PROVE  Occurs(s, Finals) <=> Occurs(s, {"Done"}) \/ Occurs(s, {"Error"})
BY DEF Occurs, Finals

\* The tunnels' part of OneAnswer.
Fewer(r) ==
  /\ \A c \in Conns :
       /\ Asked(r, c)' => Asked(r, c)
       /\ Ended(r, c)' => Ended(r, c)
       /\ handling'[c] = r => handling[c] = r
       /\ AtMostOnce(down'[c], {r})
       /\ AtMostOnce(up'[c], Endings(r))
  /\ job'[r] \in {Absent, job[r]}
  /\ pending'[r] \in {Absent, pending[r]} \/ pc[r] \in Early

\* The channel's part of it.
FewerEvents(r) ==
  /\ AtMostOnce(events'[r], Finals)
  /\ \A e \in Finals : Occurs(events'[r], {e}) => Occurs(events[r], {e})

(* A step that loses parts of the answer at most, and tells nothing. *)
LEMMA QuietStep ==
  ASSUME NEW r \in Requests, OneAnswer(r), Fewer(r), FewerEvents(r),
         credited'[r] = credited[r], reply'[r] = reply[r],
         pc'[r] \in Early => pc[r] \in Early,
         pc'[r] \in {"buffering", "abandoned"} => pc[r] \in Early \cup {"buffering", "abandoned"},
         pc[r] = "closed" => pc'[r] = "closed"
  PROVE  OneAnswer(r)'
<1> USE DEF OneAnswer
<1>0. Told(r)' => Told(r)
  BY FinalIsEither DEF Told, FewerEvents, Finals
<1>1. OnceEach(r)'
  BY DEF OnceEach, Fewer, FewerEvents
<1>2. OnePlace(r)'
  BY <1>0 DEF OnePlace, Fewer
<1>3. Unsent(r)'
  BY <1>0 DEF Unsent, Fewer, Replies
<1>4. Replies(r)'
  BY DEF Replies
<1>5. Paid(r)'
  BY <1>0 DEF Paid, Fewer, FewerEvents, Finals, Unsent
<1> QED BY <1>1, <1>2, <1>3, <1>4, <1>5

(* The frames that end a request. *)
LEMMA EndingFrames ==
  ASSUME NEW f \in UpFrame, NEW r \in Requests
  PROVE  f \in Endings(r) <=> f.t \in Finals /\ f.req = r
BY DEF Endings, Finals, UpFrame, StatusFrame, ReportFrame

(* Consuming a frame takes at most the one answer of a request out of the queues. *)
LEMMA ConsumeEndings ==
  ASSUME TypeOK, NEW c \in Conns, up[c] # <<>>, Consume(c), NEW r \in Requests, OnceEach(r)
  PROVE  /\ \A d \in Conns : (Ended(r, d)' => Ended(r, d)) /\ AtMostOnce(up'[d], Endings(r))
         /\ Frame(c) \in Endings(r) => Ended(r, c) /\ \A d \in Conns : ~Ended(r, d)'
<1>1. up[c] \in Seq(UpFrame) /\ up' = [up EXCEPT ![c] = Tail(up[c])] /\ up \in [Conns -> Seq(UpFrame)]
  BY DEF TypeOK, Consume
<1>2. /\ Occurs(up[c], Endings(r)) <=> Head(up[c]) \in Endings(r) \/ Occurs(Tail(up[c]), Endings(r))
      /\ AtMostOnce(up[c], Endings(r)) => AtMostOnce(Tail(up[c]), Endings(r))
      /\ AtMostOnce(up[c], Endings(r)) /\ Head(up[c]) \in Endings(r) => ~Occurs(Tail(up[c]), Endings(r))
  BY <1>1, OccursTail
<1>3. \A d \in Conns : up'[d] = IF d = c THEN Tail(up[c]) ELSE up[d]
  BY <1>1
<1> QED BY <1>2, <1>3 DEF OnceEach, Ended, Frame

(* Adding a frame that ends nothing leaves the answers in the queues as they are. *)
LEMMA AppendFrame ==
  ASSUME TypeOK, NEW n \in Nodes, link[n] # Absent, NEW f \in UpFrame, Send(n, f),
         NEW r \in Requests, OnceEach(r)
  PROVE  /\ \A d \in Conns : Ended(r, d)' <=> Ended(r, d) \/ (d = link[n] /\ f \in Endings(r))
         /\ f \notin Endings(r) \/ (\A d \in Conns : ~Ended(r, d))
              => \A d \in Conns : AtMostOnce(up'[d], Endings(r))
<1> DEFINE c == link[n]
<1>1. c \in Conns /\ up[c] \in Seq(UpFrame) /\ up' = [up EXCEPT ![c] = Append(up[c], f)]
      /\ up \in [Conns -> Seq(UpFrame)]
  BY DEF TypeOK, Send
<1> HIDE DEF c
<1>2. /\ Occurs(Append(up[c], f), Endings(r)) <=> Occurs(up[c], Endings(r)) \/ f \in Endings(r)
      /\ AtMostOnce(up[c], Endings(r)) /\ ~(Occurs(up[c], Endings(r)) /\ f \in Endings(r))
         => AtMostOnce(Append(up[c], f), Endings(r))
  BY <1>1, OccursAppend
<1>3. \A d \in Conns : up'[d] = IF d = c THEN Append(up[c], f) ELSE up[d]
  BY <1>1
<1> QED BY <1>1, <1>2, <1>3 DEF OnceEach, Ended, c

(* Taking the next event, or adding one, moves at most one final event. *)
LEMMA TailEvents ==
  ASSUME TypeOK, NEW r \in Requests, events[r] # <<>>, events' = [events EXCEPT ![r] = Tail(@)],
         NEW q \in Requests, OnceEach(q)
  PROVE  /\ FewerEvents(q)
         /\ q = r /\ Head(events[r]) \in Finals => Told(r) /\ ~Told(r)'
         /\ \A e \in Finals : Head(events[r]) = e => Occurs(events[r], {e})
<1> DEFINE E == {"TokenChunk", "Done", "Error"}
<1>1. events[r] \in Seq(E) /\ events \in [Requests -> Seq(E)]
  BY DEF TypeOK
<1>2. \A F : /\ Occurs(events[r], F) <=> Head(events[r]) \in F \/ Occurs(Tail(events[r]), F)
             /\ AtMostOnce(events[r], F) => AtMostOnce(Tail(events[r]), F)
             /\ AtMostOnce(events[r], F) /\ Head(events[r]) \in F => ~Occurs(Tail(events[r]), F)
  BY <1>1, OccursTail
<1>3. \A p \in Requests : events'[p] = IF p = r THEN Tail(events[r]) ELSE events[p]
  BY <1>1
<1> QED BY <1>2, <1>3 DEF OnceEach, FewerEvents, Told

(* Relaying an event adds it to its request's channel, or to none. *)
LEMMA DispatchEvents ==
  ASSUME TypeOK, NEW r \in Requests, NEW e \in {"TokenChunk", "Done", "Error"}, dispatch_event(r, e),
         NEW q \in Requests, OnceEach(q)
  PROVE  /\ q # r \/ e = "TokenChunk" => FewerEvents(q)
         /\ \A f \in Finals : Occurs(events'[q], {f}) =>
              Occurs(events[q], {f}) \/ (q = r /\ f = e /\ pending[r] # Absent)
         /\ ~Told(q) => AtMostOnce(events'[q], Finals)
<1> DEFINE E == {"TokenChunk", "Done", "Error"}
<1>1. events[r] \in Seq(E) /\ events \in [Requests -> Seq(E)]
  BY DEF TypeOK
<1>2. \A F : /\ Occurs(Append(events[r], e), F) <=> Occurs(events[r], F) \/ e \in F
             /\ AtMostOnce(events[r], F) /\ ~(Occurs(events[r], F) /\ e \in F)
                => AtMostOnce(Append(events[r], e), F)
  BY <1>1, OccursAppend
<1>3. CASE events' = events
  BY <1>3 DEF OnceEach, FewerEvents
<1>4. CASE events' # events
  <2>1. pending[r] # Absent /\ events' = [events EXCEPT ![r] = Append(events[r], e)]
    BY <1>4 DEF dispatch_event
  <2>2. \A p \in Requests : events'[p] = IF p = r THEN Append(events[r], e) ELSE events[p]
    BY <1>1, <2>1
  <2> QED BY <1>2, <2>1, <2>2 DEF OnceEach, FewerEvents, Told, Finals
<1> QED BY <1>3, <1>4

(* The reader moves the answer from its queue to the channel, in one step or two. *)
LEMMA ReaderKeepsOneAnswer ==
  ASSUME TypeOK, NEW c \in Conns, Reader(c), NEW q \in Requests, OneAnswer(q)
  PROVE  OneAnswer(q)'
<1> USE DEF Reads
<1>0. OnceEach(q)
  BY DEF OneAnswer
<1>a. ASSUME up[c] # <<>>, Consume(c), UNCHANGED <<handling, down, job, pending>>
      PROVE  Fewer(q)
  BY <1>0, <1>a, ConsumeEndings DEF Fewer, Asked, OnceEach
<1>b. ASSUME UNCHANGED events PROVE FewerEvents(q)
  BY <1>0, <1>b DEF FewerEvents, OnceEach
<1>1. CASE HandleRegister(c) \/ HandleHeartbeat(c) \/ HandleModelStatus(c)
  BY <1>1, <1>a, <1>b, QuietStep DEF HandleRegister, HandleHeartbeat, HandleModelStatus
<1>2. CASE HandleTokenChunk(c)
  <2>1. Frame(c).req \in Requests
    BY <1>2, TakeFrame, FrameFields DEF HandleTokenChunk, HandleRelayed, Frame
  <2>2. FewerEvents(q)
    BY <1>0, <1>2, <2>1, DispatchEvents DEF HandleTokenChunk, HandleRelayed
  <2> QED BY <1>2, <2>2, <1>a, QuietStep DEF HandleTokenChunk, HandleRelayed
<1>3. ASSUME NEW t \in Finals, Reads(c, t), Consume(c)
      PROVE  /\ Frame(c).req \in Requests
             /\ q = Frame(c).req => Ended(q, c) /\ \A d \in Conns : ~Ended(q, d)'
             /\ \A d \in Conns : Ended(q, d)' => Ended(q, d)
             /\ \A d \in Conns : AtMostOnce(up'[d], Endings(q))
  <2>1. Frame(c) \in UpFrame /\ Frame(c).req \in Requests /\ Frame(c).t = t
    BY <1>3, TakeFrame, FrameFields DEF Frame, Finals
  <2>2. q = Frame(c).req => Frame(c) \in Endings(q)
    BY <2>1, EndingFrames
  <2> QED BY <1>0, <1>3, <2>1, <2>2, ConsumeEndings
<1>4. CASE HandleError(c)
  <2> DEFINE r == Frame(c).req
  <2>1. /\ Reads(c, "Error") /\ Consume(c) /\ dispatch_event(r, "Error")
        /\ UNCHANGED <<handling, down, job, pending, credited, reply, pc>>
    BY <1>4 DEF HandleError, HandleRelayed
  <2>2. r \in Requests
    BY <1>3, <2>1 DEF Finals
  <2>3. CASE q # r
    <3>1. FewerEvents(q)
      BY <1>0, <2>1, <2>2, <2>3, DispatchEvents
    <3> QED BY <2>1, <3>1, <1>a, QuietStep
  <2>4. CASE q = r
    <3>1. Ended(q, c) /\ (\A d \in Conns : ~Ended(q, d)')
          /\ \A d \in Conns : AtMostOnce(up'[d], Endings(q))
      BY <1>3, <2>1, <2>4 DEF Finals
    <3>2. credited[q] = 0 /\ job[q] = Absent /\ ~Told(q) /\ reply[q] = "none" /\ pc[q] \notin Early
          /\ \A d \in Conns : ~Asked(q, d) /\ handling[d] # q
      BY <3>1 DEF OneAnswer, OnePlace, Paid, Unsent
    <3>3. /\ AtMostOnce(events'[q], Finals)
          /\ \A f \in Finals : Occurs(events'[q], {f}) => Occurs(events[q], {f}) \/ f = "Error"
      BY <1>0, <2>1, <2>2, <3>2, DispatchEvents
    <3>4. ~Occurs(events'[q], {"Done"})
      BY <3>2, <3>3, FinalIsEither DEF Told, Finals
    <3>5. \A d \in Conns : ~Asked(q, d)' /\ handling'[d] # q /\ AtMostOnce(down'[d], {q})
      BY <2>1, <3>2, <1>0 DEF Asked, OnceEach
    <3>6. UNCHANGED <<job, credited, reply, pc>>
      BY <2>1
    <3>7. OnceEach(q)'
      BY <3>1, <3>3, <3>5 DEF OnceEach
    <3>8. OnePlace(q)'
      BY <3>1, <3>2, <3>5, <3>6 DEF OnePlace
    <3>9. Paid(q)'
      BY <3>1, <3>2, <3>4, <3>5, <3>6 DEF Paid
    <3>10. Unsent(q)' /\ Replies(q)'
      BY <3>2, <3>6 DEF OneAnswer, Unsent, Replies
    <3> QED BY <3>7, <3>8, <3>9, <3>10 DEF OneAnswer
  <2> QED BY <2>3, <2>4
<1>5. CASE HandleDone(c)
  <2> DEFINE r == Frame(c).req
  <2>1. /\ Reads(c, "Done") /\ Consume(c) /\ post_delivery(r)
        /\ handling' = [handling EXCEPT ![c] = r]
        /\ UNCHANGED <<down, job, pending, events, reply, pc>>
    BY <1>5 DEF HandleDone, get_pending
  <2>2. r \in Requests
    BY <1>3, <2>1 DEF Finals
  <2>3. /\ credited \in [Requests -> Nat] /\ handling \in [Conns -> Requests \cup {Absent}]
        /\ handling[c] = Absent
    BY <2>1 DEF TypeOK
  <2>a. \A d \in Conns : handling'[d] = IF d = c THEN r ELSE handling[d]
    BY <2>1, <2>3
  <2>4. CASE q # r
    <3>1. Fewer(q)
      BY <1>0, <1>3, <2>1, <2>a, <2>4 DEF Fewer, Asked, OnceEach, Finals
    <3>2. credited'[q] = credited[q]
      BY <2>1, <2>2, <2>3, <2>4 DEF post_delivery
    <3> QED BY <2>1, <3>1, <3>2, <1>b, QuietStep
  <2>5. CASE q = r
    <3>1. Ended(q, c) /\ (\A d \in Conns : ~Ended(q, d)')
          /\ \A d \in Conns : AtMostOnce(up'[d], Endings(q))
      BY <1>3, <2>1, <2>5 DEF Finals
    <3>2. credited[q] = 0 /\ job[q] = Absent /\ ~Told(q) /\ reply[q] = "none" /\ pc[q] \notin Early
          /\ \A d \in Conns : ~Asked(q, d) /\ handling[d] # q
      BY <3>1 DEF OneAnswer, OnePlace, Paid, Unsent
    <3>3. credited'[q] = IF pending[q] = Absent THEN 0 ELSE 1
      BY <2>1, <2>2, <2>3, <2>5, <3>2 DEF post_delivery
    <3>4. \A d \in Conns : /\ ~Asked(q, d)' /\ AtMostOnce(down'[d], {q})
                           /\ handling'[d] = q => d = c
      BY <2>1, <2>a, <3>2, <1>0 DEF Asked, OnceEach
    <3>5. ~Told(q)' /\ ~Occurs(events'[q], {"Done"}) /\ ~Occurs(events'[q], {"Error"})
      BY <2>1, <3>2, FinalIsEither DEF Told
    <3>6. UNCHANGED <<job, reply, pc, pending, events>>
      BY <2>1
    <3>7. OnceEach(q)'
      BY <3>1, <3>4, <3>6, <1>0 DEF OnceEach
    <3>8. OnePlace(q)'
      BY <3>1, <3>2, <3>4, <3>5, <3>6 DEF OnePlace
    <3>9. Paid(q)'
      BY <3>1, <3>2, <3>3, <3>4, <3>5, <3>6 DEF Paid
    <3>10. Unsent(q)' /\ Replies(q)'
      BY <3>2, <3>6 DEF OneAnswer, Unsent, Replies
    <3> QED BY <3>7, <3>8, <3>9, <3>10 DEF OneAnswer
  <2> QED BY <2>4, <2>5
<1>6. CASE RelayDone(c)
  <2> DEFINE r == handling[c]
  <2>1. /\ r \in Requests /\ dispatch_event(r, "Done")
        /\ handling' = [handling EXCEPT ![c] = Absent]
        /\ UNCHANGED <<up, down, job, pending, credited, reply, pc>>
    BY <1>6 DEF RelayDone, TypeOK
  <2>2. \A d \in Conns : handling'[d] = IF d = c THEN Absent ELSE handling[d]
    BY <2>1 DEF TypeOK
  <2>3. Fewer(q)
    BY <1>0, <2>1, <2>2, AbsentAssumption DEF Fewer, Asked, Ended, OnceEach
  <2>4. CASE q # r
    <3>1. FewerEvents(q)
      BY <1>0, <2>1, <2>4, DispatchEvents
    <3> QED BY <2>1, <2>3, <3>1, QuietStep
  <2>5. CASE q = r
    <3>2. /\ job[q] = Absent /\ ~Told(q) /\ reply[q] = "none" /\ pc[q] \notin Early
          /\ \A d \in Conns : ~Asked(q, d) /\ ~Ended(q, d)
          /\ pending[q] # Absent => credited[q] = 1
      BY <2>5 DEF OneAnswer, OnePlace, Paid, Unsent
    <3>3. /\ AtMostOnce(events'[q], Finals)
          /\ \A f \in Finals : Occurs(events'[q], {f}) =>
               Occurs(events[q], {f}) \/ (f = "Done" /\ pending[q] # Absent)
      BY <1>0, <2>1, <2>5, <3>2, DispatchEvents
    <3>4. ~Occurs(events'[q], {"Error"}) /\ (Occurs(events'[q], {"Done"}) => credited[q] = 1)
      BY <3>2, <3>3, FinalIsEither DEF Told, Finals
    <3>5. \A d \in Conns : handling'[d] # q
      BY <2>2, <2>5, <1>0, <2>1, AbsentAssumption DEF OnceEach
    <3>6. UNCHANGED <<up, down, job, pending, credited, reply, pc>>
      BY <2>1
    <3>7. OnceEach(q)'
      BY <3>3, <3>5, <3>6, <1>0 DEF OnceEach, Asked, Ended
    <3>8. OnePlace(q)'
      BY <3>2, <3>5, <3>6 DEF OnePlace, Asked, Ended
    <3>9. Paid(q)'
      BY <3>2, <3>4, <3>5, <3>6 DEF OneAnswer, Paid, Asked, Ended
    <3>10. Unsent(q)' /\ Replies(q)'
      BY <3>2, <3>6 DEF OneAnswer, Unsent, Replies
    <3> QED BY <3>7, <3>8, <3>9, <3>10 DEF OneAnswer
  <2> QED BY <2>4, <2>5
<1>7. CASE CloseTunnel(c)
  <2>1. UNCHANGED <<up, down, handling, job, pending, credited, reply, pc, events>>
    BY <1>7 DEF CloseTunnel
  <2>2. Fewer(q)
    BY <1>0, <2>1 DEF Fewer, Asked, Ended, OnceEach
  <2> QED BY <2>1, <2>2, <1>b, QuietStep
<1> QED BY <1>1, <1>2, <1>4, <1>5, <1>6, <1>7 DEF Reader

(* The writer loses dispatches. *)
LEMMA WriterKeepsOneAnswer ==
  ASSUME TypeOK, NEW c \in Conns, Writer(c), NEW q \in Requests, OneAnswer(q)
  PROVE  OneAnswer(q)'
<1>0. OnceEach(q)
  BY DEF OneAnswer
<1>1. UNCHANGED <<up, handling, job, pending, credited, reply, pc, events>>
  BY DEF Writer, WriterLoses, WriterFails, WriterEnds
<1>2. \A d \in Conns : (Asked(q, d)' => Asked(q, d)) /\ AtMostOnce(down'[d], {q})
  <2>1. CASE WriterLoses(c)
    <3>1. down[c] # <<>> /\ down[c] \in Seq(Requests) /\ down \in [Conns -> Seq(Requests)]
          /\ down' = [down EXCEPT ![c] = Tail(down[c])]
      BY <2>1 DEF WriterLoses, TypeOK
    <3>2. /\ Occurs(down[c], {q}) <=> Head(down[c]) \in {q} \/ Occurs(Tail(down[c]), {q})
          /\ AtMostOnce(down[c], {q}) => AtMostOnce(Tail(down[c]), {q})
      BY <3>1, OccursTail
    <3>3. \A d \in Conns : down'[d] = IF d = c THEN Tail(down[c]) ELSE down[d]
      BY <3>1
    <3> QED BY <1>0, <3>2, <3>3 DEF Asked, OnceEach
  <2>2. CASE WriterFails(c)
    <3>1. \A d \in Conns : down'[d] = IF d = c THEN <<>> ELSE down[d]
      BY <2>2 DEF WriterFails, TypeOK
    <3> QED BY <1>0, <3>1, EmptyQueue DEF Asked, OnceEach
  <2>3. CASE WriterEnds(c)
    BY <1>0, <2>3 DEF WriterEnds, Asked, OnceEach
  <2> QED BY <2>1, <2>2, <2>3 DEF Writer
<1>3. Fewer(q)
  BY <1>0, <1>1, <1>2 DEF Fewer, Ended, OnceEach
<1>4. FewerEvents(q)
  BY <1>0, <1>1 DEF FewerEvents, OnceEach
<1> QED BY <1>1, <1>3, <1>4, QuietStep

(* A handler that gives up before its dispatch was queued. *)
LEMMA GivingUp ==
  ASSUME TypeOK, NEW r \in Requests, pc[r] \in Early, Return(r, "unavailable"),
         UNCHANGED <<up, down, handling, job, credited, events>>,
         NEW q \in Requests, pending'[q] \in {Absent, pending[q]}, OneAnswer(q)
  PROVE  OneAnswer(q)'
<1>0. OnceEach(q)
  BY DEF OneAnswer
<1>1. /\ \A p \in Requests : pc'[p] = IF p = r THEN "closed" ELSE pc[p]
      /\ \A p \in Requests : reply'[p] = IF p = r THEN "unavailable" ELSE reply[p]
  BY DEF Return, TypeOK
<1>2. Fewer(q) /\ FewerEvents(q)
  BY <1>0 DEF Fewer, FewerEvents, Asked, Ended, OnceEach
<1>3. CASE q # r
  BY <1>1, <1>2, <1>3, QuietStep
<1>4. CASE q = r
  <2>1. /\ \A c \in Conns : ~Asked(q, c) /\ ~Ended(q, c) /\ handling[c] # q
        /\ job[q] = Absent /\ ~Told(q) /\ credited[q] = 0
    BY <1>4 DEF OneAnswer, Unsent
  <2>2. /\ \A c \in Conns : ~Asked(q, c)' /\ ~Ended(q, c)' /\ handling'[c] # q
        /\ job'[q] = Absent /\ ~Told(q)' /\ credited'[q] = 0
    BY <2>1 DEF Asked, Ended, Told
  <2>3. ~Occurs(events'[q], {"Done"}) /\ ~Occurs(events'[q], {"Error"})
    BY <2>2, FinalIsEither DEF Told
  <2>4. OnceEach(q)'
    BY <1>0 DEF OnceEach, Asked, Ended
  <2>5. OnePlace(q)' /\ Unsent(q)' /\ Paid(q)'
    BY <1>1, <1>4, <2>2, <2>3 DEF OnePlace, Unsent, Paid
  <2>6. Replies(q)'
    BY <1>1, <1>4 DEF Replies, Early
  <2> QED BY <2>4, <2>5, <2>6 DEF OneAnswer
<1> QED BY <1>3, <1>4

(* The dispatch is queued: the answer is asked for, once. *)
LEMMA SendKeepsOneAnswer ==
  ASSUME TypeOK, NEW r \in Requests, SendDispatch(r), NEW q \in Requests, OneAnswer(q)
  PROVE  OneAnswer(q)'
<1>0. OnceEach(q)
  BY DEF OneAnswer
<1> DEFINE c == via[r]
<1>1. /\ c \in Conns /\ down[c] \in Seq(Requests) /\ down \in [Conns -> Seq(Requests)]
      /\ down' = [down EXCEPT ![c] = Append(down[c], r)]
      /\ UNCHANGED <<up, handling, job, pending, credited, reply, events>>
      /\ pc[r] = "dispatching"
  BY DEF SendDispatch, TypeOK, Listening
<1>2. \A p \in Requests : IF p = r THEN pc'[p] \in {"streaming", "buffering"} ELSE pc'[p] = pc[p]
  BY DEF SendDispatch, TypeOK
<1> HIDE DEF c
<1>3. /\ Occurs(Append(down[c], r), {q}) <=> Occurs(down[c], {q}) \/ r \in {q}
      /\ AtMostOnce(down[c], {q}) /\ ~(Occurs(down[c], {q}) /\ r \in {q})
           => AtMostOnce(Append(down[c], r), {q})
  BY <1>1, OccursAppend
<1>4. \A d \in Conns : down'[d] = IF d = c THEN Append(down[c], r) ELSE down[d]
  BY <1>1
<1>5. FewerEvents(q)
  BY <1>0, <1>1 DEF FewerEvents, OnceEach
<1>6. CASE q # r
  <2>1. Fewer(q)
    BY <1>0, <1>1, <1>3, <1>4, <1>6 DEF Fewer, Asked, Ended, OnceEach
  <2> QED BY <1>1, <1>2, <1>5, <1>6, <2>1, QuietStep
<1>7. CASE q = r
  <2>1. /\ \A d \in Conns : ~Asked(q, d) /\ ~Ended(q, d) /\ handling[d] # q
        /\ job[q] = Absent /\ ~Told(q) /\ credited[q] = 0 /\ reply[q] = "none"
    BY <1>1, <1>7 DEF OneAnswer, Unsent, Replies, Early
  <2>2. \A d \in Conns : (Asked(q, d)' => d = c) /\ AtMostOnce(down'[d], {q})
    BY <1>0, <1>3, <1>4, <2>1 DEF Asked, OnceEach
  <2>3. \A d \in Conns : ~Ended(q, d)' /\ handling'[d] # q /\ AtMostOnce(up'[d], Endings(q))
    BY <1>0, <1>1, <2>1 DEF Ended, OnceEach
  <2>4. ~Told(q)' /\ ~Occurs(events'[q], {"Done"}) /\ ~Occurs(events'[q], {"Error"})
        /\ AtMostOnce(events'[q], Finals)
    BY <1>0, <1>1, <2>1, FinalIsEither DEF Told, OnceEach
  <2>5. job'[q] = Absent /\ credited'[q] = 0 /\ reply'[q] = "none" /\ pc'[q] \in {"streaming", "buffering"}
    BY <1>1, <1>2, <1>7, <2>1
  <2>6. OnceEach(q)'
    BY <2>2, <2>3, <2>4 DEF OnceEach
  <2>7. OnePlace(q)'
    BY <2>2, <2>3, <2>4, <2>5 DEF OnePlace
  <2>8. Unsent(q)' /\ Replies(q)' /\ Paid(q)'
    BY <2>2, <2>3, <2>4, <2>5 DEF Unsent, Replies, Paid, Early
  <2> QED BY <2>6, <2>7, <2>8 DEF OneAnswer
<1> QED BY <1>6, <1>7

(* The final event is taken, and the client told. *)
LEMMA AnsweringKeepsOneAnswer ==
  ASSUME TypeOK, NEW r \in Requests, NEW e \in Finals, TakeEvent(r, e),
         reply' = [reply EXCEPT ![r] = IF e = "Done" THEN "ok" ELSE "error"],
         \/ pc[r] = "streaming" /\ pc' = pc
         \/ pc[r] = "buffering" /\ pc' = [pc EXCEPT ![r] = "closed"],
         UNCHANGED <<up, down, handling, job, credited>>,
         NEW q \in Requests, pending'[q] \in {Absent, pending[q]}, OneAnswer(q)
  PROVE  OneAnswer(q)'
<1>0. OnceEach(q)
  BY DEF OneAnswer
<1>1. events[r] # <<>> /\ Head(events[r]) = e /\ events' = [events EXCEPT ![r] = Tail(@)]
  BY DEF TakeEvent
<1>2. /\ FewerEvents(q)
      /\ q = r => Told(r) /\ ~Told(r)' /\ Occurs(events[r], {e})
  BY <1>0, <1>1, TailEvents
<1>3. Fewer(q)
  BY <1>0 DEF Fewer, Asked, Ended, OnceEach
<1>4. CASE q # r
  <2>1. reply'[q] = reply[q] /\ pc'[q] = pc[q]
    BY <1>4 DEF TypeOK
  <2> QED BY <1>2, <1>3, <2>1, QuietStep
<1>5. CASE q = r
  <2>0. via[q] \in Conns
    BY <1>5 DEF TypeOK, Listening
  <2>1. /\ \A c \in Conns : ~Asked(q, c) /\ ~Ended(q, c) /\ handling[c] # q
        /\ job[q] = Absent /\ reply[q] = "none"
        /\ credited[q] = IF e = "Done" THEN 1 ELSE 0
    BY <1>2, <1>5, <2>0 DEF OneAnswer, OnePlace, Paid, Finals
  <2>2. /\ \A c \in Conns : ~Asked(q, c)' /\ ~Ended(q, c)' /\ handling'[c] # q
        /\ job'[q] = Absent
        /\ credited'[q] = IF e = "Done" THEN 1 ELSE 0
    BY <2>1 DEF Asked, Ended
  <2>3. /\ ~Told(q)' /\ ~Occurs(events'[q], {"Done"}) /\ ~Occurs(events'[q], {"Error"})
    BY <1>2, <1>5, FinalIsEither DEF Told
  <2>4. reply'[q] = IF e = "Done" THEN "ok" ELSE "error"
    BY <1>5 DEF TypeOK
  <2>5. pc'[q] \in {"streaming", "closed"}
    BY <1>5 DEF TypeOK
  <2>6. OnceEach(q)'
    BY <1>0, <1>2 DEF OnceEach, FewerEvents, Asked, Ended
  <2>7. OnePlace(q)'
    BY <2>2, <2>3 DEF OnePlace
  <2>8. Unsent(q)' /\ Replies(q)' /\ Paid(q)'
    BY <2>2, <2>3, <2>4, <2>5 DEF Unsent, Replies, Paid, Early, Finals
  <2> QED BY <2>6, <2>7, <2>8 DEF OneAnswer
<1> QED BY <1>4, <1>5

(* The handler's steps, and a client that leaves. *)
LEMMA HandlerKeepsOneAnswer ==
  ASSUME TypeOK, NEW r \in Requests, Handler(r) \/ ClientLeaves(r), NEW q \in Requests, OneAnswer(q)
  PROVE  OneAnswer(q)'
<1>0. OnceEach(q)
  BY DEF OneAnswer
<1>a. ASSUME UNCHANGED <<up, down, handling, job>>, pending'[q] \in {Absent, pending[q]} \/ pc[q] \in Early
      PROVE  Fewer(q)
  BY <1>0, <1>a DEF Fewer, Asked, Ended, OnceEach
<1>b. ASSUME UNCHANGED events PROVE FewerEvents(q)
  BY <1>0, <1>b DEF FewerEvents, OnceEach
<1>1. CASE PickNode(r) \/ GetSender(r)
  <2>1. pc'[q] = pc[q] \/ (pc[q] \in Early /\ pc'[q] \in Early)
    BY <1>1 DEF PickNode, GetSender, TypeOK, Early
  <2>2. UNCHANGED <<up, down, handling, job, pending, credited, reply, events>>
    BY <1>1 DEF PickNode, GetSender
  <2> QED BY <2>1, <2>2, <1>a, <1>b, QuietStep DEF Early
<1>2. CASE RegisterRequest(r)
  <2>1. pc'[q] = pc[q] \/ (pc[q] \in Early /\ pc'[q] \in Early)
    BY <1>2 DEF RegisterRequest, TypeOK, Early
  <2>2. UNCHANGED <<up, down, handling, job, credited, reply, events>>
    BY <1>2 DEF RegisterRequest
  <2>3. pending'[q] = pending[q] \/ pc[q] \in Early
    BY <1>2 DEF RegisterRequest, register_request, TypeOK, Early
  <2> QED BY <2>1, <2>2, <2>3, <1>a, <1>b, QuietStep DEF Early
<1>3. CASE PickNone(r) \/ NoSender(r)
  <2>1. /\ Return(r, "unavailable") /\ pc[r] \in Early
        /\ UNCHANGED <<up, down, handling, job, credited, events, pending>>
    BY <1>3 DEF PickNone, NoSender, Early
  <2> QED BY <2>1, GivingUp
<1>4. CASE DispatchFails(r)
  <2>1. /\ Return(r, "unavailable") /\ pc[r] \in Early
        /\ UNCHANGED <<up, down, handling, job, credited, events>>
        /\ pending'[q] \in {Absent, pending[q]}
    BY <1>4 DEF DispatchFails, complete_request, Early, TypeOK
  <2> QED BY <2>1, GivingUp
<1>5. CASE SendDispatch(r)
  BY <1>5, SendKeepsOneAnswer
<1>6. CASE TakeChunk(r)
  <2>1. /\ events[r] # <<>> /\ events' = [events EXCEPT ![r] = Tail(@)]
        /\ UNCHANGED <<up, down, handling, job, credited, pending, reply, pc>>
    BY <1>6 DEF TakeChunk, TakeEvent
  <2>2. FewerEvents(q)
    BY <1>0, <2>1, TailEvents
  <2> QED BY <2>1, <2>2, <1>a, QuietStep
<1>7. CASE BufferedOk(r) \/ BufferedError(r)
  <2>1. PICK e \in Finals : BufferedAnswer(r, e, IF e = "Done" THEN "ok" ELSE "error")
    BY <1>7 DEF BufferedOk, BufferedError, Finals
  <2>2. pending'[q] \in {Absent, pending[q]}
    BY <2>1 DEF BufferedAnswer, complete_request, TypeOK
  <2> QED BY <2>1, <2>2, AnsweringKeepsOneAnswer DEF BufferedAnswer, Return
<1>8. CASE StreamOk(r) \/ StreamError(r)
  <2>1. PICK e \in Finals : StreamAnswer(r, e, IF e = "Done" THEN "ok" ELSE "error")
    BY <1>8 DEF StreamOk, StreamError, Finals
  <2> QED BY <2>1, AnsweringKeepsOneAnswer DEF StreamAnswer
<1>9. CASE ClientLeaves(r)
  <2>1. /\ UNCHANGED <<up, down, handling, job, credited, reply>>
        /\ pending'[q] \in {Absent, pending[q]}
    BY <1>9 DEF ClientLeaves, complete_request, TypeOK
  <2>2. \/ pc'[q] = pc[q]
        \/ pc[q] = "streaming" /\ pc'[q] = "closed"
        \/ pc[q] = "buffering" /\ pc'[q] = "abandoned"
    BY <1>9 DEF ClientLeaves, TypeOK
  <2>3. events'[q] = events[q] \/ events'[q] = <<>>
    BY <1>9 DEF ClientLeaves, TypeOK
  <2>4. FewerEvents(q)
    BY <1>0, <2>3, EmptyQueue DEF FewerEvents, OnceEach
  <2> QED BY <2>1, <2>2, <2>4, <1>a, QuietStep DEF Early
<1> QED BY <1>1, <1>2, <1>3, <1>4, <1>5, <1>6, <1>7, <1>8, <1>9 DEF Handler, Routing, Answering

(* The node takes a dispatch: it has the job. *)
LEMMA ReceiveKeepsOneAnswer ==
  ASSUME TypeOK, NEW n \in Nodes, NodeReceive(n), NEW q \in Requests, OneAnswer(q)
  PROVE  OneAnswer(q)'
<1>0. OnceEach(q)
  BY DEF OneAnswer
<1> DEFINE c == link[n]  r == Head(down[c])
<1>1. /\ c \in Conns /\ down[c] # <<>> /\ down[c] \in Seq(Requests) /\ down \in [Conns -> Seq(Requests)]
      /\ down' = [down EXCEPT ![c] = Tail(down[c])]
      /\ job' = [job EXCEPT ![r] = n]
      /\ UNCHANGED <<up, handling, pending, credited, reply, events, pc>>
  BY DEF NodeReceive, TypeOK
<1>2. r \in Requests /\ job \in [Requests -> Nodes \cup {Absent}]
  BY <1>1, HeadTailProperties DEF TypeOK
<1> HIDE DEF c, r
<1>3. /\ Occurs(down[c], {q}) <=> Head(down[c]) \in {q} \/ Occurs(Tail(down[c]), {q})
      /\ AtMostOnce(down[c], {q}) => AtMostOnce(Tail(down[c]), {q})
      /\ AtMostOnce(down[c], {q}) /\ Head(down[c]) \in {q} => ~Occurs(Tail(down[c]), {q})
  BY <1>1, OccursTail
<1>4. \A d \in Conns : down'[d] = IF d = c THEN Tail(down[c]) ELSE down[d]
  BY <1>1
<1>5. \A d \in Conns : (Asked(q, d)' => Asked(q, d)) /\ AtMostOnce(down'[d], {q})
  BY <1>0, <1>3, <1>4 DEF OnceEach, Asked
<1>6. FewerEvents(q)
  BY <1>0, <1>1 DEF FewerEvents, OnceEach
<1>7. CASE q # r
  <2>1. Fewer(q)
    BY <1>0, <1>1, <1>2, <1>5, <1>7 DEF Fewer, Ended, OnceEach
  <2> QED BY <1>1, <1>6, <2>1, QuietStep
<1>8. CASE q = r
  <2>1. Asked(q, c) /\ \A d \in Conns : ~Asked(q, d)'
    BY <1>0, <1>1, <1>3, <1>4, <1>5, <1>8 DEF OnceEach, Asked, r
  <2>2. /\ \A d \in Conns : ~Ended(q, d) /\ handling[d] # q
        /\ ~Told(q) /\ reply[q] = "none" /\ credited[q] = 0 /\ pc[q] \notin Early
    BY <1>1, <2>1 DEF OneAnswer, OnePlace, Paid, Unsent
  <2>3. /\ \A d \in Conns : ~Ended(q, d)' /\ handling'[d] # q
        /\ ~Told(q)' /\ reply'[q] = "none" /\ credited'[q] = 0 /\ pc'[q] \notin Early
    BY <1>1, <2>2 DEF Ended, Told
  <2>4. ~Occurs(events'[q], {"Done"}) /\ ~Occurs(events'[q], {"Error"})
    BY <2>3, FinalIsEither DEF Told
  <2>5. OnceEach(q)'
    BY <1>0, <1>1, <1>5, <2>1 DEF OnceEach, Ended
  <2>6. OnePlace(q)'
    BY <2>1, <2>3 DEF OnePlace
  <2>7. Unsent(q)' /\ Paid(q)'
    BY <2>1, <2>3, <2>4 DEF Unsent, Paid
  <2>8. Replies(q)'
    BY <1>1 DEF OneAnswer, Replies
  <2> QED BY <2>5, <2>6, <2>7, <2>8 DEF OneAnswer
<1> QED BY <1>7, <1>8

(* The node ends its job: one Done or one Error is on its way. *)
LEMMA FinishKeepsOneAnswer ==
  ASSUME TypeOK, NEW r \in Requests, NodeFinish(r), NEW q \in Requests, OneAnswer(q)
  PROVE  OneAnswer(q)'
<1>0. OnceEach(q)
  BY DEF OneAnswer
<1> DEFINE n == job[r]  c == link[n]
<1>1. PICK t \in Finals : Send(n, [t |-> t, req |-> r])
  BY DEF NodeFinish, Finals
<1>2. /\ n \in Nodes /\ c \in Conns /\ c # Absent
      /\ job' = [job EXCEPT ![r] = Absent] /\ job \in [Requests -> Nodes \cup {Absent}]
      /\ UNCHANGED <<down, handling, pending, credited, reply, events, pc>>
  BY DEF NodeFinish, TypeOK
<1> DEFINE f == [t |-> t, req |-> r]
<1>3. f \in UpFrame /\ (f \in Endings(q) <=> q = r)
  BY DEF UpFrame, ReportFrame, Finals, Endings
<1>3a. job[r] # Absent
  BY DEF NodeFinish
<1> HIDE DEF n, f
<1>4. /\ \A d \in Conns : Ended(q, d)' <=> Ended(q, d) \/ (d = c /\ q = r)
      /\ q # r \/ (\A d \in Conns : ~Ended(q, d))
           => \A d \in Conns : AtMostOnce(up'[d], Endings(q))
  BY <1>0, <1>1, <1>2, <1>3, AppendFrame DEF f
<1> HIDE DEF c
<1>5. FewerEvents(q)
  BY <1>0, <1>2 DEF FewerEvents, OnceEach
<1>6. CASE q # r
  <2>1. Fewer(q)
    BY <1>0, <1>2, <1>4, <1>6 DEF Fewer, Asked, OnceEach
  <2> QED BY <1>2, <1>5, <2>1, QuietStep
<1>7. CASE q = r
  <2>2. /\ \A d \in Conns : ~Asked(q, d) /\ ~Ended(q, d) /\ handling[d] # q
        /\ ~Told(q) /\ reply[q] = "none" /\ credited[q] = 0 /\ pc[q] \notin Early
    BY <1>2, <1>3a, <1>7 DEF OneAnswer, OnePlace, Paid, Unsent
  <2>3. /\ \A d \in Conns : ~Asked(q, d)' /\ handling'[d] # q
        /\ ~Told(q)' /\ reply'[q] = "none" /\ credited'[q] = 0 /\ pc'[q] \notin Early
        /\ job'[q] = Absent
    BY <1>2, <1>7, <2>2 DEF Asked, Told
  <2>4. ~Occurs(events'[q], {"Done"}) /\ ~Occurs(events'[q], {"Error"})
    BY <2>3, FinalIsEither DEF Told
  <2>5. \A d \in Conns : (Ended(q, d)' => d = c) /\ AtMostOnce(up'[d], Endings(q))
    BY <1>4, <2>2
  <2>6. OnceEach(q)'
    BY <1>0, <1>2, <2>3, <2>5 DEF OnceEach
  <2>7. OnePlace(q)'
    BY <2>3 DEF OnePlace
  <2>8. Unsent(q)' /\ Paid(q)'
    BY <2>3, <2>4 DEF Unsent, Paid
  <2>9. Replies(q)'
    BY <1>2 DEF OneAnswer, Replies
  <2> QED BY <2>6, <2>7, <2>8, <2>9 DEF OneAnswer
<1> QED BY <1>6, <1>7

(* Cutting a link keeps a prefix of what its node wrote, and a crash no job. *)
LEMMA CutKeepsOneAnswer ==
  ASSUME TypeOK, NEW n \in Nodes, LinkLost(n) \/ NodeCrash(n), NEW q \in Requests, OneAnswer(q)
  PROVE  OneAnswer(q)'
<1>0. OnceEach(q)
  BY DEF OneAnswer
<1> DEFINE c == link[n]
<1>1. Cut(n) /\ job'[q] \in {Absent, job[q]}
  BY DEF LinkLost, NodeCrash
<1>2. PICK k \in 0 .. Len(up[c]) : up' = [up EXCEPT ![c] = SubSeq(up[c], 1, k)]
  BY <1>1 DEF Cut
<1>3. /\ c \in Conns /\ up[c] \in Seq(UpFrame) /\ up \in [Conns -> Seq(UpFrame)]
      /\ UNCHANGED <<down, handling, pending, credited, reply, events, pc>>
  BY <1>1 DEF Cut, TypeOK
<1> HIDE DEF c
<1>4. /\ Occurs(SubSeq(up[c], 1, k), Endings(q)) => Occurs(up[c], Endings(q))
      /\ AtMostOnce(up[c], Endings(q)) => AtMostOnce(SubSeq(up[c], 1, k), Endings(q))
  BY <1>3, OccursPrefix
<1>5. \A d \in Conns : up'[d] = IF d = c THEN SubSeq(up[c], 1, k) ELSE up[d]
  BY <1>2, <1>3
<1>6. Fewer(q)
  BY <1>0, <1>1, <1>3, <1>4, <1>5 DEF Fewer, Asked, Ended, OnceEach
<1>7. FewerEvents(q)
  BY <1>0, <1>3 DEF FewerEvents, OnceEach
<1> QED BY <1>3, <1>6, <1>7, QuietStep

(* The node's steps. *)
LEMMA NodeKeepsOneAnswer ==
  ASSUME TypeOK,
         (\E n \in Nodes : Node(n)) \/ (\E r \in Requests : NodeChunk(r) \/ NodeFinish(r)),
         NEW q \in Requests, OneAnswer(q)
  PROVE  OneAnswer(q)'
<1>0. OnceEach(q)
  BY DEF OneAnswer
<1>a. ASSUME UNCHANGED <<down, handling, job, pending, credited, reply, events, pc>>,
             NEW n \in Nodes, link[n] # Absent, NEW f \in UpFrame, Send(n, f), f \notin Endings(q)
      PROVE  OneAnswer(q)'
  <2>1. Fewer(q)
    BY <1>0, <1>a, AppendFrame DEF Fewer, Asked, OnceEach
  <2>2. FewerEvents(q)
    BY <1>0, <1>a DEF FewerEvents, OnceEach
  <2> QED BY <1>a, <2>1, <2>2, QuietStep
<1>1. ASSUME NEW n \in Nodes, NodeConnect(n) PROVE OneAnswer(q)'
  <2>1. UNCHANGED <<up, down, handling, job, pending, credited, reply, events, pc>>
    BY <1>1 DEF NodeConnect
  <2>2. Fewer(q) /\ FewerEvents(q)
    BY <1>0, <2>1 DEF Fewer, FewerEvents, Asked, Ended, OnceEach
  <2> QED BY <2>1, <2>2, QuietStep
<1>2. ASSUME NEW n \in Nodes, NodeStatus(n) PROVE OneAnswer(q)'
  <2>1. PICK f \in StatusFrame(n) : Send(n, f)
    BY <1>2 DEF NodeStatus
  <2>2. f \in UpFrame /\ f \notin Endings(q)
    BY DEF UpFrame, StatusFrame, Endings, Finals
  <2> QED BY <1>2, <1>a, <2>1, <2>2 DEF NodeStatus
<1>3. ASSUME NEW r \in Requests, NodeChunk(r) PROVE OneAnswer(q)'
  <2> DEFINE f == [t |-> "TokenChunk", req |-> r]
  <2>1. f \in UpFrame /\ f \notin Endings(q)
    BY DEF UpFrame, ReportFrame, Endings, Finals
  <2>2. job[r] \in Nodes /\ link[job[r]] # Absent /\ Send(job[r], f)
    BY <1>3 DEF NodeChunk, TypeOK
  <2>3. UNCHANGED <<down, handling, job, pending, credited, reply, events, pc>>
    BY <1>3 DEF NodeChunk
  <2> QED BY <1>a, <2>1, <2>2, <2>3
<1> QED
  BY <1>1, <1>2, <1>3, ReceiveKeepsOneAnswer, FinishKeepsOneAnswer, CutKeepsOneAnswer DEF Node

\* A request's answer is in one place only, from the queue its dispatch waits in
\* to what its client is told, and its points are posted on the way.
THEOREM OneAnswerEachKept == Spec => []OneAnswerEach
<1>1. Init => OneAnswerEach
  <2> SUFFICES ASSUME Init, NEW r \in Requests PROVE OneAnswer(r)
    BY DEF OneAnswerEach
  <2>1. /\ \A c \in Conns : /\ ~Asked(r, c) /\ ~Ended(r, c) /\ handling[c] # r
                            /\ AtMostOnce(down[c], {r}) /\ AtMostOnce(up[c], Endings(r))
        /\ AtMostOnce(events[r], Finals) /\ ~Told(r)
        /\ ~Occurs(events[r], {"Done"}) /\ ~Occurs(events[r], {"Error"})
    BY EmptyQueue, AbsentAssumption DEF Init, Asked, Ended, Told
  <2>2. pc[r] = "new" /\ job[r] = Absent /\ credited[r] = 0 /\ reply[r] = "none"
    BY DEF Init
  <2> QED BY <2>1, <2>2 DEF OneAnswer, OnceEach, OnePlace, Unsent, Replies, Paid
<1>2. TypeOK /\ OneAnswerEach /\ [Next]_vars => OneAnswerEach'
  <2> SUFFICES ASSUME TypeOK, [Next]_vars, NEW q \in Requests, OneAnswer(q)
               PROVE  OneAnswer(q)'
    BY DEF OneAnswerEach
  <2>1. CASE UNCHANGED vars
    BY <2>1 DEF vars, OneAnswer, OnceEach, OnePlace, Unsent, Replies, Paid, Asked, Ended, Told
  <2> QED BY <2>1, ReaderKeepsOneAnswer, WriterKeepsOneAnswer, HandlerKeepsOneAnswer,
             NodeKeepsOneAnswer DEF Next
<1> QED BY <1>1, <1>2, TypeCorrect, PTL DEF Spec

\* Points are posted at most once per request, once when the client was told the
\* answer is finished, never when it was told of a failure.
THEOREM CreditsMatchReplies == Spec => []CreditMatchesReply
<1>1. OneAnswerEach => CreditMatchesReply
  BY DEF OneAnswerEach, OneAnswer, Paid, CreditMatchesReply
<1> QED BY <1>1, OneAnswerEachKept, PTL

-----------------------------------------------------------------------------
(* DispatchReachesTarget: the sender a handler takes from the registry is a *)
(* tunnel of its target, because a registered tunnel's session is its peer. *)

\* The tunnels of a request, from the handler's sender to the node's job, are its target's.
Routed ==
  /\ \A r \in Requests : pc[r] \in {"ready"} \cup Listening => peer[via[r]] = target[r]
  /\ \A r \in Requests, c \in Conns : Asked(r, c) => peer[c] = target[r]
  /\ \A r \in Requests : job[r] \in {Absent, target[r]}
  /\ \A c \in Conns : phase[c] = "unused" => down[c] = <<>>

routedVars == <<phase, down, pc, target, via, peer, job>>

(* Steps of other variables. *)
LEMMA RoutedUnchanged ==
  ASSUME Routed, UNCHANGED routedVars
  PROVE  Routed'
BY DEF Routed, routedVars, Asked, Listening

(* A queue that only loses dispatches, and a tunnel that only ends. *)
LEMMA RoutedQueues ==
  ASSUME Routed, UNCHANGED <<pc, target, via, peer>>,
         \A r \in Requests, c \in Conns : Asked(r, c)' => Asked(r, c),
         \A r \in Requests : job'[r] \in {Absent, target[r]},
         \A c \in Conns : phase'[c] = "unused" => phase[c] = "unused" /\ down'[c] = down[c]
  PROVE  Routed'
BY DEF Routed, Listening

(* Taking a dispatch off a tunnel's queue. *)
LEMMA TailAsked ==
  ASSUME TypeOK, NEW c \in Conns, down[c] # <<>>, down' = [down EXCEPT ![c] = Tail(@)]
  PROVE  /\ \A r \in Requests, d \in Conns : Asked(r, d)' => Asked(r, d)
         /\ Head(down[c]) \in Requests /\ Asked(Head(down[c]), c)
<1>1. down[c] \in Seq(Requests) /\ down \in [Conns -> Seq(Requests)]
  BY DEF TypeOK
<1>2. \A r \in Requests : Occurs(down[c], {r}) <=> Head(down[c]) \in {r} \/ Occurs(Tail(down[c]), {r})
  BY <1>1, OccursTail
<1>3. \A d \in Conns : down'[d] = IF d = c THEN Tail(down[c]) ELSE down[d]
  BY <1>1
<1>4. Head(down[c]) \in Requests
  BY <1>1, HeadTailProperties
<1> QED BY <1>2, <1>3, <1>4 DEF Asked

(* The handler's steps: the sender it finds is one of its target's tunnels. *)
LEMMA HandlerKeepsRouted ==
  ASSUME TypeOK, Served, OneAnswerEach, Routed,
         NEW r \in Requests, Handler(r) \/ ClientLeaves(r)
  PROVE  Routed'
<1> USE DEF Listening
<1>a. ASSUME UNCHANGED <<phase, down, target, via, peer, job>>,
             \A q \in Requests : pc'[q] \in {"ready"} \cup Listening => pc[q] \in {"ready"} \cup Listening
      PROVE  Routed'
  BY <1>a DEF Routed, Asked
<1>1. CASE PickNode(r)
  <2>1. /\ \A c \in Conns : ~Asked(r, c)
        /\ job[r] = Absent
    BY <1>1 DEF PickNode, OneAnswerEach, OneAnswer, Unsent, Early
  <2>2. PICK n \in Nodes : target' = [target EXCEPT ![r] = n]
    BY <1>1 DEF PickNode
  <2>3. /\ UNCHANGED <<phase, down, via, peer, job>>
        /\ pc' = [pc EXCEPT ![r] = "picked"]
    BY <1>1 DEF PickNode
  <2> QED BY <2>1, <2>2, <2>3 DEF Routed, Asked, TypeOK
<1>2. CASE GetSender(r)
  <2> DEFINE n == target[r]  c == nodes[n].tx
  <2>1. n \in Nodes /\ nodes[n] # Absent /\ c \in Conns
    BY <1>2, AbsentAssumption DEF GetSender, TypeOK, NodeState
  <2>2. session[c] = n
    BY <2>1 DEF Served, RegisteredTunnelIsServed
  <2>3. peer[c] = n
    BY <2>1, <2>2, AbsentAssumption DEF Served, OwnTunnel
  <2>4. via' = [via EXCEPT ![r] = c] /\ pc' = [pc EXCEPT ![r] = "ready"]
        /\ UNCHANGED <<phase, down, target, peer, job>>
    BY <1>2 DEF GetSender, node_sender
  <2> QED BY <2>3, <2>4 DEF Routed, Asked, TypeOK
<1>3. CASE SendDispatch(r)
  <2> DEFINE c == via[r]
  <2>1. /\ c \in Conns /\ down[c] \in Seq(Requests) /\ down \in [Conns -> Seq(Requests)]
        /\ down' = [down EXCEPT ![c] = Append(down[c], r)]
        /\ UNCHANGED <<phase, target, via, peer, job>>
        /\ target[r] \in Nodes
    BY <1>3 DEF SendDispatch, TypeOK
  <2>2. \A q \in Requests : pc'[q] \in {"ready"} \cup Listening => pc[q] \in {"ready"} \cup Listening
    BY <1>3 DEF SendDispatch, TypeOK
  <2>3. peer[c] = target[r]
    BY <1>3 DEF Routed, SendDispatch
  <2>4. phase[c] # "unused"
    BY <2>1, <2>3, AbsentAssumption DEF Served, OwnTunnel
  <2> HIDE DEF c
  <2>5. \A q \in Requests : Occurs(Append(down[c], r), {q}) <=> Occurs(down[c], {q}) \/ r \in {q}
    BY <2>1, OccursAppend
  <2>6. \A d \in Conns : down'[d] = IF d = c THEN Append(down[c], r) ELSE down[d]
    BY <2>1
  <2>7. \A q \in Requests, d \in Conns : Asked(q, d)' => peer[d] = target[q]
    BY <2>3, <2>5, <2>6 DEF Routed, Asked
  <2> QED BY <2>1, <2>2, <2>4, <2>6, <2>7 DEF Routed
<1>4. CASE PickNone(r) \/ NoSender(r) \/ RegisterRequest(r) \/ DispatchFails(r)
  BY <1>4, <1>a DEF PickNone, NoSender, RegisterRequest, DispatchFails, Return, TypeOK
<1>5. CASE Answering(r)
  BY <1>5, <1>a DEF Answering, TakeChunk, BufferedOk, BufferedError, BufferedAnswer, Return,
                  StreamOk, StreamError, StreamAnswer, TypeOK
<1>6. CASE ClientLeaves(r)
  BY <1>6, <1>a DEF ClientLeaves, TypeOK
<1> QED BY <1>1, <1>2, <1>3, <1>4, <1>5, <1>6 DEF Handler, Routing

(* The tunnel's steps. *)
LEMMA TunnelsKeepRouted ==
  ASSUME TypeOK, Routed, NEW c \in Conns, Reader(c) \/ Writer(c)
  PROVE  Routed'
<1>1. CASE Reader(c)
  <2>1. UNCHANGED <<down, pc, target, via, peer, job>>
    BY <1>1 DEF Reader, HandleRegister, HandleHeartbeat, HandleModelStatus, HandleTokenChunk,
                HandleError, HandleRelayed, HandleDone, RelayDone, CloseTunnel
  <2>2. \A d \in Conns : phase'[d] = "unused" => phase[d] = "unused"
    BY <1>1 DEF TypeOK, Reader, HandleRegister, HandleHeartbeat, HandleModelStatus, HandleTokenChunk,
                HandleError, HandleRelayed, HandleDone, RelayDone, CloseTunnel
  <2> QED BY <2>1, <2>2, RoutedQueues DEF Asked, Routed
<1>2. CASE WriterLoses(c)
  <2>1. down[c] # <<>> /\ down' = [down EXCEPT ![c] = Tail(@)] /\ UNCHANGED <<phase, pc, target, via, peer, job>>
    BY <1>2 DEF WriterLoses
  <2>2. \A d \in Conns : phase[d] = "unused" => down'[d] = down[d]
    BY <2>1 DEF Routed, TypeOK
  <2> QED BY <2>1, <2>2, TailAsked, RoutedQueues DEF Routed
<1>3. CASE WriterFails(c)
  <2>1. \A d \in Conns : down'[d] = IF d = c THEN <<>> ELSE down[d]
    BY <1>3 DEF WriterFails, TypeOK
  <2>2. UNCHANGED <<phase, pc, target, via, peer, job>>
    BY <1>3 DEF WriterFails
  <2> QED BY <2>1, <2>2, EmptyQueue, RoutedQueues DEF Routed, Asked
<1>4. CASE WriterEnds(c)
  BY <1>4, RoutedUnchanged DEF WriterEnds, routedVars
<1> QED BY <1>1, <1>2, <1>3, <1>4 DEF Writer

(* The node's steps: what it receives is addressed to it. *)
LEMMA NodeKeepsRouted ==
  ASSUME TypeOK, Served, Routed,
         (\E n \in Nodes : Node(n)) \/ (\E r \in Requests : NodeChunk(r) \/ NodeFinish(r))
  PROVE  Routed'
<1>1. ASSUME NEW n \in Nodes, NodeConnect(n) PROVE Routed'
  <2>1. PICK c \in Conns :
          /\ phase[c] = "unused"
          /\ phase' = [phase EXCEPT ![c] = "reading"]
          /\ peer' = [peer EXCEPT ![c] = n]
    BY <1>1 DEF NodeConnect
  <2>2. UNCHANGED <<down, pc, target, via, job>>
    BY <1>1 DEF NodeConnect
  <2>3. down[c] = <<>> /\ peer[c] = Absent
    BY <2>1 DEF Routed, Served, OwnTunnel
  <2>4. \A r \in Requests : ~Asked(r, c)
    BY <2>3, EmptyQueue DEF Asked
  <2>5. \A r \in Requests : pc[r] \in {"ready"} \cup Listening => via[r] # c
    BY <2>3, AbsentAssumption DEF Routed, TypeOK
  <2> QED BY <2>1, <2>2, <2>4, <2>5 DEF Routed, Asked, TypeOK, Listening
<1>2. ASSUME NEW n \in Nodes, NodeReceive(n) PROVE Routed'
  <2> DEFINE c == link[n]  r == Head(down[c])
  <2>1. /\ c \in Conns /\ down[c] # <<>> /\ down' = [down EXCEPT ![c] = Tail(@)]
        /\ job' = [job EXCEPT ![r] = n] /\ UNCHANGED <<phase, pc, target, via, peer>>
        /\ peer[c] = n /\ phase[c] # "unused"
    BY <1>2 DEF NodeReceive, TypeOK, Served, OwnTunnel
  <2>2. /\ r \in Requests /\ Asked(r, c)
        /\ \A q \in Requests, d \in Conns : Asked(q, d)' => Asked(q, d)
    BY <2>1, TailAsked
  <2>3. target[r] = n
    BY <2>1, <2>2 DEF Routed
  <2>4. \A q \in Requests : job'[q] \in {Absent, target[q]}
    BY <2>1, <2>2, <2>3 DEF Routed, TypeOK
  <2>5. \A d \in Conns : phase[d] = "unused" => down'[d] = down[d]
    BY <2>1 DEF TypeOK
  <2> QED BY <2>1, <2>2, <2>4, <2>5, RoutedQueues
<1>3. ASSUME NEW n \in Nodes, NodeStatus(n) \/ LinkLost(n) \/ NodeCrash(n) PROVE Routed'
  <2>1. UNCHANGED <<down, phase, pc, target, via, peer>>
    BY <1>3 DEF NodeStatus, LinkLost, NodeCrash, Cut
  <2>2. \A r \in Requests : job'[r] \in {Absent, job[r]}
    BY <1>3 DEF NodeStatus, LinkLost, NodeCrash
  <2> QED BY <2>1, <2>2 DEF Routed, Asked, Listening
<1>4. ASSUME NEW r \in Requests, NodeChunk(r) \/ NodeFinish(r) PROVE Routed'
  <2>1. UNCHANGED <<down, phase, pc, target, via, peer>>
    BY <1>4 DEF NodeChunk, NodeFinish
  <2>2. \A q \in Requests : job'[q] \in {Absent, job[q]}
    BY <1>4 DEF NodeChunk, NodeFinish, TypeOK
  <2> QED BY <2>1, <2>2 DEF Routed, Asked, Listening
<1> QED BY <1>1, <1>2, <1>3, <1>4 DEF Node

\* A request stays with the node it was accounted to, through every reconnect.
THEOREM RoutedKept == Spec => []Routed
<1>1. Init => Routed
  BY EmptyQueue DEF Init, Routed, Asked, Listening
<1>2. TypeOK /\ Served /\ OneAnswerEach /\ Routed /\ [Next]_vars => Routed'
  <2> SUFFICES ASSUME TypeOK, Served, OneAnswerEach, Routed, [Next]_vars PROVE Routed'
    OBVIOUS
  <2>1. CASE UNCHANGED vars
    BY <2>1, RoutedUnchanged DEF vars, routedVars
  <2> QED BY <2>1, HandlerKeepsRouted, TunnelsKeepRouted, NodeKeepsRouted DEF Next
<1> QED BY <1>1, <1>2, TypeCorrect, ServedKept, OneAnswerEachKept, PTL DEF Spec

\* No node is handed, or works on, a prompt that was routed to another.
THEOREM DispatchesReachTargets == Spec => []DispatchReachesTarget
<1>1. Routed => DispatchReachesTarget
  BY DEF Routed, DispatchReachesTarget, Asked, Occurs
<1> QED BY <1>1, RoutedKept, PTL

-----------------------------------------------------------------------------
(* The refinement of ChatService, one lemma per way its state can change.  *)

\* What Service makes of a request.
StatusOf(r) ==
  CASE reply[r] = "unavailable" -> "refused"
    [] reply[r] = "ok" -> "answered"
    [] reply[r] = "error" -> "failed"
    [] reply[r] = "none" /\ pc[r] \in {"closed", "abandoned"} -> "left"
    [] reply[r] = "none" /\ pc[r] \in {"streaming", "buffering"} -> "open"
    [] OTHER -> "new"

(* StatusOf, case by case, before a step and after it. *)
LEMMA StatusCases ==
  ASSUME TypeOK, NEW r \in Requests
  PROVE  /\ reply[r] = "unavailable" => StatusOf(r) = "refused"
         /\ reply[r] = "ok" => StatusOf(r) = "answered"
         /\ reply[r] = "error" => StatusOf(r) = "failed"
         /\ reply[r] = "none" /\ pc[r] \in {"closed", "abandoned"} => StatusOf(r) = "left"
         /\ reply[r] = "none" /\ pc[r] \in {"streaming", "buffering"} => StatusOf(r) = "open"
         /\ reply[r] = "none" /\ pc[r] \in Early => StatusOf(r) = "new"
BY DEF StatusOf, Early

(* The same of the next state. *)
LEMMA StatusCasesAfter ==
  ASSUME TypeOK', NEW r \in Requests
  PROVE  /\ reply'[r] = "unavailable" => StatusOf(r)' = "refused"
         /\ reply'[r] = "ok" => StatusOf(r)' = "answered"
         /\ reply'[r] = "error" => StatusOf(r)' = "failed"
         /\ reply'[r] = "none" /\ pc'[r] \in {"closed", "abandoned"} => StatusOf(r)' = "left"
         /\ reply'[r] = "none" /\ pc'[r] \in {"streaming", "buffering"} => StatusOf(r)' = "open"
         /\ reply'[r] = "none" /\ pc'[r] \in Early => StatusOf(r)' = "new"
BY DEF StatusOf, Early

\* The status function Service is instantiated with.
ServiceStatus == [r \in Requests |-> StatusOf(r)]


(* A step the service does not see. *)
LEMMA ServiceStutters ==
  ASSUME UNCHANGED ServiceStatus, UNCHANGED credited
  PROVE  [Service!Next]_(Service!vars)
BY DEF Service!vars, ServiceStatus, StatusOf

(* The posting of a request's points. *)
LEMMA ServicePosts ==
  ASSUME NEW r \in Requests, StatusOf(r) \in {"open", "left"}, credited[r] = 0,
         credited' = [credited EXCEPT ![r] = 1], UNCHANGED ServiceStatus
  PROVE  [Service!Next]_(Service!vars)
<1>1. ServiceStatus[r] = StatusOf(r)
  BY DEF ServiceStatus
<1>2. Service!Post(r)
  BY <1>1 DEF Service!Post, ServiceStatus, StatusOf
<1> QED BY <1>2 DEF Service!Next

(* A request whose status alone moves, as one of the service's actions allows. *)
LEMMA ServiceMoves ==
  ASSUME NEW r \in Requests, NEW to, UNCHANGED credited,
         \A q \in Requests : StatusOf(q)' = IF q = r THEN to ELSE StatusOf(q),
         \/ StatusOf(r) = "new" /\ to \in {"refused", "open"}
         \/ StatusOf(r) = "open" /\ to = "left"
         \/ StatusOf(r) = "open" /\ to = "answered" /\ credited[r] = 1
         \/ StatusOf(r) = "open" /\ to = "failed" /\ credited[r] = 0
  PROVE  [Service!Next]_(Service!vars)
<1>1. ServiceStatus[r] = StatusOf(r)
  BY DEF ServiceStatus
<1>2. ServiceStatus' = [ServiceStatus EXCEPT ![r] = to]
  BY DEF ServiceStatus
<1>3. ASSUME NEW from, StatusOf(r) = from PROVE Service!Becomes(r, from, to)
  BY <1>1, <1>2, <1>3 DEF Service!Becomes, ServiceStatus, StatusOf
<1>4. \/ Service!Refuse(r) \/ Service!Accept(r) \/ Service!Leave(r)
      \/ Service!Answer(r) \/ Service!Fail(r)
  BY <1>3 DEF Service!Refuse, Service!Accept, Service!Leave, Service!Answer, Service!Fail
<1> QED BY <1>4 DEF Service!Next

(* Steps that show no status change: within the handler's start, or after the answer. *)
LEMMA SameStatus ==
  ASSUME TypeOK, TypeOK',
         \A q \in Requests :
           /\ reply'[q] = reply[q]
           /\ \/ pc'[q] = pc[q]
              \/ pc[q] \in Early /\ pc'[q] \in Early
              \/ reply[q] # "none"
  PROVE  UNCHANGED ServiceStatus
<1>1. ASSUME NEW q \in Requests PROVE StatusOf(q)' = StatusOf(q)
  <2>1. /\ reply[q] \in {"none", "ok", "error", "unavailable"}
        /\ pc[q] \in Early \cup {"streaming", "buffering", "closed", "abandoned"}
    BY DEF TypeOK, PCs, Early
  <2>2. reply'[q] = reply[q]
    OBVIOUS
  <2> QED BY <2>1, <2>2, StatusCases, StatusCasesAfter
<1> QED BY <1>1 DEF ServiceStatus

\* Every step of the Fleet Manager is one of the service, or changes nothing it shows.
LEMMA ServiceStep ==
  ASSUME TypeOK, TypeOK', OneAnswerEach, [Next]_vars
  PROVE  [Service!Next]_(Service!vars)
<1>a. ASSUME NEW r \in Requests, pc[r] \in Early, Return(r, "unavailable"), UNCHANGED credited
      PROVE  [Service!Next]_(Service!vars)
  <2>1. reply[r] = "none" /\ StatusOf(r) = "new"
    BY <1>a, StatusCases DEF OneAnswerEach, OneAnswer, Replies
  <2>2. reply'[r] = "unavailable" /\ StatusOf(r)' = "refused"
    <3>1. reply'[r] = "unavailable"
      BY <1>a DEF Return, TypeOK
    <3> QED BY <3>1, StatusCasesAfter
  <2>3. \A q \in Requests : q # r => pc'[q] = pc[q] /\ reply'[q] = reply[q]
    BY <1>a DEF Return, TypeOK
  <2>4. \A q \in Requests : q # r => StatusOf(q)' = StatusOf(q)
    BY <2>3 DEF StatusOf
  <2> QED BY <1>a, <2>1, <2>2, <2>4, ServiceMoves
<1>b. ASSUME NEW r \in Requests, NEW e \in Finals, TakeEvent(r, e), UNCHANGED credited,
             reply' = [reply EXCEPT ![r] = IF e = "Done" THEN "ok" ELSE "error"],
             \/ pc[r] = "streaming" /\ pc' = pc
             \/ pc[r] = "buffering" /\ pc' = [pc EXCEPT ![r] = "closed"]
      PROVE  [Service!Next]_(Service!vars)
  <2>1. OneAnswer(r) /\ OnceEach(r) /\ via[r] \in Conns
    BY <1>b DEF OneAnswerEach, OneAnswer, TypeOK, Listening
  <2>2. Told(r) /\ Occurs(events[r], {e})
    BY <1>b, <2>1, TailEvents DEF TakeEvent
  <2>3. reply[r] = "none" /\ credited[r] = IF e = "Done" THEN 1 ELSE 0
    BY <2>1, <2>2 DEF OneAnswer, OnePlace, Paid, Finals
  <2>4. StatusOf(r) = "open"
    BY <1>b, <2>3, StatusCases
  <2>5. StatusOf(r)' = IF e = "Done" THEN "answered" ELSE "failed"
    <3>1. reply'[r] = IF e = "Done" THEN "ok" ELSE "error"
      BY <1>b DEF TypeOK
    <3> QED BY <3>1, StatusCasesAfter
  <2>6. \A q \in Requests : q # r => pc'[q] = pc[q] /\ reply'[q] = reply[q]
    BY <1>b DEF TypeOK
  <2>7. \A q \in Requests : q # r => StatusOf(q)' = StatusOf(q)
    BY <2>6 DEF StatusOf
  <2> QED BY <1>b, <2>3, <2>4, <2>5, <2>7, ServiceMoves
<1>1. CASE UNCHANGED <<pc, reply, credited>>
  BY <1>1, SameStatus, ServiceStutters
<1>2. ASSUME NEW c \in Conns, HandleDone(c)
      PROVE  [Service!Next]_(Service!vars)
  <2> DEFINE r == Frame(c).req
  <2>1. Reads(c, "Done") /\ Consume(c) /\ post_delivery(r) /\ UNCHANGED <<pc, reply>>
    BY <1>2 DEF HandleDone
  <2>2. UNCHANGED ServiceStatus
    BY <2>1, SameStatus
  <2>3. CASE pending[r] = Absent
    BY <2>1, <2>2, <2>3, ServiceStutters DEF post_delivery
  <2>4. CASE pending[r] # Absent
    <3>1. Frame(c) \in UpFrame /\ r \in Requests /\ Frame(c).t = "Done"
      BY <2>1, TakeFrame, FrameFields DEF Reads, Frame
    <3>2. Frame(c) \in Endings(r)
      BY <3>1, EndingFrames DEF Finals
    <3>3. OneAnswer(r) /\ Ended(r, c)
      BY <2>1, <3>1, <3>2, ConsumeEndings DEF OneAnswerEach, OneAnswer, Reads
    <3>4. credited[r] = 0 /\ reply[r] = "none" /\ pc[r] \notin Early
      BY <3>3 DEF OneAnswer, OnePlace, Paid, Unsent
    <3>5. StatusOf(r) \in {"open", "left"}
      BY <3>1, <3>4, StatusCases DEF TypeOK, PCs, Early
    <3>6. credited' = [credited EXCEPT ![r] = 1]
      BY <2>1, <2>4, <3>1, <3>4 DEF post_delivery, TypeOK
    <3> QED BY <2>2, <3>1, <3>4, <3>5, <3>6, ServicePosts
  <2> QED BY <2>3, <2>4
<1>3. ASSUME NEW c \in Conns, Reader(c) \/ Writer(c)
      PROVE  [Service!Next]_(Service!vars)
  <2>1. HandleDone(c) \/ UNCHANGED <<pc, reply, credited>>
    BY <1>3 DEF Reader, HandleRegister, HandleHeartbeat, HandleModelStatus, HandleTokenChunk,
                HandleError, HandleRelayed, RelayDone, CloseTunnel,
                Writer, WriterLoses, WriterFails, WriterEnds
  <2> QED BY <2>1, <1>1, <1>2
<1>4. ASSUME NEW r \in Requests, Handler(r)
      PROVE  [Service!Next]_(Service!vars)
  <2>1. CASE PickNode(r) \/ GetSender(r) \/ RegisterRequest(r)
    <3>1. \A q \in Requests : pc'[q] = pc[q] \/ (pc[q] \in Early /\ pc'[q] \in Early)
      <4>1. pc[r] \in Early /\ \E l \in Early : pc' = [pc EXCEPT ![r] = l]
        BY <2>1 DEF PickNode, GetSender, RegisterRequest, Early
      <4> QED BY <4>1 DEF TypeOK
    <3>2. UNCHANGED <<reply, credited>>
      BY <2>1 DEF PickNode, GetSender, RegisterRequest
    <3> QED BY <3>1, <3>2, SameStatus, ServiceStutters
  <2>2. CASE PickNone(r) \/ NoSender(r) \/ DispatchFails(r)
    <3>1. pc[r] \in Early /\ Return(r, "unavailable") /\ UNCHANGED credited
      BY <2>2 DEF PickNone, NoSender, DispatchFails, Early
    <3> QED BY <3>1, <1>a
  <2>3. CASE SendDispatch(r)
    <3>1. reply[r] = "none" /\ pc[r] \in Early
      BY <2>3 DEF SendDispatch, OneAnswerEach, OneAnswer, Replies, Early
    <3>2. UNCHANGED <<reply, credited>> /\ pc'[r] \in {"streaming", "buffering"}
          /\ \A q \in Requests : q # r => pc'[q] = pc[q]
      BY <2>3 DEF SendDispatch, TypeOK
    <3>3. StatusOf(r) = "new" /\ StatusOf(r)' = "open"
      BY <3>1, <3>2, StatusCases, StatusCasesAfter
    <3>4. \A q \in Requests : q # r => StatusOf(q)' = StatusOf(q)
      BY <3>2 DEF StatusOf
    <3> QED BY <3>2, <3>3, <3>4, ServiceMoves
  <2>4. CASE TakeChunk(r)
    BY <2>4, <1>1 DEF TakeChunk
  <2>5. CASE BufferedOk(r) \/ BufferedError(r)
    <3>1. PICK e \in Finals : BufferedAnswer(r, e, IF e = "Done" THEN "ok" ELSE "error")
      BY <2>5 DEF BufferedOk, BufferedError, Finals
    <3> QED BY <3>1, <1>b DEF BufferedAnswer, Return
  <2>6. CASE StreamOk(r) \/ StreamError(r)
    <3>1. PICK e \in Finals : StreamAnswer(r, e, IF e = "Done" THEN "ok" ELSE "error")
      BY <2>6 DEF StreamOk, StreamError, Finals
    <3> QED BY <3>1, <1>b DEF StreamAnswer
  <2> QED BY <1>4, <2>1, <2>2, <2>3, <2>4, <2>5, <2>6 DEF Handler, Routing, Answering
<1>5. ASSUME NEW r \in Requests, ClientLeaves(r)
      PROVE  [Service!Next]_(Service!vars)
  <2>1. /\ pc[r] \in {"streaming", "buffering"} /\ pc'[r] \in {"closed", "abandoned"}
        /\ \A q \in Requests : q # r => pc'[q] = pc[q]
        /\ UNCHANGED <<reply, credited>>
    BY <1>5 DEF ClientLeaves, TypeOK
  <2>2. CASE reply[r] = "none"
    <3>1. StatusOf(r) = "open" /\ StatusOf(r)' = "left"
      BY <2>1, <2>2, StatusCases, StatusCasesAfter
    <3>2. \A q \in Requests : q # r => StatusOf(q)' = StatusOf(q)
      BY <2>1 DEF StatusOf
    <3> QED BY <2>1, <3>1, <3>2, ServiceMoves
  <2>3. CASE reply[r] # "none"
    BY <2>1, <2>3, SameStatus, ServiceStutters
  <2> QED BY <2>2, <2>3
<1>6. ASSUME NEW r \in Requests, NodeChunk(r) \/ NodeFinish(r)
      PROVE  [Service!Next]_(Service!vars)
  BY <1>6, <1>1 DEF NodeChunk, NodeFinish
<1>7. ASSUME NEW n \in Nodes, Node(n)
      PROVE  [Service!Next]_(Service!vars)
  BY <1>7, <1>1 DEF Node, NodeConnect, NodeStatus, NodeReceive, LinkLost, NodeCrash, Cut
<1> QED BY <1>1, <1>3, <1>4, <1>5, <1>6, <1>7 DEF Next, vars

\* The Fleet Manager implements the chat service.
THEOREM ImplementsChatService == Spec => ServiceSpec
<1>1. Init => Service!Init
  BY DEF Init, Service!Init
<1>2. TypeOK /\ TypeOK' /\ OneAnswerEach /\ [Next]_vars => [Service!Next]_(Service!vars)
  BY ServiceStep
<1> QED BY <1>1, <1>2, TypeCorrect, OneAnswerEachKept, PTL DEF Spec, ServiceSpec, Service!Spec

-----------------------------------------------------------------------------
(* Counting the elements of F in a queue, and the order of two kinds.      *)

\* Where a queue holds elements of F, and how many.
Places(s, F) == {i \in 1 .. Len(s) : s[i] \in F}
Count(s, F) == Cardinality(Places(s, F))

\* Every element of F stands before every one of G.
Precede(s, F, G) == \A i, j \in 1 .. Len(s) : s[i] \in F /\ s[j] \in G => i < j

(* None occurs: the count is zero. *)
LEMMA CountNone ==
  ASSUME NEW s, NEW F, ~Occurs(s, F)
  PROVE  Count(s, F) = 0
<1>1. Places(s, F) = {}
  BY DEF Places, Occurs
<1> QED BY <1>1, FS_EmptySet DEF Count

(* Counts are numbers. *)
LEMMA CountFinite ==
  ASSUME NEW S, NEW s \in Seq(S), NEW F
  PROVE  IsFiniteSet(Places(s, F)) /\ Count(s, F) \in Nat
<1>1. Len(s) \in Nat /\ IsFiniteSet(1 .. Len(s))
  BY LenProperties, FS_Interval
<1> QED BY <1>1, FS_Subset, FS_CardinalityType DEF Places, Count

(* Append adds one, or none. *)
LEMMA CountAppend ==
  ASSUME NEW S, NEW s \in Seq(S), NEW e \in S, NEW F
  PROVE  Count(Append(s, e), F) = IF e \in F THEN Count(s, F) + 1 ELSE Count(s, F)
<1> DEFINE t == Append(s, e)  n == Len(s) + 1
<1>1. /\ Len(t) = n /\ Len(s) \in Nat
      /\ \A i \in 1 .. Len(s) : t[i] = s[i]
      /\ t[n] = e
  BY AppendProperties, LenProperties
<1> HIDE DEF t
<1>2. Places(t, F) = IF e \in F THEN Places(s, F) \cup {n} ELSE Places(s, F)
  BY <1>1 DEF Places
<1>3. n \notin Places(s, F)
  BY <1>1 DEF Places
<1>4. IsFiniteSet(Places(s, F))
  BY CountFinite
<1>5. Cardinality(Places(s, F) \cup {n}) = Cardinality(Places(s, F)) + 1
  BY <1>3, <1>4, FS_AddElement
<1> QED BY <1>2, <1>5 DEF Count, t

(* Tail takes one, or none. *)
LEMMA CountTail ==
  ASSUME NEW S, NEW s \in Seq(S), s # <<>>, NEW F
  PROVE  Count(s, F) = IF Head(s) \in F THEN Count(Tail(s), F) + 1 ELSE Count(Tail(s), F)
<1>1. /\ Len(s) \in Nat /\ Len(s) >= 1
      /\ Len(Tail(s)) = Len(s) - 1
      /\ \A i \in 1 .. Len(Tail(s)) : Tail(s)[i] = s[i + 1]
      /\ Head(s) = s[1] /\ Tail(s) \in Seq(S)
  BY HeadTailProperties, LenProperties, EmptySeq
<1> DEFINE A == Places(Tail(s), F)  B == Places(s, F) \ {1}  f == [i \in A |-> i + 1]
<1>2. \A i \in A : i \in Int /\ i + 1 \in B
  BY <1>1 DEF Places
<1>3. \A j \in B : j - 1 \in A /\ (j - 1) + 1 = j
  <2> SUFFICES ASSUME NEW j \in B PROVE j - 1 \in A /\ (j - 1) + 1 = j
    OBVIOUS
  <2>1. j \in 1 .. Len(s) /\ j # 1 /\ s[j] \in F
    BY DEF Places
  <2>2. j - 1 \in 1 .. Len(Tail(s)) /\ (j - 1) + 1 = j
    BY <1>1, <2>1
  <2>3. Tail(s)[j - 1] = s[j]
    BY <1>1, <2>2
  <2> QED BY <2>1, <2>2, <2>3 DEF Places
<1> HIDE DEF A, B
<1>4. f \in Bijection(A, B)
  <2>1. f \in [A -> B]
    BY <1>2
  <2>2. \A i, k \in A : f[i] = f[k] => i = k
    BY <1>2
  <2>3. \A j \in B : \E i \in A : f[i] = j
    <3> SUFFICES ASSUME NEW j \in B PROVE \E i \in A : f[i] = j
      OBVIOUS
    <3>1. j - 1 \in A /\ f[j - 1] = j
      BY <1>3
    <3> QED BY <3>1
  <2> HIDE DEF f
  <2> QED BY <2>1, <2>2, <2>3, Fun_IsBij
<1>5. ExistsBijection(A, B)
  BY <1>4, Fun_ExistsBij
<1>6. IsFiniteSet(A) /\ Cardinality(A) = Count(Tail(s), F) /\ Cardinality(A) \in Nat
  BY <1>1, CountFinite DEF A, Count
<1>7. Cardinality(B) = Count(Tail(s), F)
  BY <1>5, <1>6, FS_Bijection
<1>8. IsFiniteSet(Places(s, F)) /\ Cardinality(Places(s, F)) \in Nat
  BY CountFinite DEF Count
<1>9. 1 \in Places(s, F) <=> Head(s) \in F
  BY <1>1 DEF Places
<1>10. Cardinality(B) = IF 1 \in Places(s, F) THEN Count(s, F) - 1 ELSE Count(s, F)
  BY <1>8, FS_RemoveElement DEF B, Count
<1> QED BY <1>6, <1>7, <1>8, <1>9, <1>10 DEF Count

(* Append keeps the order unless it adds an F after a G. *)
LEMMA PrecedeAppend ==
  ASSUME NEW S, NEW s \in Seq(S), NEW e \in S, NEW F, NEW G, Precede(s, F, G),
         e \notin F \/ (e \notin G /\ ~Occurs(s, G))
  PROVE  Precede(Append(s, e), F, G)
<1> DEFINE t == Append(s, e)
<1>1. /\ Len(t) = Len(s) + 1 /\ Len(s) \in Nat
      /\ \A i \in 1 .. Len(s) : t[i] = s[i]
      /\ t[Len(s) + 1] = e
  BY AppendProperties, LenProperties
<1> HIDE DEF t
<1>2. \A i \in 1 .. Len(t) : i \in 1 .. Len(s) \/ i = Len(s) + 1
  BY <1>1
<1>3. Precede(t, F, G)
  BY <1>1, <1>2 DEF Precede, Occurs
<1> QED BY <1>3 DEF t

(* Tail keeps the order, and a G at the head has no F behind it. *)
LEMMA PrecedeTail ==
  ASSUME NEW S, NEW s \in Seq(S), s # <<>>, NEW F, NEW G, Precede(s, F, G)
  PROVE  /\ Precede(Tail(s), F, G)
         /\ Head(s) \in G => ~Occurs(s, F)
<1>1. /\ Len(s) \in Nat /\ Len(s) >= 1
      /\ Len(Tail(s)) = Len(s) - 1
      /\ \A i \in 1 .. Len(Tail(s)) : Tail(s)[i] = s[i + 1]
      /\ Head(s) = s[1]
  BY HeadTailProperties, LenProperties, EmptySeq
<1>2. \A i \in 1 .. Len(Tail(s)) : i + 1 \in 1 .. Len(s)
  BY <1>1
<1>3. Precede(Tail(s), F, G)
  <2> SUFFICES ASSUME NEW i \in 1 .. Len(Tail(s)), NEW j \in 1 .. Len(Tail(s)),
                      Tail(s)[i] \in F, Tail(s)[j] \in G
               PROVE  i < j
    BY DEF Precede
  <2>1. i + 1 < j + 1
    BY <1>1, <1>2 DEF Precede
  <2> QED BY <2>1
<1>4. Head(s) \in G => ~Occurs(s, F)
  <2>1. 1 \in 1 .. Len(s) /\ \A i \in 1 .. Len(s) : ~(i < 1)
    BY <1>1
  <2> QED BY <2>1, <1>1 DEF Precede, Occurs
<1> QED BY <1>3, <1>4

-----------------------------------------------------------------------------
(* AnswerIsComplete: as long as no link was cut, every chunk of a request  *)
(* is handed over, in its channel, or in the one tunnel it was dispatched  *)
(* to, and none is anywhere once the end of the answer has left the tunnel, *)
(* though the reader lets go of the registry between a Done and its relay. *)

\* The TokenChunks of a request, as frames and as events.
Chunks(r) == [t: {"TokenChunk"}, req: {r}]
Chunk == {"TokenChunk"}
Flowing(r, c) == Occurs(up[c], Chunks(r))

\* A connection that was opened is still the link of its node.
OneLink ==
  \A c \in Conns : phase[c] # "unused" => peer[c] \in Nodes /\ link[peer[c]] = c

\* Nothing is generated before the dispatch.
Unstarted(r) ==
  pc[r] \in Early =>
    sent[r] = 0 /\ got[r] = 0 /\ events[r] = <<>> /\ \A c \in Conns : ~Flowing(r, c)

\* While the handler takes events: every chunk is in the tunnel it dispatched to,
\* in its channel or handed over, and none comes after the end of the answer.
Streaming(r) ==
  pc[r] \in {"streaming", "buffering"} =>
    /\ \A c \in Conns :
         /\ Flowing(r, c) \/ Ended(r, c) => c = via[r]
         /\ Precede(up[c], Chunks(r), Endings(r))
         /\ handling[c] = r \/ Told(r) \/ reply[r] # "none" =>
              \A d \in Conns : ~Flowing(r, d)
    /\ Precede(events[r], Chunk, Finals)
    /\ reply[r] # "none" => ~Occurs(events[r], Chunk)
    /\ sent[r] = got[r] + Count(events[r], Chunk) + Count(up[via[r]], Chunks(r))

\* What a closed handler's client was told is final.
Finished(r) ==
  pc[r] \in {"closed", "abandoned"} /\ reply[r] = "ok" => got[r] = sent[r]

Whole(r) == Unstarted(r) /\ Streaming(r) /\ Finished(r)

\* As long as no link was lost.
AllWhole == cuts = 0 => OneLink /\ \A r \in Requests : Whole(r)

(* AllWhole has AnswerIsComplete as a consequence. *)
LEMMA WholeIsComplete ==
  ASSUME TypeOK, AllWhole, OneAnswerEach
  PROVE  AnswerIsComplete
<1> SUFFICES ASSUME NEW r \in Requests, cuts = 0, reply[r] = "ok" PROVE got[r] = sent[r]
  BY DEF AnswerIsComplete
<1>1. Whole(r) /\ OneAnswer(r)
  BY DEF AllWhole, OneAnswerEach
<1>2. pc[r] \notin Early
  BY <1>1 DEF OneAnswer, Replies
<1>3. CASE pc[r] \in {"closed", "abandoned"}
  BY <1>1, <1>3 DEF Whole, Finished
<1>4. CASE pc[r] \in {"streaming", "buffering"}
  <2>1. via[r] \in Conns /\ got[r] \in Nat
    BY <1>4 DEF TypeOK, Listening
  <2>2. ~Occurs(events[r], Chunk) /\ ~Occurs(up[via[r]], Chunks(r))
    BY <1>1, <1>4, <2>1 DEF Whole, Streaming, Flowing
  <2>3. sent[r] = got[r] + 0 + 0
    BY <1>1, <1>4, <2>2, CountNone DEF Whole, Streaming
  <2> QED BY <2>1, <2>3
<1> QED BY <1>2, <1>3, <1>4 DEF TypeOK, PCs, Early

\* The tunnels' part of Whole stays as it is.
SameFlow(r) ==
  \A c \in Conns :
    /\ Flowing(r, c)' <=> Flowing(r, c)
    /\ Count(up'[c], Chunks(r)) = Count(up[c], Chunks(r))
    /\ Precede(up[c], Chunks(r), Endings(r)) => Precede(up'[c], Chunks(r), Endings(r))

(* Consuming a frame takes at most one chunk of a request out of its tunnel. *)
LEMMA ConsumeFlow ==
  ASSUME TypeOK, NEW c \in Conns, up[c] # <<>>, Consume(c), NEW r \in Requests
  PROVE  /\ Frame(c) \notin Chunks(r) => SameFlow(r)
         /\ \A d \in Conns :
              /\ Flowing(r, d)' => Flowing(r, d)
              /\ d # c => up'[d] = up[d]
              /\ Precede(up[d], Chunks(r), Endings(r)) => Precede(up'[d], Chunks(r), Endings(r))
         /\ Frame(c) \in Chunks(r) =>
              Flowing(r, c) /\ Count(up[c], Chunks(r)) = Count(up'[c], Chunks(r)) + 1
         /\ Frame(c) \in Endings(r) /\ Precede(up[c], Chunks(r), Endings(r)) => ~Flowing(r, c)
         /\ Count(up'[c], Chunks(r)) \in Nat
<1>1. up[c] \in Seq(UpFrame) /\ up \in [Conns -> Seq(UpFrame)] /\ Tail(up[c]) \in Seq(UpFrame)
  BY HeadTailProperties DEF TypeOK
<1>2. \A d \in Conns : up'[d] = IF d = c THEN Tail(up[c]) ELSE up[d]
  BY <1>1 DEF Consume
<1>3. Occurs(up[c], Chunks(r)) <=> Head(up[c]) \in Chunks(r) \/ Occurs(Tail(up[c]), Chunks(r))
  BY <1>1, OccursTail
<1>4. Count(up[c], Chunks(r)) = IF Head(up[c]) \in Chunks(r) THEN Count(Tail(up[c]), Chunks(r)) + 1
                                ELSE Count(Tail(up[c]), Chunks(r))
  BY <1>1, CountTail
<1>5. Precede(up[c], Chunks(r), Endings(r)) =>
        /\ Precede(Tail(up[c]), Chunks(r), Endings(r))
        /\ Head(up[c]) \in Endings(r) => ~Occurs(up[c], Chunks(r))
  BY <1>1, PrecedeTail
<1>6. Count(Tail(up[c]), Chunks(r)) \in Nat
  BY <1>1, CountFinite
<1> QED BY <1>2, <1>3, <1>4, <1>5, <1>6 DEF SameFlow, Flowing, Frame

(* Adding a frame puts at most one chunk of a request into a tunnel. *)
LEMMA AppendFlow ==
  ASSUME TypeOK, NEW n \in Nodes, link[n] # Absent, NEW f \in UpFrame, Send(n, f), NEW r \in Requests
  PROVE  /\ f \notin Chunks(r) => SameFlow(r)
         /\ f \in Chunks(r) =>
              /\ \A d \in Conns : Flowing(r, d)' => Flowing(r, d) \/ d = link[n]
              /\ \A d \in Conns : Precede(up[d], Chunks(r), Endings(r)) /\ ~Ended(r, d)
                                    => Precede(up'[d], Chunks(r), Endings(r))
              /\ Count(up'[link[n]], Chunks(r)) = Count(up[link[n]], Chunks(r)) + 1
              /\ Count(up[link[n]], Chunks(r)) \in Nat
<1> DEFINE c == link[n]
<1>1. c \in Conns /\ up[c] \in Seq(UpFrame) /\ up' = [up EXCEPT ![c] = Append(up[c], f)]
      /\ up \in [Conns -> Seq(UpFrame)]
  BY DEF TypeOK, Send
<1> HIDE DEF c
<1>2. \A d \in Conns : up'[d] = IF d = c THEN Append(up[c], f) ELSE up[d]
  BY <1>1
<1>3. Occurs(Append(up[c], f), Chunks(r)) <=> Occurs(up[c], Chunks(r)) \/ f \in Chunks(r)
  BY <1>1, OccursAppend
<1>4. Count(Append(up[c], f), Chunks(r)) = IF f \in Chunks(r) THEN Count(up[c], Chunks(r)) + 1
                                           ELSE Count(up[c], Chunks(r))
  BY <1>1, CountAppend
<1>5. Count(up[c], Chunks(r)) \in Nat
  BY <1>1, CountFinite
<1>6. f \notin Chunks(r) \/ f \notin Endings(r)
  BY DEF Chunks, Endings, Finals
<1>7. /\ Precede(up[c], Chunks(r), Endings(r))
      /\ f \notin Chunks(r) \/ ~Occurs(up[c], Endings(r))
      => Precede(Append(up[c], f), Chunks(r), Endings(r))
  BY <1>1, <1>6, PrecedeAppend
<1> QED BY <1>1, <1>2, <1>3, <1>4, <1>5, <1>7 DEF SameFlow, Flowing, Ended, c

(* A step that leaves the request's chunks where they are. *)
LEMMA QuietWhole ==
  ASSUME TypeOK, NEW r \in Requests, Whole(r), SameFlow(r),
         UNCHANGED <<pc[r], reply[r], events[r], sent[r], got[r]>>,
         pc[r] \in {"streaming", "buffering"} =>
           /\ via'[r] = via[r]
           /\ \A c \in Conns : Ended(r, c)' => Ended(r, c) \/ c = via[r]
           /\ \A c \in Conns : handling'[c] = r => handling[c] = r \/ \A d \in Conns : ~Flowing(r, d)
  PROVE  Whole(r)'
<1>1. Unstarted(r)'
  BY DEF Whole, Unstarted, SameFlow
<1>2. Streaming(r)'
  <2>1. pc[r] \in {"streaming", "buffering"} => via[r] \in Conns
    BY DEF TypeOK, Listening
  <2> QED BY <2>1 DEF Whole, Streaming, SameFlow, Told
<1>3. Finished(r)'
  BY DEF Whole, Finished
<1> QED BY <1>1, <1>2, <1>3 DEF Whole

(* Where the events of a channel are after one is dispatched to it. *)
LEMMA DispatchAppends ==
  ASSUME TypeOK, NEW r \in Requests, NEW e \in {"TokenChunk", "Done", "Error"}, dispatch_event(r, e),
         NEW q \in Requests
  PROVE  /\ q # r => events'[q] = events[q]
         /\ pc[r] \notin Listening => events' = events
         /\ events'[r] # events[r] =>
              /\ events'[r] = Append(events[r], e)
              /\ pc[r] \in Listening /\ pending[r] # Absent
         /\ pending[r] # Absent /\ pc[r] \in Listening => events'[r] = Append(events[r], e)
BY DEF TypeOK, dispatch_event

(* An event at the end of a channel whose answer has not ended. *)
LEMMA EventFlow ==
  ASSUME TypeOK, NEW r \in Requests, NEW e \in {"TokenChunk", "Done", "Error"},
         events'[r] = Append(events[r], e), Precede(events[r], Chunk, Finals)
  PROVE  /\ ~Told(r) \/ e # "TokenChunk" => Precede(events'[r], Chunk, Finals)
         /\ Count(events'[r], Chunk) = IF e = "TokenChunk" THEN Count(events[r], Chunk) + 1
                                       ELSE Count(events[r], Chunk)
         /\ Count(events[r], Chunk) \in Nat
         /\ Told(r)' <=> Told(r) \/ e \in Finals
<1> DEFINE E == {"TokenChunk", "Done", "Error"}
<1>1. events[r] \in Seq(E)
  BY DEF TypeOK
<1>2. e \in Chunk <=> e = "TokenChunk"
  BY DEF Chunk
<1>3. e \notin Chunk \/ e \notin Finals
  BY DEF Chunk, Finals
<1>4. Count(Append(events[r], e), Chunk) = IF e \in Chunk THEN Count(events[r], Chunk) + 1
                                           ELSE Count(events[r], Chunk)
  BY <1>1, CountAppend
<1>5. Count(events[r], Chunk) \in Nat
  BY <1>1, CountFinite
<1>6. e \notin Chunk \/ ~Occurs(events[r], Finals) => Precede(Append(events[r], e), Chunk, Finals)
  BY <1>1, <1>3, PrecedeAppend
<1>7. Occurs(Append(events[r], e), Finals) <=> Occurs(events[r], Finals) \/ e \in Finals
  BY <1>1, OccursAppend
<1> QED BY <1>2, <1>4, <1>5, <1>6, <1>7 DEF Told

(* The reader moves a chunk to its channel, or the end of an answer without chunks. *)
LEMMA ReaderKeepsWhole ==
  ASSUME TypeOK, Channel, OneAnswerEach, NEW c \in Conns, Reader(c),
         NEW q \in Requests, Whole(q)
  PROVE  Whole(q)'
<1> USE DEF Reads
<1>0. OneAnswer(q) /\ OnceEach(q) /\ (pc[q] \in {"streaming", "buffering"} => via[q] \in Conns)
  BY DEF OneAnswerEach, OneAnswer, TypeOK, Listening
<1>a. ASSUME up[c] # <<>>, Consume(c), Frame(c) \notin Chunks(q), events'[q] = events[q],
             UNCHANGED <<pc, reply, sent, got, via>>,
             \A d \in Conns : handling'[d] = q => handling[d] = q \/ \A b \in Conns : ~Flowing(q, b)
      PROVE  Whole(q)'
  <2>1. SameFlow(q)
    BY <1>a, ConsumeFlow
  <2>2. \A d \in Conns : Ended(q, d)' => Ended(q, d)
    BY <1>0, <1>a, ConsumeEndings
  <2> QED BY <1>a, <2>1, <2>2, QuietWhole
<1>b. ASSUME NEW t \in {"TokenChunk", "Done", "Error"}, Reads(c, t), Consume(c)
      PROVE  /\ Frame(c).req \in Requests
             /\ Frame(c) \in Chunks(q) <=> t = "TokenChunk" /\ Frame(c).req = q
             /\ Frame(c) \in Endings(q) <=> t \in Finals /\ Frame(c).req = q
  <2>1. Frame(c) \in UpFrame /\ Frame(c).req \in Requests /\ Frame(c).t = t
    BY <1>b, TakeFrame, FrameFields DEF Frame
  <2> QED BY <2>1 DEF Chunks, Endings, Finals, UpFrame, StatusFrame, ReportFrame
<1>1. CASE HandleRegister(c) \/ HandleHeartbeat(c) \/ HandleModelStatus(c)
  <2>1. /\ up[c] # <<>> /\ Consume(c) /\ Frame(c).t # "TokenChunk"
        /\ UNCHANGED <<pc, reply, sent, got, via, handling, events>>
    BY <1>1 DEF HandleRegister, HandleHeartbeat, HandleModelStatus, Frame
  <2>2. Frame(c) \notin Chunks(q)
    BY <2>1 DEF Chunks
  <2> QED BY <2>1, <2>2, <1>a
<1>2. CASE HandleTokenChunk(c)
  <2> DEFINE r == Frame(c).req
  <2>1. /\ Reads(c, "TokenChunk") /\ Consume(c) /\ dispatch_event(r, "TokenChunk")
        /\ UNCHANGED <<pc, reply, sent, got, via, handling>>
    BY <1>2 DEF HandleTokenChunk, HandleRelayed
  <2>2. r \in Requests /\ (Frame(c) \in Chunks(q) <=> r = q)
    BY <1>b, <2>1
  <2>3. CASE q # r
    <3>1. events'[q] = events[q]
      BY <2>1, <2>2, <2>3, DispatchAppends
    <3> QED BY <2>1, <2>2, <2>3, <3>1, <1>a
  <2>4. CASE q = r
    <3>1. /\ Flowing(q, c) /\ Count(up[c], Chunks(q)) = Count(up'[c], Chunks(q)) + 1
          /\ Count(up'[c], Chunks(q)) \in Nat
          /\ \A d \in Conns :
               /\ Flowing(q, d)' => Flowing(q, d)
               /\ d # c => up'[d] = up[d]
               /\ Precede(up[d], Chunks(q), Endings(q)) => Precede(up'[d], Chunks(q), Endings(q))
      BY <2>1, <2>2, <2>4, ConsumeFlow
    <3>2. \A d \in Conns : Ended(q, d)' => Ended(q, d)
      BY <1>0, <2>1, ConsumeEndings
    <3>3. pc[q] \notin Early
      BY <3>1 DEF Whole, Unstarted
    <3>4. CASE pc[q] \in {"streaming", "buffering"}
      <4>1. /\ c = via[q] /\ ~Told(q) /\ reply[q] = "none"
            /\ \A d \in Conns : handling[d] # q
        BY <3>1, <3>4 DEF Whole, Streaming
      <4>2. pending[q] # Absent
        BY <3>4, AbsentAssumption DEF Channel, WaitingHasChannel, Listening, TypeOK
      <4>3. events'[q] = Append(events[q], "TokenChunk")
        BY <2>1, <2>2, <2>4, <3>4, <4>2, DispatchAppends DEF Listening
      <4>4. /\ Precede(events'[q], Chunk, Finals) /\ ~Told(q)'
            /\ Count(events'[q], Chunk) = Count(events[q], Chunk) + 1
            /\ Count(events[q], Chunk) \in Nat
        <5>1. Precede(events[q], Chunk, Finals)
          BY <3>4 DEF Whole, Streaming
        <5> QED BY <4>1, <4>3, <5>1, EventFlow DEF Finals
      <4>5. sent[q] = got[q] + Count(events[q], Chunk) + Count(up[c], Chunks(q)) /\ got[q] \in Nat
        BY <3>4, <4>1 DEF Whole, Streaming, TypeOK
      <4>6. sent[q] = got[q] + Count(events'[q], Chunk) + Count(up'[c], Chunks(q))
        BY <3>1, <4>4, <4>5
      <4>7. Streaming(q)'
        BY <2>1, <3>1, <3>2, <3>4, <4>1, <4>4, <4>6 DEF Whole, Streaming
      <4> QED BY <2>1, <3>4, <4>7 DEF Whole, Unstarted, Finished, Early
    <3>5. CASE pc[q] \in {"closed", "abandoned"}
      BY <2>1, <3>5 DEF Whole, Unstarted, Streaming, Finished, Early
    <3> QED BY <3>3, <3>4, <3>5 DEF TypeOK, PCs, Early
  <2> QED BY <2>3, <2>4
<1>3. CASE HandleError(c)
  <2> DEFINE r == Frame(c).req
  <2>1. /\ Reads(c, "Error") /\ Consume(c) /\ dispatch_event(r, "Error")
        /\ UNCHANGED <<pc, reply, sent, got, via, handling>>
    BY <1>3 DEF HandleError, HandleRelayed
  <2>2. r \in Requests /\ Frame(c) \notin Chunks(q) /\ (Frame(c) \in Endings(q) <=> r = q)
    BY <1>b, <2>1 DEF Finals
  <2>3. CASE q # r \/ pc[q] \notin {"streaming", "buffering"}
    <3>1. SameFlow(q)
      BY <2>1, <2>2, ConsumeFlow
    <3>2. pc[q] \in {"streaming", "buffering"} \/ pc[q] \in Early => events'[q] = events[q]
      <4>1. q = r /\ pc[q] \in Early => FALSE
        <5>1. q = r => Ended(q, c)
          BY <1>0, <2>1, <2>2, ConsumeEndings
        <5> QED BY <1>0, <5>1 DEF OneAnswer, Unsent
      <4> QED BY <2>1, <2>2, <2>3, <4>1, DispatchAppends
    <3>3. CASE pc[q] \in {"closed", "abandoned"}
      BY <2>1, <3>3 DEF Whole, Unstarted, Streaming, Finished, Early
    <3>4. CASE pc[q] \notin {"closed", "abandoned"}
      <4>1. events'[q] = events[q]
        BY <3>2, <3>4 DEF TypeOK, PCs, Early
      <4> QED BY <2>1, <2>2, <4>1, <1>a
    <3> QED BY <3>3, <3>4
  <2>4. CASE q = r /\ pc[q] \in {"streaming", "buffering"}
    <3>1. SameFlow(q)
      BY <2>1, <2>2, ConsumeFlow
    <3>2. Ended(q, c) /\ \A d \in Conns : Ended(q, d)' => Ended(q, d)
      BY <1>0, <2>1, <2>2, <2>4, ConsumeEndings
    <3>3. c = via[q] /\ Precede(up[c], Chunks(q), Endings(q))
      BY <2>4, <3>2 DEF Whole, Streaming
    <3>4. ~Flowing(q, c)
      BY <2>1, <2>2, <2>4, <3>3, ConsumeFlow
    <3>5. \A d \in Conns : ~Flowing(q, d)'
      BY <2>4, <3>1, <3>3, <3>4 DEF Whole, Streaming, SameFlow
    <3>6. reply[q] = "none" /\ ~Told(q)
      BY <1>0, <3>2 DEF OneAnswer, OnePlace
    <3>7. events'[q] = events[q] \/ events'[q] = Append(events[q], "Error")
      BY <2>1, <2>2, <2>4, DispatchAppends
    <3>8. Precede(events'[q], Chunk, Finals) /\ Count(events'[q], Chunk) = Count(events[q], Chunk)
      <4>1. Precede(events[q], Chunk, Finals)
        BY <2>4 DEF Whole, Streaming
      <4> QED BY <3>7, <4>1, EventFlow
    <3>9. Streaming(q)'
      BY <1>0, <2>1, <2>4, <3>1, <3>2, <3>5, <3>6, <3>8 DEF Whole, Streaming, SameFlow
    <3> QED BY <2>1, <2>4, <3>9 DEF Whole, Unstarted, Finished, Early
  <2> QED BY <2>3, <2>4
<1>4. CASE HandleDone(c)
  <2> DEFINE r == Frame(c).req
  <2>1. /\ Reads(c, "Done") /\ Consume(c)
        /\ handling' = [handling EXCEPT ![c] = r]
        /\ UNCHANGED <<pc, reply, sent, got, via, events>>
    BY <1>4 DEF HandleDone
  <2>2. r \in Requests /\ Frame(c) \notin Chunks(q) /\ (Frame(c) \in Endings(q) <=> r = q)
    BY <1>b, <2>1 DEF Finals
  <2>3. \A d \in Conns : handling'[d] = IF d = c THEN r ELSE handling[d]
    BY <2>1 DEF TypeOK
  <2>4. CASE q # r
    BY <2>1, <2>2, <2>3, <2>4, <1>a
  <2>5. CASE q = r /\ pc[q] \in {"streaming", "buffering"}
    <3>1. Ended(q, c)
      BY <1>0, <2>1, <2>2, <2>5, ConsumeEndings
    <3>2. c = via[q] /\ Precede(up[c], Chunks(q), Endings(q))
      BY <2>5, <3>1 DEF Whole, Streaming
    <3>3. ~Flowing(q, c)
      BY <2>1, <2>2, <2>5, <3>2, ConsumeFlow
    <3>4. \A d \in Conns : ~Flowing(q, d)
      BY <2>5, <3>2, <3>3 DEF Whole, Streaming
    <3> QED BY <2>1, <2>2, <3>4, <1>a
  <2>6. CASE pc[q] \notin {"streaming", "buffering"}
    <3>1. SameFlow(q)
      BY <2>1, <2>2, ConsumeFlow
    <3> QED BY <2>1, <2>6, <3>1, QuietWhole
  <2> QED BY <2>4, <2>5, <2>6
<1>5. CASE RelayDone(c)
  <2> DEFINE r == handling[c]
  <2>1. /\ r \in Requests /\ dispatch_event(r, "Done")
        /\ handling' = [handling EXCEPT ![c] = Absent]
        /\ UNCHANGED <<pc, reply, sent, got, via, up>>
    BY <1>5 DEF RelayDone, TypeOK
  <2>2. \A d \in Conns : handling'[d] = q => handling[d] = q
    BY <2>1, AbsentAssumption DEF TypeOK
  <2>3. SameFlow(q) /\ \A d \in Conns : Ended(q, d)' <=> Ended(q, d)
    BY <2>1 DEF SameFlow, Flowing, Ended
  <2>4. CASE events'[q] = events[q]
    BY <2>1, <2>2, <2>3, <2>4, QuietWhole
  <2>5. CASE events'[q] # events[q]
    <3>1. q = r /\ events'[q] = Append(events[q], "Done") /\ pc[q] \in Listening
      BY <2>1, <2>5, DispatchAppends
    <3>2. pc[q] \notin Early /\ ~Told(q) /\ reply[q] = "none"
      BY <1>0, <3>1 DEF OneAnswer, OnePlace, Unsent
    <3>3. pc[q] \in {"streaming", "buffering"}
      BY <3>1, <3>2 DEF Listening, Early
    <3>4. \A d \in Conns : ~Flowing(q, d)
      BY <3>1, <3>3 DEF Whole, Streaming
    <3>5. Precede(events'[q], Chunk, Finals) /\ Count(events'[q], Chunk) = Count(events[q], Chunk)
      <4>1. Precede(events[q], Chunk, Finals)
        BY <3>3 DEF Whole, Streaming
      <4> QED BY <3>1, <4>1, EventFlow
    <3>6. Streaming(q)'
      BY <1>0, <2>1, <2>2, <2>3, <3>2, <3>3, <3>4, <3>5 DEF Whole, Streaming, SameFlow
    <3> QED BY <2>1, <3>3, <3>6 DEF Whole, Unstarted, Finished, Early
  <2> QED BY <2>4, <2>5
<1>6. CASE CloseTunnel(c)
  <2>1. UNCHANGED <<up, handling, pc, reply, sent, got, via, events>>
    BY <1>6 DEF CloseTunnel
  <2>2. SameFlow(q) /\ \A d \in Conns : Ended(q, d)' <=> Ended(q, d)
    BY <2>1 DEF SameFlow, Flowing, Ended
  <2> QED BY <2>1, <2>2, QuietWhole
<1> QED BY <1>1, <1>2, <1>3, <1>4, <1>5, <1>6 DEF Reader

(* The writer touches no answer. *)
LEMMA WriterKeepsWhole ==
  ASSUME TypeOK, NEW c \in Conns, Writer(c), NEW q \in Requests, Whole(q)
  PROVE  Whole(q)'
<1>1. UNCHANGED <<up, handling, pc, reply, sent, got, via, events>>
  BY DEF Writer, WriterLoses, WriterFails, WriterEnds
<1>2. SameFlow(q) /\ \A d \in Conns : Ended(q, d)' <=> Ended(q, d)
  BY <1>1 DEF SameFlow, Flowing, Ended
<1> QED BY <1>1, <1>2, QuietWhole

(* Taking an event moves a chunk to the client, or ends an answer that has none left. *)
LEMMA TakeFlow ==
  ASSUME TypeOK, NEW r \in Requests, NEW e \in {"TokenChunk", "Done", "Error"}, TakeEvent(r, e),
         Precede(events[r], Chunk, Finals)
  PROVE  /\ \A q \in Requests : q # r => events'[q] = events[q]
         /\ Precede(events'[r], Chunk, Finals)
         /\ Count(events'[r], Chunk) \in Nat
         /\ Told(r)' => Told(r)
         /\ e = "TokenChunk" => /\ Occurs(events[r], Chunk)
                                /\ Count(events[r], Chunk) = Count(events'[r], Chunk) + 1
         /\ e \in Finals => /\ Told(r) /\ ~Occurs(events[r], Chunk) /\ ~Occurs(events'[r], Chunk)
<1> DEFINE E == {"TokenChunk", "Done", "Error"}
<1>1. /\ events[r] \in Seq(E) /\ events[r] # <<>> /\ Head(events[r]) = e
      /\ events'[r] = Tail(events[r]) /\ Tail(events[r]) \in Seq(E)
      /\ \A q \in Requests : q # r => events'[q] = events[q]
  BY HeadTailProperties DEF TypeOK, TakeEvent
<1>2. \A F : Occurs(events[r], F) <=> e \in F \/ Occurs(Tail(events[r]), F)
  BY <1>1, OccursTail
<1>3. Count(events[r], Chunk) = IF e \in Chunk THEN Count(Tail(events[r]), Chunk) + 1
                                ELSE Count(Tail(events[r]), Chunk)
  BY <1>1, CountTail
<1>4. Count(Tail(events[r]), Chunk) \in Nat
  BY <1>1, CountFinite
<1>5. Precede(Tail(events[r]), Chunk, Finals) /\ (e \in Finals => ~Occurs(events[r], Chunk))
  BY <1>1, PrecedeTail
<1> QED BY <1>1, <1>2, <1>3, <1>4, <1>5 DEF Told, Chunk

(* The handler takes chunks, then the end. *)
LEMMA HandlerKeepsWhole ==
  ASSUME TypeOK, OneAnswerEach, NEW r \in Requests, Handler(r) \/ ClientLeaves(r),
         NEW q \in Requests, Whole(q)
  PROVE  Whole(q)'
<1>0. OneAnswer(q) /\ OnceEach(q) /\ (pc[q] \in {"streaming", "buffering"} => via[q] \in Conns)
  BY DEF OneAnswerEach, OneAnswer, TypeOK, Listening
<1>a. ASSUME UNCHANGED <<up, handling>>
      PROVE  SameFlow(q) /\ \A d \in Conns : (Ended(q, d)' <=> Ended(q, d)) /\ (Flowing(q, d)' <=> Flowing(q, d))
  BY <1>a DEF SameFlow, Flowing, Ended
\* Before the dispatch, and away from the request.
<1>b. ASSUME UNCHANGED <<up, handling, sent, got, events>>,
             \/ UNCHANGED <<pc[q], reply[q], via[q]>>
             \/ /\ pc[q] \in Early
                /\ \/ pc'[q] \in Early
                   \/ pc'[q] \in {"closed", "abandoned"} /\ reply'[q] # "ok"
      PROVE  Whole(q)'
  <2>1. CASE UNCHANGED <<pc[q], reply[q], via[q]>>
    BY <1>a, <1>b, <2>1, QuietWhole
  <2>2. CASE pc[q] \in Early /\ pc'[q] \in Early
    BY <1>a, <1>b, <2>2 DEF Whole, Unstarted, Streaming, Finished, Early
  <2>3. CASE pc'[q] \in {"closed", "abandoned"} /\ reply'[q] # "ok"
    BY <2>3 DEF Whole, Unstarted, Streaming, Finished, Early
  <2> QED BY <1>b, <2>1, <2>2, <2>3
<1>1. CASE PickNode(r) \/ GetSender(r) \/ RegisterRequest(r)
  <2>1. UNCHANGED <<up, handling, sent, got, events, reply>>
    BY <1>1 DEF PickNode, GetSender, RegisterRequest
  <2>2. UNCHANGED <<pc[q], via[q]>> \/ (pc[q] \in Early /\ pc'[q] \in Early)
    BY <1>1 DEF PickNode, GetSender, RegisterRequest, TypeOK, Early
  <2> QED BY <2>1, <2>2, <1>b
<1>2. CASE PickNone(r) \/ NoSender(r) \/ DispatchFails(r)
  <2>1. UNCHANGED <<up, handling, sent, got, events, via>> /\ Return(r, "unavailable") /\ pc[r] \in Early
    BY <1>2 DEF PickNone, NoSender, DispatchFails, Early
  <2>2. \/ UNCHANGED <<pc[q], reply[q], via[q]>>
        \/ pc[q] \in Early /\ pc'[q] = "closed" /\ reply'[q] = "unavailable"
    BY <2>1 DEF Return, TypeOK
  <2> QED BY <2>1, <2>2, <1>b
<1>3. CASE SendDispatch(r)
  <2>1. UNCHANGED <<up, handling, sent, got, events, via, reply>> /\ pc[r] = "dispatching"
        /\ via[r] \in Conns
    BY <1>3 DEF SendDispatch, TypeOK, Listening
  <2>2. CASE q # r
    <3>1. pc'[q] = pc[q]
      BY <1>3, <2>2 DEF SendDispatch, TypeOK
    <3> QED BY <2>1, <3>1, <1>b
  <2>3. CASE q = r
    <3>1. pc'[q] \in {"streaming", "buffering"}
      BY <1>3, <2>3 DEF SendDispatch, TypeOK
    <3>2. sent[q] = 0 /\ got[q] = 0 /\ events[q] = <<>> /\ \A c \in Conns : ~Flowing(q, c)
      BY <2>1, <2>3 DEF Whole, Unstarted, Early
    <3>3. reply[q] = "none" /\ ~Told(q) /\ \A c \in Conns : ~Ended(q, c) /\ handling[c] # q
      BY <1>0, <2>1, <2>3 DEF OneAnswer, Unsent, Replies, Early
    <3>4. Count(events[q], Chunk) = 0 /\ Count(up[via[q]], Chunks(q)) = 0
      BY <2>1, <2>3, <3>2, EmptyQueue, CountNone DEF Flowing
    <3>5. /\ Precede(events[q], Chunk, Finals)
          /\ \A c \in Conns : Precede(up[c], Chunks(q), Endings(q))
      <4>1. ~Occurs(events[q], Chunk)
        BY <3>2, EmptyQueue
      <4> QED BY <4>1, <3>2 DEF Precede, Flowing, Occurs
    <3>6. Streaming(q)'
      BY <2>1, <3>2, <3>3, <3>4, <3>5 DEF Streaming, Flowing, Ended, Told
    <3> QED BY <3>1, <3>6 DEF Whole, Unstarted, Finished, Early
  <2> QED BY <2>2, <2>3
<1>4. ASSUME q = r, pc[r] \in {"streaming", "buffering"}
      PROVE  Precede(events[r], Chunk, Finals)
  BY <1>4 DEF Whole, Streaming
<1>5. CASE TakeChunk(r)
  <2>1. /\ TakeEvent(r, "TokenChunk") /\ pc[r] \in {"streaming", "buffering"}
        /\ got' = [got EXCEPT ![r] = @ + 1]
        /\ UNCHANGED <<up, handling, sent, pc, via, reply>>
    BY <1>5 DEF TakeChunk
  <2>2. CASE q # r
    <3>1. events'[q] = events[q] /\ got'[q] = got[q]
      BY <2>1, <2>2 DEF TakeEvent, TypeOK
    <3> QED BY <1>a, <2>1, <3>1, QuietWhole
  <2>3. CASE q = r
    <3>1. /\ Precede(events'[q], Chunk, Finals) /\ Count(events'[q], Chunk) \in Nat
          /\ Told(q)' => Told(q)
          /\ Occurs(events[q], Chunk) /\ Count(events[q], Chunk) = Count(events'[q], Chunk) + 1
      BY <1>4, <2>1, <2>3, TakeFlow
    <3>2. reply[q] = "none"
      BY <2>1, <2>3, <3>1 DEF Whole, Streaming
    <3>3. got'[q] = got[q] + 1 /\ got[q] \in Nat /\ via[q] \in Conns
      BY <1>0, <2>1, <2>3 DEF TypeOK
    <3>4. Count(up[via[q]], Chunks(q)) \in Nat
      BY <3>3, CountFinite DEF TypeOK
    <3>5. sent[q] = got[q] + Count(events[q], Chunk) + Count(up[via[q]], Chunks(q))
      BY <2>1, <2>3 DEF Whole, Streaming
    <3>6. sent[q] = got'[q] + Count(events'[q], Chunk) + Count(up[via[q]], Chunks(q))
      BY <3>1, <3>3, <3>4, <3>5
    <3>7. Streaming(q)'
      BY <1>a, <2>1, <2>3, <3>1, <3>2, <3>6 DEF Whole, Streaming
    <3> QED BY <2>1, <2>3, <3>7 DEF Whole, Unstarted, Finished, Early
  <2> QED BY <2>2, <2>3
<1>6. ASSUME NEW e \in Finals, TakeEvent(r, e), UNCHANGED <<up, handling, sent, got, via>>,
             reply' = [reply EXCEPT ![r] = IF e = "Done" THEN "ok" ELSE "error"],
             \/ pc[r] = "streaming" /\ pc' = pc
             \/ pc[r] = "buffering" /\ pc' = [pc EXCEPT ![r] = "closed"]
      PROVE  Whole(q)'
  <2>1. CASE q # r
    <3>1. events'[q] = events[q] /\ reply'[q] = reply[q] /\ pc'[q] = pc[q]
      BY <1>6, <2>1 DEF TakeEvent, TypeOK
    <3> QED BY <1>a, <1>6, <3>1, QuietWhole
  <2>2. CASE q = r
    <3>1. /\ Precede(events'[q], Chunk, Finals)
          /\ Told(q) /\ ~Occurs(events[q], Chunk) /\ ~Occurs(events'[q], Chunk)
      BY <1>4, <1>6, <2>2, TakeFlow DEF Finals
    <3>2. via[q] \in Conns /\ got[q] \in Nat
      BY <1>0, <1>6, <2>2 DEF TypeOK
    <3>3. \A d \in Conns : ~Flowing(q, d)
      BY <1>6, <2>2, <3>1, <3>2 DEF Whole, Streaming
    <3>4. Count(events[q], Chunk) = 0 /\ Count(events'[q], Chunk) = 0 /\ Count(up[via[q]], Chunks(q)) = 0
      BY <3>1, <3>2, <3>3, CountNone DEF Flowing
    <3>5. sent[q] = got[q] + Count(events[q], Chunk) + Count(up[via[q]], Chunks(q))
      BY <1>6, <2>2 DEF Whole, Streaming
    <3>6. sent[q] = got[q]
      BY <3>2, <3>4, <3>5
    <3>7. CASE pc'[q] = "closed"
      BY <1>6, <3>6, <3>7 DEF Whole, Unstarted, Streaming, Finished, Early
    <3>8. CASE pc' = pc
      <4>1. Streaming(q)'
        BY <1>a, <1>6, <2>2, <3>1, <3>3, <3>4, <3>5, <3>8 DEF Whole, Streaming
      <4> QED BY <1>6, <2>2, <3>8, <4>1 DEF Whole, Unstarted, Finished, Early
    <3> QED BY <1>6, <2>2, <3>7, <3>8 DEF TypeOK
  <2> QED BY <2>1, <2>2
<1>7. CASE BufferedOk(r) \/ BufferedError(r)
  <2>1. PICK e \in Finals : BufferedAnswer(r, e, IF e = "Done" THEN "ok" ELSE "error")
    BY <1>7 DEF BufferedOk, BufferedError, Finals
  <2> QED BY <2>1, <1>6 DEF BufferedAnswer, Return
<1>8. CASE StreamOk(r) \/ StreamError(r)
  <2>1. PICK e \in Finals : StreamAnswer(r, e, IF e = "Done" THEN "ok" ELSE "error")
    BY <1>8 DEF StreamOk, StreamError, Finals
  <2> QED BY <2>1, <1>6 DEF StreamAnswer
<1>9. CASE ClientLeaves(r)
  <2>1. UNCHANGED <<up, handling, sent, got, via, reply>>
    BY <1>9 DEF ClientLeaves
  <2>2. CASE q # r
    <3>1. events'[q] = events[q] /\ pc'[q] = pc[q]
      BY <1>9, <2>2 DEF ClientLeaves, TypeOK
    <3> QED BY <1>a, <2>1, <3>1, QuietWhole
  <2>3. CASE q = r
    <3>1. pc[q] \in {"streaming", "buffering"} /\ pc'[q] \in {"closed", "abandoned"}
      BY <1>9, <2>3 DEF ClientLeaves, TypeOK
    <3>2. via[q] \in Conns /\ got[q] \in Nat
      BY <1>0, <3>1 DEF TypeOK
    <3>3. reply[q] = "ok" => got[q] = sent[q]
      <4> SUFFICES ASSUME reply[q] = "ok" PROVE got[q] = sent[q]
        OBVIOUS
      <4>1. ~Occurs(events[q], Chunk) /\ ~Occurs(up[via[q]], Chunks(q))
        BY <3>1, <3>2 DEF Whole, Streaming, Flowing
      <4>2. sent[q] = got[q] + 0 + 0
        BY <3>1, <4>1, CountNone DEF Whole, Streaming
      <4> QED BY <3>2, <4>2
    <3> QED BY <2>1, <3>1, <3>3 DEF Whole, Unstarted, Streaming, Finished, Early
  <2> QED BY <2>2, <2>3
<1> QED BY <1>1, <1>2, <1>3, <1>5, <1>7, <1>8, <1>9 DEF Handler, Routing, Answering

(* The node adds chunks to the tunnel the request came by, while it has the job. *)
LEMMA NodeKeepsWhole ==
  ASSUME TypeOK, OneAnswerEach, Routed, OneLink,
         (\E n \in Nodes : Node(n)) \/ (\E r \in Requests : NodeChunk(r) \/ NodeFinish(r)),
         \A n \in Nodes : ~Cut(n), Served, NEW q \in Requests, Whole(q)
  PROVE  Whole(q)'
<1>0. OneAnswer(q) /\ OnceEach(q) /\ (pc[q] \in {"streaming", "buffering"} => via[q] \in Conns)
  BY DEF OneAnswerEach, OneAnswer, TypeOK, Listening
\* The link of a node that works on a request is the tunnel it was dispatched to.
<1>a. ASSUME job[q] # Absent, pc[q] \in {"streaming", "buffering"}
      PROVE  link[job[q]] = via[q]
  <2>1. job[q] = target[q] /\ peer[via[q]] = target[q] /\ target[q] \in Nodes /\ via[q] \in Conns
    BY <1>a, <1>0 DEF Routed, Listening, TypeOK
  <2>2. phase[via[q]] # "unused"
    BY <2>1, AbsentAssumption DEF Served, OwnTunnel
  <2> QED BY <2>1, <2>2 DEF OneLink
<1>b. ASSUME UNCHANGED <<handling, pc, reply, sent, got, via, events>>,
             NEW n \in Nodes, link[n] # Absent, NEW f \in UpFrame, Send(n, f), f \notin Chunks(q),
             f \in Endings(q) => job[q] = n
      PROVE  Whole(q)'
  <2>1. SameFlow(q)
    BY <1>b, AppendFlow
  <2>2. \A d \in Conns : Ended(q, d)' <=> Ended(q, d) \/ (d = link[n] /\ f \in Endings(q))
    BY <1>b, <1>0, AppendFrame
  <2>3. pc[q] \in {"streaming", "buffering"} =>
          \A d \in Conns : Ended(q, d)' => Ended(q, d) \/ d = via[q]
    BY <1>a, <1>b, <2>2, AbsentAssumption
  <2> QED BY <1>b, <2>1, <2>3, QuietWhole
<1>1. ASSUME NEW n \in Nodes, NodeConnect(n) \/ NodeReceive(n) PROVE Whole(q)'
  <2>1. UNCHANGED <<up, handling, pc, reply, sent, got, via, events>>
    BY <1>1 DEF NodeConnect, NodeReceive
  <2>2. SameFlow(q) /\ \A d \in Conns : Ended(q, d)' <=> Ended(q, d)
    BY <2>1 DEF SameFlow, Flowing, Ended
  <2> QED BY <2>1, <2>2, QuietWhole
<1>2. ASSUME NEW n \in Nodes, NodeStatus(n) PROVE Whole(q)'
  <2>1. PICK f \in StatusFrame(n) : Send(n, f)
    BY <1>2 DEF NodeStatus
  <2>2. f \in UpFrame /\ f \notin Endings(q) /\ f \notin Chunks(q)
    BY DEF UpFrame, StatusFrame, Endings, Finals, Chunks
  <2> QED BY <1>2, <1>b, <2>1, <2>2 DEF NodeStatus
<1>3. ASSUME NEW r \in Requests, NodeFinish(r) PROVE Whole(q)'
  <2>1. PICK t \in Finals : Send(job[r], [t |-> t, req |-> r])
    BY <1>3 DEF NodeFinish, Finals
  <2> DEFINE f == [t |-> t, req |-> r]
  <2>2. f \in UpFrame /\ f \notin Chunks(q) /\ (f \in Endings(q) => q = r)
    BY DEF UpFrame, ReportFrame, Finals, Endings, Chunks
  <2>3. job[r] \in Nodes /\ link[job[r]] # Absent
        /\ UNCHANGED <<handling, pc, reply, sent, got, via, events>>
    BY <1>3 DEF NodeFinish, TypeOK
  <2> QED BY <1>b, <2>1, <2>2, <2>3
<1>4. ASSUME NEW r \in Requests, NodeChunk(r) PROVE Whole(q)'
  <2> DEFINE f == [t |-> "TokenChunk", req |-> r]  n == job[r]
  <2>1. /\ n \in Nodes /\ link[n] # Absent /\ link[n] \in Conns /\ Send(n, f)
        /\ sent' = [sent EXCEPT ![r] = @ + 1]
        /\ UNCHANGED <<handling, pc, reply, got, via, events, job>>
    BY <1>4 DEF NodeChunk, TypeOK
  <2>2. f \in UpFrame /\ f \notin Endings(q) /\ (f \in Chunks(q) <=> q = r)
    BY DEF UpFrame, ReportFrame, Finals, Endings, Chunks
  <2> HIDE DEF f
  <2>3. \A d \in Conns : Ended(q, d)' <=> Ended(q, d)
    BY <1>0, <2>1, <2>2, AppendFrame
  <2>4. CASE q # r
    <3>1. sent'[q] = sent[q]
      BY <2>1, <2>4 DEF TypeOK
    <3>2. SameFlow(q)
      BY <2>1, <2>2, <2>4, AppendFlow
    <3> QED BY <2>1, <2>3, <3>1, <3>2, QuietWhole
  <2>5. CASE q = r
    <3>1. /\ \A d \in Conns : ~Ended(q, d) /\ handling[d] # q
          /\ ~Told(q) /\ reply[q] = "none" /\ pc[q] \notin Early
      BY <1>0, <2>1, <2>5, AbsentAssumption DEF OneAnswer, OnePlace, Unsent
    <3>2. CASE pc[q] \in {"streaming", "buffering"}
      <4>1. link[n] = via[q]
        BY <1>a, <2>1, <2>5, <3>2, AbsentAssumption
      <4>2. /\ \A d \in Conns : Flowing(q, d)' => Flowing(q, d) \/ d = via[q]
            /\ \A d \in Conns : Precede(up[d], Chunks(q), Endings(q)) /\ ~Ended(q, d)
                                  => Precede(up'[d], Chunks(q), Endings(q))
            /\ Count(up'[via[q]], Chunks(q)) = Count(up[via[q]], Chunks(q)) + 1
            /\ Count(up[via[q]], Chunks(q)) \in Nat
        BY <2>1, <2>2, <2>5, <4>1, AppendFlow
      <4>3. sent'[q] = sent[q] + 1 /\ got[q] \in Nat /\ Count(events[q], Chunk) \in Nat
        BY <2>1, <2>5, CountFinite DEF TypeOK
      <4>4. sent[q] = got[q] + Count(events[q], Chunk) + Count(up[via[q]], Chunks(q))
        BY <3>2 DEF Whole, Streaming
      <4>5. sent'[q] = got[q] + Count(events[q], Chunk) + Count(up'[via[q]], Chunks(q))
        BY <4>2, <4>3, <4>4
      <4>6. Streaming(q)'
        BY <2>1, <2>3, <3>1, <3>2, <4>2, <4>5 DEF Whole, Streaming, Told
      <4> QED BY <2>1, <3>2, <4>6 DEF Whole, Unstarted, Finished, Early
    <3>3. CASE pc[q] \in {"closed", "abandoned"}
      BY <2>1, <3>1, <3>3 DEF Whole, Unstarted, Streaming, Finished, Early
    <3> QED BY <3>1, <3>2, <3>3 DEF TypeOK, PCs, Early
  <2> QED BY <2>4, <2>5
<1> QED BY <1>1, <1>2, <1>3, <1>4 DEF Node, LinkLost, NodeCrash

(* Only Cut takes a link away. *)
LEMMA LinksKept ==
  ASSUME TypeOK, OneLink, [Next]_vars, \A n \in Nodes : ~Cut(n)
  PROVE  OneLink'
<1>1. ASSUME NEW n \in Nodes, NodeConnect(n) PROVE OneLink'
  <2>1. PICK c \in Conns :
          /\ phase[c] = "unused"
          /\ phase' = [phase EXCEPT ![c] = "reading"]
          /\ peer' = [peer EXCEPT ![c] = n]
          /\ link' = [link EXCEPT ![n] = c]
    BY <1>1 DEF NodeConnect
  <2>2. \A d \in Conns : phase[d] # "unused" => peer[d] # n
    BY <1>1, AbsentAssumption DEF NodeConnect, OneLink
  <2> QED BY <2>1, <2>2 DEF OneLink, TypeOK
<1>2. ASSUME UNCHANGED <<peer, link>>, \A c \in Conns : phase[c] = "unused" => phase'[c] = "unused"
      PROVE  OneLink'
  BY <1>2 DEF OneLink
<1>3. ASSUME NEW c \in Conns, CloseTunnel(c) PROVE OneLink'
  <2>1. UNCHANGED <<peer, link>> /\ \A d \in Conns : phase[d] = "unused" => phase'[d] = "unused"
    BY <1>3 DEF CloseTunnel, TypeOK
  <2> QED BY <2>1, <1>2
<1>4. ASSUME UNCHANGED <<phase, peer, link>> PROVE OneLink'
  BY <1>2, <1>4
<1>5. ASSUME NEW c \in Conns, Reader(c) \/ Writer(c) PROVE OneLink'
  <2>1. CloseTunnel(c) \/ UNCHANGED <<phase, peer, link>>
    BY <1>5 DEF Reader, HandleRegister, HandleHeartbeat, HandleModelStatus, HandleTokenChunk,
                HandleError, HandleRelayed, HandleDone, RelayDone,
                Writer, WriterLoses, WriterFails, WriterEnds
  <2> QED BY <2>1, <1>3, <1>4
<1>6. ASSUME NEW r \in Requests, Handler(r) \/ ClientLeaves(r) \/ NodeChunk(r) \/ NodeFinish(r)
      PROVE  OneLink'
  <2>1. UNCHANGED <<phase, peer, link>>
    BY <1>6 DEF Handler, PickNode, PickNone,
         Routing, GetSender, NoSender, RegisterRequest, SendDispatch, DispatchFails,
         Answering, TakeChunk, BufferedOk, BufferedError, BufferedAnswer,
         StreamOk, StreamError, StreamAnswer, ClientLeaves, NodeChunk, NodeFinish
  <2> QED BY <2>1, <1>4
<1>7. ASSUME NEW n \in Nodes, NodeStatus(n) \/ NodeReceive(n) PROVE OneLink'
  BY <1>4, <1>7 DEF NodeStatus, NodeReceive
<1>8. CASE UNCHANGED vars
  BY <1>4, <1>8 DEF vars
<1> QED BY <1>1, <1>5, <1>6, <1>7, <1>8 DEF Next, Node, LinkLost, NodeCrash

\* No chunk is lost, duplicated or overtaken on its way while links last.
THEOREM AllWholeKept == Spec => []AllWhole
<1>1. Init => AllWhole
  <2> SUFFICES ASSUME Init PROVE OneLink /\ \A r \in Requests : Whole(r)
    BY DEF AllWhole
  <2>1. OneLink
    BY DEF Init, OneLink
  <2>2. ASSUME NEW r \in Requests PROVE Whole(r)
    BY EmptyQueue DEF Init, Whole, Unstarted, Streaming, Finished, Flowing
  <2> QED BY <2>1, <2>2
<1>2. TypeOK /\ Channel /\ Served /\ OneAnswerEach /\ Routed /\ AllWhole /\ [Next]_vars => AllWhole'
  <2> SUFFICES ASSUME TypeOK, Channel, Served, OneAnswerEach, Routed, AllWhole, [Next]_vars, cuts' = 0
               PROVE  OneLink' /\ \A r \in Requests : Whole(r)'
    BY DEF AllWhole
  <2>1. \A n \in Nodes : ~Cut(n)
    BY DEF Cut, TypeOK
  <2>2. cuts = 0
    BY <2>1, ZenonT(40) DEF Next, vars, Reader, HandleRegister, HandleHeartbeat, HandleModelStatus,
         HandleTokenChunk, HandleError, HandleRelayed, HandleDone, RelayDone, CloseTunnel,
         Writer, WriterLoses, WriterFails, WriterEnds, Handler, PickNode, PickNone,
         Routing, GetSender, NoSender, RegisterRequest, SendDispatch, DispatchFails,
         Answering, TakeChunk, BufferedOk, BufferedError, BufferedAnswer,
         StreamOk, StreamError, StreamAnswer, ClientLeaves, NodeChunk, NodeFinish,
         Node, NodeConnect, NodeStatus, NodeReceive, LinkLost, NodeCrash
  <2>3. OneLink /\ \A r \in Requests : Whole(r)
    BY <2>2 DEF AllWhole
  <2>4. OneLink'
    BY <2>1, <2>3, LinksKept
  <2>5. ASSUME NEW q \in Requests PROVE Whole(q)'
    <3>1. CASE UNCHANGED vars
      BY <2>3, <3>1 DEF vars, Whole, Unstarted, Streaming, Finished, Flowing, Ended, Told
    <3> QED BY <2>1, <2>3, <3>1, ReaderKeepsWhole, WriterKeepsWhole, HandlerKeepsWhole,
               NodeKeepsWhole DEF Next
  <2> QED BY <2>4, <2>5
<1> QED BY <1>1, <1>2, TypeCorrect, ChannelKept, ServedKept, OneAnswerEachKept, RoutedKept, PTL DEF Spec

\* Without a lost link, a finished answer has every chunk its node generated.
THEOREM AnswersAreComplete == Spec => []AnswerIsComplete
<1>1. TypeOK /\ AllWhole /\ OneAnswerEach => AnswerIsComplete
  BY WholeIsComplete
<1> QED BY <1>1, TypeCorrect, AllWholeKept, OneAnswerEachKept, PTL

-----------------------------------------------------------------------------
(* The router: the order of its scores, for all metrics, and its search over *)
(* a snapshot of any length.                                               *)

\* What pick_node reads of a node.
Reading == Metrics \cup {None}

-----------------------------------------------------------------------------
(* Arithmetic *)

\* A capped number is one.
LEMMA CappedInt == ASSUME NEW n \in Nat PROVE Capped(n) \in Int
BY DEF Capped

\* Products of integers are integers.
LEMMA ProductInt == ASSUME NEW a \in Int, NEW b \in Int PROVE a * b \in Int
OBVIOUS

\* Multiplying by a natural number keeps the order,
LEMMA Scale ==
  ASSUME NEW a \in Int, NEW b \in Int, NEW k \in Nat, a <= b
  PROVE  a * k <= b * k
OBVIOUS

\* and dividing by a positive one does.
LEMMA Unscale ==
  ASSUME NEW a \in Int, NEW b \in Int, NEW k \in Nat, k > 0, a * k <= b * k
  PROVE  a <= b
OBVIOUS

\* A score is a fraction with a positive denominator.
LEMMA ScoreType ==
  ASSUME NEW m \in Metrics
  PROVE  ScoreOf(m).num \in Int /\ ScoreOf(m).den \in Nat /\ ScoreOf(m).den > 0
<1>1. /\ m.vram_total \in Nat /\ m.vram_used \in Nat /\ m.tps \in Nat
      /\ m.latency \in Nat /\ m.in_flight \in Nat
  BY DEF Metrics
<1>2. Rest(m) \in Int
  BY <1>1, CappedInt DEF Rest
<1>3. FreeVram(m) \in Int
  BY <1>1 DEF FreeVram
<1>4. m.vram_total * Rest(m) \in Int
  BY <1>1, <1>2, ProductInt
<1> QED BY <1>1, <1>2, <1>3, <1>4 DEF ScoreOf

-----------------------------------------------------------------------------

\* Any two nodes can be compared: partial_cmp never fails (router.rs:56).
THEOREM ScoresAreTotal ==
  \A a, b \in Reading : AtMost(a, b) \/ AtMost(b, a)
<1> SUFFICES ASSUME NEW a \in Reading, NEW b \in Reading
             PROVE  AtMost(a, b) \/ AtMost(b, a)
  OBVIOUS
<1>1. CASE a = None \/ b = None
  BY <1>1 DEF AtMost
<1>2. CASE a \in Metrics /\ b \in Metrics
  <2> DEFINE x == ScoreOf(a).num * ScoreOf(b).den
             y == ScoreOf(b).num * ScoreOf(a).den
  <2>1. x \in Int /\ y \in Int
    BY <1>2, ScoreType, ProductInt
  <2>2. x <= y \/ y <= x
    BY <2>1
  <2>3. a # None /\ b # None
    BY <1>2, NoneAssumption
  <2> QED BY <2>2, <2>3 DEF AtMost
<1> QED BY <1>1, <1>2 DEF Reading

\* The order is transitive, although every score has a denominator of its own
\* (router.rs:33-44).
THEOREM ScoresAreOrdered ==
  \A a, b, c \in Reading : AtMost(a, b) /\ AtMost(b, c) => AtMost(a, c)
<1> SUFFICES ASSUME NEW a \in Reading, NEW b \in Reading, NEW c \in Reading,
                    AtMost(a, b), AtMost(b, c)
             PROVE  AtMost(a, c)
  OBVIOUS
<1>1. CASE a = None
  BY <1>1 DEF AtMost
<1>2. CASE a # None
  <2>1. b # None /\ c # None
    BY <1>2 DEF AtMost
  <2>2. a \in Metrics /\ b \in Metrics /\ c \in Metrics
    BY <1>2, <2>1 DEF Reading
  <2> DEFINE an == ScoreOf(a).num  ad == ScoreOf(a).den
             bn == ScoreOf(b).num  bd == ScoreOf(b).den
             cn == ScoreOf(c).num  cd == ScoreOf(c).den
  <2>3. /\ an \in Int /\ bn \in Int /\ cn \in Int
        /\ ad \in Nat /\ bd \in Nat /\ cd \in Nat /\ bd > 0
    BY <2>2, ScoreType
  <2>4. an * bd <= bn * ad /\ bn * cd <= cn * bd
    BY <1>2, <2>1 DEF AtMost
  <2>5. an * cd <= cn * ad
    <3> HIDE DEF an, ad, bn, bd, cn, cd
    <3>1. /\ an * bd \in Int /\ bn * ad \in Int /\ bn * cd \in Int /\ cn * bd \in Int
          /\ an * cd \in Int /\ cn * ad \in Int
      BY <2>3, ProductInt
    <3>2. (an * bd) * cd <= (bn * ad) * cd
      BY <2>3, <2>4, <3>1, Scale
    <3>3. (bn * cd) * ad <= (cn * bd) * ad
      BY <2>3, <2>4, <3>1, Scale
    <3>4. /\ (an * bd) * cd = (an * cd) * bd
          /\ (bn * ad) * cd = (bn * cd) * ad
          /\ (cn * bd) * ad = (cn * ad) * bd
      BY <2>3
    <3>5. (an * cd) * bd <= (cn * ad) * bd
      <4> DEFINE p == (an * cd) * bd  q == (bn * cd) * ad  r == (cn * ad) * bd
      <4>1. p \in Int /\ q \in Int /\ r \in Int
        BY <2>3, <3>1, ProductInt
      <4>2. p <= q /\ q <= r
        BY <3>2, <3>3, <3>4
      <4> HIDE DEF p, q, r
      <4>3. p <= r
        BY <4>1, <4>2
      <4> QED BY <4>3 DEF p, r
    <3> QED BY <2>3, <3>1, <3>5, Unscale
  <2> QED BY <2>1, <2>5 DEF AtMost
<1> QED BY <1>1, <1>2

\* best is what a search over the nodes of S has to find.
Found(best, S, alias) ==
  IF \E c \in S : CanServe(c, alias) THEN IsBest(best, S, alias) ELSE best = None

\* One turn of the search.
Turn(best, n, alias) == IF CanServe(n, alias) /\ Better(best, n) THEN n ELSE best

\* Nodes with readings for metrics; no node is "None".
AreNodes(NodeRecords) ==
  None \notin NodeRecords /\ \A c \in NodeRecords : c.metrics \in Reading

\* One more node of the snapshot keeps the choice a best one: what the search has at
\* hand is best among the nodes seen so far, in whatever order they come.
THEOREM SearchStep ==
  ASSUME NEW S, NEW n, NEW best, NEW alias, NEW NodeRecords,
         AreNodes(NodeRecords), S \subseteq NodeRecords, n \in NodeRecords,
         Found(best, S, alias)
  PROVE  Found(Turn(best, n, alias), S \cup {n}, alias)
<1> USE DEF AreNodes, Found, Turn
<1> DEFINE next == Turn(best, n, alias)
<1>1. CASE ~CanServe(n, alias)
  <2>1. next = best
    BY <1>1
  <2>2. (\E c \in S \cup {n} : CanServe(c, alias)) <=> \E c \in S : CanServe(c, alias)
    BY <1>1
  <2>3. ASSUME IsBest(best, S, alias) PROVE IsBest(best, S \cup {n}, alias)
    BY <1>1, <2>3 DEF IsBest
  <2> HIDE DEF next
  <2> QED BY <2>1, <2>2, <2>3 DEF next
<1>2. CASE CanServe(n, alias) /\ ~\E c \in S : CanServe(c, alias)
  <2>1. next = n
    BY <1>2 DEF Better
  <2>2. AtMost(n.metrics, n.metrics)
    BY ScoresAreTotal
  <2>3. IsBest(n, S \cup {n}, alias)
    BY <1>2, <2>2 DEF IsBest
  <2> HIDE DEF next
  <2> QED BY <1>2, <2>1, <2>3 DEF next
<1>3. CASE CanServe(n, alias) /\ \E c \in S : CanServe(c, alias)
  <2>1. IsBest(best, S, alias) /\ best \in S /\ best # None
    BY <1>3 DEF IsBest
  <2>2. best.metrics \in Reading /\ n.metrics \in Reading
    BY <2>1
  <2>3. CASE AtMost(best.metrics, n.metrics)
    <3>1. next = n
      BY <1>3, <2>3 DEF Better
    <3>2. ASSUME NEW c \in S, CanServe(c, alias) PROVE AtMost(c.metrics, n.metrics)
      <4>1. c.metrics \in Reading /\ AtMost(c.metrics, best.metrics)
        BY <2>1, <3>2 DEF IsBest
      <4> QED BY <2>2, <2>3, <4>1, ScoresAreOrdered
    <3>3. AtMost(n.metrics, n.metrics)
      BY <2>2, ScoresAreTotal
    <3>4. IsBest(n, S \cup {n}, alias)
      BY <1>3, <3>2, <3>3 DEF IsBest
    <3> HIDE DEF next
    <3> QED BY <1>3, <3>1, <3>4 DEF next
  <2>4. CASE ~AtMost(best.metrics, n.metrics)
    <3>1. next = best
      BY <2>1, <2>4 DEF Better
    <3>2. AtMost(n.metrics, best.metrics)
      BY <2>2, <2>4, ScoresAreTotal
    <3>3. IsBest(best, S \cup {n}, alias)
      BY <2>1, <3>2 DEF IsBest
    <3> HIDE DEF next
    <3> QED BY <1>3, <3>1, <3>3 DEF next
  <2> QED BY <2>3, <2>4
<1> QED BY <1>1, <1>2, <1>3


-----------------------------------------------------------------------------
(* The search: best[i] of pick_node is what it has at hand after i nodes.  *)

\* g has the first k turns.
SearchUpTo(snap, alias, k, g) ==
  g = [i \in 0 .. k |->
        IF i = 0 THEN None
        ELSE Turn(g[i - 1], snap[i], alias)]

\* The search runs to its end: by induction on the number of nodes seen.
LEMMA SearchExists ==
  ASSUME NEW snap, NEW alias
  PROVE  \A k \in Nat : \E g : SearchUpTo(snap, alias, k, g)
<1> DEFINE S == {k \in Nat : \E g : SearchUpTo(snap, alias, k, g)}
<1>1. 0 \in S
  <2> DEFINE g == [i \in 0 .. 0 |-> None]
  <2>1. SearchUpTo(snap, alias, 0, g)
    BY DEF SearchUpTo
  <2> QED BY <2>1
<1>2. ASSUME NEW k \in Nat, k \in S PROVE k + 1 \in S
  <2>1. PICK g : SearchUpTo(snap, alias, k, g)
    BY <1>2
  <2> DEFINE n == snap[k + 1]
             h == [i \in 0 .. k + 1 |->
                    IF i <= k THEN g[i]
                    ELSE Turn(g[k], n, alias)]
  <2>2. SearchUpTo(snap, alias, k + 1, h)
    <3> SUFFICES ASSUME NEW i \in 0 .. k + 1
                 PROVE  h[i] = IF i = 0 THEN None
                               ELSE Turn(h[i - 1], snap[i], alias)
      BY DEF SearchUpTo
    <3>1. CASE i = 0
      BY <2>1, <3>1 DEF SearchUpTo
    <3>2. CASE i \in 1 .. k
      <4>1. h[i] = g[i] /\ h[i - 1] = g[i - 1]
        BY <3>2
      <4>2. g[i] = Turn(g[i - 1], snap[i], alias)
        BY <2>1, <3>2 DEF SearchUpTo
      <4> HIDE DEF h
      <4> QED BY <3>2, <4>1, <4>2
    <3>3. CASE i = k + 1
      <4>1. h[i] = Turn(g[k], n, alias) /\ h[i - 1] = g[k]
        BY <3>3
      <4> HIDE DEF h
      <4> QED BY <3>3, <4>1
    <3> QED BY <3>1, <3>2, <3>3
  <2> HIDE DEF h
  <2> QED BY <2>2
<1> HIDE DEF S
<1>3. \A k \in Nat : k \in S
  BY <1>1, <1>2, SetInduction
<1> QED BY <1>3 DEF S

\* pick_node is the last turn.
LEMMA PickIsSearch ==
  ASSUME NEW snap, Len(snap) \in Nat, NEW alias
  PROVE  \E g : SearchUpTo(snap, alias, Len(snap), g) /\ pick_node(snap, alias) = g[Len(snap)]
<1> DEFINE g == CHOOSE h : SearchUpTo(snap, alias, Len(snap), h)
<1>1. SearchUpTo(snap, alias, Len(snap), g)
  BY SearchExists
<1>2. pick_node(snap, alias) = g[Len(snap)]
  BY DEF pick_node, SearchUpTo, Turn
<1> QED BY <1>1, <1>2

\* The nodes of the first k turns.
Seen(snap, k) == {snap[i] : i \in 1 .. k}

\* After every turn, what is at hand is what the nodes seen so far call for.
LEMMA SearchFindsBest ==
  ASSUME NEW NodeRecords, AreNodes(NodeRecords),
         NEW snap \in Seq(NodeRecords), NEW alias,
         NEW g, SearchUpTo(snap, alias, Len(snap), g)
  PROVE  \A k \in 0 .. Len(snap) : Found(g[k], Seen(snap, k), alias)
<1> DEFINE Good == {k \in Nat : k <= Len(snap) => Found(g[k], Seen(snap, k), alias)}
<1>1. 0 \in Good
  <2>1. Seen(snap, 0) = {}
    BY DEF Seen
  <2>2. g[0] = None
    BY DEF SearchUpTo
  <2> QED BY <2>1, <2>2 DEF Found
<1>2. ASSUME NEW k \in Nat, k \in Good PROVE k + 1 \in Good
  <2> SUFFICES ASSUME k + 1 <= Len(snap) PROVE Found(g[k + 1], Seen(snap, k + 1), alias)
    OBVIOUS
  <2> DEFINE n == snap[k + 1]
  <2>1. Found(g[k], Seen(snap, k), alias) /\ k + 1 \in 1 .. Len(snap) /\ k \in 0 .. Len(snap)
    BY <1>2
  <2>2. Seen(snap, k) \subseteq NodeRecords /\ n \in NodeRecords
    BY <2>1 DEF Seen
  <2>3. Seen(snap, k + 1) = Seen(snap, k) \cup {n}
    <3>1. 1 .. k + 1 = (1 .. k) \cup {k + 1}
      OBVIOUS
    <3> QED BY <3>1 DEF Seen
  <2>4. g[k + 1] = Turn(g[k], n, alias)
    <3> DEFINE i == k + 1
    <3>1. i \in 0 .. Len(snap) /\ i # 0 /\ i - 1 = k
      BY <2>1
    <3>2. g[i] = IF i = 0 THEN None ELSE Turn(g[i - 1], snap[i], alias)
      BY <3>1 DEF SearchUpTo
    <3> QED BY <3>1, <3>2
  <2> HIDE DEF n
  <2> QED BY <2>1, <2>2, <2>3, <2>4, SearchStep
<1> HIDE DEF Good
<1>3. \A k \in Nat : k \in Good
  BY <1>1, <1>2, SetInduction
<1> QED BY <1>3 DEF Good

(* The router's search returns a best node of the snapshot when some node can *)
(* serve the model, and none otherwise, for every snapshot of any length in  *)
(* any order and for all metrics (router.rs:50).                             *)
THEOREM RouterFindsBest ==
  ASSUME NEW NodeRecords, AreNodes(NodeRecords),
         NEW snap \in Seq(NodeRecords), NEW alias
  PROVE  PicksBest(snap, alias)
<1>1. Len(snap) \in Nat
  OBVIOUS
<1>2. PICK g : SearchUpTo(snap, alias, Len(snap), g) /\ pick_node(snap, alias) = g[Len(snap)]
  BY <1>1, PickIsSearch
<1>3. Found(g[Len(snap)], Seen(snap, Len(snap)), alias)
  <2>1. \A k \in 0 .. Len(snap) : Found(g[k], Seen(snap, k), alias)
    BY <1>2, SearchFindsBest
  <2> QED BY <1>1, <2>1
<1> QED BY <1>2, <1>3 DEF PicksBest, Found, Seen

(* A model is listed exactly when a request for it would find a node, for   *)
(* every catalog and every snapshot (api.rs:30).                            *)
THEOREM ListIsServed ==
  ASSUME NEW NodeRecords, AreNodes(NodeRecords),
         NEW snap \in Seq(NodeRecords), NEW catalog
  PROVE  ListedIsServed(catalog, snap)
<1>1. ASSUME NEW m PROVE m \in available_models(snap) <=> pick_node(snap, m) # None
  <2> DEFINE S == {snap[i] : i \in 1 .. Len(snap)}
  <2>1. m \in available_models(snap) <=> \E c \in S : CanServe(c, m)
    BY DEF available_models, CanServe
  <2>2. IF \E c \in S : CanServe(c, m) THEN pick_node(snap, m) \in S ELSE pick_node(snap, m) = None
    BY RouterFindsBest DEF PicksBest, IsBest
  <2>3. None \notin S
    BY DEF AreNodes
  <2> QED BY <2>1, <2>2, <2>3
<1> QED BY <1>1 DEF ListedIsServed, list_models
=============================================================================
