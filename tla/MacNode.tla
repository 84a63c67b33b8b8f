------------------------------ MODULE MacNode ------------------------------
(***************************************************************************)
(* A macOS node and its tunnel (Tunnel.swift, the NodeCoordinator of       *)
(* AppEntry.swift), and the Fleet Manager's reader of its connection.      *)
(*                                                                         *)
(* Every frame is sent by a detached task of its own, which reads the      *)
(* socket, then sends on it, and puts the frame in the queue when there is *)
(* none or the send throws; the queue is read only when a connection is    *)
(* made.  Nothing orders these tasks, so frames overtake each other and    *)
(* outlive the connection they were meant for, and                         *)
(*   - what is put in the queue has no order either: it is a bag, as is    *)
(*     what is being sent;                                                 *)
(*   - a call that is made after a delay, or by a handler that is          *)
(*     scheduled, is made at once, and its task is late.                   *)
(*                                                                         *)
(* A frame that is written is read at once, or never, when the connection  *)
(* has died unnoticed; a send that throws may have been read all the same, *)
(* and its frame comes again.  The Fleet Manager is assumed to have seen   *)
(* the end of a connection before it accepts the next one (FleetManager    *)
(* has connections that overlap).  The catalog has one model for the node; *)
(* a download's end and its report are one step, and so are a prompt's     *)
(* arrival and its answer.  Metrics, latency, pings and back-off times are *)
(* left out, and so are changes of the URL or the certificates, which      *)
(* start a new Tunnel.                                                     *)
(***************************************************************************)
EXTENDS Naturals, Sequences, Bags, FiniteSetsExt

CONSTANTS
  Absent,       \* no registry entry
  MaxConnects,  \* bound: connections; the last one stays up
  MaxChunks,    \* bound: chunks of an answer
  MaxThrows,    \* bound: sends that throw after they have been read
  MaxActs       \* bound: prompts (one at most), turns of isAwake, saved configurations and
                \* artifacts that the backend refuses

ASSUME MacAssumption ==
  /\ MaxConnects \in Nat \ {0}
  /\ MaxChunks \in Nat /\ MaxThrows \in Nat /\ MaxActs \in Nat

VARIABLES
  connects,  \* connections tried
  link,      \* the newest one: "none", "opening", "open", "dead" (unnoticed) or "down"
  socket,    \* Tunnel.socket is set
  draining,  \* drainMessages: a bag of frames still to be sent
  queue,     \* a bag of frames in Tunnel.queue, or whose task is about to append them
  sends,     \* a bag of frames whose task has not sent them
  down,      \* frames of the Fleet Manager that the node has not read
  serving,   \* Fleet Manager: handle_socket runs for the connection
  entry,     \* Fleet Manager: the node's registry entry, or Absent
  awake,     \* isAwake
  model,     \* "absent", "loading", "failed", "ready", or "withdrawn" by the backend alone
  job,       \* the prompt: "none", "sent", "answered" or "lost"
  answer,    \* the frames of its answer, when there is one
  read,      \* history: a bag of the answer's frames that the Fleet Manager has read
  lost,      \* history: a bag of those lost with a connection
  again,     \* history: a bag of those read by a send that throws, which come again
  throws,    \* how much of MaxThrows is used
  acts       \* how much of MaxActs is used

tunnelVars == <<connects, link, socket>>
fmVars == <<serving, entry>>
answerVars == <<job, answer, read, lost, again>>
nodeVars == <<awake, model>>
vars == <<tunnelVars, draining, queue, sends, down, fmVars, nodeVars, answerVars, throws, acts>>

Register == [t |-> "Register"]
CatalogRequest == [t |-> "CatalogRequest"]
Heartbeat(a) == [t |-> "Heartbeat", awake |-> a]
ScheduleState(a) == [t |-> "ScheduleState", awake |-> a]
ModelStatus(r) == [t |-> "ModelStatus", ready |-> r]
TokenChunk(i) == [t |-> "TokenChunk", index |-> i]
Done == [t |-> "Done"]
Error == [t |-> "Error"]
PromptDispatch == [t |-> "PromptDispatch"]
CatalogResponse(offered) == [t |-> "CatalogResponse", offered |-> offered]

AnswerFrames == {TokenChunk(i) : i \in 1 .. MaxChunks} \cup {Done, Error}
UpFrames ==
  {Register, CatalogRequest} \cup {Heartbeat(a) : a \in BOOLEAN} \cup {ScheduleState(a) : a \in BOOLEAN}
    \cup {ModelStatus(r) : r \in BOOLEAN} \cup AnswerFrames
Periodic == {Heartbeat(a) : a \in BOOLEAN} \cup {CatalogRequest}
DownFrames == {PromptDispatch} \cup {CatalogResponse(o) : o \in BOOLEAN}

IsBagOf(B, S) == IsABag(B) /\ BagToSet(B) \subseteq S

TypeOK ==
  /\ connects \in 0 .. MaxConnects
  /\ link \in {"none", "opening", "open", "dead", "down"} /\ (link = "none" <=> connects = 0)
  /\ socket \in BOOLEAN /\ (~socket => link \in {"none", "down"} /\ draining = EmptyBag)
  /\ IsBagOf(draining, UpFrames) /\ IsBagOf(queue, UpFrames) /\ IsBagOf(sends, UpFrames)
  /\ down \in Seq(DownFrames) /\ (down # <<>> => link = "open")
  /\ serving \in BOOLEAN /\ (link = "open" => serving)
  /\ entry \in {Absent} \cup [awake: BOOLEAN, ready: BOOLEAN] /\ (entry # Absent => serving)
  /\ awake \in BOOLEAN /\ model \in {"absent", "loading", "failed", "ready", "withdrawn"}
  /\ job \in {"none", "sent", "answered", "lost"} /\ answer \subseteq AnswerFrames
  /\ IsBagOf(read, AnswerFrames) /\ IsBagOf(lost, AnswerFrames) /\ IsBagOf(again, AnswerFrames)
  /\ throws \in 0 .. MaxThrows /\ acts \in 0 .. MaxActs

\* start() makes the tunnel, registers and asks for the catalog half a second
\* later, whatever the connection is then, and begins the heartbeats.
Init ==
  /\ connects = 0 /\ link = "none" /\ socket = FALSE
  /\ draining = EmptyBag /\ queue = EmptyBag
  /\ sends = SetToBag({Register, CatalogRequest})
  /\ down = <<>> /\ serving = FALSE /\ entry = Absent
  /\ awake = TRUE /\ model = "absent"
  /\ job = "none" /\ answer = {}
  /\ read = EmptyBag /\ lost = EmptyBag /\ again = EmptyBag
  /\ throws = 0 /\ acts = 0

Act == acts < MaxActs /\ acts' = acts + 1

One(f) == SetToBag({f})

\* How many of f there are.
Copies(f, B) == IF BagIn(f, B) THEN B[f] ELSE 0

\* The bags that are part of B.
Parts(B) ==
  LET most == Max({B[f] : f \in BagToSet(B)} \cup {0})
  IN  {P \in UNION {[S -> 1 .. most] : S \in SUBSET BagToSet(B)} : \A f \in DOMAIN P : P[f] \in 1 .. B[f]}

\* The answer's frames among these.
Answering(f) == SetToBag(AnswerFrames \cap {f})

-----------------------------------------------------------------------------
(* The Fleet Manager.                                                      *)

\* handle_message, as far as the registry entry goes.
Entry(e, f) ==
  CASE f.t = "Register" -> [awake |-> FALSE, ready |-> FALSE]
    [] e # Absent /\ f.t \in {"Heartbeat", "ScheduleState"} -> [e EXCEPT !.awake = f.awake]
    [] e # Absent /\ f.t = "ModelStatus" -> [e EXCEPT !.ready = f.ready]
    [] OTHER -> e

\* A CatalogRequest is answered with nothing for a node that is not registered.
HandleMessage(f) ==
  /\ entry' = Entry(entry, f)
  /\ read' = read (+) Answering(f)
  /\ down' = IF f = CatalogRequest THEN Append(down, CatalogResponse(entry # Absent)) ELSE down
  /\ UNCHANGED lost

Lost(f) ==
  /\ lost' = lost (+) Answering(f)
  /\ UNCHANGED <<entry, read, down>>

\* Mutant: the entry of a node that is gone stays.
TearDownKeeps ==
  /\ serving /\ link \in {"dead", "down"}
  /\ serving' = FALSE
  /\ UNCHANGED <<tunnelVars, draining, queue, sends, down, entry, nodeVars, answerVars, throws, acts>>

\* The reader has come to the end of the connection.
TearDown ==
  /\ serving /\ link \in {"dead", "down"}
  /\ serving' = FALSE /\ entry' = Absent
  /\ UNCHANGED <<tunnelVars, draining, queue, sends, down, nodeVars, answerVars, throws, acts>>

\* A handler's prompt; if the node is gone, it is lost in the writer.
Dispatch ==
  /\ job = "none" /\ Act
  /\ entry # Absent /\ entry.awake /\ entry.ready
  /\ IF link = "open" THEN job' = "sent" /\ down' = Append(down, PromptDispatch)
                      ELSE job' = "lost" /\ UNCHANGED down
  /\ UNCHANGED <<tunnelVars, draining, queue, sends, fmVars, nodeVars, answer, read, lost, again, throws>>

-----------------------------------------------------------------------------
(* Tunnel.send: one detached task for each frame.                          *)

\* A heartbeat or a request whose task has yet to send it makes another one
\* redundant, and so in the queue: both are sent again and again.  A request
\* makes no difference once the model is being downloaded, or has been; when it is
\* refused or withdrawn, another one is made.
Redundant(f, B) ==
  \/ f.t \in {"Heartbeat", "CatalogRequest"} /\ \E g \in BagToSet(B) : g.t = f.t
  \/ f = CatalogRequest /\ model \notin {"absent", "withdrawn"}

\* Nor does a request in the queue: the connection it waits for makes one.
Queued(f) == f # CatalogRequest /\ ~Redundant(f, queue)

Send(frames) == sends' = sends (+) SetToBag({f \in frames : ~Redundant(f, sends)})

\* sock.send returns.
Written(f) ==
  /\ link \in {"open", "dead"}
  /\ IF link = "open" THEN HandleMessage(f) ELSE Lost(f)
  /\ sends' = sends (-) One(f)
  /\ UNCHANGED <<tunnelVars, draining, queue, serving, nodeVars, job, answer, again, throws, acts>>

\* Mutant: only what has no socket is queued, not what throws.
NotKept(f) ==
  /\ link \in {"none", "dead", "down"}
  /\ link' = IF link = "dead" THEN "down" ELSE link
  /\ queue' = IF socket \/ ~Queued(f) THEN queue ELSE queue (+) One(f)
  /\ sends' = sends (-) One(f)
  /\ UNCHANGED <<connects, socket, draining, down, fmVars, nodeVars, answerVars, throws, acts>>

\* There is no socket, or sock.send throws, which cancels the socket.
NotWritten(f) ==
  /\ link \in {"none", "dead", "down"}
  /\ link' = IF link = "dead" THEN "down" ELSE link
  /\ queue' = IF Queued(f) THEN queue (+) One(f) ELSE queue
  /\ sends' = sends (-) One(f)
  /\ UNCHANGED <<connects, socket, draining, down, fmVars, nodeVars, answerVars, throws, acts>>

\* sock.send throws, though what it sent is read: the connection will end, and the
\* frame waits for the next one.
ReadAndThrown(f) ==
  /\ link = "open" /\ connects < MaxConnects
  /\ throws < MaxThrows /\ throws' = throws + 1
  /\ HandleMessage(f)
  /\ again' = again (+) Answering(f)
  /\ queue' = IF Queued(f) THEN queue (+) One(f) ELSE queue
  /\ sends' = sends (-) One(f)
  /\ UNCHANGED <<tunnelVars, draining, serving, nodeVars, job, answer, acts>>

SendStep(f) == BagIn(f, sends) /\ (Written(f) \/ NotWritten(f) \/ ReadAndThrown(f))

-----------------------------------------------------------------------------
(* Tunnel.run, and what the network does to its connection.                *)

\* What is not taken is appended after the queue has been.
Connect ==
  /\ ~socket /\ connects < MaxConnects /\ ~serving
  /\ connects' = connects + 1
  /\ link' = "opening" /\ socket' = TRUE
  /\ draining' \in Parts(queue)
  /\ queue' = queue (-) draining'
  /\ UNCHANGED <<sends, down, fmVars, nodeVars, answerVars, throws, acts>>

\* doSendHeartbeat
Beats == {Heartbeat(awake)}

\* Mutant: the node registers when it starts only.
OpenSilently ==
  /\ link = "opening"
  /\ link' = "open" /\ serving' = TRUE
  /\ model' = IF model = "withdrawn" THEN "absent" ELSE model
  /\ Send({CatalogRequest, ModelStatus(model = "ready")} \cup Beats)
  /\ UNCHANGED <<connects, socket, draining, queue, down, entry, awake, answerVars, throws, acts>>

\* didOpenWithProtocol, and the connection-state handler it schedules, which asks the
\* backend again what is ready.
Open ==
  /\ link = "opening"
  /\ link' = "open" /\ serving' = TRUE
  /\ model' = IF model = "withdrawn" THEN "absent" ELSE model
  /\ Send({Register, CatalogRequest, ModelStatus(model = "ready")} \cup Beats)
  /\ UNCHANGED <<connects, socket, draining, queue, down, entry, awake, answerVars, throws, acts>>

Refused ==
  /\ link = "opening" /\ connects < MaxConnects
  /\ link' = "down"
  /\ UNCHANGED <<connects, socket, draining, queue, sends, down, fmVars, nodeVars, answerVars, throws, acts>>

Dies ==
  /\ link = "open" /\ connects < MaxConnects
  /\ link' = "dead"
  /\ down' = <<>>
  /\ job' = IF \E i \in 1 .. Len(down) : down[i] = PromptDispatch THEN "lost" ELSE job
  /\ UNCHANGED <<connects, socket, draining, queue, sends, fmVars, nodeVars, answer, read, lost, again, throws, acts>>

\* drainMessages: "try?" drops what cannot be sent.
DrainSend ==
  /\ link # "opening"
  /\ \E f \in BagToSet(draining) :
       /\ draining' = draining (-) One(f)
       /\ IF link = "open" THEN HandleMessage(f) ELSE Lost(f)
  /\ UNCHANGED <<tunnelVars, queue, sends, serving, nodeVars, job, answer, again, throws, acts>>

\* receive throws: the peer is gone, a ping failed, or a send has cancelled.
ReceiveFails ==
  /\ socket /\ draining = EmptyBag /\ link \in {"dead", "down"}
  /\ link' = "down" /\ socket' = FALSE
  /\ UNCHANGED <<connects, draining, queue, sends, down, fmVars, nodeVars, answerVars, throws, acts>>

-----------------------------------------------------------------------------
(* The coordinator.                                                        *)

\* Every 30 seconds.
Beat ==
  /\ \A f \in Beats : ~Redundant(f, sends)
  /\ Send(Beats)
  /\ UNCHANGED <<tunnelVars, draining, queue, down, fmVars, nodeVars, answerVars, throws, acts>>

\* Every 60 seconds while no model is ready.
Poll ==
  /\ link \in {"open", "dead"} /\ model \notin {"ready", "withdrawn"}
  /\ ~Redundant(CatalogRequest, sends) /\ down = <<>>
  /\ Send({CatalogRequest})
  /\ UNCHANGED <<tunnelVars, draining, queue, down, fmVars, nodeVars, answerVars, throws, acts>>

\* isAwake is set, and its didSet tells.
Turn ==
  /\ Act
  /\ awake' = ~awake
  /\ Send({ScheduleState(awake')})
  /\ UNCHANGED <<tunnelVars, draining, queue, down, fmVars, model, answerVars, throws>>

\* applyConfig, of a configuration with the same URL and certificates.  A model that
\* a prompt has loaded, and that is larger than the new limit, is no longer ready in
\* the backend, which tells nobody.
SaveConfig ==
  /\ Act
  /\ model' \in {model} \cup (IF model = "ready" THEN {"withdrawn"} ELSE {})
  /\ Send({Register, CatalogRequest})
  /\ UNCHANGED <<tunnelVars, draining, queue, down, fmVars, awake, answerVars, throws>>

\* The receive loop, and handleInbound.
Receive ==
  /\ socket /\ draining = EmptyBag /\ down # <<>>
  /\ down' = Tail(down)
  /\ UNCHANGED <<tunnelVars, draining, queue, fmVars, awake, read, lost, again, throws, acts>>

\* handleCatalog: neither ready, as the coordinator knows it, nor downloading, nor
\* failed with this entry.
HandleCatalog ==
  /\ Receive /\ Head(down) # PromptDispatch
  /\ model' = IF Head(down).offered /\ model = "absent" THEN "loading" ELSE model
  /\ UNCHANGED <<sends, job, answer>>

\* The model answers, or it is not there, or fails.
Answers == {{Error}} \cup (IF model = "ready" THEN {AnswerFrames \ {Error}} ELSE {})

\* Mutant: an answer has no Done.
AnswerOpenly ==
  /\ Receive /\ Head(down) = PromptDispatch
  /\ job' = "answered" /\ answer' \in Answers
  /\ Send(answer' \ {Done})
  /\ UNCHANGED model

\* LlamaBackend.dispatch: a call of send for each chunk, then for Done; or one for Error.
HandleDispatch ==
  /\ Receive /\ Head(down) = PromptDispatch
  /\ job' = "answered" /\ answer' \in Answers
  /\ Send(answer')
  /\ UNCHANGED model

\* A download fails, or its artifact is registered, which the backend may refuse.
Download ==
  /\ model = "loading"
  /\ \/ model' \in {"ready", "failed"} /\ UNCHANGED acts
     \/ model' = "absent" /\ Act
  /\ Send({ModelStatus(model' = "ready")})
  /\ UNCHANGED <<tunnelVars, draining, queue, down, fmVars, awake, answerVars, throws>>

-----------------------------------------------------------------------------
Run == Connect \/ DrainSend \/ ReceiveFails

Inbound == HandleCatalog \/ HandleDispatch

Next ==
  \/ Run \/ Open \/ Refused \/ Dies
  \/ \E f \in BagToSet(sends) : SendStep(f)
  \/ Beat \/ Poll \/ Turn \/ SaveConfig \/ Inbound \/ Download
  \/ TearDown \/ Dispatch

Spec == Init /\ [][Next]_vars

\* Every task runs on when it can, the periodic ones go on, and a connection is
\* made or refused.  Of what happens finitely often it is enough to say that what is
\* periodic, and the answers to it, do not keep it from happening.
Once ==
  \/ Run \/ Open \/ Refused \/ Download \/ TearDown
  \/ \E f \in UpFrames \ Periodic : SendStep(f)

FairSpec ==
  /\ Spec
  /\ WF_vars(Once) /\ WF_vars(Inbound)
  /\ WF_vars(\E f \in Periodic : SendStep(f)) /\ WF_vars(Beat) /\ WF_vars(Poll)

-----------------------------------------------------------------------------
(* Properties *)

\* Through sends that throw, the queue and reconnects, every frame of an answer is in
\* exactly one place until it is read, or lost with a connection it was on, and in one
\* more for each send that was read and threw: none is forgotten, and none comes twice
\* for any other reason (Tunnel.swift: send, drainMessages).
AnswerKept ==
  \A f \in AnswerFrames :
    Copies(f, sends (+) queue (+) draining (+) read (+) lost)
      = (IF f \in answer THEN 1 ELSE 0) + Copies(f, again)

\* When a connection stays, the node is registered on it, and the Fleet Manager's
\* schedule state becomes the node's, though the Register resets it and may come
\* after the heartbeat that was sent behind it (AppEntry.swift: start).
Converges == <>[](entry # Absent /\ entry.awake = awake)

\* Every frame of the answer to a prompt that comes over a connection that stays is
\* read, in whatever order, be it an answer or an Error.
AnswerArrives ==
  job = "sent" /\ connects = MaxConnects ~> answer # {} /\ BagToSet(read) = answer

\* "/v1/models lists catalog models that have at least one ready node"
\* (DESIGN.md:126): a model the registry has as ready, while nothing older is on its
\* way, does not stop being offered for good while the node has it ready.
Settled == \A f \in BagToSet(sends (+) queue (+) draining) : f.t \notin {"Register", "ModelStatus"}

Offered == entry # Absent /\ entry.ready

ReadyIsOffered == Settled /\ Offered ~> [](model = "ready" => Offered)
=============================================================================
