# JW Swarm: a verification project

JW Swarm lets owners of GPUs serve language models for each other. A *Fleet
Manager* (Rust, axum, tokio, SQLite) offers an OpenAI-like HTTP API; *nodes*
(Linux in Rust, Windows in C#, macOS in Swift) keep a WebSocket tunnel to it,
download the models of its catalog, and answer the prompts it dispatches. This
directory holds TLA+ modules of the system, TLC configurations that check them on
small instances, and TLAPS proofs. Paths below are relative to the repository;
`FM` is `jw-swarm-fleet-manager/src`, `LX` is `jw-swarm-nodes/linux/src`, `MX` is
`jw-swarm-nodes/macos/Sources/JWSwarmNode`.

## The system's parts

| Part | State | Operations | Hard behaviour | What makes it correct |
|---|---|---|---|---|
| Registry (`FM/registry.rs`) | `nodes`: id -> live state with the tunnel's sender; `pending`: request -> event sender, model, node; one RwLock | upsert/remove node, metrics, ready models, schedule; register/complete/get request; dispatch event | every method takes the lock anew, so callers interleave between calls; entries are keyed by node id, not by tunnel | an entry belongs to a live tunnel; a waiting handler has its channel; finished requests are forgotten |
| Tunnel endpoint (`FM/tunnel.rs`) | per connection: a `Session`, an mpsc channel, a reader and a writer task | one arm per message; teardown at the end of the socket | old and new tunnel of a node side by side; writer that waits for every sender; database tasks spawned and forgotten | the registry follows the connection; a tunnel ends; a Done is posted once |
| Chat API (`FM/api.rs`) | locals of each handler; an event channel per request | pick, look up the sender, register, dispatch; buffered or streamed answer | node leaves between two steps; client leaves; node lost while the client waits | a prompt reaches only the node it is accounted to; the answer is complete; one outcome per request |
| Router (`FM/router.rs`) | none | `score`, `pick_node` | missing metrics, ties | the best node that can serve |
| Catalog (`FM/catalog.rs`) | the loaded TOML | `aliases`, `resolve_for` | several variants per vendor | at most one variant per alias, of the right vendor |
| Persistence and accounting (`FM/db.rs`, `FM/accounting.rs`) | tables nodes, sessions, deliveries, points_ledger, node_balances | upsert, open/touch/close session, record delivery, credit points | each statement may fail alone; spawned tasks overtake each other; restart | a balance is the sum of its ledger; one posting per delivery; capacity for awake time only |
| Enrollment (`FM/enrollment.rs`, `FM/state.rs`) | table enrollment_tokens | create, list, revoke, enroll | two nodes with one token; revoke or expiry during an enrollment; a lost answer | one certificate per token, none after revocation or expiry |
| Linux node (`LX/*.rs`) | outbound queue, connection flag, catalog, download tracker, ready and loaded models | connect loop with back-off, heartbeat and catalog timers, downloads, one inference worker | frames queued over reconnects; downloads racing catalogs; memory budget | registered after every reconnect; one download per model; budget respected |
| macOS node (`MX`) | as Linux; `socket` and `queue` of the tunnel; `isAwake` | a detached task per frame, a connection handler on the main queue, saved configurations | frames that overtake each other, and outlive their connection in the queue | what the Fleet Manager knows of the node becomes what the node is; no frame of an answer is forgotten, and none comes twice but by a send that was read and throws |
| Windows node (`jw-swarm-nodes/windows`) | as Linux | one outbound channel, a send and a receive task per connection | as Linux | as Linux |

Chat handlers call the registry and push into a tunnel's channel; the tunnel's
writer carries the prompt to the node; the node's frames come back through the
tunnel's reader, which pushes events into the handler's channel through the
registry's `pending` map, and spawns database tasks. Nothing else is shared.

## Modules

* `ChatService` is the abstract specification: per request a status and the number
  of postings. A request is refused or accepted; an accepted one is answered,
  failed or left by its client, once; points are posted at most once, before the
  client sees the end of the answer, and never for a request that failed.
* `FleetManager` models registry, tunnels and handlers together, since their
  interleaving is the subject. One operator per registry method; one action per
  arm of `handle_message`, and per stretch of a handler between two acquisitions
  of the lock or two awaits. A `Done` is two actions (`HandleDone`, `RelayDone`)
  because the lookup and the relay lock separately. `held` records the senders in
  a handler's locals: the snapshot of `chat_completions` clones every node's
  sender, and a buffering handler keeps them until it returns, which is what
  `WriterEnds` waits for. The nodes are the environment: connect, status frames,
  chunks and one Done or Error per dispatch, lost links and crashes; on a lost
  link an arbitrary suffix of the unread frames is lost, and the Fleet Manager
  notices later than the node. `MCFleetManager` instantiates it for TLC.
* `Ledger` models the tables behind it: what Registers, heartbeats, Dones and ends
  of tunnels write, one action per SQL statement, with the task that runs it
  (`opening`, `closing`, `post` are spawned and unordered; `beat` is awaited by the
  reader). `credit_points` is two statements in a transaction (`txn`), and another
  writer waits for it. Every statement may fail, which its caller logs or drops;
  that also covers an SQLite built without `UPDATE ... ORDER BY ... LIMIT`, where
  `touch_session_awake` and `close_session` always fail. `Crash` keeps the tables
  and loses the rest. A session is opened
  with the time its task has read before the statement runs. `lasted` is history: how
  long a tunnel has been up. `MCLedger` instantiates it.
* `Enrollment` models tokens and certificates, with both sides of the exchange: the admin's
  handlers, `enroll_node` between its awaits (sign, read the clock, one conditional UPDATE,
  answer), and the Linux node's `enroll` command with the key, certificate and `node.pem` it
  leaves on disk. `fs::write` is two steps, which empty a file and then write it, with the
  command's end possible in between: its contents are `Cut` then. `gone` says that the command
  has been killed or lost its connection; the handler may go on then, or take no more steps. An
  instant is in half seconds, and expiry is compared the way SQLite compares the RFC 3339 texts
  (`TextAfter`). `MCEnrollment` instantiates it.
* `Router` has `score`, `pick_node`, `available_models` and `list_models` as operators on
  a snapshot of the registry. A score is an exact fraction where the code has floating
  point, so two of its scores may differ in the code by rounding and be equal here.
  `MCFleetManager` evaluates `PicksBest` and `ListedIsServed` on every snapshot of up to
  three nodes, in every order, as assumptions of its runs. `FleetManager` does not use
  the scores: it picks any node that can serve, a superset.
* `Catalog` has `aliases` and `resolve_for`, which `Router` and `LinuxNode` use.
* `NodeService` is the abstract specification of a node's answers: a prompt is refused
  with one Error or accepted; an accepted one gets chunks of increasing index, then one
  Done or Error, and nothing more. Only a worker that never came up loses prompts.
* `Backend` models `LX/backend.rs`: `dispatch`, on the coordinator's side of the job
  channel, `register`, on a download's, and the worker, which takes one job at a time,
  measures the artifact, evicts (`Trimming` is `trim_loaded_to_budget` with its two calls,
  one model per step), loads and generates, one token per step. `disk` changes under it
  (`DownloadEnds`), so that the size that was measured, the size of what is loaded and
  the size on disk are three things. Tokens without text have an index and no frame.
* `ModelStore` models how artifacts are got: the handler of a CatalogResponse entry by entry,
  with the ready set and the tracker read under different locks, and any number of download
  tasks, one action per file operation (`LX/models.rs`) and per lock. Any operation may fail,
  and the node may stop at any moment: `artifact`, `partial` and `marker` stay. `register` is
  two steps, as it measures the file before it takes its lock. Entries that are not selected, or
  for another backend, are skipped (`Skipped`). `torn` and `told` are history. `model_file` may
  return any `.gguf` file of the directory, as `read_dir` has no order.
* `LinuxNode` models the tunnel task, the coordinator's loop and the download tasks with
  the two queues and the watch channel between them, and the Fleet Manager's end of the
  connection. A frame that is sent is read at once, or never if the connection has died
  unnoticed; a late reader is one whose answers wait in `down`. The frames an arm of
  `select!` queues are queued together, but a `ModelStatus` is read from the ready set
  first and queued later (`ReadReady`, `Report`), so that two can cross (`crossed`). A model
  that is downloaded may still be refused by the backend (`refused`), and is downloaded
  again with each catalog. **Assumed**: the Fleet Manager has seen the end of a connection
  before it accepts the next (`~serving` in `Connect`). The node itself waits only for its
  back-off; connections that overlap are `FleetManager`'s subject, where `stale_teardown`
  shows what they do to a registration.
* `MacNode` models the macOS tunnel and coordinator in the same way. Nothing orders the detached
  tasks that send, so `sends`, `queue` and `draining` are bags, and calls that the code delays
  or schedules are made at once, with tasks that are late. `queue` includes what a task is about
  to append, which is why a drain takes any part of it. A heartbeat or a catalog request is
  redundant while another one waits, and a request in the queue is, as the connection it waits
  for makes one, which keeps the bags finite without a bound. A send that throws may have been
  read all the same, and its frame comes again (`ReadAndThrown`, `MaxThrows` times at most;
  `again` is history). The answer to a prompt is chunks and Done, or an Error. A saved
  configuration may lower the memory limit, by which the backend withdraws a loaded model that
  the coordinator holds ready until it connects again (`"withdrawn"`), and a downloaded artifact
  may be refused. There is one model; a download and its report are one step, and so are a
  prompt's arrival and its answer. `Connect` has the assumption of `LinuxNode`'s.
* `FleetManagerProofs` (with the router's), `LedgerProofs`, `EnrollmentProofs`,
  `BackendProofs`, `ModelStoreProofs`, `LinuxNodeProofs` and `MacNodeProofs` hold the
  theorems, and `Induction` the lemmas on numbers and sums they share.

`FleetManager` and `Ledger` overlap on purpose. `FleetManager` counts the postings of
a request and knows nothing of tables; `Ledger` has the tables and, of requests, only
what a posting needs (dispatched, one Done per dispatch, completed at any moment). The
assumption `Ledger` makes, that a request is posted at most once, is what
`CreditMatchesReply` says in `FleetManager`. In the same way `LinuxNode` takes of
downloads and prompts only that they end, and how they end is `ModelStore` and `Backend`;
and the nodes of `FleetManager` send one Done or Error per prompt, which is what
`NodeService` promises.

## What the runs check

| Run | Instance | Checks |
|---|---|---|
| `fm_safety` | two nodes, two connections, one request, any status frames, one chunk, one lost link or crash | types; registry entries belong to running readers (`RegisteredTunnelIsServed`); a waiting handler is registered (`WaitingHasChannel`); prompts reach only the node they are accounted to (`DispatchReachesTarget`); answers are complete (`AnswerIsComplete`); `FleetManager` implements `ChatService` (`ServiceSpec`) |
| `fm_two_requests` | one node, two connections, two requests, one lost link | a writer that fails on one dispatch refuses the next; `ClosedIsForgotten`, `CreditMatchesReply` |
| `fm_liveness` | one node, two connections, one request, fair tasks | `BufferedIsAnswered`, `LostTunnelIsUnregistered`, `LostTunnelEnds` |
| `stale_teardown` | one node, two connections | **violated**: a connected node's registration is in the registry |
| `stream_completes` | one node, one connection, no failures, fair tasks | **violated**: an answered stream completes its request |
| `ledger` | two tunnels of one node, one request, two heartbeat intervals, failing statements, one restart | balances equal ledgers (`BalanceIsLedgerSum`); points and awake time within the connected time (`EarnedWithinConnection`); closed rows are final (`ClosedRowsAreFinal`) |
| `enrollment` | two runs, two machines with one node id, two tokens for either of two node ids, one-second tokens, two seconds | one certificate per token, for its node (`OneCertificatePerToken`); none after a revocation (`WithdrawnYieldsNothing`) or the last second (`ConsumedInTime`); a row's use is final (`UseIsFinal`); a whole `node.pem` matches its key, and a cut one is only left by a run that had its certificate and ended in the write (`PemMatches`) |
| `backend` | three models, two small ones fit, four prompts, one token each, three downloads that replace or remove artifacts | loaded models fit the limit (`WithinBudget`); use order and loaded models agree (`OrderIsLoaded`); the least recently used goes (`EvictsLeastRecent`); `Backend` implements `NodeService` (`ServiceSpec`); every prompt has its end (`DispatchIsAnswered`) |
| `model_store` | two selected models of three, one entry for another backend, three catalogs, three downloads and two responses per start, one stop | no two downloads of a model at once (`OneDownload`); no failed entry is tried again (`NotRetried`); a marker names bytes that are there, but for a stop between the rename and the marker (`MarkerIsTrue`); every ready model is reported (`ReadyIsTold`) |
| `linux_node` | three models of which the node wants one, two connections, one turn of the schedule, idle tick or re-poll, one prompt | what is queued tells the node's state (`StatusIsOwed`); the node is onboarded and the registry agrees with it (`Converges`); an answer made between connections is sent (`AnswerSurvives`) |
| `mac_node` | one model, two connections, one send that is read and throws, and one prompt of one chunk, or act of the owner, or refused artifact | every frame of an answer is in one place, and in one more per send that was read and threw (`AnswerKept`); the node is registered with its schedule state (`Converges`); an answer over a connection that stays is read (`AnswerArrives`) |
| `ready_offered` | one connection that stays, one act of the owner or a client | **violated**: a model that is offered does not stop being offered |

Why the bounds are enough. A race of the fleet manager's core needs an old and a new
tunnel of one node (two connections, one cut), another node whose senders a handler
may hold (two nodes), and the frames of one request; a second request matters only
because it shares a channel with the first, so it has a run of its own. `MaxUp = 1`
bounds status frames only: chunks, Done and Error are added to whatever is there, so
that frames queue up behind each other. One chunk is enough to see it lost or
overtaken. In `ledger`, two tunnels of one node at a time when a row is closed or
touched by node id, and an interval on each side of a restart or of a failed credit;
`MaxRegisters = 1` there keeps it small. In
`enrollment` two runs are enough for two consumers of one token, and for a run after a
failed one; the clock passes a whole second after the first token's expiry, and the
text order differs from the order of instants in the second before. In `backend`,
sizes 1 and 3 under a limit of 2 give models that fit together, that fit after an
eviction, and that never fit; three downloads replace an artifact by a larger one between
the dispatch, the measuring and the load; four prompts reload a model that was evicted. In
`model_store`, three downloads of two models give a retry and a success after it, two
responses give one that comes during the downloads of the other, one stop finds every
file operation under way, and the start after it meets what is left. In `linux_node` and
`mac_node`, the first of two connections may be refused or die at any moment and the second
stays, which is what "in the end" needs; what is queued over more connections is more of
the same. A chunk and Done are enough to see frames part from each other, and one send that
is read and throws, to see a frame twice. `MaxActs = 1` in `mac_node` means that a prompt
and a withdrawn model do not meet there; a prompt is answered with chunks or an Error
whatever the model is, so they need not.

The router's snapshots have a node without metrics, one without memory, one that uses more
than it has, one at the caps of every term, and two of equal score and different memory;
three nodes give every order of a best, a worse and an equal one.

Deadlock is not checked in any run: every environment here has a bound (connections,
requests, time) after which nothing more has to happen.

`SYMMETRY` is used for safety only; nodes, connections, requests, tunnels, runs and
tokens are never told apart by a definition (`CHOOSE` is used by no model definition).

### Fairness

`FairSpec` has weak fairness of each tunnel's reader and writer, of each handler (after
its request is posted) and of what a node must do for a request it has: read its socket
and finish. tokio polls every task that has been woken, and every action with fairness
is one that stays enabled until its task takes it, so weak fairness suffices. There is
no fairness for clients, for connecting, for status frames, or for a lost link. A node's
answer is fair because `LX/backend.rs` sends one Done or Error per job from a worker
loop whose generation is bounded by `max_tokens`. `Backend` shows that with fairness of
the worker alone, a thread whose every step ends.

In `LinuxNode` and `MacNode` every task of the node goes on when it can: the tunnel, the
coordinator's handlers, downloads, reports, answers and sends, and the periodic ticks.
Connecting is among it, because both connect loops try again for ever after a pause, and so
is the Fleet Manager's reader, which notices the end of a connection. Where there is finitely
much to do, the modules ask for less than fairness of each task: that something is done while
there is something to do (`Work`, `Once`), which the properties need no more than. In
`MacNode` what is periodic and what answers it have fairness of their own, so that an endless
row of heartbeats does not keep a Register from being sent; a scheduler of tasks does not do
that either. Nothing is fair that the owner, a client or the network does.

### Findings

1. `stale_teardown`: `handle_socket` removes the registry entry by node id
   (`FM/tunnel.rs:89`), also when a newer tunnel of that node has registered. The node
   stays connected and is never picked again until it re-registers.
2. `stream_completes`: the SSE stream waits for a sender that its own pending entry
   holds (`FM/api.rs:158`), so "normal completion" never drops it.
3. `ready_offered`: a configuration saved while connected sends a Register
   (`MX/Views/AppEntry.swift:354`), which makes a new registry entry, asleep and without
   ready models. The next heartbeat makes it awake, but no ModelStatus is sent: a model
   that is ready is skipped by `handleCatalog`, and the poll asks only while none is. The
   node's models are out of `/v1/models` until it connects again. A Register that is
   overtaken by the ModelStatus sent after it does the same.

Seen while modelling, and without a run of its own:

* A buffering client whose node is lost waits forever (no timeout in `buffered_response`),
  and while it waits it holds the senders of every tunnel, so the tasks of tunnels that end
  meanwhile stay (`LostTunnelEnds` has that exception in it). A buffering client that leaves
  strands its pending entry (`pc = "abandoned"`; `ClosedIsForgotten` does not speak of it).
* A heartbeat credits the interval behind it by the schedule state it carries
  (`FM/tunnel.rs:172`), so a node that wakes is credited for sleep, and one that falls asleep
  loses what it was awake; `DESIGN.md:192` says "for the elapsed awake interval". A second
  Register on a tunnel opens a second session row (`FM/tunnel.rs:138`), and the first stays
  open; `DESIGN.md:184` says "One row per tunnel connection".
* The answer to an enrollment can be lost after the token is spent, and so can what it
  brought: `fs::write` of `node.pem` (`LX/enroll.rs:157`) first empties the file, so a kill
  or a full disk in the write leaves it cut, with the old one gone and the token spent. A
  token whose expiry
  falls on a whole second is accepted for the rest of that second. The default token
  lifetime read from the environment has a lower bound but no upper one
  (`FM/state.rs:38-42`), while `DESIGN.md:256` says it is clamped to 60-86400 seconds.
* The Linux node drains its queue before it registers (`LX/tunnel.rs:88-98`). An answer made
  between two connections is read without a session, and posted as of a model of 7 billion
  parameters, whatever its size (`FM/tunnel.rs:214`); `DESIGN.md:168` says "weighted by model
  size" and `proto/README.md:23` that Register is "Sent first".
* A catalog entry with another file name leaves the older artifact in the directory, and
  `model_file` takes whichever `.gguf` file it finds first (`LX/backend.rs:180`), though the
  marker names the new one; `DESIGN.md:223` says artifacts are "verified by **sha256** against
  the catalog before use". A stop between the rename of a new artifact and its marker
  (`LX/models.rs:83-89`) leaves the marker of the old one next to the new bytes, which is
  believed if that older entry is offered again (`torn` in `MarkerIsTrue`). A verified
  artifact that the backend refuses is neither ready nor failed, and the Fleet Manager is
  not told; every catalog starts its download task again (`LX/main.rs:301`).
* Two reports of ready models can cross, and the older one then stays until the next
  (`LX/main.rs:226`). Jobs queued to a worker that does not come up have no answer
  (`LX/backend.rs:213`). Downloads have no timeout (`LX/models.rs:34`): one that stalls keeps
  its model in the tracker. Heartbeats are queued without limit while there is no connection
  (`LX/main.rs:91`).
* On macOS the chunks of an answer are sent by tasks that nothing orders
  (`MX/Tunnel/Tunnel.swift:189`): text can be scrambled, and a Done that overtakes a chunk
  cuts it off, where `proto/README.md:51` says "streams `TokenChunk` ... then `Done`". A frame
  whose send throws after the next drain stays in the queue until another connection is made.
  A send that throws after the frame was read doubles it (`MX/Tunnel/Tunnel.swift:192-207`);
  a Done that is doubled and read while the request is pending would be posted twice
  (`FM/tunnel.rs:213`). The nodes of `FleetManager` send one, so no run of it shows that.
  A memory limit lowered in the configuration withdraws a loaded model from the backend
  (`MX/Views/AppEntry.swift:344`, `LlamaBackend.swift:78-84`) without a ModelStatus.
* `jw-swarm-nodes/linux/SETUP.md:154-155` says the schedule is not enforced yet; the code
  enforces it (`LX/main.rs:86`). `DESIGN.md:132` says the registry "is rebuilt/augmented" from
  the database on boot; it starts empty.

## What is proved

All theorems hold for every value of the constants under the named assumptions
(`AbsentAssumption`, `BoundsAssumption`, `LedgerAssumption`, `EnrollmentAssumption`,
`BackendAssumption`, `StoreAssumption`, `NodeAssumption`, `MacAssumption`,
`NoneAssumption`: "None" and `Absent` are none of the other values, the bounds are
numbers, rates are finitely many numbers, tunnels are finitely many and no requests,
sizes are positive, catalogs name the models, files and checksums there are). TLC
evaluates the assumptions in each run. Every invariant and every action property that a
passing run checks has its theorem, and so have both refinements.

### FleetManagerProofs

* `TypeCorrect`, `RegisteredTunnelsAreServed`, `WaitingHandlersHaveChannels`,
  `ClosedHandlersAreForgotten`. `RegisteredTunnelIsServed` is not inductive: a Register
  must not make another tunnel's node the session of this one. `OwnTunnel` adds what rules
  that out: a tunnel that is read has a peer, its status frames carry that peer's id, its
  session is absent or the peer, and a node's link is a tunnel of its own. With it every
  teardown removes either the entry of its own tunnel or one of a newer tunnel of the same
  node. `WaitingHasChannel` and `ClosedIsForgotten` are proved together (`Channel`), which
  also says that a handler that has not yet registered has no entry.
* `CreditsMatchReplies` and `ImplementsChatService` rest on `OneAnswerEach`. Each request's
  answer is a token: it waits in a tunnel as a dispatch, is a node's job, travels back as a
  Done or Error, is in a reader's hands between its two registry calls, waits in the
  handler's channel, and is told to the client, or it is lost on the way. At most one of
  these holds (`OnePlace`), in at most one place (`OnceEach`), none before the dispatch or
  after a refusal (`Unsent`, `Replies`), and the posting is made between the third and the
  fifth (`Paid`). The lemmas about queues (`Occurs`, `AtMostOnce` under `Append`, `Tail` and
  prefixes) carry it through every step.
* For the refinement, a request's abstract status is a function of where its handler is and
  of what its client was told. Every step is a stutter (`ServiceStutters`), a posting
  (`ServicePosts`) or a move of one request's status (`ServiceMoves`), and `ServiceStep` says
  which it is, and why the abstract action may be taken: that an answer is paid before the
  client has it, and an error never, is `Paid`.
* `DispatchesReachTargets`: `Routed` says that from the sender a handler takes out of the
  registry to the job at the node, every tunnel of a request has its target as the peer.
  It needs `Served`: a registered tunnel's session is its peer.
* `AnswersAreComplete`: `Whole` counts. While no link was cut, the chunks a node wrote
  for a streaming or buffering handler are those handed over, those in its channel and
  those in the one tunnel it dispatched to; no chunk is behind the end of the answer in
  either queue (`Precede`), and none is in a tunnel once the end is in a reader's hands,
  although the reader lets go of the registry between a Done and its relay. What a closed
  handler told is final (`Finished`). `Count` is the cardinality of a set of places, and has
  its lemmas for `Append` and `Tail`.
* The router: scores can always be compared (`ScoresAreTotal`), and the comparison is
  transitive although each score has a denominator of its own (`ScoresAreOrdered`).
  `SearchStep` says that a step of `max_by` keeps what is at hand a best choice, and by
  induction over the snapshot `RouterFindsBest` says it of `pick_node`, for snapshots of
  any length in any order; `ListIsServed` follows. They state, for all snapshots, what
  `RouterPicksBest` evaluates on those of three nodes.

### LedgerProofs

* `TypeCorrect` (with `PrevPast`, no heartbeat lies in the future, so no credited interval
  is negative, and `TasksOwned`, a spawned task has a session). `BalancesAreLedgerSums`: of
  all steps only `CommitCredit` changes ledger or balance, and both by the same points.
  `ClosedRowsStay`: the two statements that write rows choose open ones.
* `EarningsAreConnected` bounds, per node, two sums over its tunnels. `Clocked` says that a
  tunnel's heartbeats have covered no more than the time it lasted, up to the last one;
  `TxnOwned`, that an open transaction for capacity is that of a heartbeat whose points are
  still owed; `Earned`, that what a node's ledger and rows have is within the rooms of its
  tunnels, a room being the time that was covered (at the best rate, for points) less what is
  owed. A heartbeat makes as much room as it owes, and the statements behind it use it once,
  or fail; a restart gives up what is owed. What is needed of sums is in `Induction`.

### EnrollmentProofs

Every property of the run. `FilesOwned` says that the key on a machine is that of the run under
way there, as no two runs are under way on a machine. With what it says of the certificate and
of `node.pem` between the opening of a file and its writing, it gives `PemMatchesOrCut`: a whole
`node.pem` is consistent, and a cut one is that of a run that was issued its certificate and
ended in the write. `TokensSafe` says what a consumed row shows (`ConsumptionShows`), that no
two runs consumed one token (`ConsumedOnce`), that certificates go only to runs that did
(`IssuedConsumed`), and that withdrawn tokens are spent (`WithdrawnAreSpent`), from which
`OneCertificate`, `WithdrawnIsWithdrawn` and `ConsumedBeforeExpiry` follow; the last uses only
that a text that sorts after another is not of an earlier second (`TextOrder`). `UseStays` is an
action property.

### BackendProofs

* `TypeCorrect`, `OrderAgrees`, `OldestIsEvicted`. `OrderInv` says that `loaded_order` has
  the loaded models, each once (`Distinct`, `Listed`), sorted by last use (`Sorted`), and that
  a model that is loaded for the job at hand is at its end (`Latest`): the first candidate of
  a trim is therefore the least recently used. The lemmas about `Without` (a sequence that
  loses an element) carry that through `touch_loaded` and evictions.
* `ServiceIsKept`. `JobsInv` says that a request is in one place only, has no frame before
  the worker takes it, and at the worker only chunks of indices below the next token's; then
  each step of `Backend` is a step of `NodeService` under the mapping, or a stutter.
* `BudgetIsKept`. `Budgeted` says that what is resident fits the limit, and that from the
  end of the trim to the load it fits together with what was measured for the model to come:
  the size that was measured is what the load records, whatever is on disk by then. The trim
  ends with room, or with nothing resident, and then `TypeOK` has it that what is loaded next
  fits alone. Loads and evictions change the sum by one term.

### ModelStoreProofs

Every property of the run. `BusyInv` (a task that is at its files has its model in the
tracker, and no two have the same) gives `OneDownload`; a download that the tracker let
through although the model had just become ready finds the marker and touches no file.
`MarkerInv` adds that a task that has renamed its artifact finds it there, which needs
`BusyInv`. `TellInv` says that a ready model is in what was told, in what a task has taken, or
registered by a task that has yet to take. `RetryInv` says of a model with one entry that once
a download has ended well there is its marker and no other can fail, and once one has failed
the entry is remembered and none is under way.

### LinuxNodeProofs

`TypeCorrect`, and `StatusOwed`: the entry that the Fleet Manager will have when it has read
the queue (`Future`, a fold of `Entry` over it) is that of the node. `Greeted` says so of every
connection the loop has greeted, except for the models while a greeting or a report is to
come; each frame that is put changes `Future` by itself alone (`FuturePut`), and one that is
read leaves it as it is. `Ordered` says that, unless reports crossed, the last report is of all
ready models or another is to come. The lemmas about the fold (`FoldIsLast`, `FoldEmpty`) take
it as the recursive function it is, whose existence is `SubsetsExist`.

### MacNodeProofs

`TypeCorrect`, and `AnswersKept`. `Kept` counts the copies of a frame of the answer place by
place: being sent, in the queue, being drained, read, lost, and balances them against one
for each frame of the answer and one for each read of a send that threw (`again`). A task
that sends moves one copy, or adds one to both sides when it throws after it was read; a
connection splits the queue in two, and nothing else that is sent is a frame of the answer;
only the prompt's answer makes a copy of each, and by `PromptSent` there is one prompt on its
way at most, and only while there is no answer. The lemmas on bags (sum, difference, part,
bag of a set) are stated pointwise, by the copies of each element.

### Induction, and how it is done

`Induction` holds what several proofs need of numbers and sums. The library's induction
theorems take the statement as an operator, which the provers at hand cannot instantiate;
`SetInduction` takes the set of the numbers that satisfy it and is proved from the least
element of a set of numbers (`WFMin` of the library). From it follows that the recursive
functions exist which the folds of the community modules define (`SumsExist` for
`MapThenFoldSet`), that a sum does not depend on the order in which the set is emptied
(`TotalSplits`), and how it changes with its function and its set.

The project's own theorem modules prove each lemma they use; from outside come the theorems
of the library on finite sets, sequences, functions and well-founded sets, proved there.
`MacNode` has operators of its own (`Copies`, `Parts`) for two of `Bags`, which tlapm's copy
of that module lacks or defines otherwise.

### Model-checked only

The liveness properties: `BufferedIsAnswered`, `LostTunnelIsUnregistered`, `LostTunnelEnds`,
`DispatchIsAnswered`, `Converges` (of both nodes), `AnswerSurvives` and `AnswerArrives`.
Fairness and `ENABLED` are out of the prover's reach. So are the three properties that are
violated.

## What is not modelled

* The admin page, `main.rs`, wire formats, logging, user interfaces, configuration files,
  start-up of the database: no control flow that another part depends on.
* Metrics are readings. The router's module has them; `FleetManager` lets every node that
  can serve be picked, which is more than any score does.
* A wall clock that steps backwards; it would be credited as measured.
* The Windows node. Its tunnel has one outbound channel that outlives connections, greets
  each connection and drops reports made without one, as the greeting repeats them; its
  hazards are those of `LinuxNode`, and what it does to the Fleet Manager is within the nodes
  of `FleetManager`. Its backend and downloader do in C# what `Backend` and `ModelStore` show
  for Rust; that this code does it right is not shown.
* The macOS backend and downloader, for the same reason, beyond what `MacNode` sees of them;
  the owner's disconnect and reconnect commands and a changed URL or certificate, which drop
  the tunnel with its queue and make another; Swift's data races on the coordinator's fields.
* Times: back-off, timers, pings and latency. Periodic work happens again and again; how soon
  is not said.

## What is left

To prove: that each component keeps what its neighbour assumes of it, across modules
(`Ledger` posts once per request, as `FleetManager` does; its nodes answer as `NodeService`
says); and the first halves of the liveness arguments that are safety (what is enabled
until it is taken). To model: the Windows node, if its tunnel parts from the Linux one.
