------------------------------- MODULE Backend -------------------------------
(***************************************************************************)
(* The Linux node's inference backend (backend.rs): dispatch, called by    *)
(* the coordinator; register, called when a download has ended; and the    *)
(* worker thread, which takes the jobs one by one, loads models within the  *)
(* owner's memory limit and generates.  Coordinator, downloads and worker  *)
(* share SharedState behind a mutex; loaded belongs to the worker.         *)
(*                                                                         *)
(* A size is in MB as file_size_mb rounds it, never 0.  A frame is a record *)
(* with the request and, for a TokenChunk, its index.  Prompts, payloads,  *)
(* throughput statistics and token counts are left out.                    *)
(***************************************************************************)
EXTENDS Naturals, Sequences, SequencesExt, FiniteSetsExt

CONSTANTS
  Models,       \* catalog aliases
  Requests,     \* dispatched prompts; an id is dispatched once
  Absent,       \* "None"
  Sizes,        \* sizes of artifacts
  Limit,        \* memory_limit_mb
  Prompts,      \* bound: <<request, model>> pairs that may be dispatched
  MaxTokens,    \* max_tokens of every payload (extract_max_tokens: 1 to 512)
  MaxDownloads  \* bound: downloads that end in a behaviour, one at a time

ASSUME BackendAssumption ==
  /\ Absent \notin Models \cup Requests \cup Sizes
  /\ Sizes \subseteq Nat \ {0}
  /\ Prompts \subseteq Requests \X Models
  /\ Limit \in Nat /\ MaxTokens \in Nat \ {0} /\ MaxDownloads \in Nat
  /\ IsFiniteSet(Models)

VARIABLES
  disk,       \* files: the size of the artifact model_file finds, or Absent
  fetched,    \* downloads: models to be registered
  downloads,  \* downloads: how many have ended
  ready,      \* shared: models the node advertises
  order,      \* shared: loaded_order, least recently used first
  asked,      \* coordinator: the model a dispatched request is for, or Absent
  jobs,       \* the channel to the worker: requests
  worker,     \* worker: where it is
  job,        \* worker: the request it works on, or Absent
  size,       \* worker: the measured size of the artifact to load, or Absent
  loaded,     \* worker: resident_size_mb of a loaded model; 0: not loaded
  index,      \* worker: tokens generated for the job
  out,        \* the outbound channel: frames queued so far
  used        \* history: the models touched, in order

diskVars   == <<disk, fetched, downloads>>
workerVars == <<worker, job, size, loaded, order, index, used>>
vars == <<diskVars, ready, asked, jobs, workerVars, out>>

Frame == [t: {"TokenChunk", "Done", "Error"}, req: Requests, index: Nat]

\* Not up yet; at rx.recv; at the head of generate; evicting; loading;
\* after the load; generating; returned because the backend did not come up.
Places == {"starting", "waiting", "sizing", "evicting", "loading", "settling",
           "generating", "gone"}

\* A job's model is known and its size measured where they are used.
AtWork == {"sizing", "evicting", "loading", "settling", "generating"}

TypeOK ==
  /\ disk \in [Models -> Sizes \cup {Absent}]
  /\ fetched \in SUBSET Models
  /\ downloads \in 0 .. MaxDownloads
  /\ ready \in SUBSET Models
  /\ order \in Seq(Models)
  /\ asked \in [Requests -> Models \cup {Absent}]
  /\ jobs \in Seq(Requests)
  /\ worker \in Places
  /\ job \in Requests \cup {Absent}
  /\ worker \in AtWork <=> job # Absent
  /\ job # Absent => asked[job] \in Models
  /\ size \in Sizes \cup {Absent}
  /\ worker \in {"evicting", "loading"} => size \in Sizes /\ size <= Limit
  /\ loaded \in [Models -> Nat]
  /\ index \in 0 .. MaxTokens
  /\ out \in Seq(Frame)
  /\ used \in Seq(Models)

Init ==
  /\ disk = [m \in Models |-> Absent]
  /\ fetched = {}
  /\ downloads = 0
  /\ ready = {}
  /\ order = <<>>
  /\ asked = [r \in Requests |-> Absent]
  /\ jobs = <<>>
  /\ worker = "starting"
  /\ job = Absent
  /\ size = Absent
  /\ loaded = [m \in Models |-> 0]
  /\ index = 0
  /\ out = <<>>
  /\ used = <<>>

Queue(t, r, i) == out' = Append(out, [t |-> t, req |-> r, index |-> i])

-----------------------------------------------------------------------------
(* Downloads and registration.                                             *)

\* download_model returns Ok for a model: its directory now holds an artifact
\* of some size, or none, when a checksum marker has outlived it.
DownloadEnds(m) ==
  /\ downloads < MaxDownloads /\ fetched = {}
  /\ downloads' = downloads + 1
  /\ \E s \in Sizes \cup {Absent} : disk' = [disk EXCEPT ![m] = s]
  /\ fetched' = fetched \cup {m}
  /\ UNCHANGED <<ready, asked, jobs, workerVars, out>>

Fits(m) == disk[m] # Absent /\ disk[m] <= Limit

\* An artifact over the limit, or none, takes the model off the list, whether
\* or not it is loaded.
register(m) ==
  /\ m \in fetched
  /\ fetched' = fetched \ {m}
  /\ ready' = IF Fits(m) THEN ready \cup {m} ELSE ready \ {m}
  /\ UNCHANGED <<disk, downloads, asked, jobs, workerVars, out>>

-----------------------------------------------------------------------------
(* dispatch, on the coordinator.  Between its look at ready and the send to *)
(* the worker a registration may change ready; the worker looks again.     *)

\* "Model file missing", or "backend worker unavailable".
DispatchRefused(r, m) ==
  /\ asked[r] = Absent
  /\ m \notin ready \/ worker = "gone"
  /\ asked' = [asked EXCEPT ![r] = m]
  /\ Queue("Error", r, 0)
  /\ UNCHANGED <<diskVars, ready, jobs, workerVars>>

Dispatch(r, m) ==
  /\ asked[r] = Absent
  /\ m \in ready /\ worker # "gone"
  /\ asked' = [asked EXCEPT ![r] = m]
  /\ jobs' = Append(jobs, r)
  /\ UNCHANGED <<diskVars, ready, workerVars, out>>

-----------------------------------------------------------------------------
(* The worker.                                                             *)

Model == asked[job]

BackendStarts ==
  /\ worker = "starting"
  /\ worker' = "waiting"
  /\ UNCHANGED <<diskVars, ready, asked, jobs, job, size, loaded, order, index, out, used>>

\* "llama backend init failed": the thread returns, and the channel goes with
\* the jobs that were sent to it.
BackendFails ==
  /\ worker = "starting"
  /\ worker' = "gone"
  /\ jobs' = <<>>
  /\ UNCHANGED <<diskVars, ready, asked, job, size, loaded, order, index, out, used>>

\* mutated: the worker still holds the job
RestBusy ==
  /\ worker' = "waiting"
  /\ size' = Absent
  /\ index' = 0
  /\ UNCHANGED job

\* generate has returned: the worker waits for the next job.
Rest ==
  /\ worker' = "waiting"
  /\ job' = Absent
  /\ size' = Absent
  /\ index' = 0

\* generate fails with an Error frame; what is loaded by then stays.
Fail ==
  /\ Rest
  /\ Queue("Error", job, 0)
  /\ UNCHANGED <<diskVars, ready, asked, jobs, loaded, order, used>>

\* generate begins with a look at ready.
TakeJob ==
  /\ worker = "waiting" /\ jobs # <<>>
  /\ asked[Head(jobs)] \in ready
  /\ job' = Head(jobs)
  /\ jobs' = Tail(jobs)
  /\ worker' = "sizing"
  /\ UNCHANGED <<diskVars, ready, asked, size, loaded, order, index, out, used>>

\* mutated: a job whose model is gone is dropped
DropJob ==
  /\ worker = "waiting" /\ jobs # <<>>
  /\ asked[Head(jobs)] \notin ready
  /\ jobs' = Tail(jobs)
  /\ UNCHANGED <<diskVars, ready, asked, workerVars, out>>

RefuseJob ==
  /\ worker = "waiting" /\ jobs # <<>>
  /\ asked[Head(jobs)] \notin ready
  /\ jobs' = Tail(jobs)
  /\ Queue("Error", Head(jobs), 0)
  /\ UNCHANGED <<diskVars, ready, asked, workerVars>>

\* retain(|y| y != x) of a list that has x once.
Without(s, x) ==
  IF \E i \in 1 .. Len(s) : s[i] = x
  THEN RemoveAt(s, CHOOSE i \in 1 .. Len(s) : s[i] = x)
  ELSE s

\* mutated: only a load counts as a use
TouchOnce(m) ==
  /\ order' = IF m \in Range(order) THEN order ELSE Append(order, m)
  /\ used' = Append(used, m)

touch_loaded(m) ==
  /\ order' = Append(Without(order, m), m)
  /\ used' = Append(used, m)

UseLoaded ==
  /\ worker = "sizing" /\ loaded[Model] # 0
  /\ worker' = "settling"
  /\ touch_loaded(Model)
  /\ UNCHANGED <<diskVars, ready, asked, jobs, job, size, loaded, index, out>>

\* No artifact any more, or another one over the limit.
RefuseArtifact ==
  /\ worker = "sizing" /\ loaded[Model] = 0 /\ ~Fits(Model)
  /\ Fail

Measure ==
  /\ worker = "sizing" /\ loaded[Model] = 0 /\ Fits(Model)
  /\ size' = disk[Model]
  /\ worker' = "evicting"
  /\ UNCHANGED <<diskVars, ready, asked, jobs, job, loaded, order, index, out, used>>

-----------------------------------------------------------------------------
(* trim_loaded_to_budget: before a load it reserves the measured size, after *)
(* it spares the job's model.  One action per turn of its loop.            *)

Trimming == worker \in {"evicting", "settling"}

Spared == IF worker = "settling" THEN Model ELSE Absent

Reserved == IF worker = "evicting" THEN size ELSE 0

Resident == MapThenSumSet(LAMBDA m : loaded[m], Models \ {Spared})

\* mutated: nothing is reserved
ResidentOver == Resident > Limit

OverBudget == Resident + Reserved > Limit

\* Positions of loaded_order that may go; the first one goes first.
Candidates == {i \in 1 .. Len(order) : order[i] # Spared /\ loaded[order[i]] # 0}

Oldest == order[CHOOSE i \in Candidates : \A j \in Candidates : i <= j]

\* mutated: loaded_order keeps the model
EvictQuietly ==
  /\ Trimming /\ OverBudget /\ Candidates # {}
  /\ loaded' = [loaded EXCEPT ![Oldest] = 0]
  /\ UNCHANGED <<diskVars, ready, asked, jobs, worker, job, size, order, index, out, used>>

Evict ==
  /\ Trimming /\ OverBudget /\ Candidates # {}
  /\ loaded' = [loaded EXCEPT ![Oldest] = 0]
  /\ order' = Without(order, Oldest)
  /\ UNCHANGED <<diskVars, ready, asked, jobs, worker, job, size, index, out, used>>

Trimmed == ~OverBudget \/ Candidates = {}

RoomMade ==
  /\ worker = "evicting" /\ Trimmed
  /\ worker' = "loading"
  /\ UNCHANGED <<diskVars, ready, asked, jobs, job, size, loaded, order, index, out, used>>

Load ==
  /\ worker = "loading"
  /\ loaded' = [loaded EXCEPT ![Model] = size]
  /\ touch_loaded(Model)
  /\ worker' = "settling"
  /\ size' = Absent
  /\ UNCHANGED <<diskVars, ready, asked, jobs, job, index, out>>

LoadFails == worker = "loading" /\ Fail

Settled ==
  /\ worker = "settling" /\ Trimmed
  /\ worker' = "generating"
  /\ UNCHANGED <<diskVars, ready, asked, jobs, job, size, loaded, order, index, out, used>>

-----------------------------------------------------------------------------
(* Generation.                                                             *)

\* A token, whose text may be empty so far (part of a character).
Token ==
  /\ worker = "generating" /\ index < MaxTokens
  /\ index' = index + 1
  /\ Queue("TokenChunk", job, index) \/ UNCHANGED out
  /\ UNCHANGED <<diskVars, ready, asked, jobs, worker, job, size, loaded, order, used>>

\* The prompt cannot be tokenised or decoded, or the next token cannot.
GenerateFails == worker = "generating" /\ Fail

\* mutated: also an answer that is ended by an error has its Done
FinishTwice ==
  /\ worker = "generating"
  /\ Rest
  /\ out' = out \o <<[t |-> "Error", req |-> job, index |-> 0], [t |-> "Done", req |-> job, index |-> 0]>>
  /\ UNCHANGED <<diskVars, ready, asked, jobs, loaded, order, used>>

\* End of generation, or max_tokens.
Finish ==
  /\ worker = "generating"
  /\ Rest
  /\ Queue("Done", job, 0)
  /\ UNCHANGED <<diskVars, ready, asked, jobs, loaded, order, used>>

-----------------------------------------------------------------------------
Generate ==
  \/ TakeJob \/ RefuseJob \/ UseLoaded \/ RefuseArtifact \/ Measure \/ Evict \/ RoomMade
  \/ Load \/ LoadFails \/ Settled \/ GenerateFails \/ Finish

Worker == BackendStarts \/ BackendFails \/ Generate \/ Token

Next ==
  \/ \E m \in Models : DownloadEnds(m) \/ register(m)
  \/ \E x \in Prompts : DispatchRefused(x[1], x[2]) \/ Dispatch(x[1], x[2])
  \/ Worker

Spec == Init /\ [][Next]_vars

\* The worker is a thread of its own whose every step ends.
FairSpec == Spec /\ WF_vars(Worker)

-----------------------------------------------------------------------------
(* Properties *)

\* "Resident models are managed LRU-style within the configured memory budget"
\* (backend.rs:5-6): the measured sizes of all loaded models together never
\* exceed the limit, through loads, failed loads, evictions and artifacts that
\* are replaced on disk while loaded.
WithinBudget == MapThenSumSet(LAMBDA m : loaded[m], Models) <= Limit

\* loaded_order (behind the mutex) and loaded (the worker's) name the same
\* models, each once, so an eviction always finds a candidate; and generate's
\* model is still loaded after the trim (expect("model loaded above")).
OrderIsLoaded ==
  /\ \A m \in Models : loaded[m] # 0 <=> \E i \in 1 .. Len(order) : order[i] = m
  /\ \A i, j \in 1 .. Len(order) : order[i] = order[j] => i = j
  /\ worker \in {"settling", "generating"} => loaded[Model] # 0

\* A model that is unloaded was used before every model that stays
\* (trim_loaded_to_budget with touch_loaded).
UsedBefore(m, k) ==
  \E i \in 1 .. Len(used) : used[i] = k /\ \A j \in i .. Len(used) : used[j] # m

EvictsLeastRecent ==
  [][\A m, k \in Models :
       loaded[m] # 0 /\ loaded'[m] = 0 /\ loaded[k] # 0 /\ loaded'[k] # 0
         => UsedBefore(m, k)]_vars

Answered(r) == \E i \in 1 .. Len(out) : out[i].req = r /\ out[i].t # "TokenChunk"

\* The promise of NodeService.
ServiceState(r) ==
  CASE asked[r] = Absent -> "new"
    [] asked[r] # Absent /\ Answered(r) -> "over"
    [] asked[r] # Absent /\ ~Answered(r) /\ (r = job \/ r \in Range(jobs)) -> "held"
    [] OTHER -> "lost"

Service == INSTANCE NodeService WITH
  state <- [r \in Requests |-> ServiceState(r)],
  frames <- out

ServiceSpec == Service!Spec

\* "Token chunks and the final Done/Error message stream through `send`"
\* (backend.rs:135-136): every dispatched prompt ends with one of them, unless
\* the worker never came up, whatever is evicted, replaced or fails to load.
DispatchIsAnswered ==
  \A r \in Requests : asked[r] # Absent ~> (Answered(r) \/ worker = "gone")
=============================================================================
