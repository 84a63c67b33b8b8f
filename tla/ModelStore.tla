----------------------------- MODULE ModelStore -----------------------------
(***************************************************************************)
(* How the Linux node obtains the models of a catalog: the coordinator's   *)
(* handler of a CatalogResponse (main.rs), the download tasks it starts,   *)
(* which run beside it on other threads (main.rs, models.rs), the files of *)
(* a model's directory (models.rs, backend.rs) and the set of ready models *)
(* (backend.rs).  The node may stop at any moment; files outlive it.       *)
(*                                                                         *)
(* A catalog entry stands for its alias, the last component of its URL and *)
(* its sha256, and bytes stand for the sha256 they hash to.  Artifacts are *)
(* .gguf files, as all of the llama.cpp variants of config/models.toml.    *)
(* Progress, and the catalog map that nothing reads, are left out.         *)
(***************************************************************************)
EXTENDS Naturals, FiniteSets

CONSTANTS
  Models,       \* aliases
  Files,        \* file names
  Shas,         \* checksums of artifacts
  Absent,       \* "None"; also: no file
  Partial,      \* the size of an unfinished file: unknown
  Catalogs,     \* the catalogs a node may be sent: sets of entries, one per alias
  Selected,     \* selected_models; empty: all
  Foreign,      \* entries for a backend other than llama.cpp
  TooLarge,     \* checksums of artifacts over the owner's memory limit
  MaxTasks,     \* bound: downloads started while the node runs
  MaxResponses, \* bound: catalogs received while the node runs
  MaxStops      \* bound: times the node stops

Entries == UNION Catalogs

ASSUME StoreAssumption ==
  /\ \A e \in Entries : e.model \in Models /\ e.file \in Files /\ e.sha \in Shas
  /\ Absent \notin Shas \cup Entries /\ Partial \notin Shas \cup {Absent}
  /\ TooLarge \subseteq Shas
  /\ MaxTasks \in Nat /\ MaxResponses \in Nat /\ MaxStops \in Nat

Tasks == 1 .. MaxTasks

VARIABLES
  artifact,     \* files: per model and file name, the bytes, or Absent
  partial,      \* files: per model, the names that have a .partial file
  marker,       \* files: per model, the sha256 file's content, or Absent
  ready,        \* shared: models the node advertises
  downloading,  \* tracker: models being downloaded
  failed,       \* tracker: per model, the entry that failed last, or Absent
  todo,         \* handler: entries of the response not looked at yet
  hand,         \* handler: where it is
  chosen,       \* handler: the entry that was not ready a moment ago
  taken,        \* per sender of a ModelStatus (0: the handler): what it will say
  task,         \* per task: where it is
  entry,        \* per task: what it downloads
  started,      \* how many tasks were started
  told,         \* history: models that a ModelStatus has named
  torn,         \* history: models whose replacement was cut short
  failures,     \* history: per entry, its failed downloads
  responses,    \* how many catalogs have come, and which entries they had
  stops         \* how often the node has stopped

files   == <<artifact, partial, marker, torn>>
tracker == <<downloading, failed>>
handler == <<todo, hand, chosen, responses>>
tasks   == <<task, entry, started>>
vars == <<files, ready, tracker, handler, tasks, taken, told, failures, stops>>

\* Not started, or over; then the places of download_model and of its caller.
Downloads == {"begin", "fetching", "verified", "removed", "renamed"}
Places == {"none", "fetched", "failed", "dropped", "cleared", "fits", "unfit", "registered", "reporting"}
            \cup Downloads

TypeOK ==
  /\ artifact \in [Models -> [Files -> Shas \cup {Absent}]]
  /\ partial \in [Models -> SUBSET Files]
  /\ marker \in [Models -> Shas \cup {Absent}]
  /\ ready \in SUBSET Models
  /\ downloading \in SUBSET Models
  /\ failed \in [Models -> Entries \cup {Absent}]
  /\ todo \in SUBSET Entries
  /\ hand \in {"idle", "looking", "found", "reporting"}
  /\ chosen \in Entries \cup {Absent}
  /\ hand = "found" <=> chosen # Absent
  /\ taken \in [0 .. MaxTasks -> SUBSET Models]
  /\ task \in [Tasks -> Places]
  /\ entry \in [Tasks -> Entries \cup {Absent}]
  /\ started \in 0 .. MaxTasks
  /\ \A i \in Tasks : task[i] # "none" => i <= started /\ entry[i] # Absent
  /\ told \in SUBSET Models
  /\ torn \in [Models -> BOOLEAN]
  /\ failures \in [Entries -> Nat]
  /\ responses \in [n: 0 .. MaxResponses, seen: SUBSET Entries]
  /\ stops \in 0 .. MaxStops

NoModel == [m \in Models |-> Absent]
NoReport == [w \in 0 .. MaxTasks |-> {}]
NoTask == [i \in Tasks |-> "none"]
NoEntry == [i \in Tasks |-> Absent]
NoFailure == [e \in Entries |-> 0]
NoResponse == [n |-> 0, seen |-> {}]

Init ==
  /\ artifact = [m \in Models |-> [f \in Files |-> Absent]]
  /\ partial = [m \in Models |-> {}]
  /\ marker = NoModel
  /\ torn = [m \in Models |-> FALSE]
  /\ ready = {} /\ downloading = {} /\ failed = NoModel
  /\ todo = {} /\ hand = "idle" /\ chosen = Absent /\ responses = NoResponse
  /\ taken = NoReport
  /\ task = NoTask /\ entry = NoEntry /\ started = 0
  /\ told = {} /\ failures = NoFailure
  /\ stops = 0

-----------------------------------------------------------------------------
(* The handler of a CatalogResponse.                                       *)

Skipped(e) == (Selected # {} /\ e.model \notin Selected) \/ e \in Foreign

Receive(c) ==
  /\ hand = "idle" /\ responses.n < MaxResponses
  /\ hand' = "looking"
  /\ todo' = {e \in c : ~Skipped(e)}
  /\ responses' = [n |-> responses.n + 1, seen |-> responses.seen \cup c]
  /\ UNCHANGED <<files, ready, tracker, chosen, tasks, taken, told, failures, stops>>

\* bf.ready().contains: one lock.
LookReady(e) ==
  /\ hand = "looking" /\ e \in todo
  /\ todo' = todo \ {e}
  /\ IF e.model \in ready
     THEN UNCHANGED <<hand, chosen>>
     ELSE hand' = "found" /\ chosen' = e
  /\ UNCHANGED <<files, ready, tracker, responses, tasks, taken, told, failures, stops>>

\* mutated: the failed fingerprint is looked at, the running download is not
ChosenUnlocked ==
  /\ hand = "found" /\ started < MaxTasks
  /\ failed[chosen.model] # chosen

\* Neither downloading nor failed before: one lock, another one.
Wanted ==
  /\ hand = "found" /\ started < MaxTasks
  /\ chosen.model \notin downloading /\ failed[chosen.model] # chosen

Spawn ==
  /\ Wanted
  /\ downloading' = downloading \cup {chosen.model}
  /\ started' = started + 1
  /\ task' = [task EXCEPT ![started + 1] = "begin"]
  /\ entry' = [entry EXCEPT ![started + 1] = chosen]
  /\ hand' = "looking" /\ chosen' = Absent
  /\ UNCHANGED <<files, ready, failed, todo, responses, taken, told, failures, stops>>

\* mutated: the handler keeps its choice
IgnoreKeeps ==
  /\ hand = "found"
  /\ chosen.model \in downloading \/ failed[chosen.model] = chosen
  /\ hand' = "looking"
  /\ UNCHANGED <<files, ready, tracker, todo, chosen, responses, tasks, taken, told, failures, stops>>

Ignore ==
  /\ hand = "found"
  /\ chosen.model \in downloading \/ failed[chosen.model] = chosen
  /\ hand' = "looking" /\ chosen' = Absent
  /\ UNCHANGED <<files, ready, tracker, todo, responses, tasks, taken, told, failures, stops>>

\* send_model_status reads ready, and then sends what it has read.
Finished ==
  /\ hand = "looking" /\ todo = {}
  /\ hand' = "reporting"
  /\ taken' = [taken EXCEPT ![0] = ready]
  /\ UNCHANGED <<files, ready, tracker, todo, chosen, responses, tasks, told, failures, stops>>

Answer ==
  /\ hand = "reporting"
  /\ hand' = "idle"
  /\ told' = told \cup taken[0]
  /\ taken' = [taken EXCEPT ![0] = {}]
  /\ UNCHANGED <<files, ready, tracker, todo, chosen, responses, tasks, failures, stops>>

-----------------------------------------------------------------------------
(* A download task: download_model.                                        *)

Model(i) == entry[i].model
File(i) == entry[i].file
Sha(i) == entry[i].sha

Goes(i, from, to) ==
  /\ task[i] = from
  /\ task' = [task EXCEPT ![i] = to]
  /\ UNCHANGED <<handler, entry, started, stops>>

Kept == UNCHANGED <<ready, tracker, taken, told, failures>>

\* "already verified": the marker is believed.
AlreadyVerified(i) ==
  /\ Goes(i, "begin", "fetched") /\ marker[Model(i)] = Sha(i)
  /\ Kept /\ UNCHANGED files

\* No directory, no space, no answer, or one that is not a success.
RequestFails(i) ==
  /\ Goes(i, "begin", "failed") /\ marker[Model(i)] # Sha(i)
  /\ \/ UNCHANGED partial
     \/ partial' = [partial EXCEPT ![Model(i)] = @ \ {File(i)}]
  /\ Kept /\ UNCHANGED <<artifact, marker, torn>>

Request(i) ==
  /\ Goes(i, "begin", "fetching") /\ marker[Model(i)] # Sha(i)
  /\ partial' = [partial EXCEPT ![Model(i)] = @ \cup {File(i)}]
  /\ Kept /\ UNCHANGED <<artifact, marker, torn>>

\* The stream or the disk fails, or the checksum is another one.
FetchFails(i) ==
  /\ Goes(i, "fetching", "failed")
  /\ partial' = [partial EXCEPT ![Model(i)] = @ \ {File(i)}]
  /\ Kept /\ UNCHANGED <<artifact, marker, torn>>

\* mutated: the marker is written as soon as the checksum is right
FetchMarks(i) ==
  /\ Goes(i, "fetching", "verified")
  /\ marker' = [marker EXCEPT ![Model(i)] = Sha(i)]
  /\ Kept /\ UNCHANGED <<artifact, partial, torn>>

Fetch(i) ==
  /\ Goes(i, "fetching", "verified")
  /\ Kept /\ UNCHANGED files

RemoveOld(i) ==
  /\ Goes(i, "verified", "removed")
  /\ artifact' = [artifact EXCEPT ![Model(i)][File(i)] = Absent]
  /\ Kept /\ UNCHANGED <<partial, marker, torn>>

Rename(i) ==
  /\ Goes(i, "removed", "renamed")
  /\ artifact' = [artifact EXCEPT ![Model(i)][File(i)] = Sha(i)]
  /\ partial' = [partial EXCEPT ![Model(i)] = @ \ {File(i)}]
  /\ Kept /\ UNCHANGED <<marker, torn>>

RenameFails(i) ==
  /\ Goes(i, "removed", "failed")
  /\ torn' = [torn EXCEPT ![Model(i)] = TRUE]
  /\ Kept /\ UNCHANGED <<artifact, partial, marker>>

WriteMarker(i) ==
  /\ Goes(i, "renamed", "fetched")
  /\ marker' = [marker EXCEPT ![Model(i)] = Sha(i)]
  /\ torn' = [torn EXCEPT ![Model(i)] = FALSE]
  /\ Kept /\ UNCHANGED <<artifact, partial>>

\* The old marker stays, or what is left of it says nothing.
WriteMarkerFails(i) ==
  /\ Goes(i, "renamed", "failed")
  /\ marker' \in {marker, [marker EXCEPT ![Model(i)] = Absent]}
  /\ torn' = [torn EXCEPT ![Model(i)] = TRUE]
  /\ Kept /\ UNCHANGED <<artifact, partial>>

-----------------------------------------------------------------------------
(* A download task: after download_model.                                  *)

\* Two locks, one for each line.
DropDownloading(i) ==
  /\ Goes(i, "fetched", "dropped")
  /\ downloading' = downloading \ {Model(i)}
  /\ UNCHANGED <<files, ready, failed, taken, told, failures>>

DropFailed(i) ==
  /\ Goes(i, "dropped", "cleared")
  /\ failed' = [failed EXCEPT ![Model(i)] = Absent]
  /\ UNCHANGED <<files, ready, downloading, taken, told, failures>>

\* What model_file may return: any .gguf file, as read_dir lists them in any
\* order; else an unfinished one, which is no marker either; else nothing.
model_file(m) ==
  LET whole == {f \in Files : artifact[m][f] # Absent}
  IN  IF whole # {} THEN {artifact[m][f] : f \in whole}
      ELSE IF partial[m] # {} THEN {Partial} ELSE {Absent}

\* register measures what it finds before it takes the lock; an unfinished file has
\* any size.
Measure(i) ==
  /\ task[i] = "cleared"
  /\ \E b \in model_file(Model(i)) :
       \/ b \notin TooLarge \cup {Absent} /\ Goes(i, "cleared", "fits")
       \/ b \in TooLarge \cup {Absent, Partial} /\ Goes(i, "cleared", "unfit")
  /\ UNCHANGED <<files, ready, tracker, taken, told, failures>>

\* mutated: the report is made out before the model is registered
RegisterLate(i) ==
  /\ \/ Goes(i, "fits", "reporting") /\ ready' = ready \cup {Model(i)}
     \/ Goes(i, "unfit", "reporting") /\ ready' = ready \ {Model(i)}
  /\ taken' = [taken EXCEPT ![i] = ready]
  /\ UNCHANGED <<files, tracker, told, failures>>

Register(i) ==
  /\ \/ Goes(i, "fits", "registered") /\ ready' = ready \cup {Model(i)}
     \/ Goes(i, "unfit", "registered") /\ ready' = ready \ {Model(i)}
  /\ UNCHANGED <<files, tracker, taken, told, failures>>

TakeReady(i) ==
  /\ Goes(i, "registered", "reporting")
  /\ taken' = [taken EXCEPT ![i] = ready]
  /\ UNCHANGED <<files, ready, tracker, told, failures>>

Report(i) ==
  /\ Goes(i, "reporting", "none")
  /\ told' = told \cup taken[i]
  /\ taken' = [taken EXCEPT ![i] = {}]
  /\ UNCHANGED <<files, ready, tracker, failures>>

\* mutated: a failure is not remembered
ForgetFailure(i) ==
  /\ Goes(i, "failed", "none")
  /\ downloading' = downloading \ {Model(i)}
  /\ failures' = [failures EXCEPT ![entry[i]] = @ + 1]
  /\ UNCHANGED <<files, ready, failed, taken, told>>

\* Both under one lock.
RememberFailure(i) ==
  /\ Goes(i, "failed", "none")
  /\ downloading' = downloading \ {Model(i)}
  /\ failed' = [failed EXCEPT ![Model(i)] = entry[i]]
  /\ failures' = [failures EXCEPT ![entry[i]] = @ + 1]
  /\ UNCHANGED <<files, ready, taken, told>>

-----------------------------------------------------------------------------
Replacing(m) == \E i \in Tasks : task[i] \in {"removed", "renamed"} /\ Model(i) = m

\* The process ends and is started again: memory is lost, files stay, and the
\* marker may have been cut short.
Restart ==
  /\ stops < MaxStops
  /\ stops' = stops + 1
  /\ ready' = {} /\ downloading' = {} /\ failed' = NoModel
  /\ todo' = {} /\ hand' = "idle" /\ chosen' = Absent /\ responses' = NoResponse
  /\ taken' = NoReport
  /\ task' = NoTask /\ entry' = NoEntry /\ started' = 0
  /\ told' = {} /\ failures' = NoFailure
  /\ torn' = [m \in Models |-> torn[m] \/ Replacing(m)]
  /\ \E w \in SUBSET {m \in Models : \E i \in Tasks : task[i] = "renamed" /\ Model(i) = m} :
       marker' = [m \in Models |-> IF m \in w THEN Absent ELSE marker[m]]
  /\ UNCHANGED <<artifact, partial>>

Handler ==
  \/ \E c \in Catalogs : Receive(c)
  \/ \E e \in todo : LookReady(e)
  \/ Spawn \/ Ignore \/ Finished \/ Answer

Task(i) ==
  \/ AlreadyVerified(i) \/ RequestFails(i) \/ Request(i) \/ FetchFails(i) \/ Fetch(i)
  \/ RemoveOld(i) \/ Rename(i) \/ RenameFails(i) \/ WriteMarker(i) \/ WriteMarkerFails(i)
  \/ DropDownloading(i) \/ DropFailed(i) \/ Measure(i) \/ Register(i) \/ TakeReady(i) \/ Report(i)
  \/ RememberFailure(i)

Next == Handler \/ (\E i \in Tasks : Task(i)) \/ Restart

Spec == Init /\ [][Next]_vars

-----------------------------------------------------------------------------
(* Properties *)

\* "so a model is neither downloaded twice concurrently" (main.rs:20): never
\* are two tasks at the files of one model, though a task that ends gives the
\* model free before the backend calls it ready.
OneDownload ==
  \A i, j \in Tasks : task[i] \in Downloads /\ task[j] \in Downloads /\ Model(i) = Model(j) => i = j

\* "nor endlessly retried against the same catalog entry" (main.rs:20-21): a
\* node that is offered one entry of a model only tries it in vain at most
\* once, whatever is offered of the others.
NotRetried ==
  \A e \in Entries :
    (\A o \in responses.seen : o.model = e.model => o = e) => failures[e] <= 1

\* download_model believes the marker: the bytes it names are there, in some
\* file of the directory, unless they are being replaced or a replacement was
\* cut short by a stop or a failure between the removal of the old artifact
\* and the writing of the marker.
MarkerIsTrue ==
  \A m \in Models :
    marker[m] # Absent /\ ~torn[m] /\ ~Replacing(m) => \E f \in Files : artifact[m][f] = marker[m]

\* Once no task is between its registration and its report, every ready model
\* has been named in a ModelStatus, though reports are made of a set read
\* before they are sent and may cross (main.rs: send_model_status).
ReadyIsTold ==
  (\A i \in Tasks : task[i] \notin {"registered", "reporting"}) => ready \subseteq told
=============================================================================
