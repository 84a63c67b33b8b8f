--------------------------- MODULE ModelStoreProofs ---------------------------
(***************************************************************************)
(* Theorems about ModelStore for every set of models, files and catalogs,  *)
(* and every number of downloads, catalogs and stops.                      *)
(***************************************************************************)
EXTENDS ModelStore, TLAPS

LEMMA AbsentIsNothing == Absent \notin Entries /\ Absent \notin Shas
BY StoreAssumption

LEMMA EntryType ==
  ASSUME NEW e \in Entries
  PROVE  e.model \in Models /\ e.file \in Files /\ e.sha \in Shas /\ e # Absent
BY StoreAssumption

LEMMA Bounds == MaxTasks \in Nat /\ MaxResponses \in Nat /\ MaxStops \in Nat
BY StoreAssumption

(* A task that runs has an entry. *)
LEMMA EntryOf ==
  ASSUME TypeOK, NEW i \in Tasks, task[i] # "none"
  PROVE  /\ entry[i] \in Entries /\ i \in 1 .. MaxTasks /\ i \in 0 .. MaxTasks
         /\ Model(i) \in Models /\ File(i) \in Files /\ Sha(i) \in Shas
BY EntryType, Bounds DEF TypeOK, Tasks, Model, File, Sha

-----------------------------------------------------------------------------
(* Type correctness. *)

\* The variables of the handler and of the tasks, and the rest of TypeOK.
HandlerType ==
  /\ todo \in SUBSET Entries
  /\ hand \in {"idle", "looking", "found", "reporting"}
  /\ chosen \in Entries \cup {Absent}
  /\ hand = "found" <=> chosen # Absent
  /\ responses \in [n: 0 .. MaxResponses, seen: SUBSET Entries]

TaskType ==
  /\ task \in [Tasks -> Places]
  /\ entry \in [Tasks -> Entries \cup {Absent}]
  /\ started \in 0 .. MaxTasks
  /\ \A i \in Tasks : task[i] # "none" => i <= started /\ entry[i] # Absent

FileType ==
  /\ artifact \in [Models -> [Files -> Shas \cup {Absent}]]
  /\ partial \in [Models -> SUBSET Files]
  /\ marker \in [Models -> Shas \cup {Absent}]
  /\ torn \in [Models -> BOOLEAN]

ListType ==
  /\ ready \in SUBSET Models
  /\ downloading \in SUBSET Models
  /\ failed \in [Models -> Entries \cup {Absent}]
  /\ taken \in [0 .. MaxTasks -> SUBSET Models]
  /\ told \in SUBSET Models
  /\ failures \in [Entries -> Nat]
  /\ stops \in 0 .. MaxStops

LEMMA TypeParts == TypeOK <=> HandlerType /\ TaskType /\ FileType /\ ListType
BY DEF TypeOK, HandlerType, TaskType, FileType, ListType

LEMMA TypeInit == Init => TypeOK
<1> SUFFICES ASSUME Init PROVE TypeOK
  OBVIOUS
<1>1. HandlerType
  BY AbsentIsNothing, Bounds DEF Init, HandlerType, NoResponse
<1>2. TaskType
  BY Bounds DEF Init, TaskType, NoTask, NoEntry, Places, Tasks
<1>3. FileType
  BY DEF Init, FileType, NoModel
<1>4. ListType
  BY Bounds DEF Init, ListType, NoModel, NoReport, NoFailure
<1> QED BY <1>1, <1>2, <1>3, <1>4, TypeParts

(* A move of one task. *)
LEMMA GoesType ==
  ASSUME TypeOK, NEW i \in Tasks, NEW from, NEW to \in Places, from # "none", Goes(i, from, to)
  PROVE  HandlerType' /\ TaskType' /\ stops' \in 0 .. MaxStops
<1>1. HandlerType'
  BY DEF Goes, handler, TypeOK, HandlerType
<1>2. TaskType'
  BY DEF Goes, TypeOK, TaskType
<1> QED BY <1>1, <1>2 DEF Goes, TypeOK

LEMMA KeptType ==
  ASSUME TypeOK, Kept, stops' \in 0 .. MaxStops
  PROVE  ListType'
BY DEF TypeOK, Kept, tracker, ListType

LEMMA TypeStep == TypeOK /\ [Next]_vars => TypeOK'
<1> SUFFICES ASSUME TypeOK, [Next]_vars PROVE TypeOK'
  OBVIOUS
<1> USE AbsentIsNothing, Bounds
<1>1. ASSUME NEW c \in Catalogs, Receive(c) PROVE TypeOK'
  <2>1. c \subseteq Entries
    BY DEF Entries
  <2>2. HandlerType'
    BY <1>1, <2>1 DEF Receive, TypeOK, HandlerType
  <2>3. TaskType' /\ FileType' /\ ListType'
    BY <1>1 DEF Receive, files, tracker, tasks, TypeOK, TaskType, FileType, ListType
  <2> QED BY <2>2, <2>3, TypeParts DEF TypeOK, HandlerType, TaskType, FileType, ListType
<1>2. ASSUME NEW e \in todo, LookReady(e) PROVE TypeOK'
  <2>1. HandlerType'
    BY <1>2 DEF LookReady, TypeOK, HandlerType
  <2>2. TaskType' /\ FileType' /\ ListType'
    BY <1>2 DEF LookReady, files, tracker, tasks, TypeOK, TaskType, FileType, ListType
  <2> QED BY <2>1, <2>2 DEF TypeOK, HandlerType, TaskType, FileType, ListType
<1>3. CASE Spawn
  <2>1. chosen \in Entries /\ started + 1 \in Tasks /\ started \in 0 .. MaxTasks
    BY <1>3 DEF Spawn, Wanted, TypeOK, Tasks
  <2>2. HandlerType'
    BY <1>3 DEF Spawn, TypeOK, HandlerType
  <2>3. TaskType'
    BY <1>3, <2>1 DEF Spawn, TypeOK, TaskType, Tasks, Places, Downloads
  <2>4. FileType' /\ ListType'
    BY <1>3, <2>1, EntryType DEF Spawn, files, TypeOK, FileType, ListType
  <2> QED BY <2>2, <2>3, <2>4 DEF TypeOK, HandlerType, TaskType, FileType, ListType
<1>4. CASE Ignore \/ Finished \/ Answer
  <2>1. HandlerType'
    BY <1>4 DEF Ignore, Finished, Answer, TypeOK, HandlerType
  <2>2. TaskType' /\ FileType'
    BY <1>4 DEF Ignore, Finished, Answer, files, tasks, TypeOK, TaskType, FileType
  <2>3. ListType'
    <3>1. taken' \in [0 .. MaxTasks -> SUBSET Models] /\ told' \in SUBSET Models
      BY <1>4 DEF Ignore, Finished, Answer, TypeOK
    <3>2. UNCHANGED <<ready, downloading, failed, failures, stops>>
      BY <1>4 DEF Ignore, Finished, Answer, tracker
    <3> QED BY <3>1, <3>2 DEF TypeOK, ListType
  <2> QED BY <2>1, <2>2, <2>3 DEF TypeOK, HandlerType, TaskType, FileType, ListType
<1>5. ASSUME NEW i \in Tasks, Task(i) PROVE TypeOK'
  <2>1. \E from, to \in Places : from # "none" /\ Goes(i, from, to)
    BY <1>5 DEF Task, AlreadyVerified, RequestFails, Request, FetchFails, Fetch, RemoveOld, Rename,
      RenameFails, WriteMarker, WriteMarkerFails, DropDownloading, DropFailed, Measure, Register, TakeReady,
      Report, RememberFailure, Places, Downloads
  <2>2. HandlerType' /\ TaskType' /\ stops' \in 0 .. MaxStops /\ task[i] # "none"
    BY <2>1, GoesType DEF Goes
  <2>3. /\ entry[i] \in Entries /\ i \in 0 .. MaxTasks
        /\ Model(i) \in Models /\ File(i) \in Files /\ Sha(i) \in Shas
    BY <2>2, EntryOf
  <2>4. CASE AlreadyVerified(i) \/ RequestFails(i) \/ Request(i) \/ FetchFails(i) \/ Fetch(i)
    <3>1. ListType'
      BY <2>2, <2>4, KeptType DEF AlreadyVerified, RequestFails, Request, FetchFails, Fetch
    <3>2. FileType'
      <4>1. UNCHANGED <<artifact, marker, torn>>
        BY <2>4 DEF AlreadyVerified, RequestFails, Request, FetchFails, Fetch, files
      <4>2. \/ partial' = partial
            \/ partial' = [partial EXCEPT ![Model(i)] = partial[Model(i)] \ {File(i)}]
            \/ partial' = [partial EXCEPT ![Model(i)] = partial[Model(i)] \cup {File(i)}]
        BY <2>4 DEF AlreadyVerified, RequestFails, Request, FetchFails, Fetch, files
      <4>3. partial' \in [Models -> SUBSET Files]
        BY <2>3, <4>2 DEF TypeOK
      <4> QED BY <4>1, <4>3 DEF TypeOK, FileType
    <3> QED BY <2>2, <3>1, <3>2 DEF TypeOK, HandlerType, TaskType, FileType, ListType
  <2>5. CASE RemoveOld(i) \/ Rename(i) \/ RenameFails(i) \/ WriteMarker(i) \/ WriteMarkerFails(i)
    <3>1. ListType'
      BY <2>2, <2>5, KeptType DEF RemoveOld, Rename, RenameFails, WriteMarker, WriteMarkerFails
    <3>2. FileType'
      <4>1. \/ UNCHANGED artifact
            \/ artifact' = [artifact EXCEPT ![Model(i)][File(i)] = Absent]
            \/ artifact' = [artifact EXCEPT ![Model(i)][File(i)] = Sha(i)]
        BY <2>5 DEF RemoveOld, Rename, RenameFails, WriteMarker, WriteMarkerFails
      <4>2. artifact' \in [Models -> [Files -> Shas \cup {Absent}]]
        <5>1. artifact[Model(i)] \in [Files -> Shas \cup {Absent}]
          BY <2>3 DEF TypeOK
        <5>2. \A b \in Shas \cup {Absent} :
                [artifact[Model(i)] EXCEPT ![File(i)] = b] \in [Files -> Shas \cup {Absent}]
          BY <5>1
        <5>3. \/ artifact' = artifact
              \/ \E h \in [Files -> Shas \cup {Absent}] :
                   artifact' = [artifact EXCEPT ![Model(i)] = h]
          BY <2>3, <4>1, <5>2
        <5> QED BY <5>3 DEF TypeOK
      <4>3. partial' \in [Models -> SUBSET Files]
        <5>1. \/ partial' = partial
              \/ partial' = [partial EXCEPT ![Model(i)] = @ \ {File(i)}]
          BY <2>5 DEF RemoveOld, Rename, RenameFails, WriteMarker, WriteMarkerFails
        <5>2. partial[Model(i)] \ {File(i)} \in SUBSET Files /\ partial \in [Models -> SUBSET Files]
          BY <2>3 DEF TypeOK
        <5>3. \A s \in SUBSET Files : [partial EXCEPT ![Model(i)] = s] \in [Models -> SUBSET Files]
          BY <5>2
        <5> QED BY <5>1, <5>2, <5>3
      <4>4. marker' \in [Models -> Shas \cup {Absent}]
        <5>1. \/ marker' = marker
              \/ marker' = [marker EXCEPT ![Model(i)] = Sha(i)]
              \/ marker' = [marker EXCEPT ![Model(i)] = Absent]
          BY <2>5 DEF RemoveOld, Rename, RenameFails, WriteMarker, WriteMarkerFails
        <5> QED BY <2>3, <5>1 DEF TypeOK
      <4>5. torn' \in [Models -> BOOLEAN]
        <5>1. \E v \in BOOLEAN : torn' = torn \/ torn' = [torn EXCEPT ![Model(i)] = v]
          BY <2>5 DEF RemoveOld, Rename, RenameFails, WriteMarker, WriteMarkerFails
        <5> QED BY <2>3, <5>1 DEF TypeOK
      <4> QED BY <4>2, <4>3, <4>4, <4>5 DEF FileType
    <3> QED BY <2>2, <3>1, <3>2 DEF TypeOK, HandlerType, TaskType, FileType, ListType
  <2>6. CASE DropDownloading(i) \/ DropFailed(i) \/ Measure(i) \/ Register(i) \/ TakeReady(i) \/ Report(i)
             \/ RememberFailure(i)
    <3>1. FileType'
      BY <2>6 DEF DropDownloading, DropFailed, Measure, Register, TakeReady, Report, RememberFailure, files,
                  TypeOK, FileType
    <3>2. ListType'
      <4>1. CASE Measure(i) \/ Register(i)
        BY <2>2, <2>3, <4>1 DEF Measure, Register, tracker, TypeOK, ListType
      <4>2. CASE DropDownloading(i) \/ DropFailed(i)
        BY <2>2, <2>3, <4>2 DEF DropDownloading, DropFailed, TypeOK, ListType
      <4>3. CASE TakeReady(i) \/ Report(i)
        BY <2>2, <2>3, <4>3 DEF TakeReady, Report, tracker, TypeOK, ListType
      <4>4. CASE RememberFailure(i)
        BY <2>2, <2>3, <4>4 DEF RememberFailure, TypeOK, ListType
      <4> QED BY <2>6, <4>1, <4>2, <4>3, <4>4
    <3> QED BY <2>2, <3>1, <3>2 DEF TypeOK, HandlerType, TaskType, FileType, ListType
  <2> QED BY <1>5, <2>4, <2>5, <2>6 DEF Task
<1>6. CASE Restart
  <2>1. HandlerType'
    BY <1>6 DEF Restart, HandlerType, NoResponse
  <2>2. TaskType'
    BY <1>6 DEF Restart, TaskType, NoTask, NoEntry, Places, Tasks
  <2>3. FileType'
    BY <1>6 DEF Restart, FileType, TypeOK
  <2>4. ListType'
    BY <1>6 DEF Restart, ListType, NoModel, NoReport, NoFailure, TypeOK
  <2> QED BY <2>1, <2>2, <2>3, <2>4 DEF TypeOK, HandlerType, TaskType, FileType, ListType
<1>7. CASE UNCHANGED vars
  BY <1>7 DEF vars, files, tracker, handler, tasks, TypeOK
<1> QED BY <1>1, <1>2, <1>3, <1>4, <1>5, <1>6, <1>7 DEF Next, Handler

(* Every variable keeps its type; in particular a task that runs has an    *)
(* entry, and the handler has chosen one just between its two looks        *)
(* (main.rs: handle_msg; models.rs: download_model).                       *)
THEOREM TypeCorrect == Spec => []TypeOK
BY TypeInit, TypeStep, PTL DEF Spec
-----------------------------------------------------------------------------
(* One download of a model at a time.                                      *)

\* From Spawn to the lock that takes the model out of downloading.
Busy == Downloads \cup {"fetched", "failed"}

\* The tracker has the model of every busy task, and so there is one of each.
BusyInv ==
  /\ \A i \in Tasks : task[i] \in Busy => Model(i) \in downloading
  /\ \A i, j \in Tasks : task[i] \in Busy /\ task[j] \in Busy /\ Model(i) = Model(j) => i = j

LEMMA BusyInit == Init => BusyInv
BY DEF Init, BusyInv, NoTask, Busy, Downloads

(* Every step of a task is a move. *)
LEMMA TaskGoes ==
  ASSUME TypeOK, NEW i \in Tasks, Task(i)
  PROVE  /\ UNCHANGED <<entry, todo, hand, chosen, responses, started, stops>>
         /\ task[i] # "none"
         /\ \A j \in Tasks : j # i => task'[j] = task[j]
         /\ task'[i] \in Places
BY DEF Task, AlreadyVerified, RequestFails, Request, FetchFails, Fetch, RemoveOld, Rename,
   RenameFails, WriteMarker, WriteMarkerFails, DropDownloading, DropFailed, Measure, Register, TakeReady,
   Report, RememberFailure, Goes, handler, Places, Downloads, TypeOK

(* Where a task's step takes it, and what it does to the tracker. *)
LEMMA TaskTracks ==
  ASSUME TypeOK, NEW i \in Tasks, Task(i)
  PROVE  \/ /\ task[i] \in Busy /\ downloading' = downloading
            /\ failed' = failed /\ failures' = failures
         \/ /\ task[i] = "fetched" /\ task'[i] = "dropped"
            /\ downloading' = downloading \ {Model(i)}
            /\ failed' = failed /\ failures' = failures
         \/ /\ task[i] = "dropped" /\ task'[i] = "cleared"
            /\ downloading' = downloading /\ failed' = [failed EXCEPT ![Model(i)] = Absent]
            /\ failures' = failures
         \/ /\ task[i] \in {"cleared", "fits", "unfit", "registered", "reporting"}
            /\ task'[i] \in {"fits", "unfit", "registered", "reporting", "none"}
            /\ downloading' = downloading /\ failed' = failed /\ failures' = failures
         \/ /\ task[i] = "failed" /\ task'[i] = "none"
            /\ downloading' = downloading \ {Model(i)}
            /\ failed' = [failed EXCEPT ![Model(i)] = entry[i]]
            /\ failures' = [failures EXCEPT ![entry[i]] = @ + 1]
<1>1. CASE \/ AlreadyVerified(i) \/ RequestFails(i) \/ Request(i) \/ FetchFails(i) \/ Fetch(i)
           \/ RemoveOld(i) \/ Rename(i) \/ RenameFails(i) \/ WriteMarker(i) \/ WriteMarkerFails(i)
  BY <1>1 DEF AlreadyVerified, RequestFails, Request, FetchFails, Fetch, RemoveOld, Rename,
    RenameFails, WriteMarker, WriteMarkerFails, Goes, Kept, tracker, Busy, Downloads
<1>2. CASE DropDownloading(i) \/ DropFailed(i)
  BY <1>2 DEF DropDownloading, DropFailed, Goes, TypeOK
<1>3. CASE Measure(i) \/ Register(i) \/ TakeReady(i) \/ Report(i)
  BY <1>3 DEF Measure, Register, TakeReady, Report, Goes, tracker, TypeOK
<1>4. CASE RememberFailure(i)
  BY <1>4 DEF RememberFailure, Goes, TypeOK
<1> QED BY <1>1, <1>2, <1>3, <1>4 DEF Task

LEMMA BusyStays ==
  ASSUME BusyInv, UNCHANGED <<task, entry, downloading>>
  PROVE  BusyInv'
BY DEF BusyInv, Model

LEMMA BusyStep == TypeOK /\ BusyInv /\ [Next]_vars => BusyInv'
<1> SUFFICES ASSUME TypeOK, BusyInv, [Next]_vars PROVE BusyInv'
  OBVIOUS
<1>1. CASE Handler /\ ~Spawn
  BY <1>1, BusyStays DEF Handler, Receive, LookReady, Ignore, Finished, Answer, tasks, tracker
<1>2. CASE Spawn
  <2> DEFINE n == started + 1
  <2>1. n \in Tasks /\ task[n] = "none" /\ chosen \in Entries
    BY <1>2, Bounds, AbsentIsNothing DEF Spawn, Wanted, TypeOK, Tasks
  <2> HIDE DEF n
  <2>2. /\ task' = [task EXCEPT ![n] = "begin"] /\ entry' = [entry EXCEPT ![n] = chosen]
        /\ downloading' = downloading \cup {chosen.model} /\ chosen.model \notin downloading
    BY <1>2 DEF Spawn, Wanted, n
  <2>3. /\ entry'[n] = chosen
        /\ \A i \in Tasks : i # n => task'[i] = task[i] /\ entry'[i] = entry[i]
    BY <2>1, <2>2 DEF TypeOK
  <2> QED BY <2>1, <2>2, <2>3 DEF BusyInv, Model
<1>3. ASSUME NEW i \in Tasks, Task(i) PROVE BusyInv'
  <2>1. /\ entry' = entry /\ \A j \in Tasks : j # i => task'[j] = task[j]
    BY <1>3, TaskGoes
  <2>2. CASE task[i] \in Busy /\ downloading' = downloading
    BY <2>1, <2>2 DEF BusyInv, Model
  <2>3. CASE /\ task[i] \in Busy /\ task'[i] \notin Busy
             /\ downloading' = downloading \ {Model(i)}
    BY <2>1, <2>3 DEF BusyInv, Model
  <2>4. CASE task'[i] \notin Busy /\ downloading' = downloading
    BY <2>1, <2>4 DEF BusyInv, Model
  <2> QED BY <1>3, <2>2, <2>3, <2>4, TaskTracks DEF Busy, Downloads
<1>4. CASE Restart
  BY <1>4 DEF Restart, BusyInv, NoTask, Busy, Downloads
<1>5. CASE UNCHANGED vars
  BY <1>5, BusyStays DEF vars, tasks, tracker
<1> QED BY <1>1, <1>2, <1>3, <1>4, <1>5 DEF Next

(* Two downloads never work at the files of one model (main.rs: the        *)
(* DownloadTracker).                                                       *)
THEOREM NeverTwice == Spec => []OneDownload
<1>1. BusyInv => OneDownload
  BY DEF BusyInv, OneDownload, Busy
<1> QED BY <1>1, TypeInit, TypeStep, BusyInit, BusyStep, PTL DEF Spec

-----------------------------------------------------------------------------
(* The marker. *)

\* A task that has renamed its artifact finds it there.
MarkerInv ==
  /\ MarkerIsTrue
  /\ \A i \in Tasks : task[i] = "renamed" => artifact[Model(i)][File(i)] = Sha(i)

LEMMA MarkerInit == Init => MarkerInv
BY DEF Init, MarkerInv, MarkerIsTrue, NoModel, NoTask

LEMMA MarkerStays ==
  ASSUME MarkerInv, UNCHANGED <<artifact, marker, torn>>,
         \A i \in Tasks : task'[i] \in {"removed", "renamed"} <=> task[i] \in {"removed", "renamed"},
         \A i \in Tasks : task'[i] = "renamed" => task[i] = "renamed",
         \A i \in Tasks : task[i] \in {"removed", "renamed"} => entry'[i] = entry[i]
  PROVE  MarkerInv'
<1>1. \A m : Replacing(m)' <=> Replacing(m)
  BY DEF Replacing, Model
<1> QED BY <1>1 DEF MarkerInv, MarkerIsTrue, Model, File, Sha

LEMMA MarkerStep == TypeOK /\ BusyInv /\ MarkerInv /\ [Next]_vars => MarkerInv'
<1> SUFFICES ASSUME TypeOK, BusyInv, MarkerInv, [Next]_vars PROVE MarkerInv'
  OBVIOUS
<1> USE AbsentIsNothing
<1>1. CASE Handler /\ ~Spawn
  BY <1>1, MarkerStays DEF Handler, Receive, LookReady, Ignore, Finished, Answer, tasks, files
<1>2. CASE Spawn
  <2>1. started + 1 \in Tasks /\ task[started + 1] = "none"
    BY <1>2, Bounds DEF Spawn, Wanted, TypeOK, Tasks
  <2>2. /\ \A i \in Tasks : i # started + 1 => task'[i] = task[i] /\ entry'[i] = entry[i]
        /\ task'[started + 1] = "begin"
        /\ UNCHANGED <<artifact, marker, torn>>
    BY <1>2, <2>1 DEF Spawn, TypeOK, files
  <2> QED BY <2>1, <2>2, MarkerStays
<1>3. ASSUME NEW i \in Tasks, Task(i) PROVE MarkerInv'
  <2>1. /\ entry' = entry /\ task[i] # "none" /\ \A j \in Tasks : j # i => task'[j] = task[j]
    BY <1>3, TaskGoes
  <2>2. /\ Model(i) \in Models /\ File(i) \in Files /\ Sha(i) \in Shas
    BY <2>1, EntryOf
  <2> DEFINE m == Model(i)
  <2>3. \A j \in Tasks : j # i /\ task[i] \in Busy /\ task[j] \in {"removed", "renamed"} => Model(j) # m
    BY DEF BusyInv, Busy, Downloads
  <2>4. \A n : n # m => (Replacing(n)' <=> Replacing(n))
    BY <2>1 DEF Replacing, Model
  <2>5. task'[i] \in {"removed", "renamed"} => Replacing(m)'
    BY <2>1 DEF Replacing, Model
  <2>6. CASE RemoveOld(i) \/ Rename(i)
    <3>1. /\ task[i] \in Busy /\ task'[i] \in {"removed", "renamed"} /\ UNCHANGED <<marker, torn>>
          /\ \A n \in Models : n # m => artifact'[n] = artifact[n]
          /\ task'[i] = "renamed" => artifact'[m][File(i)] = Sha(i)
      BY <2>2, <2>6 DEF RemoveOld, Rename, Goes, Busy, Downloads, TypeOK
    <3>2. MarkerIsTrue'
      <4> SUFFICES ASSUME NEW n \in Models, marker'[n] # Absent, ~torn'[n], ~Replacing(n)'
                   PROVE  \E f \in Files : artifact'[n][f] = marker'[n]
        BY DEF MarkerIsTrue
      <4>1. n # m
        BY <2>1, <2>5, <3>1 DEF Replacing, Model
      <4>2. ~Replacing(n) /\ artifact'[n] = artifact[n] /\ marker' = marker /\ torn' = torn
        BY <2>4, <3>1, <4>1
      <4> QED BY <4>2 DEF MarkerInv, MarkerIsTrue
    <3>3. ASSUME NEW j \in Tasks, task'[j] = "renamed"
          PROVE  artifact'[Model(j)'][File(j)'] = Sha(j)'
      <4>1. CASE j = i
        BY <2>1, <3>1, <3>3, <4>1 DEF Model, File, Sha
      <4>2. CASE j # i
        <5>1. task[j] = "renamed" /\ Model(j) # m /\ Model(j) \in Models
          BY <2>1, <2>3, <3>1, <3>3, <4>2, EntryOf
        <5> QED BY <2>1, <3>1, <5>1 DEF MarkerInv, Model, File, Sha
      <4> QED BY <4>1, <4>2
    <3> QED BY <3>2, <3>3 DEF MarkerInv
  <2>7. CASE WriteMarker(i)
    <3>1. /\ task[i] = "renamed" /\ task'[i] = "fetched" /\ artifact' = artifact
          /\ marker' = [marker EXCEPT ![m] = Sha(i)] /\ torn' = [torn EXCEPT ![m] = FALSE]
      BY <2>7 DEF WriteMarker, Goes, TypeOK
    <3>2. artifact[m][File(i)] = Sha(i)
      BY <3>1 DEF MarkerInv
    <3>3. MarkerIsTrue'
      <4> SUFFICES ASSUME NEW n \in Models, marker'[n] # Absent, ~torn'[n], ~Replacing(n)'
                   PROVE  \E f \in Files : artifact'[n][f] = marker'[n]
        BY DEF MarkerIsTrue
      <4>1. CASE n = m
        BY <2>2, <3>1, <3>2, <4>1 DEF TypeOK
      <4>2. CASE n # m
        BY <2>4, <3>1, <4>2 DEF MarkerInv, MarkerIsTrue, TypeOK
      <4> QED BY <4>1, <4>2
    <3> QED BY <2>1, <3>1, <3>3 DEF MarkerInv, Model, File, Sha
  <2>8. CASE RenameFails(i) \/ WriteMarkerFails(i)
    <3>1. /\ task'[i] = "failed" /\ artifact' = artifact
          /\ torn' = [torn EXCEPT ![m] = TRUE]
          /\ \A n \in Models : n # m => marker'[n] = marker[n]
      BY <2>8 DEF RenameFails, WriteMarkerFails, Goes, TypeOK
    <3>2. MarkerIsTrue'
      BY <2>2, <2>4, <3>1 DEF MarkerInv, MarkerIsTrue, TypeOK
    <3> QED BY <2>1, <3>1, <3>2 DEF MarkerInv, Model, File, Sha
  <2>9. CASE \/ AlreadyVerified(i) \/ RequestFails(i) \/ Request(i) \/ FetchFails(i) \/ Fetch(i)
             \/ DropDownloading(i) \/ DropFailed(i) \/ Measure(i) \/ Register(i) \/ TakeReady(i) \/ Report(i)
             \/ RememberFailure(i)
    <3>1. /\ UNCHANGED <<artifact, marker, torn>>
          /\ task[i] \notin {"removed", "renamed"} /\ task'[i] \notin {"removed", "renamed"}
      BY <2>9 DEF AlreadyVerified, RequestFails, Request, FetchFails, Fetch, DropDownloading,
        DropFailed, Measure, Register, TakeReady, Report, RememberFailure, Goes, files, TypeOK
    <3>2. \A j \in Tasks : \/ task'[j] = task[j]
                          \/ /\ task[j] \notin {"removed", "renamed"}
                             /\ task'[j] \notin {"removed", "renamed"}
      BY <2>1, <3>1
    <3> QED BY <2>1, <3>1, <3>2, MarkerStays
  <2> QED BY <1>3, <2>6, <2>7, <2>8, <2>9 DEF Task
<1>4. CASE Restart
  <2>1. /\ artifact' = artifact
        /\ \A i \in Tasks : task'[i] = "none"
        /\ \A m \in Models : torn'[m] <=> torn[m] \/ Replacing(m)
        /\ \A m \in Models : marker'[m] \in {Absent, marker[m]}
    BY <1>4 DEF Restart, NoTask, TypeOK
  <2> QED BY <2>1 DEF MarkerInv, MarkerIsTrue
<1>5. CASE UNCHANGED vars
  BY <1>5, MarkerStays DEF vars, tasks, files
<1> QED BY <1>1, <1>2, <1>3, <1>4, <1>5 DEF Next

(* What the marker names is in the directory, unless a replacement goes on *)
(* or was cut short (models.rs: download_model).                           *)
THEOREM MarkerHolds == Spec => []MarkerIsTrue
<1>1. MarkerInv => MarkerIsTrue
  BY DEF MarkerInv
<1> QED
  BY <1>1, TypeInit, TypeStep, BusyInit, BusyStep, MarkerInit, MarkerStep, PTL DEF Spec
-----------------------------------------------------------------------------
(* The reports. *)

\* A ready model that no report has named has a task that is about to.
TellInv ==
  \A m \in ready : \/ m \in told
                   \/ \E i \in Tasks : task[i] = "registered" /\ Model(i) = m
                   \/ \E i \in Tasks : task[i] = "reporting" /\ m \in taken[i]

LEMMA TellInit == Init => TellInv
BY DEF Init, TellInv

LEMMA TellStays ==
  ASSUME TellInv, ready' = ready, told \subseteq told',
         \A i \in Tasks : task[i] \in {"registered", "reporting"} =>
           task'[i] = task[i] /\ entry'[i] = entry[i] /\ taken'[i] = taken[i]
  PROVE  TellInv'
BY DEF TellInv, Model

LEMMA TellStep == TypeOK /\ TellInv /\ [Next]_vars => TellInv'
<1> SUFFICES ASSUME TypeOK, TellInv, [Next]_vars PROVE TellInv'
  OBVIOUS
<1> USE AbsentIsNothing, Bounds
<1>1. CASE Handler /\ ~Spawn
  <2>1. UNCHANGED <<task, entry, ready>>
    BY <1>1 DEF Handler, Receive, LookReady, Ignore, Finished, Answer, tasks
  <2>2. told \subseteq told' /\ \A i \in Tasks : taken'[i] = taken[i]
    BY <1>1 DEF Handler, Receive, LookReady, Ignore, Finished, Answer, TypeOK, Tasks
  <2> QED BY <2>1, <2>2, TellStays
<1>2. CASE Spawn
  <2>1. started + 1 \in Tasks /\ task[started + 1] = "none"
    BY <1>2 DEF Spawn, Wanted, TypeOK, Tasks
  <2>2. \A i \in Tasks : i # started + 1 => task'[i] = task[i] /\ entry'[i] = entry[i]
    BY <1>2, <2>1 DEF Spawn, TypeOK
  <2>3. UNCHANGED <<ready, told, taken>>
    BY <1>2 DEF Spawn
  <2> QED BY <2>1, <2>2, <2>3, TellStays
<1>3. ASSUME NEW i \in Tasks, Task(i) PROVE TellInv'
  <2>1. /\ entry' = entry /\ \A j \in Tasks : j # i => task'[j] = task[j]
        /\ i \in 0 .. MaxTasks
    BY <1>3, TaskGoes DEF Tasks
  <2>2. CASE Register(i)
    <3>1. /\ task[i] \in {"fits", "unfit"} /\ task'[i] = "registered" /\ told' = told /\ taken' = taken
          /\ ready' \subseteq ready \cup {Model(i)}
      BY <2>2 DEF Register, Goes, TypeOK
    <3> QED BY <2>1, <3>1 DEF TellInv, Model
  <2>3. CASE TakeReady(i)
    <3>1. /\ task[i] = "registered" /\ task'[i] = "reporting" /\ told' = told /\ ready' = ready
          /\ taken'[i] = ready /\ \A j \in Tasks : j # i => taken'[j] = taken[j]
      BY <2>1, <2>3 DEF TakeReady, Goes, TypeOK, Tasks
    <3> SUFFICES ASSUME NEW m \in ready, m \notin told
                 PROVE  \/ \E j \in Tasks : task'[j] = "registered" /\ Model(j)' = m
                        \/ \E j \in Tasks : task'[j] = "reporting" /\ m \in taken'[j]
      BY <3>1 DEF TellInv
    <3> QED BY <3>1
  <2>4. CASE Report(i)
    <3>1. /\ task[i] = "reporting" /\ told' = told \cup taken[i] /\ ready' = ready
          /\ \A j \in Tasks : j # i => taken'[j] = taken[j]
      BY <2>1, <2>4 DEF Report, Goes, TypeOK, Tasks
    <3> QED BY <2>1, <3>1 DEF TellInv, Model
  <2>5. CASE ~Register(i) /\ ~TakeReady(i) /\ ~Report(i)
    <3>1. UNCHANGED <<ready, told, taken>> /\ task[i] \notin {"registered", "reporting"}
      BY <1>3, <2>5 DEF Task, AlreadyVerified, RequestFails, Request, FetchFails, Fetch, RemoveOld,
        Rename, RenameFails, WriteMarker, WriteMarkerFails, DropDownloading, DropFailed,
        Measure, RememberFailure, Goes, Kept
    <3> QED BY <2>1, <3>1, TellStays
  <2> QED BY <2>2, <2>3, <2>4, <2>5
<1>4. CASE Restart
  BY <1>4 DEF Restart, TellInv
<1>5. CASE UNCHANGED vars
  BY <1>5, TellStays DEF vars, tasks
<1> QED BY <1>1, <1>2, <1>3, <1>4, <1>5 DEF Next

(* No model becomes ready without a report that says so (main.rs: the      *)
(* download task and send_model_status).                                   *)
THEOREM NoneUntold == Spec => []ReadyIsTold
<1>1. TellInv => ReadyIsTold
  BY DEF TellInv, ReadyIsTold
<1> QED BY <1>1, TypeInit, TypeStep, TellInit, TellStep, PTL DEF Spec

-----------------------------------------------------------------------------
(* Retries. *)

Lone(e) == \A o \in responses.seen : o.model = e.model => o = e

\* The places of a task whose download may still fail.
Open == {"fetching", "verified", "removed", "renamed", "failed"}

\* A download of e ended well: there is its marker, and none can fail.
Done(e) ==
  /\ marker[e.model] = e.sha
  /\ \A j \in Tasks : task[j] # "none" /\ Model(j) = e.model => task[j] \notin Open

SeenInv ==
  /\ todo \subseteq responses.seen
  /\ chosen # Absent => chosen \in responses.seen
  /\ \A i \in Tasks : task[i] # "none" => entry[i] \in responses.seen

\* While e is the only entry of its model: once one download has ended well
\* all do, and once one has failed none is started.
RetryInv ==
  \A e \in Entries : Lone(e) =>
    /\ \A i \in Tasks : task[i] \in {"fetched", "dropped"} /\ Model(i) = e.model => Done(e)
    /\ \/ failures[e] = 0
       \/ /\ failures[e] = 1 /\ failed[e.model] = e
          /\ \A i \in Tasks : Model(i) = e.model => task[i] \notin Busy \cup {"dropped"}

LEMMA SeenInit == Init => SeenInv /\ RetryInv
BY AbsentIsNothing DEF Init, SeenInv, RetryInv, NoTask, NoFailure, NoResponse

LEMMA SeenStep == TypeOK /\ SeenInv /\ [Next]_vars => SeenInv'
<1> SUFFICES ASSUME TypeOK, SeenInv, [Next]_vars PROVE SeenInv'
  OBVIOUS
<1> USE AbsentIsNothing, Bounds
<1>1. ASSUME NEW c \in Catalogs, Receive(c) PROVE SeenInv'
  <2>1. /\ todo' \subseteq responses'.seen /\ responses.seen \subseteq responses'.seen
        /\ UNCHANGED <<chosen, task, entry>>
    BY <1>1 DEF Receive, tasks
  <2> QED BY <2>1 DEF SeenInv
<1>2. ASSUME NEW e \in todo, LookReady(e) PROVE SeenInv'
  BY <1>2 DEF LookReady, SeenInv, tasks
<1>3. CASE Spawn
  <2>1. /\ chosen \in responses.seen
        /\ \A i \in Tasks : i # started + 1 => task'[i] = task[i] /\ entry'[i] = entry[i]
        /\ started + 1 \in Tasks => entry'[started + 1] = chosen
        /\ todo' = todo /\ chosen' = Absent /\ responses' = responses
    BY <1>3 DEF Spawn, Wanted, TypeOK, SeenInv
  <2> QED BY <2>1 DEF SeenInv
<1>4. CASE Ignore \/ Finished \/ Answer
  BY <1>4 DEF Ignore, Finished, Answer, SeenInv, tasks
<1>5. ASSUME NEW i \in Tasks, Task(i) PROVE SeenInv'
  BY <1>5, TaskGoes DEF SeenInv
<1>6. CASE Restart
  BY <1>6 DEF Restart, SeenInv, NoTask
<1>7. CASE UNCHANGED vars
  BY <1>7 DEF vars, handler, tasks, SeenInv
<1> QED BY <1>1, <1>2, <1>3, <1>4, <1>5, <1>6, <1>7 DEF Next, Handler

(* Steps that leave tasks, marker and failures alone; more may be seen.    *)
LEMMA RetryStays ==
  ASSUME RetryInv, UNCHANGED <<task, entry, marker, failed, failures>>,
         responses.seen \subseteq responses'.seen
  PROVE  RetryInv'
<1>1. \A e : Lone(e)' => Lone(e)
  BY DEF Lone
<1>2. \A e : Done(e)' <=> Done(e)
  BY DEF Done, Model
<1> QED BY <1>1, <1>2 DEF RetryInv, Model

LEMMA RetryStep == TypeOK /\ BusyInv /\ SeenInv /\ RetryInv /\ [Next]_vars => RetryInv'
<1> SUFFICES ASSUME TypeOK, BusyInv, SeenInv, RetryInv, [Next]_vars PROVE RetryInv'
  OBVIOUS
<1> USE AbsentIsNothing, Bounds
<1>1. CASE Handler /\ ~Spawn
  <2>1. UNCHANGED <<task, entry, marker, failed, failures>>
    BY <1>1 DEF Handler, Receive, LookReady, Ignore, Finished, Answer, tasks, files, tracker
  <2>2. responses.seen \subseteq responses'.seen
    BY <1>1 DEF Handler, Receive, LookReady, Ignore, Finished, Answer
  <2> QED BY <2>1, <2>2, RetryStays
<1>2. CASE Spawn
  <2> DEFINE n == started + 1
  <2>1. n \in Tasks /\ task[n] = "none" /\ chosen \in Entries /\ chosen \in responses.seen
    BY <1>2 DEF Spawn, Wanted, TypeOK, Tasks, SeenInv
  <2> HIDE DEF n
  <2>2. /\ task' = [task EXCEPT ![n] = "begin"] /\ entry' = [entry EXCEPT ![n] = chosen]
        /\ UNCHANGED <<marker, failed, failures, responses>>
        /\ failed[chosen.model] # chosen
    BY <1>2 DEF Spawn, Wanted, n, files
  <2>3. /\ entry'[n] = chosen /\ task'[n] = "begin"
        /\ \A i \in Tasks : i # n => task'[i] = task[i] /\ entry'[i] = entry[i]
    BY <2>1, <2>2 DEF TypeOK
  <2>4. ASSUME NEW e \in Entries, Lone(e) PROVE Done(e) => Done(e)'
    BY <2>1, <2>2, <2>3 DEF Done, Open, Model
  <2>5. \A e : Lone(e)' <=> Lone(e)
    BY <2>2 DEF Lone
  <2>6. ASSUME NEW e \in Entries, Lone(e), failures[e] # 0
        PROVE  chosen.model # e.model
    BY <2>1, <2>2, <2>6 DEF RetryInv, Lone
  <2>7. ASSUME NEW e \in Entries, Lone(e), NEW i \in Tasks,
               task'[i] \in {"fetched", "dropped"}, Model(i)' = e.model
        PROVE  Done(e)
    BY <2>3, <2>7 DEF RetryInv, Model
  <2>8. ASSUME NEW e \in Entries, Lone(e), failures[e] # 0, NEW i \in Tasks, Model(i)' = e.model
        PROVE  task'[i] \notin Busy \cup {"dropped"}
    BY <2>3, <2>6, <2>8 DEF RetryInv, Model
  <2> QED BY <2>2, <2>4, <2>5, <2>7, <2>8 DEF RetryInv
<1>3. ASSUME NEW i \in Tasks, Task(i) PROVE RetryInv'
  <2>1. /\ UNCHANGED <<entry, responses>> /\ \A j \in Tasks : j # i => task'[j] = task[j]
        /\ task[i] # "none" /\ entry[i] \in Entries /\ Model(i) \in Models /\ Sha(i) \in Shas
        /\ entry[i] \in responses.seen
    BY <1>3, TaskGoes, EntryOf DEF SeenInv
  <2>2. \A e : Lone(e)' <=> Lone(e)
    BY <2>1 DEF Lone
  <2>3. \A e \in Entries : Lone(e) /\ e.model = Model(i) => e = entry[i]
    BY <2>1 DEF Lone, Model
  <2>4. \A j \in Tasks : Model(j)' = Model(j)
    BY <2>1 DEF Model
  <2>5. \A n \in Models : n # Model(i) => marker'[n] = marker[n]
    <3>1. \/ marker' = marker
          \/ \E v : marker' = [marker EXCEPT ![Model(i)] = v]
      BY <1>3 DEF Task, AlreadyVerified, RequestFails, Request, FetchFails, Fetch, RemoveOld,
        Rename, RenameFails, WriteMarker, WriteMarkerFails, DropDownloading, DropFailed, Measure,
        Register, TakeReady, Report, RememberFailure, Kept, files
    <3> QED BY <2>1, <3>1 DEF TypeOK
  <2>6. /\ \A n \in Models : n # Model(i) => failed'[n] = failed[n]
        /\ \A e \in Entries : e # entry[i] => failures'[e] = failures[e]
    <3>1. /\ failed' = failed \/ \E v : failed' = [failed EXCEPT ![Model(i)] = v]
          /\ failures' = failures \/ \E v : failures' = [failures EXCEPT ![entry[i]] = v]
      BY <1>3, TaskTracks
    <3> QED BY <2>1, <3>1 DEF TypeOK
  <2>7. ASSUME NEW e \in Entries, Lone(e), e.model # Model(i)
        PROVE  /\ \A j \in Tasks : task'[j] \in {"fetched", "dropped"} /\ Model(j) = e.model => Done(e)'
               /\ \/ failures'[e] = 0
                  \/ /\ failures'[e] = 1 /\ failed'[e.model] = e
                     /\ \A j \in Tasks : Model(j) = e.model => task'[j] \notin Busy \cup {"dropped"}
    <3>1. e.model \in Models /\ e # entry[i]
      BY <2>7, EntryType DEF Model
    <3>2. marker'[e.model] = marker[e.model] /\ failed'[e.model] = failed[e.model]
          /\ failures'[e] = failures[e]
      BY <2>5, <2>6, <2>7, <3>1
    <3>3. \A j \in Tasks : Model(j) = e.model => task'[j] = task[j]
      BY <2>1, <2>7
    <3>4. Done(e) => Done(e)'
      BY <2>4, <3>2, <3>3 DEF Done
    <3> QED BY <2>7, <3>2, <3>3, <3>4 DEF RetryInv
  <2>8. ASSUME NEW e \in Entries, Lone(e), e = entry[i]
        PROVE  /\ \A j \in Tasks : task'[j] \in {"fetched", "dropped"} /\ Model(j) = e.model => Done(e)'
               /\ \/ failures'[e] = 0
                  \/ /\ failures'[e] = 1 /\ failed'[e.model] = e
                     /\ \A j \in Tasks : Model(j) = e.model => task'[j] \notin Busy \cup {"dropped"}
    <3>1. e.model = Model(i) /\ e.sha = Sha(i)
      BY <2>8 DEF Model, Sha
    <3>2. \A j \in Tasks : j # i /\ task[i] \in Busy /\ task[j] \in Busy => Model(j) # e.model
      BY <3>1 DEF BusyInv
    <3>3. CASE task[i] \in Busy /\ task'[i] # "none" /\ task'[i] # "dropped"
      <4>1. failures' = failures /\ failures[e] = 0
        <5>1. failures' = failures
          BY <1>3, <3>3, TaskTracks DEF Busy, Downloads
        <5> QED BY <2>8, <3>1, <3>3, <5>1 DEF RetryInv
      <4>2. \/ AlreadyVerified(i) \/ RequestFails(i) \/ Request(i) \/ FetchFails(i) \/ Fetch(i)
            \/ RemoveOld(i) \/ Rename(i) \/ RenameFails(i) \/ WriteMarker(i)
            \/ WriteMarkerFails(i)
        BY <1>3, <3>3 DEF Task, DropDownloading, DropFailed, Measure, Register, TakeReady, Report,
          RememberFailure, Goes, TypeOK, Busy, Downloads
      <4>3. CASE AlreadyVerified(i)
        <5>1. marker' = marker /\ marker[e.model] = e.sha /\ task[i] = "begin" /\ task'[i] = "fetched"
          BY <3>1, <4>3 DEF AlreadyVerified, Goes, files, TypeOK
        <5>2. \A j \in Tasks : j # i /\ task[j] \in Busy => Model(j) # e.model
          BY <3>2, <3>3
        <5>3. Done(e)'
          BY <2>1, <2>4, <5>1, <5>2 DEF Done, Open, Busy, Downloads
        <5> QED BY <4>1, <5>3
      <4>4. CASE WriteMarker(i)
        <5>1. marker'[e.model] = e.sha /\ task'[i] = "fetched"
          BY <2>1, <3>1, <4>4 DEF WriteMarker, Goes, TypeOK
        <5>2. \A j \in Tasks : j # i /\ task[j] \in Busy => Model(j) # e.model
          BY <3>2, <3>3
        <5>3. Done(e)'
          BY <2>1, <2>4, <5>1, <5>2 DEF Done, Open, Busy, Downloads
        <5> QED BY <4>1, <5>3
      <4>5. CASE ~AlreadyVerified(i) /\ ~WriteMarker(i)
        <5>1. task'[i] \in Open /\ (task[i] \in Open \/ marker[e.model] # e.sha)
          BY <3>1, <4>2, <4>5 DEF RequestFails, Request, FetchFails, Fetch, RemoveOld, Rename,
            RenameFails, WriteMarkerFails, Goes, Open, TypeOK
        <5>2. ~Done(e)
          BY <2>1, <3>1, <5>1 DEF Done
        <5>3. \A j \in Tasks : Model(j) = e.model => task[j] \notin {"fetched", "dropped"}
          BY <2>8, <5>2 DEF RetryInv
        <5>4. \A j \in Tasks : Model(j) = e.model => task'[j] \notin {"fetched", "dropped"}
          BY <2>1, <5>1, <5>3 DEF Open
        <5> QED BY <4>1, <5>4
      <4> QED BY <4>2, <4>3, <4>4, <4>5
    <3>4. CASE DropDownloading(i) \/ DropFailed(i)
      <4>1. /\ task[i] \in {"fetched", "dropped"} /\ task'[i] \in {"dropped", "cleared"}
            /\ marker' = marker /\ failures' = failures
        BY <3>4 DEF DropDownloading, DropFailed, Goes, files, TypeOK
      <4>2. Done(e) /\ failures[e] = 0
        BY <2>8, <3>1, <4>1 DEF RetryInv, Busy
      <4>3. Done(e)'
        BY <2>1, <2>4, <4>1, <4>2 DEF Done, Open
      <4> QED BY <4>1, <4>2, <4>3
    <3>5. CASE Measure(i) \/ Register(i) \/ TakeReady(i) \/ Report(i)
      <4>1. /\ task[i] \in {"cleared", "fits", "unfit", "registered", "reporting"}
            /\ task'[i] \in {"fits", "unfit", "registered", "reporting", "none"}
            /\ UNCHANGED <<marker, failures, failed>>
        BY <3>5 DEF Measure, Register, TakeReady, Report, Goes, files, tracker, TypeOK
      <4>2. Done(e) => Done(e)'
        BY <2>1, <2>4, <4>1 DEF Done, Open
      <4>3. \A j \in Tasks : task'[j] \in Busy \cup {"dropped"} => task'[j] = task[j]
        BY <2>1, <4>1 DEF Busy, Downloads
      <4> QED BY <2>8, <4>1, <4>2, <4>3 DEF RetryInv, Busy
    <3>6. CASE RememberFailure(i)
      <4>1. /\ task[i] = "failed" /\ task'[i] = "none" /\ marker' = marker
            /\ failures'[e] = failures[e] + 1 /\ failed'[e.model] = e
        BY <2>1, <2>8, <3>1, <3>6 DEF RememberFailure, Goes, files, TypeOK
      <4>2. failures[e] = 0
        BY <2>8, <3>1, <4>1 DEF RetryInv, Busy
      <4>3. ~Done(e)
        BY <2>1, <3>1, <4>1 DEF Done, Open
      <4>4. \A j \in Tasks : Model(j) = e.model => task[j] \notin {"fetched", "dropped"}
        BY <2>8, <4>3 DEF RetryInv
      <4>5. \A j \in Tasks : j # i /\ task[j] \in Busy => Model(j) # e.model
        BY <3>2, <4>1 DEF Busy
      <4>6. \A j \in Tasks : Model(j) = e.model => task'[j] \notin Busy \cup {"dropped"}
        BY <2>1, <4>1, <4>4, <4>5 DEF Busy, Downloads
      <4> QED BY <4>1, <4>2, <4>6 DEF Busy
    <3> QED BY <1>3, <3>3, <3>4, <3>5, <3>6 DEF Task, AlreadyVerified, RequestFails, Request,
          FetchFails, Fetch, RemoveOld, Rename, RenameFails, WriteMarker, WriteMarkerFails, Goes,
          Busy, Downloads, TypeOK
  <2>9. ASSUME NEW e \in Entries, Lone(e) PROVE e.model # Model(i) \/ e = entry[i]
    BY <2>3, <2>9
  <2> QED BY <2>2, <2>4, <2>7, <2>8, <2>9 DEF RetryInv
<1>4. CASE Restart
  BY <1>4 DEF Restart, RetryInv, NoTask, NoFailure, Busy, Downloads
<1>5. CASE UNCHANGED vars
  BY <1>5, RetryStays DEF vars, handler, tasks, files, tracker
<1> QED BY <1>1, <1>2, <1>3, <1>4, <1>5 DEF Next

(* An entry that is the only one of its model is tried in vain at most once *)
(* between two starts (main.rs: the DownloadTracker's failed fingerprints). *)
THEOREM NoEndlessRetry == Spec => []NotRetried
<1>1. RetryInv => NotRetried
  <2> SUFFICES ASSUME RetryInv, NEW e \in Entries, Lone(e) PROVE failures[e] <= 1
    BY DEF NotRetried, Lone
  <2> QED BY DEF RetryInv
<1> QED
  BY <1>1, TypeInit, TypeStep, BusyInit, BusyStep, SeenInit, SeenStep, RetryStep, PTL DEF Spec
=============================================================================
