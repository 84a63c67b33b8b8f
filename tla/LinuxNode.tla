------------------------------ MODULE LinuxNode ------------------------------
(***************************************************************************)
(* A Linux node and its tunnel: the task that keeps a connection           *)
(* (tunnel.rs), the coordinator's loop (main.rs) and the download tasks,    *)
(* which share the outbound queue, and the Fleet Manager's reader of the    *)
(* node's connection (tunnel.rs, registry.rs, catalog.rs there).           *)
(*                                                                         *)
(* The outbound queue outlives connections.  The tunnel tells the loop of   *)
(* its connection through a watch channel, which keeps the last value only. *)
(* A frame that is sent is read at once, or never, when the connection has  *)
(* died unnoticed: a Fleet Manager that reads late is one whose answers     *)
(* come late, and those wait in down.  It has seen the end of a connection  *)
(* before it accepts the next one; what happens otherwise is FleetManager's *)
(* subject.  Downloads and the backend, whose insides are ModelStore and    *)
(* Backend, succeed or fail, or answer.  A frame is a record with a type t; *)
(* metrics, latency, back-off times and pings are left out.                *)
(***************************************************************************)
EXTENDS Naturals, Sequences, SequencesExt, FiniteSets, Catalog

CONSTANTS
  Allowed,      \* the Fleet Manager's catalog
  Vendor,       \* the node's GPU vendor (det_vendor)
  Selected,     \* selected_models; empty: all
  LlamaCpp,     \* the backend a Linux node supports
  Absent,       \* "None"
  Due,          \* a report that has yet to read the ready set
  Loop,         \* the coordinator's loop, as a sender of reports
  MaxConnects,  \* bound: connections; the last one stays up
  MaxTimes      \* bound: turns of the owner's schedule, ticks that find it
                \* unchanged, and catalog re-polls

Resolved == resolve_for(Allowed, Vendor)

Models == Range(aliases(Allowed))

\* What the handler of a CatalogResponse would download.
Wanted(offer) ==
  {m \in Models : (Selected = {} \/ m \in Selected) /\ [id |-> m, backend |-> LlamaCpp] \in offer}

ASSUME NodeAssumption ==
  /\ Absent # Due /\ Loop \notin Models
  /\ \A s \in SUBSET Models : s \notin {Absent, Due}
  /\ Absent \notin [awake: BOOLEAN, ready: SUBSET Models]
  /\ MaxConnects \in Nat /\ MaxTimes \in Nat

VARIABLES
  link,       \* tunnel: "down", "draining", "up", or "broken": not yet reported
  alive,      \* the connection carries frames
  connected,  \* watch: the last value sent
  news,       \* watch: a value the loop has not seen
  outq,       \* the outbound queue: frames
  inb,        \* the inbound queue: frames for the loop
  down,       \* frames of the Fleet Manager that the tunnel has not read
  serving,    \* Fleet Manager: handle_socket runs for the connection
  entry,      \* Fleet Manager: the node's registry entry, or Absent
  loop,       \* loop: where it is
  awake,      \* loop: the schedule state it last saw
  window,     \* what is_awake returns
  ready,      \* backend: models the node can serve
  fetching,   \* tracker: downloads under way
  failed,     \* tracker: models whose download failed
  refused,    \* models whose artifact register has refused (history)
  report,     \* per sender of a ModelStatus: the set it will carry, Due or Absent
  job,        \* a prompt, on its way through the node; over: posted, or lost
  count,      \* how much of the bounds is used
  told,       \* history: the ready set of the last ModelStatus queued
  crossed     \* history: a ModelStatus was queued after one that had more

tunnelVars == <<link, connected, outq>>
fmVars == <<serving, entry>>
loopVars == <<loop, awake>>
storeVars == <<ready, fetching, failed, refused>>
reportVars == <<report, told, crossed>>
vars == <<tunnelVars, alive, news, inb, down, fmVars, loopVars, window, storeVars, reportVars, job, count>>

\* Downloads, and the loop, report.
Senders == Models \cup {Loop}

UpFrames ==
  [t: {"Register", "CatalogRequest", "Done"}] \cup [t: {"Heartbeat", "ScheduleState"}, awake: BOOLEAN]
    \cup [t: {"ModelStatus"}, ready: SUBSET Models]

DownFrames == [t: {"PromptDispatch"}] \cup [t: {"CatalogResponse"}, models: {{}, Resolved}]

TypeOK ==
  /\ link \in {"down", "draining", "up", "broken"}
  /\ alive \in BOOLEAN /\ connected \in BOOLEAN /\ news \in BOOLEAN
  /\ outq \in Seq(UpFrames) /\ inb \in Seq(DownFrames) /\ down \in Seq(DownFrames)
  /\ serving \in BOOLEAN
  /\ entry \in {Absent} \cup [awake: BOOLEAN, ready: SUBSET Models]
  /\ loop \in {"waits", "looks", "reports"}
  /\ awake \in BOOLEAN /\ window \in BOOLEAN
  /\ ready \in SUBSET Models /\ fetching \in SUBSET Models /\ failed \in SUBSET Models
  /\ refused \in SUBSET Models
  /\ report \in [Senders -> {Absent, Due} \cup SUBSET Models]
  /\ loop = "reports" <=> report[Loop] # Absent
  /\ job \in {"none", "sent", "running", "queued", "over", "defaulted"}
  /\ count \in [connects: 0 .. MaxConnects, times: 0 .. MaxTimes]
  /\ told \in SUBSET Models /\ crossed \in BOOLEAN
  /\ connected <=> link # "down"
  /\ alive => serving /\ link \in {"draining", "up"}
  /\ entry # Absent => serving

Register == [t |-> "Register"]
CatalogRequest == [t |-> "CatalogRequest"]
Heartbeat(a) == [t |-> "Heartbeat", awake |-> a]
ScheduleState(a) == [t |-> "ScheduleState", awake |-> a]
ModelStatus(models) == [t |-> "ModelStatus", ready |-> models]
Done == [t |-> "Done"]
CatalogResponse(models) == [t |-> "CatalogResponse", models |-> models]
PromptDispatch == [t |-> "PromptDispatch"]

Init ==
  /\ link = "down" /\ alive = FALSE /\ connected = FALSE /\ news = FALSE
  /\ outq = <<Register, CatalogRequest>> /\ inb = <<>> /\ down = <<>>
  /\ serving = FALSE /\ entry = Absent
  /\ loop = "waits"
  /\ awake \in BOOLEAN /\ window = awake
  /\ ready = {} /\ fetching = {} /\ failed = {} /\ refused = {}
  /\ report = [w \in Senders |-> Absent]
  /\ told = {} /\ crossed = FALSE
  /\ job = "none"
  /\ count = [connects |-> 0, times |-> 0]

-----------------------------------------------------------------------------
(* The Fleet Manager's reader.                                             *)

\* handle_message, as far as the registry entry goes.
Entry(e, f) ==
  CASE f.t = "Register" -> [awake |-> FALSE, ready |-> {}]
    [] e # Absent /\ f.t \in {"Heartbeat", "ScheduleState"} -> [e EXCEPT !.awake = f.awake]
    [] e # Absent /\ f.t = "ModelStatus" -> [e EXCEPT !.ready = f.ready]
    [] OTHER -> e

\* node_vendor finds a vendor only for a registered node.
Offer == IF entry = Absent THEN {} ELSE Resolved

\* An answer that comes before the connection's Register finds no session, and
\* is posted as of a model of default size.
HandleMessage(f) ==
  /\ entry' = Entry(entry, f)
  /\ down' = IF f = CatalogRequest THEN Append(down, CatalogResponse(Offer)) ELSE down
  /\ job' = IF f # Done THEN job ELSE IF entry = Absent THEN "defaulted" ELSE "over"

Lost(f) ==
  /\ job' = IF f = Done THEN "over" ELSE job
  /\ UNCHANGED <<entry, down>>

\* A handler's prompt; if the node is gone, it is lost in the writer.
Dispatch ==
  /\ job = "none"
  /\ entry # Absent /\ entry.awake /\ entry.ready # {}
  /\ IF alive
     THEN down' = Append(down, PromptDispatch) /\ job' = "sent"
     ELSE job' = "over" /\ UNCHANGED down
  /\ UNCHANGED <<tunnelVars, alive, news, inb, fmVars, loopVars, window, storeVars, reportVars, count>>

\* The reader has come to the end of the connection.
TearDown ==
  /\ serving /\ ~alive
  /\ serving' = FALSE /\ entry' = Absent
  /\ UNCHANGED <<tunnelVars, alive, news, inb, down, loopVars, window, storeVars, reportVars, job, count>>

-----------------------------------------------------------------------------
(* The tunnel's task: Tunnel::run_loop.                                    *)

\* mutated: what was queued meanwhile is dropped
ConnectAnew ==
  /\ link = "down" /\ ~serving /\ count.connects < MaxConnects
  /\ count' = [count EXCEPT !.connects = @ + 1]
  /\ link' = "draining" /\ outq' = <<>>
  /\ alive' = TRUE /\ serving' = TRUE
  /\ connected' = TRUE /\ news' = TRUE
  /\ UNCHANGED <<inb, down, entry, loopVars, window, storeVars, reportVars, job>>

Connect ==
  /\ link = "down" /\ ~serving /\ count.connects < MaxConnects
  /\ count' = [count EXCEPT !.connects = @ + 1]
  /\ link' = "draining"
  /\ alive' = TRUE /\ serving' = TRUE
  /\ connected' = TRUE /\ news' = TRUE
  /\ UNCHANGED <<outq, inb, down, entry, loopVars, window, storeVars, reportVars, job>>

\* Both in the drain of the queue and in the main loop.
Send ==
  /\ link \in {"draining", "up"} /\ outq # <<>>
  /\ outq' = Tail(outq)
  /\ IF alive THEN HandleMessage(Head(outq)) ELSE Lost(Head(outq))
  /\ UNCHANGED <<link, connected, alive, news, inb, serving, loopVars, window, storeVars, reportVars, count>>

\* try_recv finds the queue empty.
Drained ==
  /\ link = "draining" /\ outq = <<>>
  /\ link' = "up"
  /\ UNCHANGED <<connected, outq, alive, news, inb, down, fmVars, loopVars, window, storeVars, reportVars, job, count>>

Read ==
  /\ link = "up" /\ down # <<>>
  /\ inb' = Append(inb, Head(down))
  /\ down' = Tail(down)
  /\ UNCHANGED <<tunnelVars, alive, news, fmVars, loopVars, window, storeVars, reportVars, job, count>>

\* The connection dies, with what was on its way down, but for the last one.
Dies ==
  /\ alive /\ count.connects < MaxConnects
  /\ alive' = FALSE
  /\ down' = <<>>
  /\ job' = IF \E i \in 1 .. Len(down) : down[i] = PromptDispatch THEN "over" ELSE job
  /\ UNCHANGED <<tunnelVars, news, inb, fmVars, loopVars, window, storeVars, reportVars, count>>

\* A failed ping, a read error, or a close.
Break ==
  /\ link = "up" /\ ~alive
  /\ link' = "broken"
  /\ UNCHANGED <<connected, outq, alive, news, inb, down, fmVars, loopVars, window, storeVars, reportVars, job, count>>

\* The frame has been taken from the queue; in the drain the first ping then
\* fails too.
SendFails ==
  /\ link \in {"draining", "up"} /\ ~alive /\ outq # <<>>
  /\ link' = "broken"
  /\ outq' = Tail(outq)
  /\ Lost(Head(outq))
  /\ UNCHANGED <<connected, alive, news, inb, serving, loopVars, window, storeVars, reportVars, count>>

\* mutated: the loop is not told
DisconnectQuietly ==
  /\ link = "broken"
  /\ link' = "down"
  /\ UNCHANGED <<connected, outq, alive, news, inb, down, fmVars, loopVars, window, storeVars, reportVars, job, count>>

Disconnected ==
  /\ link = "broken"
  /\ link' = "down"
  /\ connected' = FALSE /\ news' = TRUE
  /\ UNCHANGED <<outq, alive, inb, down, fmVars, loopVars, window, storeVars, reportVars, job, count>>

-----------------------------------------------------------------------------
(* The coordinator's loop: run.  The frames an arm queues without looking   *)
(* at anything in between are queued together: only a download's report     *)
(* could come between them, and it commutes with those after it.           *)

Put(frames) == outq' = outq \o frames

\* The tick of 30 seconds.
Beat ==
  /\ loop = "waits"
  /\ IF window # awake
     THEN Put(<<ScheduleState(window), Heartbeat(window)>>) /\ UNCHANGED count
     ELSE /\ count.times < MaxTimes
          /\ count' = [count EXCEPT !.times = @ + 1]
          /\ Put(<<Heartbeat(window)>>)
  /\ awake' = window
  /\ UNCHANGED <<link, connected, alive, news, inb, down, fmVars, loop, window, storeVars, reportVars, job>>

\* The tick of 60 seconds.
Repoll ==
  /\ loop = "waits"
  /\ connected /\ ready = {}
  /\ count.times < MaxTimes
  /\ count' = [count EXCEPT !.times = @ + 1]
  /\ Put(<<CatalogRequest>>)
  /\ UNCHANGED <<link, connected, alive, news, inb, down, fmVars, loopVars, window, storeVars, reportVars, job>>

\* changed() returns; the value is read after it.
Changed ==
  /\ loop = "waits" /\ news
  /\ news' = FALSE
  /\ loop' = "looks"
  /\ UNCHANGED <<tunnelVars, alive, inb, down, fmVars, awake, window, storeVars, reportVars, job, count>>

\* mutated: the catalog is not asked for again
GreetOnly ==
  /\ loop = "looks" /\ connected
  /\ Put(<<Register, Heartbeat(awake)>>)
  /\ loop' = "reports"
  /\ report' = [report EXCEPT ![Loop] = Due]
  /\ UNCHANGED <<link, connected, alive, news, inb, down, fmVars, awake, window, storeVars, told, crossed, job, count>>

\* mutated: the ready models are not reported again
GreetSilently ==
  /\ loop = "looks" /\ connected
  /\ Put(<<Register, CatalogRequest, Heartbeat(awake)>>)
  /\ loop' = "waits"
  /\ UNCHANGED <<link, connected, alive, news, inb, down, fmVars, awake, window, storeVars, reportVars, job, count>>

Greet ==
  /\ loop = "looks" /\ connected
  /\ Put(<<Register, CatalogRequest, Heartbeat(awake)>>)
  /\ loop' = "reports"
  /\ report' = [report EXCEPT ![Loop] = Due]
  /\ UNCHANGED <<link, connected, alive, news, inb, down, fmVars, awake, window, storeVars, told, crossed, job, count>>

LookAway ==
  /\ loop = "looks" /\ ~connected
  /\ loop' = "waits"
  /\ UNCHANGED <<tunnelVars, alive, news, inb, down, fmVars, awake, window, storeVars, reportVars, job, count>>

\* Downloads for what is neither ready, nor under way, nor failed before.
HandleCatalog ==
  /\ loop = "waits" /\ inb # <<>> /\ Head(inb) # PromptDispatch
  /\ inb' = Tail(inb)
  /\ fetching' = fetching \cup (Wanted(Head(inb).models) \ (ready \cup failed))
  /\ loop' = "reports"
  /\ report' = [report EXCEPT ![Loop] = Due]
  /\ UNCHANGED <<tunnelVars, alive, news, down, fmVars, awake, window, ready, failed, refused, told, crossed, job, count>>

HandleDispatch ==
  /\ loop = "waits" /\ inb # <<>> /\ Head(inb) = PromptDispatch
  /\ inb' = Tail(inb)
  /\ job' = "running"
  /\ UNCHANGED <<tunnelVars, alive, news, down, fmVars, loopVars, window, storeVars, reportVars, count>>

\* The time of day passes a bound of the owner's window.
Turn ==
  /\ count.times < MaxTimes
  /\ count' = [count EXCEPT !.times = @ + 1]
  /\ window' = ~window
  /\ UNCHANGED <<tunnelVars, alive, news, inb, down, fmVars, loopVars, storeVars, reportVars, job>>

-----------------------------------------------------------------------------
(* send_model_status, of the loop and of downloads; downloads; the backend. *)

ReadReady(w) ==
  /\ report[w] = Due
  /\ report' = [report EXCEPT ![w] = ready]
  /\ UNCHANGED <<tunnelVars, alive, news, inb, down, fmVars, loopVars, window, storeVars, told, crossed, job, count>>

Report(w) ==
  /\ report[w] \notin {Absent, Due}
  /\ Put(<<ModelStatus(report[w])>>)
  /\ told' = report[w]
  /\ crossed' = (crossed \/ ~(told \subseteq report[w]))
  /\ report' = [report EXCEPT ![w] = Absent]
  /\ loop' = IF w = Loop THEN "waits" ELSE loop
  /\ UNCHANGED <<link, connected, alive, news, inb, down, fmVars, awake, window, storeVars, job, count>>

\* register takes the artifact, or refuses it: it is over the limit, or there is
\* none.  A model refused is neither ready nor failed, so the next catalog starts it
\* again, and finds the same artifact.  (One that is ready is not fetched, so there
\* is nothing to deregister.)
Fetched(m) ==
  /\ m \in fetching
  /\ fetching' = fetching \ {m}
  /\ \/ m \notin refused /\ ready' = ready \cup {m} /\ UNCHANGED refused
     \/ refused' = refused \cup {m} /\ UNCHANGED ready
  /\ report' = [report EXCEPT ![m] = Due]
  /\ UNCHANGED <<tunnelVars, alive, news, inb, down, fmVars, loopVars, window, failed, told, crossed, job, count>>

\* A model refused before is verified already, by its marker.
FetchFails(m) ==
  /\ m \in fetching /\ m \notin refused
  /\ fetching' = fetching \ {m}
  /\ failed' = failed \cup {m}
  /\ UNCHANGED <<tunnelVars, alive, news, inb, down, fmVars, loopVars, window, ready, refused, reportVars, job, count>>

\* One Done or one Error for the job.
Answer ==
  /\ job = "running"
  /\ job' = "queued"
  /\ Put(<<Done>>)
  /\ UNCHANGED <<link, connected, alive, news, inb, down, fmVars, loopVars, window, storeVars, reportVars, count>>

-----------------------------------------------------------------------------
Tunnel == Connect \/ Send \/ Drained \/ Read \/ Break \/ SendFails \/ Disconnected

Handle == Changed \/ Greet \/ LookAway \/ HandleCatalog \/ HandleDispatch

Status(w) == ReadReady(w) \/ Report(w)

Download(m) == Fetched(m) \/ FetchFails(m)

Next ==
  \/ Tunnel \/ Dies \/ TearDown \/ Dispatch
  \/ Handle \/ Beat \/ Repoll \/ Turn
  \/ \E w \in Senders : Status(w)
  \/ \E m \in Models : Download(m)
  \/ Answer

Spec == Init /\ [][Next]_vars

\* Every task is polled when it can go on; a tick, news or a message is seen at
\* the latest when the loop waits again, and no arm keeps it from the others.
\* There is finitely much to do (a tick that changes nothing is not due), so it is
\* enough that something is done while there is.
Work ==
  \/ Tunnel \/ TearDown \/ Handle \/ Answer
  \/ Beat /\ window # awake
  \/ \E w \in Senders : Status(w)
  \/ \E m \in Models : Download(m)

FairSpec == Spec /\ WF_vars(Work)

-----------------------------------------------------------------------------
(* Properties *)

\* What run sends suffices: once the loop has greeted a connection and waits,
\* the frames on their way, read in order, make the Fleet Manager's entry what
\* the node is, unless reports crossed; whatever was queued over earlier
\* connections, and lost with them (main.rs: run, tunnel.rs: run_loop).
StatusIsOwed ==
  alive /\ ~news /\ loop = "waits" =>
    LET e == FoldLeft(Entry, entry, outq)
    IN  /\ e # Absent
        /\ e.awake = awake
        /\ (\A w \in Senders : report[w] = Absent) /\ ~crossed => e.ready = ready

\* When connections stay, the node has tried every model it selects and
\* supports, also if requests were read before the Register of their connection
\* and answered with nothing; and the registry, the "in-memory map of connected
\* nodes and their live state" (DESIGN.md:128), has become what the node is and
\* remains so, unless reports crossed.
Onboarded == Wanted(Resolved) \subseteq ready \cup failed \cup refused

Agrees == entry # Absent /\ entry.awake = window /\ entry.ready = ready

Converges == <>[](Onboarded /\ (crossed \/ Agrees))

\* An answer queued while there is no connection is not forgotten: it reaches
\* the Fleet Manager over the next one, or is lost with a connection.
AnswerSurvives == job \in {"running", "queued"} ~> job \in {"over", "defaulted"}
=============================================================================
