--------------------------- MODULE LinuxNodeProofs ---------------------------
(***************************************************************************)
(* Theorems about LinuxNode for every catalog, selection and bound.        *)
(***************************************************************************)
EXTENDS LinuxNode, SequenceTheorems, Induction

(* FoldLeft: what the frames of the queue make of an entry. *)

\* g folds every subset of the queue's places, the greatest last.
Subsets(e, q, g) ==
  g = [s \in SUBSET DOMAIN q |->
         IF s = {} THEN e ELSE Entry(g[s \ {Max(s)}], q[Max(s)])]

\* h[i] is the entry after the first i frames.
After(e, q, k, h) ==
  h = [i \in 0 .. k |-> IF i = 0 THEN e ELSE Entry(h[i - 1], q[i])]

(* A set of places of a queue has a greatest one. *)
LEMMA MaxOfPlaces ==
  ASSUME NEW n \in Nat, NEW s \in SUBSET (1 .. n), s # {}
  PROVE  Max(s) \in s /\ \A y \in s : Max(s) >= y
<1>0. IsFiniteSet(1 .. n) /\ \A y \in s : y \in Nat
  BY FS_Interval
<1>1. IsFiniteSet(s) /\ \A y \in s : y \in Nat
  BY <1>0, FS_Subset
<1>2. \E m \in s : \A y \in s : m >= y
  BY <1>1, GreatestOf
<1> QED BY <1>2 DEF Max

(* The greatest of the first k places. *)
LEMMA MaxOfFirst ==
  ASSUME NEW k \in Nat, k > 0
  PROVE  Max(1 .. k) = k /\ (1 .. k) \ {Max(1 .. k)} = 1 .. k - 1 /\ 1 .. k # {}
<1>1. 1 .. k # {} /\ 1 .. k \in SUBSET (1 .. k) /\ k \in 1 .. k
  OBVIOUS
<1>2. Max(1 .. k) \in 1 .. k /\ \A y \in 1 .. k : Max(1 .. k) >= y
  BY <1>1, MaxOfPlaces
<1>3. Max(1 .. k) = k
  BY <1>1, <1>2
<1> QED BY <1>1, <1>3

(* The recursive function that FoldLeft defines exists: by induction on the size
   of the sets of places, extending it one size at a time. *)
LEMMA SubsetsExist ==
  ASSUME NEW e, NEW q, Len(q) \in Nat, DOMAIN q = 1 .. Len(q)
  PROVE  \E g : Subsets(e, q, g)
<1> DEFINE S == DOMAIN q
           Value(g, s) == IF s = {} THEN e ELSE Entry(g[s \ {Max(s)}], q[Max(s)])
           UpTo(g, n) == \A s \in SUBSET S : Cardinality(s) <= n => g[s] = Value(g, s)
           Good == {n \in Nat : \E g : g = [s \in SUBSET S |-> g[s]] /\ UpTo(g, n)}
<1>0. IsFiniteSet(S)
  BY FS_Interval
<1>1. 0 \in Good
  <2> DEFINE g == [s \in SUBSET S |-> e]
  <2>1. g = [s \in SUBSET S |-> g[s]]
    OBVIOUS
  <2>2. UpTo(g, 0)
    BY <1>0, SmallerSet
  <2> QED BY <2>1, <2>2
<1>2. ASSUME NEW n \in Nat, n \in Good PROVE n + 1 \in Good
  <2>1. PICK g : UpTo(g, n)
    BY <1>2
  <2> DEFINE h == [s \in SUBSET S |-> IF Cardinality(s) = n + 1 THEN Value(g, s) ELSE g[s]]
  <2>2. h = [s \in SUBSET S |-> h[s]]
    OBVIOUS
  <2>3. ASSUME NEW s \in SUBSET S, Cardinality(s) <= n + 1 PROVE h[s] = Value(h, s)
    <3>1. CASE s = {}
      <4>1. Cardinality(s) = 0
        BY <3>1, FS_EmptySet
      <4>2. Cardinality(s) <= n /\ Cardinality(s) # n + 1
        BY <4>1
      <4>3. g[s] = Value(g, s) /\ h[s] = g[s]
        BY <2>1, <4>2
      <4> HIDE DEF h
      <4> QED BY <3>1, <4>3
    <3>2. CASE s # {}
      <4> DEFINE t == s \ {Max(s)}
      <4>1. Max(s) \in s
        BY <3>2, MaxOfPlaces
      <4>2. t \in SUBSET S /\ Cardinality(t) = Cardinality(s) - 1 /\ Cardinality(s) \in Nat
        BY <1>0, <4>1, SmallerSet
      <4>3. h[t] = g[t]
        BY <2>3, <4>2
      <4>4. h[s] = Value(g, s)
        <5>1. CASE Cardinality(s) = n + 1
          BY <5>1
        <5>2. CASE Cardinality(s) # n + 1
          <6>1. Cardinality(s) <= n /\ h[s] = g[s]
            BY <2>3, <4>2, <5>2
          <6> QED BY <2>1, <6>1
        <5> QED BY <5>1, <5>2
      <4> HIDE DEF h
      <4> QED BY <3>2, <4>3, <4>4
    <3> QED BY <3>1, <3>2
  <2>4. UpTo(h, n + 1)
    BY <2>3
  <2> HIDE DEF h, UpTo
  <2> QED BY <2>2, <2>4
<1> HIDE DEF Good
<1>3. Cardinality(S) \in Good
  <2>1. \A n \in Nat : n \in Good
    BY <1>1, <1>2, SetInduction
  <2> QED BY <1>0, <2>1, FS_CardinalityType
<1>4. PICK g : g = [s \in SUBSET S |-> g[s]] /\ UpTo(g, Cardinality(S))
  BY <1>3 DEF Good
<1>5. \A s \in SUBSET S : g[s] = Value(g, s)
  BY <1>0, <1>4, SmallerSet
<1> QED BY <1>4, <1>5 DEF Subsets

(* The fold of a queue is the entry after its last frame. *)
LEMMA FoldIsLast ==
  ASSUME NEW e, NEW q \in Seq(UpFrames)
  PROVE  \E h : After(e, q, Len(q), h) /\ FoldLeft(Entry, e, q) = h[Len(q)]
<1> DEFINE n == Len(q)
           g == CHOOSE x : Subsets(e, q, x)
           h == [i \in 0 .. n |-> g[1 .. i]]
<1>0. n \in Nat /\ DOMAIN q = 1 .. n
  OBVIOUS
<1>1. Subsets(e, q, g)
  BY <1>0, SubsetsExist
<1>2. FoldLeft(Entry, e, q) = g[DOMAIN q]
  BY DEF FoldLeft, MapThenFoldSet, Subsets
<1>3. ASSUME NEW i \in 0 .. n
      PROVE  h[i] = IF i = 0 THEN e ELSE Entry(h[i - 1], q[i])
  <2>1. 1 .. i \in SUBSET DOMAIN q
    BY <1>0
  <2>2. g[1 .. i] = IF 1 .. i = {} THEN e ELSE Entry(g[(1 .. i) \ {Max(1 .. i)}], q[Max(1 .. i)])
    BY <1>1, <2>1 DEF Subsets
  <2>3. CASE i = 0
    <3>1. 1 .. i = {} /\ h[i] = g[1 .. i]
      BY <2>3
    <3> QED BY <2>2, <2>3, <3>1
  <2>4. CASE i # 0
    <3>1. i \in Nat /\ i > 0 /\ i - 1 \in 0 .. n
      BY <1>0, <2>4
    <3>2. Max(1 .. i) = i /\ (1 .. i) \ {Max(1 .. i)} = 1 .. i - 1 /\ 1 .. i # {}
      BY <3>1, MaxOfFirst
    <3>3. h[i] = g[1 .. i] /\ h[i - 1] = g[1 .. i - 1]
      BY <3>1
    <3>4. g[1 .. i] = Entry(g[1 .. i - 1], q[i])
      BY <2>2, <3>2, Zenon
    <3> QED BY <2>4, <3>3, <3>4
  <2> QED BY <2>3, <2>4
<1>4. h[n] = g[DOMAIN q]
  BY <1>0
<1>5. After(e, q, n, h)
  <2>1. h = [i \in 0 .. n |-> h[i]]
    OBVIOUS
  <2> HIDE DEF h
  <2> QED BY <1>3, <2>1 DEF After
<1> HIDE DEF h
<1> QED BY <1>2, <1>4, <1>5

(* Equal queues up to a place leave equal entries there. *)
LEMMA AfterAgree ==
  ASSUME NEW e, NEW q, NEW r, NEW n \in Nat, NEW m \in Nat, n <= m,
         \A i \in 1 .. n : q[i] = r[i],
         NEW h, After(e, q, n, h), NEW g, After(e, r, m, g)
  PROVE  h[n] = g[n]
<1> DEFINE Good == {i \in Nat : i <= n => h[i] = g[i]}
<1>1. 0 \in Good
  BY DEF After
<1>2. ASSUME NEW i \in Nat, i \in Good PROVE i + 1 \in Good
  <2> SUFFICES ASSUME i + 1 <= n PROVE h[i + 1] = g[i + 1]
    OBVIOUS
  <2> DEFINE j == i + 1
  <2>1. j \in 1 .. n /\ j \in 0 .. n /\ j \in 0 .. m /\ j # 0 /\ j - 1 = i /\ h[i] = g[i]
    BY <1>2
  <2>2. h[j] = Entry(h[j - 1], q[j]) /\ g[j] = Entry(g[j - 1], r[j])
    <3> HIDE DEF j
    <3> QED BY <2>1 DEF After
  <2> HIDE DEF j
  <2>3. h[j] = g[j]
    BY <2>1, <2>2
  <2> QED BY <2>3 DEF j
<1> HIDE DEF Good
<1>3. \A i \in Nat : i \in Good
  BY <1>1, <1>2, SetInduction
<1> QED BY <1>3 DEF Good

(* No frames change nothing. *)
LEMMA FoldEmpty == ASSUME NEW e PROVE FoldLeft(Entry, e, <<>>) = e
<1>1. <<>> \in Seq(UpFrames) /\ Len(<<>>) = 0
  OBVIOUS
<1>2. PICK h : After(e, <<>>, Len(<<>>), h) /\ FoldLeft(Entry, e, <<>>) = h[Len(<<>>)]
  BY <1>1, FoldIsLast
<1> QED BY <1>1, <1>2 DEF After

(* The last frame comes last. *)
LEMMA FoldAppend ==
  ASSUME NEW e, NEW q \in Seq(UpFrames), NEW f \in UpFrames
  PROVE  FoldLeft(Entry, e, Append(q, f)) = Entry(FoldLeft(Entry, e, q), f)
<1> DEFINE n == Len(q)
           r == Append(q, f)
<1>1. n \in Nat /\ r \in Seq(UpFrames) /\ Len(r) = n + 1 /\ r[n + 1] = f /\ \A i \in 1 .. n : q[i] = r[i]
  OBVIOUS
<1> HIDE DEF n, r
<1>2. PICK h : After(e, q, n, h) /\ FoldLeft(Entry, e, q) = h[n]
  BY FoldIsLast DEF n
<1>3. PICK g : After(e, r, n + 1, g) /\ FoldLeft(Entry, e, r) = g[n + 1]
  BY <1>1, FoldIsLast
<1>4. h[n] = g[n]
  BY <1>1, <1>2, <1>3, AfterAgree
<1>5. g[n + 1] = Entry(g[n], r[n + 1])
  <2> DEFINE j == n + 1
  <2>1. j \in 0 .. n + 1 /\ j # 0 /\ j - 1 = n
    BY <1>1
  <2> HIDE DEF j
  <2>2. g[j] = Entry(g[j - 1], r[j])
    BY <1>3, <2>1 DEF After
  <2> QED BY <2>1, <2>2 DEF j
<1> QED BY <1>1, <1>2, <1>3, <1>4, <1>5 DEF r

(* The first frame comes first. *)
LEMMA FoldHead ==
  ASSUME NEW e, NEW q \in Seq(UpFrames), q # <<>>
  PROVE  FoldLeft(Entry, Entry(e, Head(q)), Tail(q)) = FoldLeft(Entry, e, q)
<1> DEFINE n == Len(q)
           r == Tail(q)
<1>1. /\ n \in Nat /\ n > 0 /\ r \in Seq(UpFrames) /\ Len(r) = n - 1 /\ Head(q) = q[1]
      /\ \A i \in 1 .. n - 1 : r[i] = q[i + 1]
  OBVIOUS
<1> HIDE DEF n, r
<1>2. PICK h : After(e, q, n, h) /\ FoldLeft(Entry, e, q) = h[n]
  BY FoldIsLast DEF n
<1>3. PICK g : After(Entry(e, q[1]), r, n - 1, g) /\ FoldLeft(Entry, Entry(e, q[1]), r) = g[n - 1]
  BY <1>1, FoldIsLast
<1> DEFINE Good == {i \in Nat : i <= n - 1 => g[i] = h[i + 1]}
<1>4. 0 \in Good
  <2> DEFINE one == 0 + 1
  <2>1. one \in 0 .. n /\ one # 0 /\ one - 1 = 0 /\ 0 \in 0 .. n /\ 0 \in 0 .. n - 1 /\ one = 1
    BY <1>1
  <2> HIDE DEF one
  <2>2. h[one] = Entry(h[one - 1], q[one]) /\ h[0] = e /\ g[0] = Entry(e, q[1])
    BY <1>2, <1>3, <2>1 DEF After
  <2>3. g[0] = h[one]
    BY <2>1, <2>2
  <2> QED BY <2>3 DEF one
<1>5. ASSUME NEW i \in Nat, i \in Good PROVE i + 1 \in Good
  <2> SUFFICES ASSUME i + 1 <= n - 1 PROVE g[i + 1] = h[i + 1 + 1]
    OBVIOUS
  <2> DEFINE j == i + 1
             k == i + 1 + 1
  <2>0. g[i] = h[j]
    <3>1. i <= n - 1
      BY <1>1
    <3> QED BY <1>5, <3>1
  <2> HIDE DEF Good
  <2>1. /\ j \in 0 .. n - 1 /\ j # 0 /\ j - 1 = i /\ j \in 1 .. n - 1 /\ k = j + 1
        /\ k \in 0 .. n /\ k # 0 /\ k - 1 = j
    BY <1>1
  <2> HIDE DEF j, k
  <2>2. g[j] = Entry(g[j - 1], r[j]) /\ h[k] = Entry(h[k - 1], q[k])
    BY <1>2, <1>3, <2>1 DEF After
  <2>3. r[j] = q[k]
    BY <1>1, <2>1
  <2>4. g[j] = h[k]
    BY <2>0, <2>1, <2>2, <2>3
  <2> QED BY <2>4 DEF j, k
<1> HIDE DEF Good
<1>6. n - 1 \in Good
  <2>1. \A i \in Nat : i \in Good
    BY <1>4, <1>5, SetInduction
  <2> QED BY <1>1, <2>1
<1>7. g[n - 1] = h[n]
  <2>1. n - 1 + 1 = n
    BY <1>1
  <2> QED BY <1>1, <1>6, <2>1 DEF Good
<1> QED BY <1>1, <1>2, <1>3, <1>7 DEF r

-----------------------------------------------------------------------------
(* Types.                                                                  *)

(* What the Fleet Manager has of the node. *)
Entries == {Absent} \cup [awake: BOOLEAN, ready: SUBSET Models]

(* The frames the node queues. *)
LEMMA FramesAreFrames ==
  /\ Register \in UpFrames /\ CatalogRequest \in UpFrames /\ Done \in UpFrames
  /\ \A a \in BOOLEAN : Heartbeat(a) \in UpFrames /\ ScheduleState(a) \in UpFrames
  /\ \A s \in SUBSET Models : ModelStatus(s) \in UpFrames
BY DEF UpFrames, Register, CatalogRequest, Done, Heartbeat, ScheduleState, ModelStatus

(* What each frame makes of an entry. *)
LEMMA EntryCases ==
  ASSUME NEW e
  PROVE  /\ Entry(e, Register) = [awake |-> FALSE, ready |-> {}]
         /\ Entry(e, CatalogRequest) = e /\ Entry(e, Done) = e
         /\ \A a : /\ Entry(e, Heartbeat(a)) = IF e # Absent THEN [e EXCEPT !.awake = a] ELSE e
                   /\ Entry(e, ScheduleState(a)) = IF e # Absent THEN [e EXCEPT !.awake = a] ELSE e
         /\ \A s : Entry(e, ModelStatus(s)) = IF e # Absent THEN [e EXCEPT !.ready = s] ELSE e
<1>1. /\ Register.t = "Register" /\ CatalogRequest.t = "CatalogRequest" /\ Done.t = "Done"
      /\ \A a : Heartbeat(a).t = "Heartbeat" /\ Heartbeat(a).awake = a
                /\ ScheduleState(a).t = "ScheduleState" /\ ScheduleState(a).awake = a
      /\ \A s : ModelStatus(s).t = "ModelStatus" /\ ModelStatus(s).ready = s
  BY DEF Register, CatalogRequest, Done, Heartbeat, ScheduleState, ModelStatus
<1> QED BY <1>1 DEF Entry

(* A frame leaves an entry, or none. *)
LEMMA EntryType ==
  ASSUME NEW e \in Entries, NEW f \in UpFrames
  PROVE  Entry(e, f) \in Entries
<1>1. CASE f.t = "Register"
  BY <1>1 DEF Entry, Entries
<1>2. CASE e # Absent /\ f.t \in {"Heartbeat", "ScheduleState"}
  <2>1. f.awake \in BOOLEAN
    BY <1>2 DEF UpFrames
  <2> QED BY <1>2, <2>1 DEF Entry, Entries
<1>3. CASE e # Absent /\ f.t = "ModelStatus"
  <2>1. f.ready \in SUBSET Models
    BY <1>3 DEF UpFrames
  <2> QED BY <1>3, <2>1 DEF Entry, Entries
<1>4. CASE f.t # "Register" /\ ~(e # Absent /\ f.t \in {"Heartbeat", "ScheduleState"})
           /\ ~(e # Absent /\ f.t = "ModelStatus")
  BY <1>4 DEF Entry
<1> QED BY <1>1, <1>2, <1>3, <1>4

(* The initial states are well typed. *)
LEMMA TypeInit == Init => TypeOK
<1> SUFFICES ASSUME Init PROVE TypeOK
  OBVIOUS
<1>1. outq \in Seq(UpFrames)
  BY FramesAreFrames DEF Init
<1>2. inb \in Seq(DownFrames) /\ down \in Seq(DownFrames)
  BY DEF Init
<1>3. count \in [connects: 0 .. MaxConnects, times: 0 .. MaxTimes]
  BY NodeAssumption DEF Init
<1> QED BY <1>1, <1>2, <1>3 DEF Init, TypeOK, Senders

(* What TypeOK says, one part at a time. *)
LEMMA Types ==
  ASSUME TypeOK
  PROVE  /\ outq \in Seq(UpFrames) /\ inb \in Seq(DownFrames) /\ down \in Seq(DownFrames)
         /\ entry \in Entries /\ ready \in SUBSET Models
         /\ report \in [Senders -> {Absent, Due} \cup SUBSET Models]
         /\ count \in [connects: 0 .. MaxConnects, times: 0 .. MaxTimes]
BY DEF TypeOK, Entries

(* A queue of frames without its first, or with some more. *)
LEMMA Queues ==
  ASSUME NEW S, NEW q \in Seq(S)
  PROVE  /\ \A f \in S : Append(q, f) \in Seq(S)
         /\ q # <<>> => Tail(q) \in Seq(S) /\ Head(q) \in S
OBVIOUS

(* A frame that is put comes after those of the queue, *)
LEMMA PutOne ==
  ASSUME NEW S, NEW q \in Seq(S), NEW f \in S PROVE q \o <<f>> = Append(q, f)
OBVIOUS

(* and so do two, *)
LEMMA PutTwo ==
  ASSUME NEW S, NEW q \in Seq(S), NEW f \in S, NEW g \in S
  PROVE  q \o <<f, g>> = Append(Append(q, f), g)
OBVIOUS

(* and the three of a greeting. *)
LEMMA PutThree ==
  ASSUME NEW S, NEW q \in Seq(S), NEW f \in S, NEW g \in S, NEW h \in S
  PROVE  q \o <<f, g, h>> = Append(Append(Append(q, f), g), h)
OBVIOUS

(* What the Fleet Manager makes of a frame, or the network of its loss. *)
LEMMA MessageTypes ==
  ASSUME TypeOK, outq # <<>>, HandleMessage(Head(outq)) \/ Lost(Head(outq))
  PROVE  /\ down' \in Seq(DownFrames) /\ entry' \in Entries
         /\ job' \in {"none", "sent", "running", "queued", "over", "defaulted"}
         /\ outq' = Tail(outq) => outq' \in Seq(UpFrames)
<1> DEFINE f == Head(outq)
<1>1. f \in UpFrames /\ Tail(outq) \in Seq(UpFrames)
  BY Types
<1>2. job \in {"none", "sent", "running", "queued", "over", "defaulted"}
  BY DEF TypeOK
<1> HIDE DEF f
<1>3. CASE HandleMessage(f)
  <2>1. CatalogResponse(Offer) \in DownFrames
    BY DEF CatalogResponse, Offer, DownFrames
  <2>2. down' \in Seq(DownFrames)
    BY <1>3, <2>1, Types DEF HandleMessage
  <2>3. entry' \in Entries
    BY <1>1, <1>3, Types, EntryType DEF HandleMessage
  <2>4. job' \in {"none", "sent", "running", "queued", "over", "defaulted"}
    BY <1>2, <1>3 DEF HandleMessage
  <2> QED BY <1>1, <2>2, <2>3, <2>4
<1>4. CASE Lost(f)
  BY <1>1, <1>2, <1>4, Types DEF Lost
<1> QED BY <1>3, <1>4 DEF f

(* The steps of the tunnel, of the network and of the Fleet Manager. *)
LEMMA TunnelTypes ==
  ASSUME TypeOK, Tunnel \/ Dies \/ TearDown \/ Dispatch
  PROVE  TypeOK'
<1>1. CASE Connect
  <2>1. count' \in [connects: 0 .. MaxConnects, times: 0 .. MaxTimes]
    <3>1. /\ count \in [connects: 0 .. MaxConnects, times: 0 .. MaxTimes]
          /\ MaxConnects \in Nat /\ count.connects < MaxConnects
          /\ count' = [count EXCEPT !.connects = @ + 1]
      BY <1>1, Types, NodeAssumption DEF Connect
    <3>2. count.connects + 1 \in 0 .. MaxConnects
      BY <3>1
    <3> QED BY <3>1, <3>2
  <2> QED BY <1>1, <2>1 DEF Connect, TypeOK, reportVars, loopVars, storeVars
<1>2. CASE Send \/ SendFails
  <2>1. /\ down' \in Seq(DownFrames) /\ entry' \in Entries
        /\ job' \in {"none", "sent", "running", "queued", "over", "defaulted"}
        /\ outq' \in Seq(UpFrames)
    BY <1>2, MessageTypes DEF Send, SendFails
  <2>2. entry' # Absent => serving
    BY <1>2 DEF Send, SendFails, TypeOK, Lost
  <2>3. UNCHANGED <<connected, alive, news, inb, serving, loopVars, window, storeVars, reportVars, count>>
    BY <1>2 DEF Send, SendFails
  <2>4. link' = link \/ (link' = "broken" /\ link # "down" /\ ~alive)
    BY <1>2 DEF Send, SendFails
  <2> QED BY <2>1, <2>2, <2>3, <2>4 DEF TypeOK, Entries, reportVars, loopVars, storeVars
<1>3. CASE Drained
  BY <1>3 DEF Drained, TypeOK, fmVars, reportVars, loopVars, storeVars
<1>8. CASE Break
  BY <1>8 DEF Break, TypeOK, fmVars, reportVars, loopVars, storeVars
<1>9. CASE Disconnected
  BY <1>9 DEF Disconnected, TypeOK, fmVars, reportVars, loopVars, storeVars
<1>4. CASE Read
  <2>1. inb' \in Seq(DownFrames) /\ down' \in Seq(DownFrames)
    BY <1>4, Types DEF Read
  <2> QED BY <1>4, <2>1 DEF Read, TypeOK, tunnelVars, fmVars, reportVars, loopVars, storeVars
<1>5. CASE Dies
  <2>1. down' \in Seq(DownFrames)
    BY <1>5 DEF Dies
  <2> QED BY <1>5, <2>1 DEF Dies, TypeOK, tunnelVars, fmVars, reportVars, loopVars, storeVars
<1>6. CASE TearDown
  <2>1. /\ serving' = FALSE /\ entry' = Absent /\ ~alive
        /\ UNCHANGED <<link, connected, outq, alive, news, inb, down, loop, awake, window>>
        /\ UNCHANGED <<ready, fetching, failed, refused, report, told, crossed, job, count>>
    BY <1>6 DEF TearDown, tunnelVars, reportVars, loopVars, storeVars
  <2> QED BY <2>1, ZenonT(40) DEF TypeOK
<1>7. CASE Dispatch
  <2>1. PromptDispatch \in DownFrames
    BY DEF PromptDispatch, DownFrames
  <2>2. down' \in Seq(DownFrames)
    <3>1. Append(down, PromptDispatch) \in Seq(DownFrames) /\ down \in Seq(DownFrames)
      BY <2>1, Types
    <3> QED BY <1>7, <3>1 DEF Dispatch
  <2> QED BY <1>7, <2>2 DEF Dispatch, TypeOK, tunnelVars, fmVars, reportVars, loopVars, storeVars
<1> QED BY <1>1, <1>2, <1>3, <1>4, <1>5, <1>6, <1>7, <1>8, <1>9 DEF Tunnel

(* The outbound queue stays one of frames. *)
LEMMA PutTypes ==
  ASSUME TypeOK, NEW fs \in Seq(UpFrames), Put(fs)
  PROVE  outq' \in Seq(UpFrames)
BY Types DEF Put

(* The clock ticks within its bound. *)
LEMMA TimesTypes ==
  ASSUME TypeOK, count.times < MaxTimes, count' = [count EXCEPT !.times = @ + 1]
  PROVE  count' \in [connects: 0 .. MaxConnects, times: 0 .. MaxTimes]
<1>1. count \in [connects: 0 .. MaxConnects, times: 0 .. MaxTimes] /\ MaxTimes \in Nat
  BY Types, NodeAssumption
<1>2. count.times + 1 \in 0 .. MaxTimes
  BY <1>1
<1> QED BY <1>1, <1>2

(* The arms of the coordinator's loop, the schedule and the backend. *)
LEMMA LoopTypes ==
  ASSUME TypeOK, Handle \/ Beat \/ Repoll \/ Turn \/ Answer
  PROVE  TypeOK'
<1>0. /\ awake \in BOOLEAN /\ window \in BOOLEAN
      /\ Heartbeat(window) \in UpFrames /\ ScheduleState(window) \in UpFrames /\ Heartbeat(awake) \in UpFrames
  BY FramesAreFrames DEF TypeOK
<1>1. CASE Beat
  <2>1. <<ScheduleState(window), Heartbeat(window)>> \in Seq(UpFrames) /\ <<Heartbeat(window)>> \in Seq(UpFrames)
    BY <1>0
  <2>2. outq' \in Seq(UpFrames)
    BY <1>1, <2>1, PutTypes DEF Beat
  <2>3. count' \in [connects: 0 .. MaxConnects, times: 0 .. MaxTimes]
    BY <1>1, Types, TimesTypes DEF Beat
  <2> QED BY <1>1, <2>2, <2>3 DEF Beat, TypeOK, fmVars, reportVars, storeVars
<1>2. CASE Repoll
  <2>1. <<CatalogRequest>> \in Seq(UpFrames)
    BY FramesAreFrames
  <2>2. outq' \in Seq(UpFrames)
    BY <1>2, <2>1, PutTypes DEF Repoll
  <2>3. count' \in [connects: 0 .. MaxConnects, times: 0 .. MaxTimes]
    BY <1>2, TimesTypes DEF Repoll
  <2> QED BY <1>2, <2>2, <2>3 DEF Repoll, TypeOK, fmVars, reportVars, loopVars, storeVars
<1>3. CASE Turn
  <2>1. count' \in [connects: 0 .. MaxConnects, times: 0 .. MaxTimes]
    BY <1>3, TimesTypes DEF Turn
  <2> QED BY <1>3, <2>1 DEF Turn, TypeOK, tunnelVars, fmVars, reportVars, loopVars, storeVars
<1>4. CASE Changed
  <2>1. /\ loop = "waits" /\ loop' = "looks" /\ news' = FALSE
        /\ UNCHANGED <<link, connected, outq, alive, inb, down, serving, entry, awake, window>>
        /\ UNCHANGED <<ready, fetching, failed, refused, report, told, crossed, job, count>>
    BY <1>4 DEF Changed, tunnelVars, fmVars, reportVars, storeVars
  <2> QED BY <2>1, ZenonT(40) DEF TypeOK
<1>10. CASE LookAway
  BY <1>10 DEF LookAway, TypeOK, tunnelVars, fmVars, reportVars, storeVars
<1>5. ASSUME report' = [report EXCEPT ![Loop] = Due]
      PROVE  report' \in [Senders -> {Absent, Due} \cup SUBSET Models] /\ report'[Loop] # Absent
  BY <1>5, Types, NodeAssumption DEF Senders
<1>6. CASE Greet
  <2>1. <<Register, CatalogRequest, Heartbeat(awake)>> \in Seq(UpFrames)
    BY <1>0, FramesAreFrames
  <2>2. outq' \in Seq(UpFrames)
    BY <1>6, <2>1, PutTypes DEF Greet
  <2> QED BY <1>5, <1>6, <2>2 DEF Greet, TypeOK, fmVars, storeVars
<1>7. CASE HandleCatalog
  <2>1. inb' \in Seq(DownFrames)
    BY <1>7, Types DEF HandleCatalog
  <2>2. fetching' \in SUBSET Models
    BY <1>7 DEF HandleCatalog, Wanted, TypeOK
  <2> QED BY <1>5, <1>7, <2>1, <2>2 DEF HandleCatalog, TypeOK, tunnelVars, fmVars
<1>8. CASE HandleDispatch
  <2>1. inb' \in Seq(DownFrames)
    BY <1>8, Types DEF HandleDispatch
  <2> QED BY <1>8, <2>1 DEF HandleDispatch, TypeOK, tunnelVars, fmVars, reportVars, loopVars, storeVars
<1>9. CASE Answer
  <2>1. <<Done>> \in Seq(UpFrames)
    BY FramesAreFrames
  <2>2. outq' \in Seq(UpFrames)
    BY <1>9, <2>1, PutTypes DEF Answer
  <2> QED BY <1>9, <2>2 DEF Answer, TypeOK, fmVars, reportVars, loopVars, storeVars
<1> QED BY <1>1, <1>2, <1>3, <1>4, <1>6, <1>7, <1>8, <1>9, <1>10 DEF Handle

(* The two steps of a report. *)
LEMMA StatusTypes ==
  ASSUME TypeOK, NEW w \in Senders, Status(w)
  PROVE  TypeOK'
<1>1. CASE ReadReady(w)
  <2>1. ready # Absent /\ ready \in SUBSET Models
    BY Types, NodeAssumption
  <2>2. report' \in [Senders -> {Absent, Due} \cup SUBSET Models] /\ (report'[Loop] # Absent <=> report[Loop] # Absent)
    BY <1>1, <2>1, Types, NodeAssumption DEF ReadReady, Senders
  <2> QED BY <1>1, <2>2 DEF ReadReady, TypeOK, tunnelVars, fmVars, loopVars, storeVars
<1>2. CASE Report(w)
  <2>1. report[w] \in SUBSET Models
    BY <1>2, Types DEF Report
  <2>2. <<ModelStatus(report[w])>> \in Seq(UpFrames)
    BY <2>1, FramesAreFrames
  <2>3. outq' \in Seq(UpFrames)
    BY <1>2, <2>2, PutTypes DEF Report
  <2>4. /\ report' \in [Senders -> {Absent, Due} \cup SUBSET Models]
        /\ report'[Loop] # Absent <=> w # Loop /\ report[Loop] # Absent
    BY <1>2, Types DEF Report, Senders
  <2>5. crossed' \in BOOLEAN /\ told' \in SUBSET Models
    BY <1>2, <2>1 DEF Report, TypeOK
  <2>6. loop' \in {"waits", "looks", "reports"} /\ (loop' = "reports" <=> report'[Loop] # Absent)
    BY <1>2, <2>4 DEF Report, TypeOK
  <2> QED BY <1>2, <2>3, <2>4, <2>5, <2>6 DEF Report, TypeOK, fmVars, storeVars
<1> QED BY <1>1, <1>2 DEF Status

(* The ends of a download. *)
LEMMA DownloadTypes ==
  ASSUME TypeOK, NEW m \in Models, Download(m)
  PROVE  TypeOK'
<1>1. CASE Fetched(m)
  <2>1. /\ report' \in [Senders -> {Absent, Due} \cup SUBSET Models]
        /\ report'[Loop] = report[Loop]
    BY <1>1, Types, NodeAssumption DEF Fetched, Senders
  <2> QED BY <1>1, <2>1 DEF Fetched, TypeOK, tunnelVars, fmVars, loopVars
<1>2. CASE FetchFails(m)
  BY <1>2 DEF FetchFails, TypeOK, tunnelVars, fmVars, loopVars, reportVars
<1> QED BY <1>1, <1>2 DEF Download

(* Every step keeps the types. *)
LEMMA TypeStep == TypeOK /\ [Next]_vars => TypeOK'
<1> SUFFICES ASSUME TypeOK, [Next]_vars PROVE TypeOK'
  OBVIOUS
<1>1. CASE UNCHANGED vars
  BY <1>1 DEF vars, TypeOK, tunnelVars, fmVars, loopVars, storeVars, reportVars
<1> QED BY <1>1, TunnelTypes, LoopTypes, StatusTypes, DownloadTypes DEF Next

(* Every reachable state of the node is well typed: the frames of both queues
   are ones the other side knows, and the three views of the connection (the
   tunnel's, the watch channel's and the Fleet Manager's) stay consistent,
   whatever the network does (tunnel.rs: run_loop, main.rs: run). *)
THEOREM TypeCorrect == Spec => []TypeOK
BY TypeInit, TypeStep, PTL DEF Spec

-----------------------------------------------------------------------------
(* What the entry is owed.                                                 *)

(* Reports that did not cross: each carries models that are ready, and the last  *)
(* one that was queued has all of them, unless one is to come that will.     *)
Ordered ==
  /\ \A w \in Senders : report[w] \notin {Absent, Due} => report[w] \subseteq ready
  /\ crossed \/ told = ready \/ \E w \in Senders : report[w] \in {Due, ready}

(* Nothing has been reported, and nothing is ready, at the start. *)
LEMMA InitOrdered == Init => Ordered
BY DEF Init, Ordered

(* A report reads the ready set before it is queued: the ready set only grows,
   and what makes it grow is followed by another report. *)
LEMMA StepOrdered == TypeOK /\ Ordered /\ [Next]_vars => Ordered'
<1> SUFFICES ASSUME TypeOK, Ordered, [Next]_vars PROVE Ordered'
  OBVIOUS
<1>0. /\ ready \in SUBSET Models /\ report \in [Senders -> {Absent, Due} \cup SUBSET Models]
      /\ ready \notin {Absent, Due} /\ Absent # Due
  BY Types, NodeAssumption
<1>1. CASE UNCHANGED <<report, ready, told, crossed>>
  BY <1>1 DEF Ordered
<1>2. CASE report' = [report EXCEPT ![Loop] = Due] /\ UNCHANGED <<ready, told, crossed>>
  <2>1. Loop \in Senders /\ report'[Loop] = Due
    BY <1>0, <1>2 DEF Senders
  <2>2. \A w \in Senders : report'[w] \notin {Absent, Due} => report'[w] \subseteq ready
    BY <1>0, <1>2 DEF Ordered
  <2> QED BY <1>2, <2>1, <2>2 DEF Ordered
<1>3. ASSUME NEW m \in Models, Fetched(m) PROVE Ordered'
  <2>1. m \in Senders /\ report'[m] = Due
    BY <1>0, <1>3 DEF Fetched, Senders
  <2>2. \A w \in Senders : report'[w] \notin {Absent, Due} => report'[w] \subseteq ready'
    BY <1>0, <1>3 DEF Fetched, Ordered
  <2> QED BY <2>1, <2>2 DEF Ordered
<1>4. ASSUME NEW w \in Senders, ReadReady(w) PROVE Ordered'
  <2>1. report'[w] = ready /\ ready' = ready
    BY <1>0, <1>4 DEF ReadReady, storeVars
  <2>2. \A x \in Senders : report'[x] \notin {Absent, Due} => report'[x] \subseteq ready'
    BY <1>0, <1>4, <2>1 DEF ReadReady, Ordered
  <2> QED BY <2>1, <2>2 DEF Ordered
<1>5. ASSUME NEW w \in Senders, Report(w) PROVE Ordered'
  <2>1. /\ ready' = ready /\ told' = report[w] /\ report[w] \notin {Absent, Due}
        /\ crossed' = (crossed \/ ~(told \subseteq report[w]))
        /\ \A x \in Senders : report'[x] = IF x = w THEN Absent ELSE report[x]
    BY <1>0, <1>5 DEF Report, storeVars
  <2>2. \A x \in Senders : report'[x] \notin {Absent, Due} => report'[x] \subseteq ready'
    BY <2>1 DEF Ordered
  <2>3. report[w] \subseteq ready
    BY <2>1 DEF Ordered
  <2>4. CASE crossed \/ ~(told \subseteq report[w])
    BY <2>1, <2>2, <2>4 DEF Ordered
  <2>5. CASE told \subseteq report[w] /\ told = ready
    <3>1. told' = ready'
      BY <2>1, <2>3, <2>5
    <3> QED BY <2>2, <3>1 DEF Ordered
  <2>6. ASSUME NEW x \in Senders, report[x] \in {Due, ready} PROVE Ordered'
    <3>1. CASE x = w
      <4>1. told' = ready'
        BY <2>1, <2>6, <3>1
      <4> QED BY <2>2, <4>1 DEF Ordered
    <3>2. CASE x # w
      <4>1. report'[x] \in {Due, ready'}
        BY <2>1, <2>6, <3>2
      <4> QED BY <2>2, <4>1 DEF Ordered
    <3> QED BY <3>1, <3>2
  <2> QED BY <2>4, <2>5, <2>6 DEF Ordered
<1>6. \/ UNCHANGED <<report, ready, told, crossed>>
      \/ report' = [report EXCEPT ![Loop] = Due] /\ UNCHANGED <<ready, told, crossed>>
      \/ \E m \in Models : Fetched(m)
      \/ \E w \in Senders : ReadReady(w) \/ Report(w)
  BY DEF Next, vars, Tunnel, Connect, Send, Drained, Read, Break, SendFails, Disconnected, Dies, TearDown,
         Dispatch, Handle, Changed, Greet, LookAway, HandleCatalog, HandleDispatch, Beat, Repoll, Turn,
         Status, Download, FetchFails, Answer, reportVars, storeVars
<1> QED BY <1>1, <1>2, <1>3, <1>4, <1>5, <1>6

-----------------------------------------------------------------------------
(* What the registry's entry will be when the queue has been read. *)

Future == FoldLeft(Entry, entry, outq)

(* A connection that was greeted: the entry to come is the node's. *)
Greeted ==
  alive /\ ~news /\ loop # "looks" =>
    /\ Future # Absent /\ Future.awake = awake
    /\ loop = "waits" => Future.ready = told

(* Each frame that is put is read after those before it. *)
LEMMA FuturePut ==
  ASSUME TypeOK, entry' = entry, NEW f \in UpFrames, Put(<<f>>)
  PROVE  Future' = Entry(Future, f)
<1>1. outq \in Seq(UpFrames) /\ outq' = Append(outq, f)
  BY Types, PutOne DEF Put
<1> QED BY <1>1, FoldAppend DEF Future

(* Two frames, *)
LEMMA FuturePutTwo ==
  ASSUME TypeOK, entry' = entry, NEW f \in UpFrames, NEW g \in UpFrames, Put(<<f, g>>)
  PROVE  Future' = Entry(Entry(Future, f), g)
<1>1. outq \in Seq(UpFrames) /\ outq' = Append(Append(outq, f), g) /\ Append(outq, f) \in Seq(UpFrames)
  BY Types, PutTwo DEF Put
<1>2. Future' = Entry(FoldLeft(Entry, entry, Append(outq, f)), g)
  BY <1>1, FoldAppend DEF Future
<1>3. FoldLeft(Entry, entry, Append(outq, f)) = Entry(Future, f)
  BY <1>1, FoldAppend DEF Future
<1> QED BY <1>2, <1>3

(* and three. *)
LEMMA FuturePutThree ==
  ASSUME TypeOK, entry' = entry, NEW f \in UpFrames, NEW g \in UpFrames, NEW h \in UpFrames, Put(<<f, g, h>>)
  PROVE  Future' = Entry(Entry(Entry(Future, f), g), h)
<1> DEFINE q == Append(Append(outq, f), g)
<1>1. /\ outq \in Seq(UpFrames) /\ outq' = Append(q, h)
      /\ Append(outq, f) \in Seq(UpFrames) /\ q \in Seq(UpFrames)
  BY Types, PutThree DEF Put
<1>2. FoldLeft(Entry, entry, q) = Entry(FoldLeft(Entry, entry, Append(outq, f)), g)
  BY <1>1, FoldAppend
<1> HIDE DEF q
<1>3. Future' = Entry(FoldLeft(Entry, entry, q), h)
  BY <1>1, FoldAppend DEF Future
<1>4. FoldLeft(Entry, entry, Append(outq, f)) = Entry(Future, f)
  BY <1>1, FoldAppend DEF Future
<1> QED BY <1>2, <1>3, <1>4

(* Reading the first frame takes it from the queue to the entry. *)
LEMMA FutureRead ==
  ASSUME TypeOK, outq # <<>>, outq' = Tail(outq), HandleMessage(Head(outq))
  PROVE  Future' = Future
BY Types, FoldHead DEF Future, HandleMessage

(* The entry to come is one, whatever its fields. *)
LEMMA FutureType ==
  ASSUME TypeOK
  PROVE  Future \in Entries
<1> DEFINE n == Len(outq)
<1>0. n \in Nat /\ outq \in Seq(UpFrames) /\ entry \in Entries
  BY Types
<1>1. PICK h : After(entry, outq, n, h) /\ Future = h[n]
  BY <1>0, FoldIsLast DEF Future
<1> DEFINE Good == {i \in Nat : i <= n => h[i] \in Entries}
<1>2. 0 \in Good
  BY <1>0, <1>1 DEF After
<1>3. ASSUME NEW i \in Nat, i \in Good PROVE i + 1 \in Good
  <2> SUFFICES ASSUME i + 1 <= n PROVE h[i + 1] \in Entries
    OBVIOUS
  <2> DEFINE j == i + 1
  <2>1. j \in 0 .. n /\ j # 0 /\ j - 1 = i /\ h[i] \in Entries /\ outq[j] \in UpFrames
    BY <1>0, <1>3
  <2> HIDE DEF j
  <2>2. h[j] = Entry(h[j - 1], outq[j])
    BY <1>1, <2>1 DEF After
  <2>3. h[j] \in Entries
    BY <2>1, <2>2, EntryType
  <2> QED BY <2>3 DEF j
<1> HIDE DEF Good
<1>4. \A i \in Nat : i \in Good
  BY <1>2, <1>3, SetInduction
<1> QED BY <1>0, <1>1, <1>4 DEF Good

(* What a frame does to an entry that the Fleet Manager has. *)
LEMMA EntryFields ==
  ASSUME NEW e \in Entries, e # Absent
  PROVE  /\ \A a \in BOOLEAN :
              /\ Entry(e, Heartbeat(a)) # Absent /\ Entry(e, Heartbeat(a)).awake = a
              /\ Entry(e, Heartbeat(a)).ready = e.ready
              /\ Entry(e, ScheduleState(a)) # Absent /\ Entry(e, ScheduleState(a)).awake = a
              /\ Entry(e, ScheduleState(a)).ready = e.ready
         /\ \A s \in SUBSET Models :
              /\ Entry(e, ModelStatus(s)) # Absent /\ Entry(e, ModelStatus(s)).ready = s
              /\ Entry(e, ModelStatus(s)).awake = e.awake
<1>1. e \in [awake: BOOLEAN, ready: SUBSET Models]
  BY DEF Entries
<1>2. ASSUME NEW a \in BOOLEAN
      PROVE  /\ [e EXCEPT !.awake = a] # Absent /\ [e EXCEPT !.awake = a].awake = a
             /\ [e EXCEPT !.awake = a].ready = e.ready
  <2>1. [e EXCEPT !.awake = a] \in [awake: BOOLEAN, ready: SUBSET Models]
    BY <1>1
  <2> QED BY <1>1, <2>1, NodeAssumption
<1>3. ASSUME NEW s \in SUBSET Models
      PROVE  /\ [e EXCEPT !.ready = s] # Absent /\ [e EXCEPT !.ready = s].ready = s
             /\ [e EXCEPT !.ready = s].awake = e.awake
  <2>1. [e EXCEPT !.ready = s] \in [awake: BOOLEAN, ready: SUBSET Models]
    BY <1>1
  <2> QED BY <1>1, <2>1, NodeAssumption
<1>4. /\ \A a : Entry(e, Heartbeat(a)) = [e EXCEPT !.awake = a] /\ Entry(e, ScheduleState(a)) = [e EXCEPT !.awake = a]
      /\ \A s : Entry(e, ModelStatus(s)) = [e EXCEPT !.ready = s]
  BY EntryCases
<1>5. ASSUME NEW a \in BOOLEAN
      PROVE  /\ Entry(e, Heartbeat(a)) # Absent /\ Entry(e, Heartbeat(a)).awake = a
             /\ Entry(e, Heartbeat(a)).ready = e.ready
             /\ Entry(e, ScheduleState(a)) # Absent /\ Entry(e, ScheduleState(a)).awake = a
             /\ Entry(e, ScheduleState(a)).ready = e.ready
  <2>1. Entry(e, Heartbeat(a)) = [e EXCEPT !.awake = a] /\ Entry(e, ScheduleState(a)) = [e EXCEPT !.awake = a]
    BY <1>4
  <2> QED BY <1>2, <2>1
<1>6. ASSUME NEW s \in SUBSET Models
      PROVE  /\ Entry(e, ModelStatus(s)) # Absent /\ Entry(e, ModelStatus(s)).ready = s
             /\ Entry(e, ModelStatus(s)).awake = e.awake
  <2>1. Entry(e, ModelStatus(s)) = [e EXCEPT !.ready = s]
    BY <1>4
  <2> QED BY <1>3, <2>1
<1> QED BY <1>5, <1>6

(* A Register makes an entry of anything. *)
LEMMA RegisterFields ==
  ASSUME NEW e, NEW a \in BOOLEAN
  PROVE  LET x == Entry(Entry(Entry(e, Register), CatalogRequest), Heartbeat(a))
         IN  x # Absent /\ x.awake = a
<1> DEFINE y == [awake |-> FALSE, ready |-> {}]
<1>1. y \in [awake: BOOLEAN, ready: SUBSET Models]
  OBVIOUS
<1>2. y \in Entries /\ y # Absent
  BY <1>1, NodeAssumption DEF Entries
<1>3. Entry(Entry(e, Register), CatalogRequest) = y
  BY EntryCases
<1> HIDE DEF y
<1> QED BY <1>2, <1>3, EntryFields

(* There is no connection at the start. *)
LEMMA InitGreeted == Init => Greeted
BY DEF Init, Greeted

(* From the greeting of a connection on, every frame the loop or a download
   queues keeps the entry to come what the node is. *)
LEMMA StepGreeted == TypeOK /\ Greeted /\ [Next]_vars => Greeted'
<1> SUFFICES ASSUME TypeOK, Greeted, [Next]_vars, alive', ~news', loop' # "looks"
             PROVE  /\ Future' # Absent /\ Future'.awake = awake'
                    /\ loop' = "waits" => Future'.ready = told'
  BY DEF Greeted
<1>0. /\ awake \in BOOLEAN /\ window \in BOOLEAN /\ Future \in Entries
      /\ Heartbeat(window) \in UpFrames /\ ScheduleState(window) \in UpFrames /\ Heartbeat(awake) \in UpFrames
      /\ Register \in UpFrames /\ CatalogRequest \in UpFrames /\ Done \in UpFrames
      /\ (alive => link \in {"draining", "up"} /\ connected)
  BY FramesAreFrames, FutureType DEF TypeOK
<1>1. CASE UNCHANGED <<alive, news, awake, told, entry, outq>> /\ (loop' = loop \/ (loop' = "reports" /\ loop = "waits"))
  <2>1. Future' = Future
    BY <1>1 DEF Future
  <2> QED BY <1>1, <2>1 DEF Greeted
<1>2. CASE Send
  <2>1. UNCHANGED <<alive, news, awake, told, loop>> /\ outq # <<>> /\ outq' = Tail(outq)
    BY <1>2 DEF Send, loopVars, reportVars
  <2>2. HandleMessage(Head(outq))
    BY <1>2, <2>1 DEF Send
  <2>3. Future' = Future
    BY <2>1, <2>2, FutureRead
  <2> QED BY <2>1, <2>3 DEF Greeted
<1>3. CASE Beat
  <2>1. UNCHANGED <<alive, news, told, loop, entry>> /\ awake' = window /\ loop = "waits"
    BY <1>3 DEF Beat, fmVars, reportVars
  <2>2. Future # Absent /\ Future.ready = told
    BY <2>1 DEF Greeted
  <2>3. CASE Put(<<Heartbeat(window)>>)
    <3>1. Future' = Entry(Future, Heartbeat(window))
      BY <1>0, <2>1, <2>3, FuturePut
    <3> QED BY <1>0, <2>1, <2>2, <3>1, EntryFields
  <2>4. CASE Put(<<ScheduleState(window), Heartbeat(window)>>)
    <3> DEFINE x == Entry(Future, ScheduleState(window))
    <3>1. Future' = Entry(x, Heartbeat(window))
      BY <1>0, <2>1, <2>4, FuturePutTwo
    <3>2. x \in Entries /\ x # Absent /\ x.ready = told
      BY <1>0, <2>2, EntryFields, EntryType
    <3> HIDE DEF x
    <3> QED BY <1>0, <2>1, <3>1, <3>2, EntryFields
  <2> QED BY <1>3, <2>3, <2>4 DEF Beat
<1>4. CASE Repoll \/ Answer
  <2>1. UNCHANGED <<alive, news, awake, told, loop, entry>>
    BY <1>4 DEF Repoll, Answer, fmVars, loopVars, reportVars
  <2>2. Future' = Entry(Future, CatalogRequest) \/ Future' = Entry(Future, Done)
    BY <1>0, <1>4, <2>1, FuturePut DEF Repoll, Answer
  <2>3. Future' = Future
    BY <2>2, EntryCases
  <2> QED BY <2>1, <2>3 DEF Greeted
<1>5. CASE Greet
  <2>1. UNCHANGED <<awake, entry>> /\ loop' = "reports"
    BY <1>5 DEF Greet, fmVars
  <2>2. Future' = Entry(Entry(Entry(Future, Register), CatalogRequest), Heartbeat(awake))
    BY <1>0, <1>5, <2>1, FuturePutThree DEF Greet
  <2> QED BY <1>0, <2>1, <2>2, RegisterFields
<1>6. ASSUME NEW w \in Senders, Report(w)
      PROVE  /\ Future' # Absent /\ Future'.awake = awake'
             /\ loop' = "waits" => Future'.ready = told'
  <2>1. UNCHANGED <<alive, news, awake, entry>> /\ told' = report[w]
    BY <1>6 DEF Report, fmVars
  <2>2. report[w] \in SUBSET Models /\ ModelStatus(report[w]) \in UpFrames
    BY <1>6, Types, FramesAreFrames DEF Report
  <2>3. Future' = Entry(Future, ModelStatus(report[w]))
    BY <1>6, <2>1, <2>2, FuturePut DEF Report
  <2>4. loop # "looks"
    BY <1>6 DEF Report, TypeOK
  <2>5. Future # Absent /\ Future.awake = awake
    BY <2>1, <2>4 DEF Greeted
  <2> QED BY <1>0, <2>1, <2>2, <2>3, <2>5, EntryFields
<1>7. CASE Connect \/ SendFails \/ Disconnected \/ Dies \/ TearDown \/ Changed \/ LookAway
  BY <1>0, <1>7 DEF Connect, SendFails, Disconnected, Dies, TearDown, Changed, LookAway, tunnelVars
<1>8. CASE \/ UNCHANGED vars \/ Drained \/ Read \/ Break \/ Dispatch \/ HandleCatalog \/ HandleDispatch \/ Turn
           \/ \E w \in Senders : ReadReady(w)
           \/ \E m \in Models : Download(m)
  <2>1. /\ UNCHANGED <<alive, news, awake, told, entry, outq>>
        /\ loop' = loop \/ (loop' = "reports" /\ loop = "waits")
    BY <1>8 DEF vars, Drained, Read, Break, Dispatch, HandleCatalog, HandleDispatch, Turn, ReadReady,
       Download, Fetched, FetchFails, tunnelVars, fmVars, loopVars, reportVars
  <2> QED BY <1>1, <2>1
<1> QED BY <1>2, <1>3, <1>4, <1>5, <1>6, <1>7, <1>8 DEF Next, Tunnel, Handle, Status

(* What was told last is what is ready, when no report is to come. *)
LEMMA GreetedIsOwed == Ordered /\ Greeted /\ TypeOK => StatusIsOwed
<1> SUFFICES ASSUME Ordered, Greeted, TypeOK, alive, ~news, loop = "waits"
             PROVE  /\ Future # Absent
                    /\ Future.awake = awake
                    /\ (\A w \in Senders : report[w] = Absent) /\ ~crossed => Future.ready = ready
  BY DEF StatusIsOwed, Future
<1>1. Future # Absent /\ Future.awake = awake /\ Future.ready = told
  BY DEF Greeted
<1>2. (\A w \in Senders : report[w] = Absent) /\ ~crossed => told = ready
  BY Types, NodeAssumption DEF Ordered
<1> QED BY <1>1, <1>2

(* What run sends over a connection suffices: once it has greeted it and waits,
   the frames on their way, read in order, leave the node registered, with its
   schedule state, and with the models it can serve unless reports crossed;
   for every catalog, every number of connections and however long the queue
   is (main.rs: run, tunnel.rs: run_loop). *)
THEOREM StatusOwed == Spec => []StatusIsOwed
BY TypeInit, TypeStep, InitOrdered, StepOrdered, InitGreeted, StepGreeted, GreetedIsOwed, PTL DEF Spec
=============================================================================
