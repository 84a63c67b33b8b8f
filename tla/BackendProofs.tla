---------------------------- MODULE BackendProofs ----------------------------
(***************************************************************************)
(* Theorems about Backend for every set of models and requests, every      *)
(* limit and every bound.                                                  *)
(***************************************************************************)
EXTENDS Backend, SequenceTheorems, Induction

(* Lists of models, each at most once, are what loaded_order holds. *)
Distinct(s) == \A i, j \in 1 .. Len(s) : s[i] = s[j] => i = j

In(x, s) == \E i \in 1 .. Len(s) : s[i] = x

LEMMA AbsentIsNoModel == Absent \notin Models /\ Absent \notin Requests
BY BackendAssumption

(* RemoveAt, element by element. *)
LEMMA RemovedAt ==
  ASSUME NEW S, NEW s \in Seq(S), NEW k \in 1 .. Len(s)
  PROVE  /\ RemoveAt(s, k) \in Seq(S)
         /\ Len(RemoveAt(s, k)) = Len(s) - 1
         /\ \A i \in 1 .. Len(s) - 1 :
              RemoveAt(s, k)[i] = IF i < k THEN s[i] ELSE s[i + 1]
<1> DEFINE a == SubSeq(s, 1, k - 1)
           b == SubSeq(s, k + 1, Len(s))
           c == a \o b
<1>1. /\ a \in Seq(S) /\ Len(a) = k - 1
      /\ \A i \in 1 .. k - 1 : a[i] = s[i]
  BY SubSeqProperties
<1>2. /\ b \in Seq(S) /\ Len(b) = Len(s) - k
      /\ \A i \in 1 .. Len(s) - k : b[i] = s[k + i]
  <2>1. Len(b) = Len(s) - k /\ b \in Seq(S)
    BY SubSeqProperties
  <2>2. ASSUME NEW i \in 1 .. Len(s) - k PROVE b[i] = s[k + i]
    BY SubSeqProperties
  <2> QED BY <2>1, <2>2
<1>3. RemoveAt(s, k) = c
  BY DEF RemoveAt
<1> HIDE DEF a, b
<1>4. /\ c \in Seq(S)
      /\ Len(c) = Len(a) + Len(b)
      /\ \A i \in 1 .. Len(a) + Len(b) :
           c[i] = IF i <= Len(a) THEN a[i] ELSE b[i - Len(a)]
  BY <1>1, <1>2, ConcatProperties
<1> HIDE DEF c
<1>5. Len(a) + Len(b) = Len(s) - 1
  BY <1>1, <1>2
<1>6. ASSUME NEW i \in 1 .. Len(s) - 1
      PROVE  c[i] = IF i < k THEN s[i] ELSE s[i + 1]
  <2>1. CASE i < k
    BY <1>1, <1>4, <1>5, <2>1
  <2>2. CASE i >= k
    <3>1. i - Len(a) \in 1 .. Len(s) - k /\ k + (i - Len(a)) = i + 1
      BY <1>1, <2>2
    <3>2. ~(i <= Len(a)) /\ i \in 1 .. Len(a) + Len(b)
      BY <1>1, <1>5, <2>2
    <3>3. c[i] = b[i - Len(a)]
      BY <1>4, <3>2
    <3>4. b[i - Len(a)] = s[i + 1]
      BY <1>2, <3>1
    <3> QED BY <2>2, <3>3, <3>4
  <2> QED BY <2>1, <2>2
<1> QED BY <1>3, <1>4, <1>5, <1>6

(* Without takes out its element, and nothing else, and keeps the order. *)
LEMMA WithoutRemoves ==
  ASSUME NEW S, NEW s \in Seq(S), NEW x, Distinct(s)
  PROVE  /\ Without(s, x) \in Seq(S)
         /\ Distinct(Without(s, x))
         /\ ~In(x, Without(s, x))
         /\ \A y : y # x => (In(y, Without(s, x)) <=> In(y, s))
         /\ \A i, j \in 1 .. Len(Without(s, x)) : i < j =>
              \E k, l \in 1 .. Len(s) :
                k < l /\ Without(s, x)[i] = s[k] /\ Without(s, x)[j] = s[l]
         /\ s # <<>> /\ s[Len(s)] # x =>
              /\ Without(s, x) # <<>>
              /\ Without(s, x)[Len(Without(s, x))] = s[Len(s)]
<1>1. CASE ~In(x, s)
  BY <1>1 DEF Without, In
<1>2. CASE In(x, s)
  <2> DEFINE k == CHOOSE i \in 1 .. Len(s) : s[i] = x
             w == Without(s, x)
  <2>1. k \in 1 .. Len(s) /\ s[k] = x
    BY <1>2 DEF In
  <2>2. w = RemoveAt(s, k)
    BY <1>2 DEF Without, In
  <2> HIDE DEF k
  <2>3. /\ w \in Seq(S)
        /\ Len(w) = Len(s) - 1
        /\ \A i \in 1 .. Len(s) - 1 : w[i] = IF i < k THEN s[i] ELSE s[i + 1]
    BY <2>1, <2>2, RemovedAt
  <2> HIDE DEF w
  <2>4. Distinct(w)
    BY <2>1, <2>3 DEF Distinct
  <2>5. ~In(x, w)
    BY <2>1, <2>3 DEF In, Distinct
  <2>6. ASSUME NEW y, y # x PROVE In(y, w) <=> In(y, s)
    <3>1. ASSUME In(y, w) PROVE In(y, s)
      <4>1. PICK i \in 1 .. Len(s) - 1 : w[i] = y
        BY <2>3, <3>1 DEF In
      <4>2. i \in 1 .. Len(s) /\ i + 1 \in 1 .. Len(s)
        BY <2>1
      <4>3. s[i] = y \/ s[i + 1] = y
        BY <2>3, <4>1
      <4> QED BY <4>2, <4>3 DEF In
    <3>2. ASSUME In(y, s) PROVE In(y, w)
      <4>1. PICK i \in 1 .. Len(s) : s[i] = y
        BY <3>2 DEF In
      <4>2. i # k
        BY <2>1, <2>6, <4>1
      <4>3. CASE i < k
        <5>1. i \in 1 .. Len(w) /\ w[i] = y
          BY <2>1, <2>3, <4>1, <4>3
        <5> QED BY <5>1 DEF In
      <4>4. CASE i > k
        <5>1. i - 1 \in 1 .. Len(w) /\ w[i - 1] = y
          BY <2>1, <2>3, <4>1, <4>4
        <5> QED BY <5>1 DEF In
      <4> QED BY <2>1, <4>2, <4>3, <4>4
    <3> QED BY <3>1, <3>2
  <2>7. ASSUME NEW i \in 1 .. Len(w), NEW j \in 1 .. Len(w), i < j
        PROVE  \E h, l \in 1 .. Len(s) : h < l /\ w[i] = s[h] /\ w[j] = s[l]
    <3> DEFINE up(n) == IF n < k THEN n ELSE n + 1
    <3>1. up(i) \in 1 .. Len(s) /\ up(j) \in 1 .. Len(s) /\ up(i) < up(j)
      BY <2>1, <2>3, <2>7
    <3>2. w[i] = s[up(i)] /\ w[j] = s[up(j)]
      BY <2>1, <2>3
    <3> QED BY <3>1, <3>2
  <2>8. ASSUME s # <<>>, s[Len(s)] # x
        PROVE  w # <<>> /\ w[Len(w)] = s[Len(s)]
    <3>1. k < Len(s)
      BY <2>1, <2>8
    <3>2. Len(w) \in 1 .. Len(s) - 1 /\ ~(Len(w) < k) /\ Len(w) + 1 = Len(s)
      BY <2>1, <2>3, <3>1
    <3> QED BY <2>3, <3>2
  <2> QED BY <2>3, <2>4, <2>5, <2>6, <2>7, <2>8 DEF w
<1> QED BY <1>1, <1>2
-----------------------------------------------------------------------------
(* Type correctness. *)

LEMMA WithoutIsSeq ==
  ASSUME NEW S, NEW s \in Seq(S), NEW x
  PROVE  Without(s, x) \in Seq(S)
<1>1. CASE \E i \in 1 .. Len(s) : s[i] = x
  <2> DEFINE k == CHOOSE i \in 1 .. Len(s) : s[i] = x
  <2>1. k \in 1 .. Len(s)
    BY <1>1
  <2>2. Without(s, x) = RemoveAt(s, k)
    BY <1>1 DEF Without
  <2> HIDE DEF k
  <2> QED BY <2>1, <2>2, RemovedAt
<1> QED BY <1>1 DEF Without

(* The model the worker works for is one. *)
LEMMA ModelIsOne ==
  ASSUME TypeOK, worker \in AtWork
  PROVE  Model \in Models /\ job \in Requests
BY AbsentIsNoModel DEF TypeOK, Model

LEMMA QueueType ==
  ASSUME TypeOK, NEW t \in {"TokenChunk", "Done", "Error"}, NEW r \in Requests, NEW i \in Nat,
         Queue(t, r, i)
  PROVE  out' \in Seq(Frame)
BY DEF TypeOK, Queue, Frame

LEMMA TypeInit == Init => TypeOK
BY AbsentIsNoModel, BackendAssumption DEF Init, TypeOK, Places, AtWork

LEMMA TypeStep == TypeOK /\ [Next]_vars => TypeOK'
<1> SUFFICES ASSUME TypeOK, [Next]_vars PROVE TypeOK'
  OBVIOUS
<1> USE AbsentIsNoModel
<1>0. Limit \in Nat /\ MaxTokens \in Nat \ {0} /\ MaxDownloads \in Nat
  BY BackendAssumption
<1>1. ASSUME NEW m \in Models, DownloadEnds(m) PROVE TypeOK'
  BY <1>0, <1>1 DEF TypeOK, DownloadEnds, workerVars, Places, AtWork
<1>2. ASSUME NEW m \in Models, register(m) PROVE TypeOK'
  BY <1>2 DEF TypeOK, register, workerVars, Places, AtWork
<1>3. ASSUME NEW x \in Prompts, DispatchRefused(x[1], x[2]) PROVE TypeOK'
  <2>1. x[1] \in Requests /\ x[2] \in Models
    BY BackendAssumption
  <2>2. out' \in Seq(Frame)
    BY <1>3, <2>1, QueueType DEF DispatchRefused
  <2> QED BY <1>3, <2>1, <2>2 DEF TypeOK, DispatchRefused, diskVars, workerVars, Places, AtWork
<1>4. ASSUME NEW x \in Prompts, Dispatch(x[1], x[2]) PROVE TypeOK'
  <2>1. x[1] \in Requests /\ x[2] \in Models
    BY BackendAssumption
  <2> QED BY <1>4, <2>1 DEF TypeOK, Dispatch, diskVars, workerVars, Places, AtWork
<1>5. CASE BackendStarts \/ BackendFails
  <2>1. jobs' \in Seq(Requests)
    <3>1. jobs' = jobs \/ jobs' = <<>>
      BY <1>5 DEF BackendStarts, BackendFails
    <3>2. jobs \in Seq(Requests)
      BY DEF TypeOK
    <3> QED BY <3>1, <3>2, EmptySeq
  <2>2. worker' \in Places /\ worker' \notin AtWork /\ worker \notin AtWork
    BY <1>5 DEF BackendStarts, BackendFails, Places, AtWork
  <2>3. worker' \notin {"evicting", "loading"}
    BY <1>5 DEF BackendStarts, BackendFails
  <2>4. UNCHANGED <<disk, fetched, downloads, ready, asked, job, size, loaded, order, index, out,
                    used>>
    BY <1>5 DEF BackendStarts, BackendFails, diskVars
  <2> QED BY <2>1, <2>2, <2>3, <2>4 DEF TypeOK
<1>6. CASE TakeJob
  <2>1. Head(jobs) \in Requests /\ Tail(jobs) \in Seq(Requests)
    BY <1>6 DEF TakeJob, TypeOK
  <2> QED BY <1>6, <2>1 DEF TypeOK, TakeJob, diskVars, Places, AtWork
<1>7. CASE RefuseJob
  <2>1. Head(jobs) \in Requests /\ Tail(jobs) \in Seq(Requests)
    BY <1>7 DEF RefuseJob, TypeOK
  <2>2. out' \in Seq(Frame)
    BY <1>7, <2>1, QueueType DEF RefuseJob
  <2> QED BY <1>7, <2>1, <2>2 DEF TypeOK, RefuseJob, diskVars, workerVars, Places, AtWork
<1>8. ASSUME worker \in AtWork, Fail, loaded' \in [Models -> Nat] PROVE TypeOK'
  <2>1. out' \in Seq(Frame)
    BY <1>8, ModelIsOne, QueueType DEF Fail
  <2> QED BY <1>0, <1>8, <2>1 DEF TypeOK, Fail, Rest, diskVars, Places, AtWork
<1>9. CASE RefuseArtifact \/ LoadFails \/ GenerateFails
  BY <1>8, <1>9 DEF TypeOK, RefuseArtifact, LoadFails, GenerateFails, Fail, AtWork
<1>10. ASSUME worker \in AtWork, touch_loaded(Model)
       PROVE order' \in Seq(Models) /\ used' \in Seq(Models)
  BY <1>10, ModelIsOne, WithoutIsSeq DEF TypeOK, touch_loaded
<1>11. CASE UseLoaded
  <2>1. order' \in Seq(Models) /\ used' \in Seq(Models)
    BY <1>10, <1>11 DEF UseLoaded, AtWork
  <2> QED BY <1>11, <2>1 DEF TypeOK, UseLoaded, diskVars, Places, AtWork
<1>12. CASE Measure
  <2>1. Model \in Models
    BY <1>12, ModelIsOne DEF Measure, AtWork
  <2> QED BY <1>12, <2>1 DEF TypeOK, Measure, Fits, diskVars, Places, AtWork
<1>13. CASE Evict
  <2>1. order' \in Seq(Models)
    BY <1>13, WithoutIsSeq DEF TypeOK, Evict
  <2>2. loaded' \in [Models -> Nat]
    BY <1>13 DEF TypeOK, Evict
  <2> QED BY <1>13, <2>1, <2>2 DEF TypeOK, Evict, Trimming, diskVars, Places, AtWork
<1>14. CASE RoomMade \/ Settled
  BY <1>14 DEF TypeOK, RoomMade, Settled, diskVars, Places, AtWork
<1>15. CASE Load
  <2>1. order' \in Seq(Models) /\ used' \in Seq(Models)
    BY <1>10, <1>15 DEF Load, AtWork
  <2>2. size \in Nat
    BY <1>15, BackendAssumption DEF TypeOK, Load
  <2> QED BY <1>15, <2>1, <2>2 DEF TypeOK, Load, diskVars, Places, AtWork
<1>16. CASE Token
  <2>1. out' \in Seq(Frame)
    <3>1. job \in Requests /\ index \in Nat
      BY <1>16, ModelIsOne DEF Token, TypeOK, AtWork
    <3> QED BY <1>16, <3>1, QueueType DEF Token, TypeOK
  <2> QED BY <1>0, <1>16, <2>1 DEF TypeOK, Token, diskVars, Places, AtWork
<1>17. CASE Finish
  <2>1. out' \in Seq(Frame)
    BY <1>17, ModelIsOne, QueueType DEF Finish, AtWork
  <2> QED BY <1>0, <1>17, <2>1 DEF TypeOK, Finish, Rest, diskVars, Places, AtWork
<1>18. CASE UNCHANGED vars
  BY <1>18 DEF TypeOK, vars, diskVars, workerVars, Places, AtWork
<1> QED
  BY <1>1, <1>2, <1>3, <1>4, <1>5, <1>6, <1>7, <1>9, <1>11, <1>12, <1>13, <1>14, <1>15,
     <1>16, <1>17, <1>18 DEF Next, Worker, Generate

(* Every variable of the backend keeps its type: in particular a job has a  *)
(* model while it is worked on, and what is loaded next has been measured  *)
(* and fits the limit (backend.rs: generate).                              *)
THEOREM TypeCorrect == Spec => []TypeOK
BY TypeInit, TypeStep, PTL DEF Spec
-----------------------------------------------------------------------------
(* loaded_order and loaded.                                                *)

\* The list of models by their last use: each loaded model once, in order, and
\* the one in use last.  Nothing else in the code keeps the two in step.
Sorted == \A i, j \in 1 .. Len(order) : i < j => UsedBefore(order[i], order[j])

Latest ==
  worker \in {"settling", "generating"} => order # <<>> /\ order[Len(order)] = Model

Listed == \A m \in Models : loaded[m] # 0 <=> In(m, order)

OrderInv == Distinct(order) /\ Listed /\ Sorted /\ Latest

LEMMA OrderInit == Init => OrderInv
BY DEF Init, OrderInv, Distinct, In, Listed, Sorted, Latest

(* A use moves a model to the end of the list, and leaves the others in the *)
(* order of their last uses.                                               *)
LEMMA TouchKeeps ==
  ASSUME TypeOK, Distinct(order), Sorted, NEW m \in Models, touch_loaded(m)
  PROVE  /\ Distinct(order)' /\ Sorted'
         /\ order' # <<>> /\ order'[Len(order')] = m
         /\ \A y : In(y, order)' <=> (y = m \/ In(y, order))
<1> DEFINE w == Without(order, m)
<1>1. /\ w \in Seq(Models) /\ Distinct(w) /\ ~In(m, w)
      /\ \A y : y # m => (In(y, w) <=> In(y, order))
      /\ \A i, j \in 1 .. Len(w) : i < j =>
           \E k, l \in 1 .. Len(order) : k < l /\ w[i] = order[k] /\ w[j] = order[l]
  BY WithoutRemoves DEF TypeOK
<1> HIDE DEF w
<1>2. order' = Append(w, m) /\ used' = Append(used, m)
  BY DEF touch_loaded, w
<1>3. /\ Len(order') = Len(w) + 1
      /\ \A i \in 1 .. Len(w) : order'[i] = w[i]
      /\ order'[Len(w) + 1] = m
  BY <1>1, <1>2
<1>4. /\ Len(used') = Len(used) + 1 /\ Len(used) \in Nat
      /\ \A i \in 1 .. Len(used) : used'[i] = used[i]
      /\ used'[Len(used) + 1] = m
  BY <1>2 DEF TypeOK
<1>5. Distinct(order)'
  BY <1>1, <1>3 DEF Distinct, In
<1>6. ASSUME NEW i \in 1 .. Len(order'), NEW j \in 1 .. Len(order'), i < j
      PROVE  UsedBefore(order[i], order[j])'
  <2>1. i \in 1 .. Len(w) /\ order'[i] = w[i] /\ w[i] # m
    BY <1>1, <1>3, <1>6 DEF In
  <2>2. CASE j = Len(w) + 1
    <3>1. order'[j] = m
      BY <1>3, <2>2
    <3>2. Len(used) + 1 \in 1 .. Len(used')
      BY <1>4
    <3>3. \A k \in Len(used) + 1 .. Len(used') : used'[k] # order'[i]
      BY <1>4, <2>1
    <3> QED BY <1>4, <3>1, <3>2, <3>3 DEF UsedBefore
  <2>3. CASE j # Len(w) + 1
    <3>1. j \in 1 .. Len(w) /\ order'[j] = w[j]
      BY <1>1, <1>3, <2>3
    <3>2. UsedBefore(w[i], w[j])
      BY <1>1, <1>6, <2>1, <3>1 DEF Sorted
    <3>3. PICK h \in 1 .. Len(used) : used[h] = w[j] /\ \A k \in h .. Len(used) : used[k] # w[i]
      BY <3>2 DEF UsedBefore
    <3>4. h \in 1 .. Len(used') /\ used'[h] = w[j]
      BY <1>4, <3>3
    <3>5. \A k \in h .. Len(used') : used'[k] # w[i]
      BY <1>4, <2>1, <3>3
    <3> QED BY <2>1, <3>1, <3>4, <3>5 DEF UsedBefore
  <2> QED BY <2>2, <2>3
<1>7. Sorted'
  BY <1>6 DEF Sorted
<1>8. ASSUME NEW y PROVE In(y, order)' <=> (y = m \/ In(y, order))
  <2>1. In(y, order)' <=> (y = m \/ In(y, w))
    BY <1>1, <1>3 DEF In
  <2> QED BY <1>1, <2>1
<1> QED BY <1>1, <1>3, <1>5, <1>7, <1>8

(* Steps that leave the lists alone, and the worker's job if it uses a model. *)
LEMMA OrderStays ==
  ASSUME OrderInv, UNCHANGED <<loaded, order, used>>,
         worker' \in {"settling", "generating"} =>
           worker \in {"settling", "generating"} /\ Model' = Model
  PROVE  OrderInv'
<1>1. Distinct(order)' /\ Listed'
  BY DEF OrderInv, Distinct, Listed, In
<1>2. Sorted'
  BY DEF OrderInv, Sorted, UsedBefore
<1>3. Latest'
  BY DEF OrderInv, Latest
<1> QED BY <1>1, <1>2, <1>3 DEF OrderInv

(* An eviction takes the same model from both, and never the one in use.   *)
LEMMA OldestIsCandidate ==
  ASSUME TypeOK, Candidates # {}
  PROVE  \E i \in 1 .. Len(order) :
           /\ Oldest = order[i] /\ Oldest # Spared /\ Oldest \in Models /\ loaded[Oldest] # 0
           /\ \A j \in 1 .. Len(order) :
                order[j] # Spared /\ loaded[order[j]] # 0 => i <= j
<1> DEFINE first(i) == \A j \in Candidates : i <= j
<1>1. \E i \in Candidates : first(i)
  <2>1. Candidates \in SUBSET Nat
    BY DEF Candidates, TypeOK
  <2>2. PICK n \in Candidates : TRUE
    OBVIOUS
  <2>3. IsWellFoundedOn(OpToRel(<, Nat), Nat)
    BY NatLessThanWellFounded
  <2>4. PICK i \in Candidates : \A j \in Candidates : <<j, i>> \notin OpToRel(<, Nat)
    <3> HIDE DEF Candidates
    <3> QED BY <2>1, <2>2, <2>3, WFMin
  <2>5. \A j \in Candidates : j \in Nat /\ i \in Nat /\ ~(j < i)
    BY <2>1, <2>4 DEF OpToRel
  <2> QED BY <2>5
<1>2. PICK i \in Candidates : i = CHOOSE k \in Candidates : first(k)
  BY <1>1
<1>3. first(i)
  BY <1>1, <1>2
<1>4. Oldest = order[i]
  BY <1>2 DEF Oldest
<1>5. i \in 1 .. Len(order) /\ order[i] # Spared /\ loaded[order[i]] # 0 /\ order[i] \in Models
  BY DEF Candidates, TypeOK
<1>6. \A j \in 1 .. Len(order) : order[j] # Spared /\ loaded[order[j]] # 0 => i <= j
  BY <1>3 DEF Candidates
<1> QED BY <1>4, <1>5, <1>6

LEMMA EvictKeeps ==
  ASSUME TypeOK, OrderInv, Evict
  PROVE  OrderInv'
<1> DEFINE m == Oldest
           w == Without(order, m)
<1>1. m \in Models /\ m # Spared
  BY OldestIsCandidate DEF Evict
<1>2. order' = w /\ loaded' = [loaded EXCEPT ![m] = 0]
      /\ UNCHANGED <<worker, job, asked, used>>
  BY DEF Evict
<1>3. /\ w \in Seq(Models) /\ Distinct(w) /\ ~In(m, w)
      /\ \A y : y # m => (In(y, w) <=> In(y, order))
      /\ \A i, j \in 1 .. Len(w) : i < j =>
           \E k, l \in 1 .. Len(order) : k < l /\ w[i] = order[k] /\ w[j] = order[l]
      /\ order # <<>> /\ order[Len(order)] # m => w # <<>> /\ w[Len(w)] = order[Len(order)]
  BY WithoutRemoves DEF TypeOK, OrderInv
<1> HIDE DEF m, w
<1>4. Distinct(order)'
  BY <1>2, <1>3 DEF Distinct
<1>5. Listed'
  <2>1. \A y : In(y, order)' <=> In(y, w)
    BY <1>2 DEF In
  <2> QED BY <1>1, <1>2, <1>3, <2>1 DEF Listed, OrderInv, TypeOK
<1>6. Sorted'
  <2>1. \A i, j \in 1 .. Len(w) : i < j => UsedBefore(w[i], w[j])
    BY <1>3 DEF OrderInv, Sorted
  <2> QED BY <1>2, <2>1 DEF Sorted, UsedBefore
<1>7. Latest'
  <2>1. CASE worker = "settling"
    BY <1>1, <1>2, <1>3, <2>1 DEF Latest, OrderInv, Spared, Model
  <2>2. CASE worker = "evicting"
    BY <1>2, <2>2 DEF Latest
  <2> QED BY <2>1, <2>2 DEF Evict, Trimming
<1> QED BY <1>4, <1>5, <1>6, <1>7 DEF OrderInv

LEMMA OrderStep == TypeOK /\ OrderInv /\ [Next]_vars => OrderInv'
<1> SUFFICES ASSUME TypeOK, OrderInv, [Next]_vars PROVE OrderInv'
  OBVIOUS
<1> USE AbsentIsNoModel
<1>1. CASE \E m \in Models : DownloadEnds(m) \/ register(m)
  BY <1>1, OrderStays DEF DownloadEnds, register, workerVars, Model
<1>2. ASSUME NEW x \in Prompts, DispatchRefused(x[1], x[2]) \/ Dispatch(x[1], x[2])
      PROVE  OrderInv'
  <2>1. UNCHANGED <<worker, job, loaded, order, used>>
    BY <1>2 DEF DispatchRefused, Dispatch, workerVars
  <2>2. worker \in {"settling", "generating"} => asked'[job] = asked[job]
    BY <1>2, ModelIsOne DEF DispatchRefused, Dispatch, TypeOK, AtWork, Model
  <2> QED BY <2>1, <2>2, OrderStays DEF Model
<1>3. CASE BackendStarts \/ BackendFails \/ TakeJob \/ RefuseJob \/ Measure \/ RoomMade
           \/ RefuseArtifact \/ LoadFails \/ GenerateFails \/ Finish
  <2>1. UNCHANGED <<loaded, order, used>>
    BY <1>3 DEF BackendStarts, BackendFails, TakeJob, RefuseJob, Measure, RoomMade, workerVars,
                RefuseArtifact, LoadFails, GenerateFails, Finish, Fail
  <2>2. worker' \notin {"settling", "generating"}
    BY <1>3 DEF BackendStarts, BackendFails, TakeJob, RefuseJob, Measure, RoomMade, workerVars,
                RefuseArtifact, LoadFails, GenerateFails, Finish, Fail, Rest
  <2> QED BY <2>1, <2>2, OrderStays
<1>4. CASE Settled \/ Token
  BY <1>4, OrderStays DEF Settled, Token, Model
<1>5. ASSUME worker \in AtWork, touch_loaded(Model), worker' = "settling",
             UNCHANGED <<job, asked>>,
             \A m \in Models : loaded'[m] # 0 <=> m = Model \/ loaded[m] # 0
      PROVE  OrderInv'
  <2>1. Model \in Models /\ Model' = Model
    BY <1>5, ModelIsOne DEF Model
  <2>2. /\ Distinct(order)' /\ Sorted' /\ order' # <<>> /\ order'[Len(order')] = Model
        /\ \A y : In(y, order)' <=> (y = Model \/ In(y, order))
    BY <1>5, <2>1, TouchKeeps DEF OrderInv
  <2>3. Listed'
    BY <1>5, <2>2 DEF OrderInv, Listed
  <2>4. Latest'
    BY <2>1, <2>2 DEF Latest
  <2> QED BY <2>2, <2>3, <2>4 DEF OrderInv
<1>6. CASE UseLoaded
  BY <1>5, <1>6 DEF UseLoaded, AtWork
<1>7. CASE Load
  <2>1. size # 0 /\ Model \in Models
    BY <1>7, ModelIsOne, BackendAssumption DEF Load, TypeOK, AtWork
  <2>2. \A m \in Models : loaded'[m] # 0 <=> m = Model \/ loaded[m] # 0
    BY <1>7, <2>1 DEF Load, TypeOK
  <2> QED BY <1>5, <1>7, <2>2 DEF Load, AtWork
<1>8. CASE Evict
  BY <1>8, EvictKeeps
<1>9. CASE UNCHANGED vars
  BY <1>9, OrderStays DEF vars, workerVars, Model
<1> QED
  BY <1>1, <1>2, <1>3, <1>4, <1>6, <1>7, <1>8, <1>9 DEF Next, Worker, Generate

(* The list behind the mutex and the worker's models agree, and the model  *)
(* of a generation is loaded (backend.rs: trim_loaded_to_budget,           *)
(* touch_loaded and the expect after them).                                *)
THEOREM OrderAgrees == Spec => []OrderIsLoaded
<1>1. TypeOK /\ OrderInv => OrderIsLoaded
  <2> SUFFICES ASSUME TypeOK, OrderInv PROVE OrderIsLoaded
    OBVIOUS
  <2>1. worker \in {"settling", "generating"} => loaded[Model] # 0
    <3> SUFFICES ASSUME worker \in {"settling", "generating"} PROVE loaded[Model] # 0
      OBVIOUS
    <3>1. Model \in Models
      BY ModelIsOne DEF AtWork
    <3>2. Len(order) \in 1 .. Len(order)
      BY DEF OrderInv, Latest, TypeOK
    <3>3. In(Model, order)
      BY <3>2 DEF OrderInv, Latest, In
    <3> QED BY <3>1, <3>3 DEF OrderInv, Listed
  <2> QED BY <2>1 DEF OrderIsLoaded, OrderInv, Distinct, Listed, In
<1> QED BY <1>1, TypeInit, TypeStep, OrderInit, OrderStep, PTL DEF Spec

(* A model that is evicted was used before every model that stays          *)
(* (backend.rs: trim_loaded_to_budget), for every limit and every size.    *)
THEOREM OldestIsEvicted == Spec => EvictsLeastRecent
<1> DEFINE Good ==
      \A m, k \in Models :
        loaded[m] # 0 /\ loaded'[m] = 0 /\ loaded[k] # 0 /\ loaded'[k] # 0 => UsedBefore(m, k)
<1>1. TypeOK /\ OrderInv /\ [Next]_vars => [Good]_vars
  <2> SUFFICES ASSUME TypeOK, OrderInv, Next, NEW m \in Models, NEW k \in Models,
                      loaded[m] # 0, loaded'[m] = 0, loaded[k] # 0, loaded'[k] # 0
               PROVE  UsedBefore(m, k)
    BY DEF vars
  <2>1. CASE Evict
    <3>1. m = Oldest /\ k # m
      BY <2>1 DEF Evict, TypeOK
    <3>2. PICK i \in 1 .. Len(order) :
            /\ Oldest = order[i] /\ Oldest # Spared
            /\ \A j \in 1 .. Len(order) :
                 order[j] # Spared /\ loaded[order[j]] # 0 => i <= j
      BY <2>1, OldestIsCandidate DEF Evict
    <3>3. PICK j \in 1 .. Len(order) : order[j] = k
      BY DEF OrderInv, Listed, In
    <3>4. i < j
      <4>1. CASE k # Spared
        BY <3>1, <3>2, <3>3, <4>1
      <4>2. CASE k = Spared
        <5>1. order[Len(order)] = Model /\ Model = k
          BY <4>2, AbsentIsNoModel DEF OrderInv, Latest, Spared
        <5>2. j = Len(order)
          <6>1. Len(order) \in 1 .. Len(order)
            BY <3>3 DEF TypeOK
          <6> QED BY <3>3, <5>1, <6>1 DEF OrderInv, Distinct
        <5> QED BY <3>1, <3>2, <3>3, <5>2
      <4> QED BY <4>1, <4>2
    <3> QED BY <3>1, <3>2, <3>3, <3>4 DEF OrderInv, Sorted
  <2>2. CASE Load
    BY <2>2, BackendAssumption DEF Load, TypeOK
  <2>3. CASE ~Evict /\ ~Load
    <3>1. loaded' = loaded
      BY <2>3 DEF Next, Worker, Generate, DownloadEnds, register, DispatchRefused, Dispatch,
           BackendStarts, BackendFails, TakeJob, RefuseJob, UseLoaded, RefuseArtifact, Measure,
           RoomMade, LoadFails, Settled, GenerateFails, Finish, Token, Fail, workerVars
    <3> QED BY <3>1
  <2> QED BY <2>1, <2>2, <2>3
<1>2. EvictsLeastRecent <=> [][Good]_vars
  BY DEF EvictsLeastRecent
<1> QED BY <1>1, <1>2, TypeInit, TypeStep, OrderInit, OrderStep, PTL DEF Spec

-----------------------------------------------------------------------------
(* The refinement of NodeService.                                          *)

Held(r) == r = job \/ In(r, jobs)

\* A request is in one place only, and has no frame before the worker takes
\* it; the one at work has token chunks of the indices it has passed.
JobsInv ==
  /\ Distinct(jobs)
  /\ \A i \in 1 .. Len(jobs) : asked[jobs[i]] # Absent /\ jobs[i] # job
  /\ \A k \in 1 .. Len(out) :
       /\ asked[out[k].req] # Absent /\ ~In(out[k].req, jobs)
       /\ out[k].req = job => out[k].t = "TokenChunk" /\ out[k].index < index

LEMMA QueueEffect ==
  ASSUME TypeOK, NEW t, NEW r, NEW i, Queue(t, r, i)
  PROVE  /\ Len(out') = Len(out) + 1 /\ Len(out) \in Nat
         /\ \A k \in 1 .. Len(out) : out'[k] = out[k]
         /\ out'[Len(out) + 1] = [t |-> t, req |-> r, index |-> i]
         /\ \A q : Answered(q)' <=> Answered(q) \/ (q = r /\ t # "TokenChunk")
<1>1. /\ Len(out') = Len(out) + 1 /\ Len(out) \in Nat
      /\ \A k \in 1 .. Len(out) : out'[k] = out[k]
      /\ out'[Len(out) + 1] = [t |-> t, req |-> r, index |-> i]
  BY DEF TypeOK, Queue
<1>2. ASSUME NEW q PROVE Answered(q)' <=> Answered(q) \/ (q = r /\ t # "TokenChunk")
  BY <1>1 DEF Answered
<1> QED BY <1>1, <1>2

(* The head of the channel, and the rest of it. *)
LEMMA HeadAndTail ==
  ASSUME NEW S, NEW s \in Seq(S), s # <<>>, Distinct(s)
  PROVE  /\ Head(s) \in S /\ Tail(s) \in Seq(S) /\ Head(s) = s[1]
         /\ Distinct(Tail(s)) /\ ~In(Head(s), Tail(s))
         /\ \A y : In(y, s) <=> (y = Head(s) \/ In(y, Tail(s)))
<1>1. /\ Head(s) \in S /\ Tail(s) \in Seq(S) /\ Len(Tail(s)) = Len(s) - 1 /\ Len(s) \in Nat
      /\ \A i \in 1 .. Len(s) - 1 : Tail(s)[i] = s[i + 1]
      /\ Head(s) = s[1] /\ 1 \in 1 .. Len(s)
  OBVIOUS
<1> DEFINE u == Tail(s)
<1> HIDE DEF u
<1>2. Distinct(u)
  BY <1>1 DEF Distinct, u
<1>3. ~In(s[1], u)
  BY <1>1 DEF Distinct, In, u
<1>4. ASSUME NEW y PROVE In(y, s) <=> (y = s[1] \/ In(y, u))
  <2>1. ASSUME In(y, s), y # s[1] PROVE In(y, u)
    <3>1. PICK i \in 1 .. Len(s) : s[i] = y
      BY <2>1 DEF In
    <3>2. i - 1 \in 1 .. Len(u) /\ u[i - 1] = y
      BY <1>1, <2>1, <3>1 DEF u
    <3> QED BY <3>2 DEF In
  <2>2. ASSUME In(y, u) PROVE In(y, s)
    BY <1>1, <2>2 DEF In, u
  <2>3. In(s[1], s)
    BY <1>1 DEF In
  <2> QED BY <2>1, <2>2, <2>3
<1> QED BY <1>1, <1>2, <1>3, <1>4 DEF u

LEMMA JobsInit == Init => JobsInv
BY DEF Init, JobsInv, Distinct, In

(* Steps that queue nothing and move no request. *)
LEMMA JobsStay ==
  ASSUME TypeOK, JobsInv, UNCHANGED <<asked, jobs, job, out>>,
         index' = index \/ index' = index + 1
  PROVE  JobsInv'
<1>1. ASSUME NEW k \in 1 .. Len(out) PROVE out[k].index < index => out[k].index < index'
  <2>1. out[k] \in Frame /\ index \in Nat
    BY DEF TypeOK
  <2> QED BY <2>1 DEF Frame
<1> QED BY <1>1 DEF JobsInv, Distinct, In

(* Frames of the job at work, which it may leave. *)
LEMMA JobFrame ==
  ASSUME TypeOK, JobsInv, worker \in AtWork, UNCHANGED <<asked, jobs>>,
         NEW f, f.req = job, out' = Append(out, f),
         \/ job' = Absent
         \/ job' = job /\ f.t = "TokenChunk" /\ f.index = index /\ index' = index + 1
  PROVE  JobsInv'
<1>1. job \in Requests /\ asked[job] # Absent /\ ~In(job, jobs)
  BY ModelIsOne, AbsentIsNoModel DEF Model, JobsInv, In
<1>2. /\ Len(out') = Len(out) + 1 /\ Len(out) \in Nat
      /\ \A k \in 1 .. Len(out) : out'[k] = out[k]
      /\ out'[Len(out) + 1] = f
  BY DEF TypeOK
<1>3. Distinct(jobs)' /\ \A q : In(q, jobs)' <=> In(q, jobs)
  BY DEF JobsInv, Distinct, In
<1>4. \A k \in 1 .. Len(jobs') : asked'[jobs'[k]] # Absent /\ jobs'[k] # job'
  <2> SUFFICES ASSUME NEW k \in 1 .. Len(jobs) PROVE jobs[k] # job'
    BY DEF JobsInv
  <2>1. jobs[k] \in Requests
    BY DEF TypeOK
  <2> QED BY <2>1, AbsentIsNoModel DEF JobsInv
<1>5. ASSUME NEW k \in 1 .. Len(out')
      PROVE  /\ asked'[out'[k].req] # Absent /\ ~In(out'[k].req, jobs')
             /\ out'[k].req = job' => out'[k].t = "TokenChunk" /\ out'[k].index < index'
  <2>1. CASE k = Len(out) + 1
    BY <1>1, <1>2, <1>3, <2>1, AbsentIsNoModel DEF TypeOK
  <2>2. CASE k # Len(out) + 1
    <3>1. k \in 1 .. Len(out) /\ out'[k] = out[k] /\ out[k] \in Frame
      BY <1>2, <2>2 DEF TypeOK
    <3> QED BY <1>3, <3>1, AbsentIsNoModel DEF JobsInv, Frame, TypeOK
  <2> QED BY <2>1, <2>2
<1> QED BY <1>3, <1>4, <1>5 DEF JobsInv

(* A request that is new has no frame, and is neither queued nor at work. *)
LEMMA NewIsNew ==
  ASSUME TypeOK, JobsInv, NEW r \in Requests, asked[r] = Absent
  PROVE  r # job /\ ~In(r, jobs) /\ ~Answered(r) /\ \A k \in 1 .. Len(out) : out[k].req # r
<1>1. r # job
  BY AbsentIsNoModel DEF TypeOK
<1> QED BY <1>1 DEF JobsInv, In, Answered

LEMMA JobsStep == TypeOK /\ JobsInv /\ [Next]_vars => JobsInv'
<1> SUFFICES ASSUME TypeOK, JobsInv, [Next]_vars PROVE JobsInv'
  OBVIOUS
<1> USE AbsentIsNoModel
<1>1. CASE \/ \E m \in Models : DownloadEnds(m) \/ register(m)
           \/ BackendStarts \/ UseLoaded \/ Measure \/ Evict \/ RoomMade \/ Load \/ Settled
           \/ UNCHANGED vars
  BY <1>1, JobsStay DEF DownloadEnds, register, BackendStarts, UseLoaded, Measure, Evict, RoomMade,
                        Load, Settled, vars, workerVars
<1>2. ASSUME NEW x \in Prompts, DispatchRefused(x[1], x[2]) PROVE JobsInv'
  <2> DEFINE r == x[1]
  <2>1. r \in Requests /\ x[2] \in Models /\ x[2] # Absent
    BY BackendAssumption
  <2> HIDE DEF r
  <2>2. /\ asked[r] = Absent /\ asked' = [asked EXCEPT ![r] = x[2]] /\ Queue("Error", r, 0)
        /\ UNCHANGED <<jobs, job, index>>
    BY <1>2 DEF DispatchRefused, workerVars, r
  <2>3. \A q \in Requests : asked[q] # Absent => asked'[q] # Absent
    BY <2>1, <2>2 DEF TypeOK
  <2>8. /\ Len(out') = Len(out) + 1 /\ Len(out) \in Nat
        /\ \A k \in 1 .. Len(out) : out'[k] = out[k]
        /\ out'[Len(out) + 1] = [t |-> "Error", req |-> r, index |-> 0]
    BY <2>2, QueueEffect
  <2>4. \A k \in 1 .. Len(jobs) : jobs[k] \in Requests
    BY DEF TypeOK
  <2>5. Distinct(jobs)' /\ \A q : In(q, jobs)' <=> In(q, jobs)
    BY <2>2 DEF JobsInv, Distinct, In
  <2>6. \A k \in 1 .. Len(jobs') : asked'[jobs'[k]] # Absent /\ jobs'[k] # job'
    BY <2>2, <2>3, <2>4 DEF JobsInv
  <2>7. ASSUME NEW k \in 1 .. Len(out')
        PROVE  /\ asked'[out'[k].req] # Absent /\ ~In(out'[k].req, jobs')
               /\ out'[k].req = job' => out'[k].t = "TokenChunk" /\ out'[k].index < index'
    <3>1. CASE k = Len(out) + 1
      <4>1. out'[k].req = r /\ asked'[r] # Absent
        BY <2>1, <2>2, <2>8, <3>1 DEF TypeOK
      <4>2. r # job /\ ~In(r, jobs)
        BY <2>1, <2>2, NewIsNew
      <4> QED BY <2>2, <2>5, <4>1, <4>2
    <3>2. CASE k # Len(out) + 1
      <4>1. k \in 1 .. Len(out) /\ out'[k] = out[k] /\ out[k] \in Frame
        <5>1. k \in 1 .. Len(out)
          BY <2>8, <3>2
        <5> QED BY <2>8, <5>1 DEF TypeOK
      <4> QED BY <2>2, <2>3, <2>5, <4>1 DEF JobsInv, Frame
    <3> QED BY <3>1, <3>2
  <2> QED BY <2>5, <2>6, <2>7 DEF JobsInv
<1>3. ASSUME NEW x \in Prompts, Dispatch(x[1], x[2]) PROVE JobsInv'
  <2> DEFINE r == x[1]
  <2>1. r \in Requests /\ x[2] \in Models /\ x[2] # Absent
    BY BackendAssumption
  <2> HIDE DEF r
  <2>2. /\ asked[r] = Absent /\ asked' = [asked EXCEPT ![r] = x[2]] /\ jobs' = Append(jobs, r)
        /\ UNCHANGED <<out, job, index>>
    BY <1>3 DEF Dispatch, workerVars, r
  <2>3. asked'[r] # Absent /\ \A q \in Requests : asked[q] # Absent => asked'[q] # Absent
    BY <2>1, <2>2 DEF TypeOK
  <2>4. /\ Len(jobs') = Len(jobs) + 1 /\ Len(jobs) \in Nat /\ jobs'[Len(jobs) + 1] = r
        /\ \A k \in 1 .. Len(jobs) : jobs'[k] = jobs[k] /\ jobs[k] \in Requests /\ jobs[k] # r
    BY <2>1, <2>2, NewIsNew DEF TypeOK, In
  <2>5. Distinct(jobs)' /\ \A q : In(q, jobs)' <=> q = r \/ In(q, jobs)
    BY <2>4 DEF JobsInv, Distinct, In
  <2>6. \A k \in 1 .. Len(jobs') : asked'[jobs'[k]] # Absent /\ jobs'[k] # job'
    BY <2>1, <2>2, <2>3, <2>4, NewIsNew DEF JobsInv
  <2>7. ASSUME NEW k \in 1 .. Len(out')
        PROVE  /\ asked'[out'[k].req] # Absent /\ ~In(out'[k].req, jobs')
               /\ out'[k].req = job' => out'[k].t = "TokenChunk" /\ out'[k].index < index'
    <3>1. k \in 1 .. Len(out) /\ out'[k] = out[k] /\ out[k] \in Frame
      BY <2>2 DEF TypeOK
    <3>2. out[k].req \in Requests
      BY <3>1 DEF Frame
    <3>3. out[k].req # r
      BY <2>1, <2>2, <3>1, NewIsNew
    <3> QED BY <2>2, <2>3, <2>5, <3>1, <3>2, <3>3 DEF JobsInv
  <2> QED BY <2>5, <2>6, <2>7 DEF JobsInv
<1>4. CASE BackendFails
  <2>1. jobs' = <<>> /\ UNCHANGED <<asked, job, out, index>>
    BY <1>4 DEF BackendFails
  <2> QED BY <2>1 DEF JobsInv, Distinct, In
<1>5. CASE TakeJob
  <2>1. /\ jobs # <<>> /\ job' = Head(jobs) /\ jobs' = Tail(jobs) /\ UNCHANGED <<asked, out>>
    BY <1>5 DEF TakeJob
  <2>2. /\ Head(jobs) \in Requests /\ Head(jobs) = jobs[1]
        /\ Distinct(jobs') /\ ~In(job', jobs')
        /\ \A y : In(y, jobs) <=> (y = job' \/ In(y, jobs'))
    BY <2>1, HeadAndTail DEF TypeOK, JobsInv
  <2>3. \A k \in 1 .. Len(jobs') : jobs'[k] # job' /\ asked[jobs'[k]] # Absent
    <3> SUFFICES ASSUME NEW k \in 1 .. Len(jobs') PROVE jobs'[k] # job' /\ asked[jobs'[k]] # Absent
      OBVIOUS
    <3>1. In(jobs'[k], jobs')
      BY DEF In
    <3>2. PICK l \in 1 .. Len(jobs) : jobs[l] = jobs'[k]
      BY <2>2, <3>1 DEF In
    <3>3. jobs'[k] # job'
      BY <2>2, <3>1
    <3> QED BY <3>2, <3>3 DEF JobsInv
  <2>4. \A k \in 1 .. Len(out) : ~In(out[k].req, jobs') /\ out[k].req # job'
    BY <2>2 DEF JobsInv
  <2> QED BY <2>1, <2>2, <2>3, <2>4 DEF JobsInv
<1>6. CASE RefuseJob
  <2> DEFINE r == Head(jobs)
  <2>1. /\ jobs # <<>> /\ jobs' = Tail(jobs) /\ UNCHANGED <<asked, job, index>>
        /\ Queue("Error", r, 0)
    BY <1>6 DEF RefuseJob, workerVars
  <2>2. /\ r \in Requests /\ r = jobs[1]
        /\ Distinct(jobs') /\ ~In(r, jobs')
        /\ \A y : In(y, jobs) <=> (y = r \/ In(y, jobs'))
    BY <2>1, HeadAndTail DEF TypeOK, JobsInv
  <2>3. asked[r] # Absent /\ r # job
    <3>1. In(r, jobs)
      BY <2>2
    <3> QED BY <3>1 DEF JobsInv, In
  <2> HIDE DEF r
  <2>8. /\ Len(out') = Len(out) + 1 /\ Len(out) \in Nat
        /\ \A k \in 1 .. Len(out) : out'[k] = out[k]
        /\ out'[Len(out) + 1] = [t |-> "Error", req |-> r, index |-> 0]
    BY <2>1, QueueEffect
  <2>4. ASSUME NEW k \in 1 .. Len(jobs') PROVE jobs'[k] # job' /\ asked[jobs'[k]] # Absent
    <3>1. In(jobs'[k], jobs')
      BY DEF In
    <3> QED BY <2>1, <2>2, <3>1 DEF JobsInv, In
  <2>5. ASSUME NEW k \in 1 .. Len(out')
        PROVE  /\ asked'[out'[k].req] # Absent /\ ~In(out'[k].req, jobs')
               /\ out'[k].req = job' => out'[k].t = "TokenChunk" /\ out'[k].index < index'
    <3>1. CASE k = Len(out) + 1
      BY <2>1, <2>2, <2>3, <2>8, <3>1
    <3>2. CASE k # Len(out) + 1
      <4>1. k \in 1 .. Len(out) /\ out'[k] = out[k]
        BY <2>8, <3>2
      <4> QED BY <2>1, <2>2, <4>1 DEF JobsInv
    <3> QED BY <3>1, <3>2
  <2> QED BY <2>1, <2>2, <2>4, <2>5 DEF JobsInv
<1>7. CASE RefuseArtifact \/ LoadFails \/ GenerateFails \/ Finish
  <2>1. worker \in AtWork /\ job' = Absent /\ UNCHANGED <<asked, jobs>>
    BY <1>7 DEF RefuseArtifact, LoadFails, GenerateFails, Finish, Fail, Rest, AtWork
  <2>2. Queue("Error", job, 0) \/ Queue("Done", job, 0)
    BY <1>7 DEF RefuseArtifact, LoadFails, GenerateFails, Finish, Fail
  <2>3. PICK f : f.req = job /\ out' = Append(out, f)
    BY <2>2 DEF Queue
  <2> QED BY <2>1, <2>3, JobFrame
<1>8. CASE Token
  <2>1. worker \in AtWork /\ job' = job /\ index' = index + 1 /\ UNCHANGED <<asked, jobs>>
    BY <1>8 DEF Token, AtWork
  <2>2. CASE UNCHANGED out
    BY <2>1, <2>2, JobsStay
  <2>3. CASE Queue("TokenChunk", job, index)
    <3> DEFINE f == [t |-> "TokenChunk", req |-> job, index |-> index]
    <3>1. f.req = job /\ f.t = "TokenChunk" /\ f.index = index /\ out' = Append(out, f)
      BY <2>3 DEF Queue
    <3> HIDE DEF f
    <3> QED BY <2>1, <3>1, JobFrame
  <2> QED BY <1>8, <2>2, <2>3 DEF Token
<1> QED
  BY <1>1, <1>2, <1>3, <1>4, <1>5, <1>6, <1>7, <1>8 DEF Next, Worker, Generate

Mapped == [r \in Requests |-> ServiceState(r)]

LEMMA StateOf ==
  ASSUME TypeOK, NEW r \in Requests
  PROVE  /\ asked[r] = Absent => ServiceState(r) = "new"
         /\ asked[r] # Absent /\ Answered(r) => ServiceState(r) = "over"
         /\ asked[r] # Absent /\ ~Answered(r) /\ Held(r) => ServiceState(r) = "held"
         /\ asked[r] # Absent /\ ~Answered(r) /\ ~Held(r) => ServiceState(r) = "lost"
<1>1. r \in Range(jobs) <=> In(r, jobs)
  <2>1. DOMAIN jobs = 1 .. Len(jobs)
    BY DEF TypeOK
  <2> QED BY <2>1 DEF Range, In
<1> QED BY <1>1 DEF ServiceState, Held

(* Where a request stands depends on three things. *)
LEMMA SameState ==
  ASSUME TypeOK, TypeOK', NEW r \in Requests,
         asked'[r] = asked[r], Answered(r)' <=> Answered(r), Held(r)' <=> Held(r)
  PROVE  ServiceState(r)' = ServiceState(r)
<1>1. /\ asked'[r] = Absent => ServiceState(r)' = "new"
      /\ asked'[r] # Absent /\ Answered(r)' => ServiceState(r)' = "over"
      /\ asked'[r] # Absent /\ ~Answered(r)' /\ Held(r)' => ServiceState(r)' = "held"
      /\ asked'[r] # Absent /\ ~Answered(r)' /\ ~Held(r)' => ServiceState(r)' = "lost"
  <2>1. r \in Range(jobs') <=> In(r, jobs')
    <3>1. DOMAIN jobs' = 1 .. Len(jobs')
      BY DEF TypeOK
    <3> QED BY <3>1 DEF Range, In
  <2>2. In(r, jobs)' <=> In(r, jobs')
    BY DEF In
  <2> QED BY <2>1, <2>2 DEF ServiceState, Held
<1> QED BY <1>1, StateOf

(* Steps that move no request stutter. *)
LEMMA Stutters ==
  ASSUME TypeOK, TypeOK', UNCHANGED <<asked, out>>, \A r \in Requests : Held(r)' <=> Held(r)
  PROVE  UNCHANGED <<Mapped, out>>
<1>1. \A r \in Requests : ServiceState(r)' = ServiceState(r)
  BY SameState DEF Answered
<1> QED BY <1>1 DEF Mapped

(* Steps that move one request. *)
LEMMA MovesOne ==
  ASSUME TypeOK, TypeOK', NEW r \in Requests, NEW v, ServiceState(r)' = v,
         \A q \in Requests : q # r =>
           asked'[q] = asked[q] /\ (Answered(q)' <=> Answered(q)) /\ (Held(q)' <=> Held(q))
  PROVE  Mapped' = [Mapped EXCEPT ![r] = v]
<1>1. \A q \in Requests : q # r => ServiceState(q)' = ServiceState(q)
  BY SameState
<1> QED BY <1>1 DEF Mapped

(* A final frame for a request that was held. *)
LEMMA Finishes ==
  ASSUME TypeOK, TypeOK', NEW r \in Requests, asked[r] # Absent, ~Answered(r), Held(r),
         asked' = asked, Queue("Error", r, 0) \/ Queue("Done", r, 0),
         \A q \in Requests : q # r => (Held(q)' <=> Held(q))
  PROVE  /\ Mapped[r] = "held" /\ Mapped' = [Mapped EXCEPT ![r] = "over"]
         /\ \E f \in Service!Final(r) : out' = Append(out, f)
<1>1. Mapped[r] = "held"
  BY StateOf DEF Mapped
<1>2. \A q : Answered(q)' <=> Answered(q) \/ q = r
  <2>1. CASE Queue("Error", r, 0)
    BY <2>1, QueueEffect
  <2>2. CASE Queue("Done", r, 0)
    BY <2>2, QueueEffect
  <2> QED BY <2>1, <2>2
<1>3. ServiceState(r)' = "over"
  BY <1>2 DEF ServiceState
<1>4. Mapped' = [Mapped EXCEPT ![r] = "over"]
  BY <1>2, <1>3, MovesOne
<1>5. \E f \in Service!Final(r) : out' = Append(out, f)
  BY DEF Queue, Service!Final
<1> QED BY <1>1, <1>4, <1>5

LEMMA RefineInit == Init => Service!Init
<1> SUFFICES ASSUME Init PROVE Service!Init
  OBVIOUS
<1>1. \A r \in Requests : ServiceState(r) = "new"
  BY DEF Init, ServiceState
<1> QED BY <1>1 DEF Init, Service!Init

(* The moves of NodeService, over Mapped. *)
MapAccept(r) == Mapped[r] = "new" /\ Mapped' = [Mapped EXCEPT ![r] = "held"] /\ UNCHANGED out

MapRefuse(r) ==
  /\ Mapped[r] = "new" /\ Mapped' = [Mapped EXCEPT ![r] = "over"]
  /\ out' = Append(out, [t |-> "Error", req |-> r, index |-> 0])

MapChunk(r) ==
  /\ Mapped[r] = "held" /\ UNCHANGED Mapped
  /\ \E i \in 0 .. MaxTokens - 1 :
       /\ \A k \in 1 .. Len(out) :
            out[k].t = "TokenChunk" /\ out[k].req = r => out[k].index < i
       /\ out' = Append(out, [t |-> "TokenChunk", req |-> r, index |-> i])

MapFinish(r) ==
  /\ Mapped[r] = "held" /\ Mapped' = [Mapped EXCEPT ![r] = "over"]
  /\ \E f \in Service!Final(r) : out' = Append(out, f)

MapLose ==
  /\ Mapped' = [r \in Requests |-> IF Mapped[r] = "held" THEN "lost" ELSE Mapped[r]]
  /\ UNCHANGED out

LEMMA MapNext ==
  ASSUME \/ \E r \in Requests : MapAccept(r) \/ MapRefuse(r) \/ MapChunk(r) \/ MapFinish(r)
         \/ MapLose
         \/ UNCHANGED <<Mapped, out>>
  PROVE  [Service!Next]_<<Mapped, out>>
BY DEF MapAccept, MapRefuse, MapChunk, MapFinish, MapLose, Mapped, Service!Next, Service!Accept,
       Service!Refuse, Service!Chunk, Service!Finish, Service!Lose

LEMMA RefineStep == TypeOK /\ JobsInv /\ TypeOK' /\ [Next]_vars => [Service!Next]_<<Mapped, out>>
<1> SUFFICES ASSUME TypeOK, JobsInv, TypeOK', [Next]_vars
             PROVE  [Service!Next]_<<Mapped, out>>
  OBVIOUS
<1> USE AbsentIsNoModel
<1>1. CASE \/ \E m \in Models : DownloadEnds(m) \/ register(m)
           \/ BackendStarts \/ UseLoaded \/ Measure \/ Evict \/ RoomMade \/ Load \/ Settled
           \/ UNCHANGED vars
  <2>1. UNCHANGED <<asked, jobs, job, out>>
    BY <1>1 DEF DownloadEnds, register, BackendStarts, UseLoaded, Measure, Evict, RoomMade, Load,
                Settled, vars, workerVars
  <2> QED BY <2>1, Stutters, MapNext DEF Held, In
<1>2. ASSUME NEW x \in Prompts, DispatchRefused(x[1], x[2]) PROVE [Service!Next]_<<Mapped, out>>
  <2> DEFINE r == x[1]
  <2>1. r \in Requests /\ x[2] \in Models /\ x[2] # Absent
    BY BackendAssumption
  <2>2. /\ asked[r] = Absent /\ asked' = [asked EXCEPT ![r] = x[2]] /\ Queue("Error", r, 0)
        /\ jobs' = jobs /\ job' = job
    BY <1>2 DEF DispatchRefused, workerVars
  <2> HIDE DEF r
  <2>3. \A q : Answered(q)' <=> Answered(q) \/ q = r
    BY <2>2, QueueEffect
  <2>4. Mapped[r] = "new"
    BY <2>1, <2>2, StateOf DEF Mapped
  <2>5. ServiceState(r)' = "over"
    BY <2>1, <2>2, <2>3 DEF ServiceState, TypeOK
  <2>6. \A q \in Requests : q # r =>
          asked'[q] = asked[q] /\ (Answered(q)' <=> Answered(q)) /\ (Held(q)' <=> Held(q))
    BY <2>1, <2>2, <2>3 DEF Held, In, TypeOK
  <2>7. Mapped' = [Mapped EXCEPT ![r] = "over"]
    BY <2>1, <2>5, <2>6, MovesOne
  <2>8. MapRefuse(r)
    BY <2>2, <2>4, <2>7 DEF MapRefuse, Queue
  <2> QED BY <2>1, <2>8, MapNext
<1>3. ASSUME NEW x \in Prompts, Dispatch(x[1], x[2]) PROVE [Service!Next]_<<Mapped, out>>
  <2> DEFINE r == x[1]
  <2>1. r \in Requests /\ x[2] \in Models /\ x[2] # Absent
    BY BackendAssumption
  <2>2. /\ asked[r] = Absent /\ asked' = [asked EXCEPT ![r] = x[2]] /\ jobs' = Append(jobs, r)
        /\ out' = out /\ job' = job
    BY <1>3 DEF Dispatch, workerVars
  <2> HIDE DEF r
  <2>9. /\ Len(jobs') = Len(jobs) + 1 /\ Len(jobs) \in Nat /\ jobs'[Len(jobs) + 1] = r
        /\ \A k \in 1 .. Len(jobs) : jobs'[k] = jobs[k]
        /\ jobs' \in Seq(Requests)
    BY <2>1, <2>2 DEF TypeOK
  <2>3. \A q : In(q, jobs)' <=> In(q, jobs) \/ q = r
    BY <2>9 DEF In
  <2>4. Mapped[r] = "new"
    BY <2>1, <2>2, StateOf DEF Mapped
  <2>5. ServiceState(r)' = "held"
    <3>1. asked'[r] # Absent
      BY <2>1, <2>2 DEF TypeOK
    <3>2. ~Answered(r)'
      BY <2>1, <2>2, NewIsNew DEF Answered
    <3>3. r \in Range(jobs')
      <4>1. Len(jobs') \in DOMAIN jobs' /\ jobs'[Len(jobs')] = r
        BY <2>9
      <4> QED BY <4>1 DEF Range
    <3> QED BY <3>1, <3>2, <3>3 DEF ServiceState
  <2>6. \A q \in Requests : q # r =>
          asked'[q] = asked[q] /\ (Answered(q)' <=> Answered(q)) /\ (Held(q)' <=> Held(q))
    BY <2>1, <2>2, <2>3 DEF Held, Answered, TypeOK
  <2>7. Mapped' = [Mapped EXCEPT ![r] = "held"]
    BY <2>1, <2>5, <2>6, MovesOne
  <2>8. MapAccept(r)
    BY <2>2, <2>4, <2>7 DEF MapAccept
  <2> QED BY <2>1, <2>8, MapNext
<1>4. CASE BackendFails
  <2>1. /\ jobs' = <<>> /\ asked' = asked /\ job' = job /\ out' = out /\ job = Absent
    BY <1>4 DEF BackendFails, TypeOK, AtWork
  <2>2. ASSUME NEW r \in Requests
        PROVE  ServiceState(r)' = IF Mapped[r] = "held" THEN "lost" ELSE Mapped[r]
    <3>1. ~(r \in Range(jobs')) /\ r # job'
      BY <2>1 DEF Range
    <3>2. Answered(r)' <=> Answered(r)
      BY <2>1 DEF Answered
    <3>3. ServiceState(r)' = CASE asked[r] = Absent -> "new"
                               [] asked[r] # Absent /\ Answered(r) -> "over"
                               [] OTHER -> "lost"
      BY <2>1, <3>1, <3>2 DEF ServiceState
    <3>4. Mapped[r] = ServiceState(r)
      BY DEF Mapped
    <3> QED BY <3>3, <3>4, StateOf
  <2>3. MapLose
    BY <2>1, <2>2 DEF MapLose, Mapped
  <2> QED BY <2>3, MapNext
<1>5. CASE TakeJob
  <2>1. /\ jobs # <<>> /\ job' = Head(jobs) /\ jobs' = Tail(jobs) /\ UNCHANGED <<asked, out>>
        /\ job = Absent
    BY <1>5 DEF TakeJob, TypeOK, AtWork
  <2>2. \A y : In(y, jobs) <=> (y = Head(jobs) \/ In(y, Tail(jobs)))
    BY <2>1, HeadAndTail DEF TypeOK, JobsInv
  <2>3. \A r \in Requests : Held(r)' <=> Held(r)
    BY <2>1, <2>2 DEF Held, In
  <2> QED BY <2>1, <2>3, Stutters, MapNext
<1>6. CASE RefuseJob
  <2> DEFINE r == Head(jobs)
  <2>1. /\ jobs # <<>> /\ jobs' = Tail(jobs) /\ asked' = asked /\ job' = job
        /\ Queue("Error", r, 0)
    BY <1>6 DEF RefuseJob, workerVars
  <2>2. /\ r \in Requests /\ In(r, jobs)
        /\ \A y : In(y, jobs) <=> (y = r \/ In(y, Tail(jobs)))
    BY <2>1, HeadAndTail DEF TypeOK, JobsInv
  <2> HIDE DEF r
  <2>3. asked[r] # Absent /\ ~Answered(r) /\ Held(r)
    BY <2>2 DEF JobsInv, In, Answered, Held
  <2>4. \A q \in Requests : q # r => (Held(q)' <=> Held(q))
    BY <2>1, <2>2 DEF Held, In
  <2>5. MapFinish(r)
    BY <2>1, <2>2, <2>3, <2>4, Finishes DEF MapFinish
  <2> QED BY <2>2, <2>5, MapNext
<1>7. CASE RefuseArtifact \/ LoadFails \/ GenerateFails \/ Finish
  <2>1. worker \in AtWork /\ job' = Absent /\ asked' = asked /\ jobs' = jobs
    BY <1>7 DEF RefuseArtifact, LoadFails, GenerateFails, Finish, Fail, Rest, AtWork
  <2>2. Queue("Error", job, 0) \/ Queue("Done", job, 0)
    BY <1>7 DEF RefuseArtifact, LoadFails, GenerateFails, Finish, Fail
  <2>3. job \in Requests /\ asked[job] # Absent /\ Held(job)
    BY <2>1, ModelIsOne DEF Model, Held
  <2>4. ~Answered(job)
    BY DEF JobsInv, Answered
  <2>5. \A q \in Requests : q # job => (Held(q)' <=> Held(q))
    BY <2>1 DEF Held, In
  <2>6. MapFinish(job)
    BY <2>1, <2>2, <2>3, <2>4, <2>5, Finishes DEF MapFinish
  <2> QED BY <2>3, <2>6, MapNext
<1>8. CASE Token
  <2>1. /\ worker \in AtWork /\ job' = job /\ UNCHANGED <<asked, jobs>>
        /\ index \in 0 .. MaxTokens - 1
    BY <1>8, BackendAssumption DEF Token, AtWork, TypeOK
  <2>2. \A r \in Requests : Held(r)' <=> Held(r)
    BY <2>1 DEF Held, In
  <2>3. CASE UNCHANGED out
    BY <2>1, <2>2, <2>3, Stutters, MapNext
  <2>4. CASE Queue("TokenChunk", job, index)
    <3>1. job \in Requests /\ asked[job] # Absent /\ Held(job) /\ ~Answered(job)
      BY <2>1, ModelIsOne DEF Model, Held, JobsInv, Answered
    <3>2. Mapped[job] = "held"
      BY <3>1, StateOf DEF Mapped
    <3>3. \A q \in Requests : Answered(q)' <=> Answered(q)
      BY <2>4, QueueEffect
    <3>4. UNCHANGED Mapped
      <4>1. \A r \in Requests : ServiceState(r)' = ServiceState(r)
        BY <2>1, <2>2, <3>3, SameState
      <4> QED BY <4>1 DEF Mapped
    <3>5. \A k \in 1 .. Len(out) :
            out[k].t = "TokenChunk" /\ out[k].req = job => out[k].index < index
      BY DEF JobsInv
    <3>6. MapChunk(job)
      BY <2>1, <2>4, <3>2, <3>4, <3>5 DEF MapChunk, Queue
    <3> QED BY <3>1, <3>6, MapNext
  <2> QED BY <1>8, <2>3, <2>4 DEF Token
<1> QED
  BY <1>1, <1>2, <1>3, <1>4, <1>5, <1>6, <1>7, <1>8 DEF Next, Worker, Generate

(* The backend keeps the promise of NodeService: a prompt is refused or    *)
(* held, gets its chunks in order and one final frame, and nothing after it *)
(* (backend.rs: dispatch, worker_loop, generate).                          *)
THEOREM ServiceIsKept == Spec => ServiceSpec
<1>1. TypeOK /\ JobsInv /\ TypeOK' /\ [Next]_vars => [Service!Next]_<<Mapped, out>>
  BY RefineStep
<1> QED
  BY <1>1, TypeInit, TypeStep, JobsInit, JobsStep, RefineInit, PTL
  DEF Spec, ServiceSpec, Service!Spec, Mapped

-----------------------------------------------------------------------------
(* The memory budget. *)

(* What is resident is a sum over the models, but for the one that is spared. *)
LEMMA ResidentIsTotal ==
  /\ WithinBudget <=> Total(loaded, Models) <= Limit
  /\ Resident = Total(loaded, Models \ {Spared})
BY DEF WithinBudget, Resident, MapThenSumSet, MapThenFoldSet, Total

(* What is resident fits, and while a model is being loaded it fits together *)
(* with that model.                                                        *)
Budgeted ==
  /\ Total(loaded, Models) <= Limit
  /\ worker = "loading" => Total(loaded, Models) + size <= Limit

(* The models are finitely many, and their sizes numbers. *)
LEMMA LoadedTotal ==
  ASSUME TypeOK
  PROVE  IsFiniteSet(Models) /\ loaded \in [Models -> Nat] /\ Total(loaded, Models) \in Nat
<1>1. IsFiniteSet(Models) /\ loaded \in [Models -> Nat]
  BY BackendAssumption DEF TypeOK
<1>2. \A m \in Models : loaded[m] \in Nat
  BY <1>1
<1> QED BY <1>1, <1>2, TotalSplits

(* A model that is loaded anew, or unloaded, changes the sum by its own size. *)
LEMMA LoadedChange ==
  ASSUME TypeOK, NEW m \in Models, NEW v \in Nat, loaded' = [loaded EXCEPT ![m] = v]
  PROVE  /\ Total(loaded, Models)' = v + Total(loaded, Models \ {m})
         /\ Total(loaded, Models) = loaded[m] + Total(loaded, Models \ {m})
         /\ Total(loaded, Models \ {m}) \in Nat /\ loaded[m] \in Nat
<1>1. IsFiniteSet(Models) /\ loaded \in [Models -> Nat]
  BY LoadedTotal
<1> DEFINE next == [loaded EXCEPT ![m] = v]
<1>2. /\ next \in [Models -> Nat] /\ next[m] = v
      /\ \A x \in Models \ {m} : next[x] = loaded[x]
  BY <1>1
<1> HIDE DEF next
<1>3. /\ \A x \in Models : next[x] \in Nat
      /\ \A x \in Models : loaded[x] \in Nat
      /\ \A x \in Models \ {m} : loaded[x] \in Nat
  BY <1>1, <1>2
<1>4. Total(loaded, Models) = loaded[m] + Total(loaded, Models \ {m})
  BY <1>1, <1>3, TotalSplits
<1>5. Total(next, Models) = next[m] + Total(next, Models \ {m})
  BY <1>1, <1>3, TotalSplits
<1>6. IsFiniteSet(Models \ {m})
  BY <1>1, FS_RemoveElement
<1>7. Total(next, Models \ {m}) = Total(loaded, Models \ {m}) /\ Total(loaded, Models \ {m}) \in Nat
  BY <1>2, <1>3, <1>6, TotalCongruent, TotalSplits
<1> QED BY <1>2, <1>3, <1>4, <1>5, <1>7 DEF next

(* Nothing is resident at the start. *)
LEMMA BudgetInit == Init => Budgeted
<1> SUFFICES ASSUME Init PROVE Budgeted
  OBVIOUS
<1>1. Total(loaded, Models) = 0
  BY BackendAssumption, TotalZero DEF Init
<1> QED BY <1>1, BackendAssumption DEF Init, Budgeted

(* The trim makes room before the load, or empties the backend; an unload only *)
(* frees, and the load takes what was reserved.                            *)
LEMMA BudgetStep == TypeOK /\ OrderInv /\ Budgeted /\ [Next]_vars => Budgeted'
<1> SUFFICES ASSUME TypeOK, OrderInv, Budgeted, [Next]_vars PROVE Budgeted'
  OBVIOUS
<1>0. Limit \in Nat /\ Total(loaded, Models) \in Nat
  BY BackendAssumption, LoadedTotal
<1>1. CASE UNCHANGED loaded /\ worker' # "loading"
  BY <1>1 DEF Budgeted
<1>2. CASE UNCHANGED <<loaded, worker, size>>
  BY <1>2 DEF Budgeted
<1>3. CASE Evict
  <2>1. Oldest \in Models
    BY <1>3, OldestIsCandidate DEF Evict
  <2>2. loaded' = [loaded EXCEPT ![Oldest] = 0]
    BY <1>3 DEF Evict
  <2>3. /\ Total(loaded, Models)' = 0 + Total(loaded, Models \ {Oldest})
        /\ Total(loaded, Models) = loaded[Oldest] + Total(loaded, Models \ {Oldest})
        /\ Total(loaded, Models \ {Oldest}) \in Nat /\ loaded[Oldest] \in Nat
    BY <2>1, <2>2, LoadedChange
  <2>4. worker' # "loading"
    BY <1>3 DEF Evict, Trimming
  <2> QED BY <1>0, <2>3, <2>4 DEF Budgeted
<1>4. CASE RoomMade
  <2>1. Spared = Absent /\ Reserved = size /\ size \in Nat /\ size <= Limit
    BY <1>4, BackendAssumption DEF RoomMade, Spared, Reserved, TypeOK
  <2>2. Resident = Total(loaded, Models)
    <3>1. Models \ {Spared} = Models
      BY <2>1, AbsentIsNoModel
    <3> QED BY <3>1, ResidentIsTotal
  <2>3. Total(loaded, Models) + size <= Limit
    <3>1. CASE ~OverBudget
      BY <1>0, <2>1, <2>2, <3>1 DEF OverBudget
    <3>2. CASE Candidates = {}
      <4>1. ASSUME NEW m \in Models PROVE loaded[m] = 0
        <5> SUFFICES ASSUME loaded[m] # 0 PROVE FALSE
          OBVIOUS
        <5>1. PICK i \in 1 .. Len(order) : order[i] = m
          BY DEF OrderInv, Listed, In
        <5>2. i \in Candidates
          BY <2>1, <5>1, AbsentIsNoModel DEF Candidates
        <5> QED BY <3>2, <5>2
      <4>2. Total(loaded, Models) = 0
        BY <4>1, BackendAssumption, TotalZero
      <4> QED BY <2>1, <4>2
    <3> QED BY <1>4, <3>1, <3>2 DEF RoomMade, Trimmed
  <2> QED BY <1>4, <2>3 DEF RoomMade, Budgeted
<1>5. CASE Load
  <2>1. Model \in Models /\ size \in Nat /\ size <= Limit
    BY <1>5, ModelIsOne, BackendAssumption DEF Load, AtWork, TypeOK
  <2>2. loaded' = [loaded EXCEPT ![Model] = size]
    BY <1>5 DEF Load
  <2>3. /\ Total(loaded, Models)' = size + Total(loaded, Models \ {Model})
        /\ Total(loaded, Models) = loaded[Model] + Total(loaded, Models \ {Model})
        /\ Total(loaded, Models \ {Model}) \in Nat /\ loaded[Model] \in Nat
    BY <2>1, <2>2, LoadedChange
  <2>4. Total(loaded, Models) + size <= Limit /\ worker' # "loading"
    BY <1>5 DEF Load, Budgeted
  <2> QED BY <1>0, <2>1, <2>3, <2>4 DEF Budgeted
<1>6. \/ UNCHANGED loaded /\ worker' # "loading"
      \/ UNCHANGED <<loaded, worker, size>>
      \/ Evict \/ RoomMade \/ Load
  BY DEF Next, Worker, Generate, DownloadEnds, register, DispatchRefused, Dispatch,
         BackendStarts, BackendFails, TakeJob, RefuseJob, UseLoaded, RefuseArtifact, Measure,
         LoadFails, Settled, GenerateFails, Finish, Fail, Rest, Token, vars, diskVars, workerVars
<1> QED BY <1>1, <1>2, <1>3, <1>4, <1>5, <1>6

(* The measured sizes of all loaded models together never exceed the limit, *)
(* for every limit, every number of models and all sizes: between the trim  *)
(* and the load, what is resident and what is reserved fit together         *)
(* (backend.rs: trim_loaded_to_budget, generate).                           *)
THEOREM BudgetIsKept == Spec => []WithinBudget
<1>1. Budgeted => WithinBudget
  BY ResidentIsTotal DEF Budgeted
<1> QED BY <1>1, TypeInit, TypeStep, OrderInit, OrderStep, BudgetInit, BudgetStep, PTL DEF Spec
=============================================================================
