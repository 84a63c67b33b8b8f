---------------------------- MODULE MacNodeProofs ----------------------------
(***************************************************************************)
(* Theorems about MacNode for every bound.                                 *)
(***************************************************************************)
EXTENDS MacNode, TLAPS

(* Bags, by the copies they have of each element.                          *)

(* A bag has a number of copies of everything, zero of what is not in it. *)
LEMMA CopiesOf ==
  ASSUME NEW B, IsABag(B), NEW e
  PROVE  /\ Copies(e, B) \in Nat
         /\ Copies(e, B) = IF e \in DOMAIN B THEN B[e] ELSE 0
         /\ (BagIn(e, B) <=> e \in DOMAIN B) /\ (e \in DOMAIN B => B[e] \in Nat /\ B[e] > 0)
         /\ BagToSet(B) = DOMAIN B
BY DEF IsABag, Copies, BagIn, BagToSet

(* The sum of two bags has the copies of both, *)
LEMMA BagSum ==
  ASSUME NEW A, IsABag(A), NEW B, IsABag(B)
  PROVE  /\ IsABag(A (+) B) /\ BagToSet(A (+) B) = BagToSet(A) \cup BagToSet(B)
         /\ \A e : Copies(e, A (+) B) = Copies(e, A) + Copies(e, B)
<1>1. A \in [DOMAIN A -> {n \in Nat : n > 0}] /\ B \in [DOMAIN B -> {n \in Nat : n > 0}]
  BY DEF IsABag
<1>2. \A e \in DOMAIN A : A[e] \in Nat /\ A[e] > 0
  BY <1>1
<1>3. \A e \in DOMAIN B : B[e] \in Nat /\ B[e] > 0
  BY <1>1
<1>4. A (+) B = [e \in (DOMAIN A) \cup (DOMAIN B) |->
                   (IF e \in DOMAIN A THEN A[e] ELSE 0) + (IF e \in DOMAIN B THEN B[e] ELSE 0)]
  BY DEF (+)
<1>5. DOMAIN (A (+) B) = (DOMAIN A) \cup (DOMAIN B)
  BY <1>4
<1>6. \A e \in (DOMAIN A) \cup (DOMAIN B) :
        /\ (A (+) B)[e] = (IF e \in DOMAIN A THEN A[e] ELSE 0) + (IF e \in DOMAIN B THEN B[e] ELSE 0)
        /\ (A (+) B)[e] \in Nat /\ (A (+) B)[e] > 0
  BY <1>2, <1>3, <1>4
<1>7. IsABag(A (+) B)
  BY <1>4, <1>5, <1>6 DEF IsABag
<1>8. ASSUME NEW e PROVE Copies(e, A (+) B) = Copies(e, A) + Copies(e, B)
  BY <1>2, <1>3, <1>5, <1>6 DEF Copies, BagIn, BagToSet
<1> QED BY <1>5, <1>7, <1>8 DEF BagToSet

(* and their difference those of the first without those of the second, which
   are no more. *)
LEMMA BagDifference ==
  ASSUME NEW A, IsABag(A), NEW B, IsABag(B)
  PROVE  /\ IsABag(A (-) B) /\ BagToSet(A (-) B) \subseteq BagToSet(A)
         /\ \A e : Copies(e, B) <= Copies(e, A) => Copies(e, A (-) B) = Copies(e, A) - Copies(e, B)
<1>1. A \in [DOMAIN A -> {n \in Nat : n > 0}] /\ B \in [DOMAIN B -> {n \in Nat : n > 0}]
  BY DEF IsABag
<1>2. \A e \in DOMAIN A : A[e] \in Nat /\ A[e] > 0
  BY <1>1
<1>3. \A e \in DOMAIN B : B[e] \in Nat /\ B[e] > 0
  BY <1>1
<1> DEFINE Left == [e \in DOMAIN A |-> IF e \in DOMAIN B THEN A[e] - B[e] ELSE A[e]]
           Rest == {d \in DOMAIN A : Left[d] > 0}
<1>4. A (-) B = [e \in Rest |-> Left[e]]
  BY DEF (-)
<1>5. \A e \in DOMAIN A : Left[e] = IF e \in DOMAIN B THEN A[e] - B[e] ELSE A[e]
  OBVIOUS
<1>6. \A e \in Rest : Left[e] \in Nat /\ Left[e] > 0 /\ e \in DOMAIN A
  BY <1>2, <1>3, <1>5
<1>7. \A e : e \in Rest <=> e \in DOMAIN A /\ Left[e] > 0
  OBVIOUS
<1> HIDE DEF Left, Rest
<1>8. DOMAIN (A (-) B) = Rest /\ \A e \in Rest : (A (-) B)[e] = Left[e]
  BY <1>4
<1>9. IsABag(A (-) B)
  BY <1>4, <1>6 DEF IsABag
<1>10. ASSUME NEW e, Copies(e, B) <= Copies(e, A)
       PROVE  Copies(e, A (-) B) = Copies(e, A) - Copies(e, B)
  <2>1. /\ Copies(e, A) = (IF e \in DOMAIN A THEN A[e] ELSE 0)
        /\ Copies(e, B) = (IF e \in DOMAIN B THEN B[e] ELSE 0)
        /\ Copies(e, A (-) B) = (IF e \in Rest THEN Left[e] ELSE 0)
    BY <1>8, <1>9, CopiesOf
  <2>2. CASE e \in DOMAIN A /\ e \in DOMAIN B
    BY <1>2, <1>3, <1>5, <1>7, <1>10, <2>1, <2>2
  <2>3. CASE e \in DOMAIN A /\ e \notin DOMAIN B
    BY <1>2, <1>5, <1>7, <2>1, <2>3
  <2>4. CASE e \notin DOMAIN A
    BY <1>3, <1>7, <1>10, <2>1, <2>4
  <2> QED BY <2>2, <2>3, <2>4
<1> QED BY <1>6, <1>8, <1>9, <1>10 DEF BagToSet

(* A set, as a bag, has one copy of each of its members. *)
LEMMA BagOfSet ==
  ASSUME NEW S
  PROVE  /\ IsABag(SetToBag(S)) /\ BagToSet(SetToBag(S)) = S
         /\ \A e : Copies(e, SetToBag(S)) = IF e \in S THEN 1 ELSE 0
<1>1. SetToBag(S) = [e \in S |-> 1]
  BY DEF SetToBag
<1>2. IsABag(SetToBag(S))
  BY <1>1 DEF IsABag
<1>3. DOMAIN SetToBag(S) = S /\ \A e \in S : SetToBag(S)[e] = 1
  BY <1>1
<1> QED BY <1>2, <1>3 DEF Copies, BagIn, BagToSet

(* The empty bag has none. *)
LEMMA EmptyIsBag ==
  /\ IsABag(EmptyBag) /\ BagToSet(EmptyBag) = {} /\ \A e : Copies(e, EmptyBag) = 0
<1>1. EmptyBag = SetToBag({})
  BY DEF EmptyBag
<1> QED BY <1>1, BagOfSet

(* Part of a bag is a bag, of no more of each. *)
LEMMA SubBags ==
  ASSUME NEW B, IsABag(B), NEW A \in Parts(B)
  PROVE  IsABag(A) /\ BagToSet(A) \subseteq BagToSet(B) /\ \A e : Copies(e, A) <= Copies(e, B)
<1>1. PICK S \in SUBSET DOMAIN B : \E k : A \in [S -> 1 .. k]
  BY DEF Parts, BagToSet
<1>2. \A e \in DOMAIN A : A[e] \in 1 .. B[e]
  BY DEF Parts
<1>3. DOMAIN A = S /\ A = [e \in S |-> A[e]]
  BY <1>1
<1>5. \A e \in S : A[e] \in Nat /\ A[e] > 0 /\ A[e] <= B[e]
  BY <1>2, <1>3, CopiesOf
<1>6. IsABag(A)
  BY <1>3, <1>5 DEF IsABag
<1>4. ASSUME NEW e PROVE Copies(e, A) <= Copies(e, B)
  BY <1>3, <1>5, <1>6, CopiesOf
<1> QED BY <1>3, <1>4, <1>6 DEF BagToSet

(* Bags of the members of a set are closed under what the model does with bags. *)
LEMMA BagsOf ==
  ASSUME NEW S, NEW A, IsBagOf(A, S), NEW B, IsBagOf(B, S)
  PROVE  /\ IsBagOf(A (+) B, S) /\ IsBagOf(A (-) B, S)
         /\ \A T \in SUBSET S : IsBagOf(SetToBag(T), S)
         /\ \A P \in Parts(A) : IsBagOf(P, S)
         /\ IsBagOf(EmptyBag, S)
BY BagSum, BagDifference, BagOfSet, EmptyIsBag, SubBags DEF IsBagOf

-----------------------------------------------------------------------------
(* Types.                                                                  *)

(* What the Fleet Manager has of the node. *)
Entries == {Absent} \cup [awake: BOOLEAN, ready: BOOLEAN]

(* The frames each side sends. *)
LEMMA FramesAreFrames ==
  /\ Register \in UpFrames /\ CatalogRequest \in UpFrames /\ AnswerFrames \subseteq UpFrames
  /\ \A a \in BOOLEAN : Heartbeat(a) \in UpFrames /\ ScheduleState(a) \in UpFrames /\ ModelStatus(a) \in UpFrames
  /\ Periodic \subseteq UpFrames
  /\ PromptDispatch \in DownFrames /\ \A o \in BOOLEAN : CatalogResponse(o) \in DownFrames
BY DEF UpFrames, Periodic, DownFrames

(* An answer is made of them. *)
LEMMA AnswersAreFrames == \A a \in Answers : a \subseteq AnswerFrames
BY DEF Answers, AnswerFrames

(* The kinds of frames. *)
LEMMA FrameKinds ==
  ASSUME NEW f \in UpFrames
  PROVE  \/ f = Register \/ f = CatalogRequest \/ f \in AnswerFrames
         \/ \E a \in BOOLEAN : f = Heartbeat(a) \/ f = ScheduleState(a) \/ f = ModelStatus(a)
BY DEF UpFrames

(* Every frame says of what kind it is. *)
LEMMA FrameTags ==
  /\ Register.t = "Register" /\ CatalogRequest.t = "CatalogRequest"
  /\ \A f \in AnswerFrames : f.t \in {"TokenChunk", "Done", "Error"}
  /\ \A a : /\ Heartbeat(a).t = "Heartbeat" /\ Heartbeat(a).awake = a
            /\ ScheduleState(a).t = "ScheduleState" /\ ScheduleState(a).awake = a
            /\ ModelStatus(a).t = "ModelStatus" /\ ModelStatus(a).ready = a
            /\ CatalogResponse(a).t = "CatalogResponse"
  /\ PromptDispatch.t = "PromptDispatch"
BY DEF Register, CatalogRequest, AnswerFrames, TokenChunk, Done, Error, Heartbeat, ScheduleState, ModelStatus,
       CatalogResponse, PromptDispatch

(* A frame leaves an entry, or none. *)
LEMMA EntryType ==
  ASSUME NEW e \in Entries, NEW f \in UpFrames
  PROVE  Entry(e, f) \in Entries
<1>1. CASE f = Register
  BY <1>1, FrameTags DEF Entry, Entries
<1>2. CASE f = CatalogRequest \/ f \in AnswerFrames
  <2>1. f.t \in {"CatalogRequest", "TokenChunk", "Done", "Error"}
    BY <1>2, FrameTags
  <2> QED BY <2>1 DEF Entry
<1>3. ASSUME NEW a \in BOOLEAN, f = Heartbeat(a) \/ f = ScheduleState(a) PROVE Entry(e, f) \in Entries
  <2>1. f.t \in {"Heartbeat", "ScheduleState"} /\ f.awake = a
    BY <1>3, FrameTags
  <2> QED BY <2>1 DEF Entry, Entries
<1>4. ASSUME NEW a \in BOOLEAN, f = ModelStatus(a) PROVE Entry(e, f) \in Entries
  <2>1. f.t = "ModelStatus" /\ f.ready = a
    BY <1>4, FrameTags
  <2> QED BY <2>1 DEF Entry, Entries
<1> QED BY <1>1, <1>2, <1>3, <1>4, FrameKinds

(* The conjuncts that say of what each bag is. *)
Types ==
  /\ IsBagOf(draining, UpFrames) /\ IsBagOf(queue, UpFrames) /\ IsBagOf(sends, UpFrames)
  /\ IsBagOf(read, AnswerFrames) /\ IsBagOf(lost, AnswerFrames) /\ IsBagOf(again, AnswerFrames)
  /\ down \in Seq(DownFrames) /\ entry \in Entries /\ awake \in BOOLEAN /\ acts \in 0 .. MaxActs
  /\ throws \in 0 .. MaxThrows /\ answer \subseteq AnswerFrames

(* What the proofs below need of TypeOK. *)
LEMMA TypesHold == TypeOK => Types
BY DEF TypeOK, Types, Entries

(* The initial states are well typed. *)
LEMMA TypeInit == Init => TypeOK
<1> SUFFICES ASSUME Init PROVE TypeOK
  OBVIOUS
<1>1. IsBagOf(EmptyBag, UpFrames) /\ IsBagOf(EmptyBag, AnswerFrames)
  BY EmptyIsBag DEF IsBagOf
<1>2. IsBagOf(sends, UpFrames)
  BY BagOfSet, FramesAreFrames DEF IsBagOf, Init
<1>3. down \in Seq(DownFrames) /\ down = <<>>
  BY DEF Init
<1>4. connects \in 0 .. MaxConnects /\ acts \in 0 .. MaxActs /\ throws \in 0 .. MaxThrows
  BY MacAssumption DEF Init
<1>5. IsBagOf(draining, UpFrames) /\ IsBagOf(queue, UpFrames) /\ IsBagOf(read, AnswerFrames) /\ IsBagOf(lost, AnswerFrames)
      /\ IsBagOf(again, AnswerFrames)
  BY <1>1 DEF Init
<1>6. (link = "none" <=> connects = 0) /\ (~socket => link \in {"none", "down"} /\ draining = EmptyBag)
  BY DEF Init
<1> QED BY <1>2, <1>3, <1>4, <1>5, <1>6 DEF Init, TypeOK

(* What the tasks that send may put in their bag. *)
LEMMA SendTypes ==
  ASSUME TypeOK, NEW fs \in SUBSET UpFrames, Send(fs)
  PROVE  IsBagOf(sends', UpFrames)
<1>1. {f \in fs : ~Redundant(f, sends)} \in SUBSET UpFrames
  OBVIOUS
<1>2. IsBagOf(sends, UpFrames)
  BY DEF TypeOK
<1>3. IsBagOf(SetToBag({f \in fs : ~Redundant(f, sends)}), UpFrames)
  BY <1>1, BagOfSet DEF IsBagOf
<1> QED BY <1>2, <1>3, BagsOf DEF Send

(* The bag of one frame, and that of the answer's frames among it. *)
LEMMA OneTypes ==
  ASSUME NEW f
  PROVE  /\ \A S : f \in S => IsBagOf(One(f), S)
         /\ IsBagOf(Answering(f), AnswerFrames)
BY BagOfSet DEF One, Answering, IsBagOf

(* A frame that is read, or lost. *)
LEMMA MessageTypes ==
  ASSUME TypeOK, NEW f \in UpFrames, HandleMessage(f) \/ Lost(f)
  PROVE  /\ entry' \in Entries /\ IsBagOf(read', AnswerFrames) /\ IsBagOf(lost', AnswerFrames)
         /\ down' \in Seq(DownFrames)
<1>0. Types
  BY TypesHold
<1>1. IsBagOf(Answering(f), AnswerFrames)
  BY OneTypes
<1>2. CASE HandleMessage(f)
  <2>1. Entry(entry, f) \in Entries
    BY <1>0, EntryType DEF Types
  <2>2. IsBagOf(read (+) Answering(f), AnswerFrames)
    BY <1>0, <1>1, BagsOf DEF Types
  <2>3. CatalogResponse(entry # Absent) \in DownFrames
    BY FramesAreFrames
  <2>4. Append(down, CatalogResponse(entry # Absent)) \in Seq(DownFrames) /\ down \in Seq(DownFrames)
    BY <1>0, <2>3 DEF Types
  <2>5. down' \in Seq(DownFrames)
    BY <1>2, <2>4 DEF HandleMessage
  <2> QED BY <1>0, <1>2, <2>1, <2>2, <2>5 DEF HandleMessage, Types
<1>3. CASE Lost(f)
  <2>1. IsBagOf(lost (+) Answering(f), AnswerFrames)
    BY <1>0, <1>1, BagsOf DEF Types
  <2> QED BY <1>0, <1>3, <2>1 DEF Lost, Types
<1> QED BY <1>2, <1>3

(* A task that sends, whatever comes of it, keeps the types. *)
LEMMA SendStepTypes ==
  ASSUME TypeOK, NEW f, SendStep(f)
  PROVE  TypeOK'
<1>0. Types
  BY TypesHold
<1>1. f \in UpFrames
  BY <1>0 DEF SendStep, BagIn, IsBagOf, Types
<1>2. IsBagOf(One(f), UpFrames)
  BY <1>1, OneTypes
<1>3. IsBagOf(sends (-) One(f), UpFrames) /\ IsBagOf(queue (+) One(f), UpFrames)
  BY <1>0, <1>2, BagsOf DEF Types
<1>4. CASE Written(f)
  <2>1. /\ entry' \in Entries /\ IsBagOf(read', AnswerFrames) /\ IsBagOf(lost', AnswerFrames)
        /\ down' \in Seq(DownFrames)
    BY <1>1, <1>4, MessageTypes DEF Written
  <2>2. (down' # <<>> => link = "open") /\ (entry' # Absent => serving)
    BY <1>4 DEF Written, Lost, TypeOK
  <2> QED BY <1>3, <1>4, <2>1, <2>2 DEF Written, TypeOK, tunnelVars, nodeVars, Entries
<1>5. CASE NotWritten(f)
  <2>1. IsBagOf(queue', UpFrames) /\ IsBagOf(sends', UpFrames)
    BY <1>0, <1>3, <1>5 DEF NotWritten, Types
  <2> QED BY <1>5, <2>1 DEF NotWritten, TypeOK, fmVars, nodeVars, answerVars
<1>6. CASE ReadAndThrown(f)
  <2>1. /\ entry' \in Entries /\ IsBagOf(read', AnswerFrames) /\ IsBagOf(lost', AnswerFrames)
        /\ down' \in Seq(DownFrames)
    BY <1>1, <1>6, MessageTypes DEF ReadAndThrown
  <2>2. IsBagOf(queue', UpFrames) /\ IsBagOf(sends', UpFrames)
    BY <1>0, <1>3, <1>6 DEF ReadAndThrown, Types
  <2>3. IsBagOf(again (+) Answering(f), AnswerFrames)
    BY <1>0, OneTypes, BagsOf DEF Types
  <2>4. throws' \in 0 .. MaxThrows
    BY <1>0, <1>6, MacAssumption DEF ReadAndThrown, Types
  <2>5. (down' # <<>> => link = "open") /\ (entry' # Absent => serving)
    BY <1>6 DEF ReadAndThrown, TypeOK
  <2> QED BY <1>6, <2>1, <2>2, <2>3, <2>4, <2>5 DEF ReadAndThrown, TypeOK, tunnelVars, nodeVars, Entries
<1> QED BY <1>4, <1>5, <1>6 DEF SendStep

(* So do the steps of the tunnel, of the network and of the Fleet Manager, *)
LEMMA TunnelTypes ==
  ASSUME TypeOK, Run \/ Open \/ Refused \/ Dies \/ TearDown \/ Dispatch
  PROVE  TypeOK'
<1>0. Types
  BY TypesHold
<1>1. CASE Connect
  <2>1. IsBagOf(draining', UpFrames) /\ IsBagOf(queue (-) draining', UpFrames)
    BY <1>0, <1>1, BagsOf DEF Connect, Types
  <2>2. connects' \in 0 .. MaxConnects /\ connects' # 0
    BY <1>1, MacAssumption DEF Connect, TypeOK
  <2> QED BY <1>1, <2>1, <2>2 DEF Connect, TypeOK, fmVars, nodeVars, answerVars
<1>2. CASE DrainSend
  <2>1. PICK f \in BagToSet(draining) :
          /\ draining' = draining (-) One(f)
          /\ IF link = "open" THEN HandleMessage(f) ELSE Lost(f)
    BY <1>2 DEF DrainSend
  <2>2. f \in UpFrames
    BY <1>0, <2>1 DEF Types, IsBagOf
  <2>3. IsBagOf(draining', UpFrames)
    BY <1>0, <2>1, <2>2, OneTypes, BagsOf DEF Types
  <2>4. /\ entry' \in Entries /\ IsBagOf(read', AnswerFrames) /\ IsBagOf(lost', AnswerFrames)
        /\ down' \in Seq(DownFrames)
    BY <2>1, <2>2, MessageTypes
  <2>5. (down' # <<>> => link = "open") /\ (entry' # Absent => serving)
    BY <2>1 DEF Lost, TypeOK
  <2>6. draining # EmptyBag
    BY <2>1, EmptyIsBag
  <2> QED BY <1>2, <2>3, <2>4, <2>5, <2>6 DEF DrainSend, TypeOK, tunnelVars, nodeVars, Entries
<1>3. CASE ReceiveFails
  BY <1>3 DEF ReceiveFails, TypeOK, fmVars, nodeVars, answerVars
<1>4. CASE Open
  <2>1. {Register, CatalogRequest, ModelStatus(model = "ready")} \cup Beats \in SUBSET UpFrames
    BY <1>0, FramesAreFrames DEF Beats, Types
  <2>2. IsBagOf(sends', UpFrames)
    BY <1>4, <2>1, SendTypes DEF Open
  <2> QED BY <1>4, <2>2 DEF Open, TypeOK, answerVars
<1>5. CASE Refused
  BY <1>5 DEF Refused, TypeOK, fmVars, nodeVars, answerVars
<1>6. CASE Dies
  <2>1. down' \in Seq(DownFrames) /\ down' = <<>>
    BY <1>6 DEF Dies
  <2> QED BY <1>6, <2>1 DEF Dies, TypeOK, fmVars, nodeVars
<1>7. CASE TearDown
  BY <1>7 DEF TearDown, TypeOK, tunnelVars, nodeVars, answerVars
<1>8. CASE Dispatch
  <2>1. Append(down, PromptDispatch) \in Seq(DownFrames) /\ down \in Seq(DownFrames)
    BY <1>0, FramesAreFrames DEF Types
  <2>2. down' \in Seq(DownFrames) /\ (down' # <<>> => link = "open") /\ job' \in {"sent", "lost"}
    BY <1>8, <2>1 DEF Dispatch, TypeOK
  <2>3. acts' \in 0 .. MaxActs
    BY <1>0, <1>8, MacAssumption DEF Dispatch, Act, Types
  <2> QED BY <1>8, <2>2, <2>3 DEF Dispatch, TypeOK, tunnelVars, fmVars, nodeVars
<1> QED BY <1>1, <1>2, <1>3, <1>4, <1>5, <1>6, <1>7, <1>8 DEF Run

(* and those of the coordinator. *)
LEMMA CoordinatorTypes ==
  ASSUME TypeOK, Beat \/ Poll \/ Turn \/ SaveConfig \/ Inbound \/ Download
  PROVE  TypeOK'
<1>0. Types
  BY TypesHold
<1>1. CASE Beat
  <2>1. Beats \in SUBSET UpFrames
    BY <1>0, FramesAreFrames DEF Beats, Types
  <2>2. IsBagOf(sends', UpFrames)
    BY <1>1, <2>1, SendTypes DEF Beat
  <2> QED BY <1>1, <2>2 DEF Beat, TypeOK, tunnelVars, fmVars, nodeVars, answerVars
<1>2. CASE Poll
  <2>1. IsBagOf(sends', UpFrames)
    BY <1>2, FramesAreFrames, SendTypes DEF Poll
  <2> QED BY <1>2, <2>1 DEF Poll, TypeOK, tunnelVars, fmVars, nodeVars, answerVars
<1>3. ASSUME Act PROVE acts' \in 0 .. MaxActs
  BY <1>0, <1>3, MacAssumption DEF Act, Types
<1>4. CASE Turn
  <2>1. awake' \in BOOLEAN
    BY <1>4 DEF Turn
  <2>2. IsBagOf(sends', UpFrames)
    BY <1>4, <2>1, FramesAreFrames, SendTypes DEF Turn
  <2> QED BY <1>3, <1>4, <2>1, <2>2 DEF Turn, TypeOK, tunnelVars, fmVars, answerVars
<1>5. CASE SaveConfig
  <2>1. IsBagOf(sends', UpFrames)
    BY <1>5, FramesAreFrames, SendTypes DEF SaveConfig
  <2> QED BY <1>3, <1>5, <2>1 DEF SaveConfig, TypeOK, tunnelVars, fmVars, answerVars
<1>6. ASSUME Receive
      PROVE  /\ down' \in Seq(DownFrames) /\ (down' # <<>> => link = "open")
             /\ UNCHANGED <<tunnelVars, draining, queue, fmVars, awake, read, lost, again, throws, acts>>
  BY <1>0, <1>6 DEF Receive, Types, TypeOK
<1>7. CASE HandleCatalog
  BY <1>6, <1>7 DEF HandleCatalog, TypeOK, tunnelVars, fmVars
<1>8. CASE HandleDispatch
  <2>1. answer' \subseteq AnswerFrames
    BY <1>8, AnswersAreFrames DEF HandleDispatch
  <2>2. IsBagOf(sends', UpFrames)
    BY <1>8, <2>1, FramesAreFrames, SendTypes DEF HandleDispatch
  <2> QED BY <1>6, <1>8, <2>1, <2>2 DEF HandleDispatch, TypeOK, tunnelVars, fmVars
<1>9. CASE Download
  <2>1. {ModelStatus(model' = "ready")} \in SUBSET UpFrames
    BY FramesAreFrames
  <2>2. IsBagOf(sends', UpFrames)
    BY <1>9, <2>1, SendTypes DEF Download
  <2>3. acts' \in 0 .. MaxActs
    BY <1>0, <1>3, <1>9 DEF Download, Types
  <2> QED BY <1>9, <2>2, <2>3 DEF Download, TypeOK, tunnelVars, fmVars, answerVars
<1> QED BY <1>1, <1>2, <1>4, <1>5, <1>7, <1>8, <1>9 DEF Inbound

(* Every step keeps the types. *)
LEMMA TypeStep == TypeOK /\ [Next]_vars => TypeOK'
<1> SUFFICES ASSUME TypeOK, [Next]_vars PROVE TypeOK'
  OBVIOUS
<1>1. CASE UNCHANGED vars
  BY <1>1 DEF vars, TypeOK, tunnelVars, fmVars, nodeVars, answerVars
<1> QED BY <1>1, SendStepTypes, TunnelTypes, CoordinatorTypes DEF Next

(* Every reachable state of the node is well typed: nothing but frames is in the
   queue, on its way or being drained, without a socket nothing is being drained,
   and an entry exists only while its connection is served, for every number of
   connections and length of an answer (Tunnel.swift: run, send). *)
THEOREM TypeCorrect == Spec => []TypeOK
BY TypeInit, TypeStep, PTL DEF Spec

-----------------------------------------------------------------------------
(* The frames of an answer.                                                *)

(* The copies of a frame, over all the places where it can be. *)
Places(f) ==
  Copies(f, sends) + Copies(f, queue) + Copies(f, draining) + Copies(f, read) + Copies(f, lost)

(* The prompt is on its way at most once, and only while it has not been answered. *)
PromptSent ==
  \A i \in 1 .. Len(down) : down[i] = PromptDispatch =>
    job = "sent" /\ \A j \in 1 .. Len(down) : down[j] = PromptDispatch => i = j

(* AnswerKept, place by place. *)
Kept == \A f \in AnswerFrames : Places(f) = (IF f \in answer THEN 1 ELSE 0) + Copies(f, again)

(* There is no answer before the prompt is handled. *)
Unanswered == job # "answered" => answer = {}

(* Of a frame, there is as much more as there is of it that comes again. *)
Balanced(f) == Places(f)' + Copies(f, again) = Places(f) + Copies(f, again')

(* Numbers of copies are numbers. *)
LEMMA CopiesTypes ==
  ASSUME TypeOK, NEW f
  PROVE  /\ IsABag(sends) /\ IsABag(queue) /\ IsABag(draining) /\ IsABag(read) /\ IsABag(lost)
         /\ IsABag(again) /\ Copies(f, again) \in Nat
         /\ Copies(f, sends) \in Nat /\ Copies(f, queue) \in Nat /\ Copies(f, draining) \in Nat
         /\ Copies(f, read) \in Nat /\ Copies(f, lost) \in Nat
<1>1. IsABag(sends) /\ IsABag(queue) /\ IsABag(draining) /\ IsABag(read) /\ IsABag(lost) /\ IsABag(again)
  BY DEF TypeOK, IsBagOf
<1> QED BY <1>1, CopiesOf

(* So they are after a step. *)
LEMMA CopiesTypesNext ==
  ASSUME TypeOK', NEW f
  PROVE  Copies(f, again') \in Nat /\ Places(f)' \in Nat
<1>1. IsABag(sends') /\ IsABag(queue') /\ IsABag(draining') /\ IsABag(read') /\ IsABag(lost') /\ IsABag(again')
  BY DEF TypeOK, IsBagOf
<1> QED BY <1>1, CopiesOf DEF Places

(* The sum over the places is what AnswerKept counts in the sum of the bags. *)
LEMMA KeptIsAnswerKept == TypeOK => (Kept <=> AnswerKept)
<1> SUFFICES ASSUME TypeOK, NEW f \in AnswerFrames
             PROVE  Places(f) = Copies(f, sends (+) queue (+) draining (+) read (+) lost)
  BY DEF Kept, AnswerKept
<1> DEFINE A == sends (+) queue
           B == A (+) draining
           C == B (+) read
<1>0. /\ IsABag(sends) /\ IsABag(queue) /\ IsABag(draining) /\ IsABag(read) /\ IsABag(lost)
      /\ Copies(f, sends) \in Nat /\ Copies(f, queue) \in Nat /\ Copies(f, draining) \in Nat
      /\ Copies(f, read) \in Nat /\ Copies(f, lost) \in Nat
  BY CopiesTypes
<1>1. IsABag(A) /\ Copies(f, A) = Copies(f, sends) + Copies(f, queue)
  BY <1>0, BagSum
<1> HIDE DEF A
<1>2. IsABag(B) /\ Copies(f, B) = Copies(f, A) + Copies(f, draining)
  BY <1>0, <1>1, BagSum
<1> HIDE DEF B
<1>3. IsABag(C) /\ Copies(f, C) = Copies(f, B) + Copies(f, read)
  BY <1>0, <1>2, BagSum
<1> HIDE DEF C
<1>4. Copies(f, C (+) lost) = Copies(f, C) + Copies(f, lost)
  BY <1>0, <1>3, BagSum
<1>5. Copies(f, C (+) lost) = Places(f)
  BY <1>0, <1>1, <1>2, <1>3, <1>4 DEF Places
<1> QED BY <1>5 DEF A, B, C

(* A frame is on its way once, or is one of the answer's, which is counted once. *)
LEMMA OneCopy ==
  ASSUME NEW f, NEW g
  PROVE  /\ IsABag(One(f)) /\ IsABag(Answering(f))
         /\ Copies(g, One(f)) = (IF g = f THEN 1 ELSE 0)
         /\ (g \in AnswerFrames => Copies(g, Answering(f)) = (IF g = f THEN 1 ELSE 0))
BY BagOfSet DEF One, Answering

(* A frame that is written is read, or lost: one of the two counts it. *)
LEMMA MessageCopies ==
  ASSUME TypeOK, NEW f, HandleMessage(f) \/ Lost(f), NEW g \in AnswerFrames
  PROVE  Copies(g, read') + Copies(g, lost') = Copies(g, read) + Copies(g, lost) + (IF g = f THEN 1 ELSE 0)
<1>1. /\ IsABag(read) /\ IsABag(lost) /\ Copies(g, read) \in Nat /\ Copies(g, lost) \in Nat
  BY CopiesTypes
<1>2. IsABag(Answering(f)) /\ Copies(g, Answering(f)) = (IF g = f THEN 1 ELSE 0)
  BY OneCopy
<1>3. CASE HandleMessage(f)
  <2>1. Copies(g, read') = Copies(g, read) + Copies(g, Answering(f)) /\ lost' = lost
    BY <1>1, <1>2, <1>3, BagSum DEF HandleMessage
  <2> QED BY <1>1, <1>2, <2>1
<1>4. CASE Lost(f)
  <2>1. Copies(g, lost') = Copies(g, lost) + Copies(g, Answering(f)) /\ read' = read
    BY <1>1, <1>2, <1>4, BagSum DEF Lost
  <2> QED BY <1>1, <1>2, <2>1
<1> QED BY <1>3, <1>4

(* A task takes its frame out of the bag it is in. *)
LEMMA TakeOne ==
  ASSUME NEW B, IsABag(B), NEW f, BagIn(f, B), NEW g
  PROVE  Copies(g, B (-) One(f)) = Copies(g, B) - (IF g = f THEN 1 ELSE 0)
<1>1. Copies(g, B) \in Nat /\ (g = f => Copies(g, B) > 0)
  BY CopiesOf
<1>2. IsABag(One(f)) /\ Copies(g, One(f)) = (IF g = f THEN 1 ELSE 0)
  BY OneCopy
<1>3. Copies(g, One(f)) <= Copies(g, B)
  BY <1>1, <1>2
<1> QED BY <1>2, <1>3, BagDifference

(* A frame of the answer is never redundant in the queue. *)
LEMMA QueueOne ==
  ASSUME TypeOK, NEW f, queue' = (IF Queued(f) THEN queue (+) One(f) ELSE queue), NEW g \in AnswerFrames
  PROVE  Copies(g, queue') = Copies(g, queue) + (IF g = f THEN 1 ELSE 0)
<1>0. IsABag(queue) /\ Copies(g, queue) \in Nat
  BY CopiesTypes
<1>1. g = f => queue' = queue (+) One(f)
  <2>1. g.t \in {"TokenChunk", "Done", "Error"} /\ CatalogRequest.t = "CatalogRequest"
    BY FrameTags
  <2>2. Queued(g)
    BY <2>1 DEF Queued, Redundant
  <2> QED BY <2>2
<1>2. queue' = queue (+) One(f) \/ queue' = queue
  OBVIOUS
<1>3. IsABag(One(f)) /\ Copies(g, One(f)) = (IF g = f THEN 1 ELSE 0)
  BY OneCopy
<1>4. Copies(g, queue (+) One(f)) = Copies(g, queue) + Copies(g, One(f))
  BY <1>0, <1>3, BagSum
<1> QED BY <1>0, <1>1, <1>2, <1>3, <1>4

(* A send that returns moves its frame to what is read or lost, one that throws to
   the queue, or, when it has been read, to both. *)
LEMMA SendStepKept ==
  ASSUME TypeOK, NEW f, SendStep(f), NEW g \in AnswerFrames
  PROVE  Balanced(g)
<1>0. /\ IsABag(sends) /\ IsABag(queue) /\ IsABag(draining)
      /\ Copies(g, sends) \in Nat /\ Copies(g, queue) \in Nat /\ Copies(g, draining) \in Nat
      /\ Copies(g, read) \in Nat /\ Copies(g, lost) \in Nat
  BY CopiesTypes
<1>1. Copies(g, sends (-) One(f)) = Copies(g, sends) - (IF g = f THEN 1 ELSE 0)
  BY <1>0, TakeOne DEF SendStep
<1>5. Copies(g, again) \in Nat /\ IsABag(again)
  BY CopiesTypes
<1>6. Copies(g, read') \in Nat /\ Copies(g, lost') \in Nat
  <2>1. IsABag(read') /\ IsABag(lost')
    BY SendStepTypes DEF TypeOK, IsBagOf
  <2> QED BY <2>1, CopiesOf
<1>2. CASE Written(f)
  <2>1. Copies(g, read') + Copies(g, lost') = Copies(g, read) + Copies(g, lost) + (IF g = f THEN 1 ELSE 0)
    BY <1>2, MessageCopies DEF Written
  <2>2. sends' = sends (-) One(f) /\ queue' = queue /\ draining' = draining /\ again' = again
    BY <1>2 DEF Written
  <2> QED BY <1>0, <1>1, <1>5, <1>6, <2>1, <2>2 DEF Places, Balanced
<1>3. CASE NotWritten(f)
  <2>1. sends' = sends (-) One(f) /\ UNCHANGED <<draining, read, lost, again>>
    BY <1>3 DEF NotWritten, answerVars
  <2>2. Copies(g, queue') = Copies(g, queue) + (IF g = f THEN 1 ELSE 0)
    BY <1>3, QueueOne DEF NotWritten
  <2> QED BY <1>0, <1>1, <1>5, <2>1, <2>2 DEF Places, Balanced
<1>4. CASE ReadAndThrown(f)
  <2>1. Copies(g, read') + Copies(g, lost') = Copies(g, read) + Copies(g, lost) + (IF g = f THEN 1 ELSE 0)
    BY <1>4, MessageCopies DEF ReadAndThrown
  <2>2. sends' = sends (-) One(f) /\ draining' = draining /\ again' = again (+) Answering(f)
    BY <1>4 DEF ReadAndThrown
  <2>3. Copies(g, queue') = Copies(g, queue) + (IF g = f THEN 1 ELSE 0)
    BY <1>4, QueueOne DEF ReadAndThrown
  <2>4. Copies(g, again') = Copies(g, again) + (IF g = f THEN 1 ELSE 0)
    <3>1. IsABag(Answering(f)) /\ Copies(g, Answering(f)) = (IF g = f THEN 1 ELSE 0)
      BY OneCopy
    <3>2. Copies(g, again (+) Answering(f)) = Copies(g, again) + Copies(g, Answering(f))
      BY <1>5, <3>1, BagSum
    <3> QED BY <2>2, <3>1, <3>2
  <2> QED BY <1>0, <1>1, <1>5, <1>6, <2>1, <2>2, <2>3, <2>4 DEF Places, Balanced
<1> QED BY <1>2, <1>3, <1>4 DEF SendStep

(* What is sent is one copy more of each of the answer's frames among it. *)
LEMMA SendCopies ==
  ASSUME TypeOK, NEW fs, Send(fs), NEW g \in AnswerFrames
  PROVE  Copies(g, sends') = Copies(g, sends) + (IF g \in fs THEN 1 ELSE 0)
<1> DEFINE Fresh == {f \in fs : ~Redundant(f, sends)}
<1>1. g.t \in {"TokenChunk", "Done", "Error"} /\ CatalogRequest.t = "CatalogRequest"
  BY FrameTags
<1>2. g \in Fresh <=> g \in fs
  BY <1>1 DEF Redundant
<1>3. sends' = sends (+) SetToBag(Fresh)
  BY DEF Send
<1> HIDE DEF Fresh
<1>4. IsABag(sends)
  BY CopiesTypes
<1>5. IsABag(SetToBag(Fresh)) /\ Copies(g, SetToBag(Fresh)) = (IF g \in Fresh THEN 1 ELSE 0)
  BY BagOfSet
<1>6. Copies(g, sends (+) SetToBag(Fresh)) = Copies(g, sends) + Copies(g, SetToBag(Fresh))
  BY <1>4, <1>5, BagSum
<1> QED BY <1>2, <1>3, <1>5, <1>6

(* What the coordinator sends on its own is none of the answer's frames. *)
LEMMA OtherFrames ==
  \A a : {Register, CatalogRequest, Heartbeat(a), ScheduleState(a), ModelStatus(a)} \cap AnswerFrames = {}
<1> SUFFICES ASSUME NEW a, NEW f \in AnswerFrames
             PROVE  f \notin {Register, CatalogRequest, Heartbeat(a), ScheduleState(a), ModelStatus(a)}
  OBVIOUS
<1>1. f.t \in {"TokenChunk", "Done", "Error"}
  BY FrameTags
<1> QED BY <1>1, FrameTags

(* Sending anything else changes no place. *)
LEMMA OtherSends ==
  ASSUME TypeOK, NEW fs, Send(fs), NEW g \in AnswerFrames, g \notin fs,
         UNCHANGED <<queue, draining, read, lost>>
  PROVE  Places(g)' = Places(g)
<1>1. Copies(g, sends') = Copies(g, sends)
  BY SendCopies, CopiesTypes
<1> QED BY <1>1 DEF Places

(* A connection takes a part of the queue, and leaves the rest. *)
LEMMA ConnectKept ==
  ASSUME TypeOK, Connect, NEW g \in AnswerFrames
  PROVE  Places(g)' = Places(g)
<1>0. /\ IsABag(queue) /\ Copies(g, queue) \in Nat /\ Copies(g, sends) \in Nat
      /\ Copies(g, read) \in Nat /\ Copies(g, lost) \in Nat
  BY CopiesTypes
<1>1. Copies(g, draining) = 0
  BY EmptyIsBag DEF Connect, TypeOK
<1>2. draining' \in Parts(queue) /\ queue' = queue (-) draining' /\ UNCHANGED <<sends, read, lost>>
  BY DEF Connect, answerVars
<1>3. IsABag(draining') /\ Copies(g, draining') <= Copies(g, queue)
  BY <1>0, <1>2, SubBags
<1>4. Copies(g, draining') \in Nat
  BY <1>3, CopiesOf
<1>5. Copies(g, queue') = Copies(g, queue) - Copies(g, draining')
  BY <1>0, <1>2, <1>3, BagDifference
<1> QED BY <1>0, <1>1, <1>2, <1>4, <1>5 DEF Places

(* What is drained is read, or lost. *)
LEMMA DrainKept ==
  ASSUME TypeOK, DrainSend, NEW g \in AnswerFrames
  PROVE  Places(g)' = Places(g)
<1>0. /\ IsABag(draining) /\ Copies(g, draining) \in Nat
      /\ Copies(g, sends) \in Nat /\ Copies(g, queue) \in Nat
      /\ Copies(g, read) \in Nat /\ Copies(g, lost) \in Nat
  BY CopiesTypes
<1>1. PICK f \in BagToSet(draining) :
        draining' = draining (-) One(f) /\ (HandleMessage(f) \/ Lost(f))
  BY DEF DrainSend
<1>2. Copies(g, draining (-) One(f)) = Copies(g, draining) - (IF g = f THEN 1 ELSE 0)
  BY <1>0, TakeOne DEF BagIn
<1>3. Copies(g, read') + Copies(g, lost') = Copies(g, read) + Copies(g, lost) + (IF g = f THEN 1 ELSE 0)
  BY <1>1, MessageCopies
<1>4. Copies(g, read') \in Nat /\ Copies(g, lost') \in Nat
  <2>1. TypeOK'
    BY TunnelTypes DEF Run
  <2> QED BY <2>1, CopiesOf DEF TypeOK, IsBagOf
<1>5. UNCHANGED <<sends, queue>>
  BY DEF DrainSend
<1> QED BY <1>0, <1>1, <1>2, <1>3, <1>4, <1>5 DEF Places

(* The prompt is the first thing in down when it is answered. *)
LEMMA AnsweredKept ==
  ASSUME TypeOK, PromptSent, Unanswered, Kept, HandleDispatch
  PROVE  Kept' /\ Unanswered'
<1>1. down \in Seq(DownFrames) /\ down # <<>> /\ Head(down) = PromptDispatch
  BY DEF TypeOK, HandleDispatch, Receive
<1>2. 1 \in 1 .. Len(down) /\ down[1] = PromptDispatch
  BY <1>1
<1>3. job = "sent" /\ job' = "answered" /\ answer = {}
  BY <1>2 DEF PromptSent, HandleDispatch, Unanswered
<1>4. ASSUME NEW g \in AnswerFrames
      PROVE  Places(g)' = (IF g \in answer' THEN 1 ELSE 0) + Copies(g, again')
  <2>1. Places(g) = Copies(g, again) /\ Copies(g, again) \in Nat
    BY <1>3, CopiesTypes DEF Kept
  <2>2. Copies(g, sends') = Copies(g, sends) + (IF g \in answer' THEN 1 ELSE 0)
    BY SendCopies DEF HandleDispatch
  <2>3. UNCHANGED <<queue, draining, read, lost, again>>
    BY DEF HandleDispatch, Receive
  <2>4. Places(g)' = Places(g) + (IF g \in answer' THEN 1 ELSE 0)
    BY <2>2, <2>3, CopiesTypes DEF Places
  <2> QED BY <2>1, <2>3, <2>4
<1> QED BY <1>3, <1>4 DEF Kept, Unanswered

(* Only a prompt's answer, or what comes again, changes what there is of an answer. *)
LEMMA OtherStepsKept ==
  ASSUME TypeOK, [Next]_vars, ~HandleDispatch, NEW g \in AnswerFrames
  PROVE  Balanced(g)
<1>0. Copies(g, again) \in Nat /\ Places(g) \in Nat
  BY CopiesTypes DEF Places
<1>12. ASSUME Places(g)' = Places(g), again' = again PROVE Balanced(g)
  BY <1>0, <1>12 DEF Balanced
<1>1. CASE Connect
  BY <1>1, <1>12, ConnectKept DEF Connect, answerVars
<1>2. CASE DrainSend
  BY <1>2, <1>12, DrainKept DEF DrainSend
<1>3. CASE ReceiveFails \/ Refused \/ Dies \/ TearDown \/ Dispatch \/ UNCHANGED vars
  BY <1>3, <1>12 DEF ReceiveFails, Refused, Dies, TearDown, Dispatch, vars, answerVars, Places
<1>4. CASE Open
  <2>1. Send({Register, CatalogRequest, ModelStatus(model = "ready")} \cup {Heartbeat(awake)})
    BY <1>4 DEF Open, Beats
  <2>2. g \notin {Register, CatalogRequest, ModelStatus(model = "ready")} \cup {Heartbeat(awake)}
    BY OtherFrames
  <2>3. UNCHANGED <<queue, draining, read, lost, again>>
    BY <1>4 DEF Open, answerVars
  <2> QED BY <2>1, <2>2, <2>3, <1>12, OtherSends
<1>5. CASE \E f \in BagToSet(sends) : SendStep(f)
  BY <1>5, SendStepKept
<1>6. CASE Beat
  <2>1. Send({Heartbeat(awake)}) /\ UNCHANGED <<queue, draining, read, lost, again>>
    BY <1>6 DEF Beat, Beats, answerVars
  <2>2. g \notin {Heartbeat(awake)}
    BY OtherFrames
  <2> QED BY <2>1, <2>2, <1>12, OtherSends
<1>7. CASE Poll
  <2>1. Send({CatalogRequest}) /\ UNCHANGED <<queue, draining, read, lost, again>>
    BY <1>7 DEF Poll, answerVars
  <2>2. g \notin {CatalogRequest}
    BY OtherFrames
  <2> QED BY <2>1, <2>2, <1>12, OtherSends
<1>8. CASE Turn
  <2>1. Send({ScheduleState(awake')}) /\ UNCHANGED <<queue, draining, read, lost, again>>
    BY <1>8 DEF Turn, answerVars
  <2>2. g \notin {ScheduleState(awake')}
    BY OtherFrames
  <2> QED BY <2>1, <2>2, <1>12, OtherSends
<1>9. CASE SaveConfig
  <2>1. Send({Register, CatalogRequest}) /\ UNCHANGED <<queue, draining, read, lost, again>>
    BY <1>9 DEF SaveConfig, answerVars
  <2>2. g \notin {Register, CatalogRequest}
    BY OtherFrames
  <2> QED BY <2>1, <2>2, <1>12, OtherSends
<1>10. CASE HandleCatalog
  BY <1>10, <1>12 DEF HandleCatalog, Receive, Places
<1>11. CASE Download
  <2>1. Send({ModelStatus(model' = "ready")}) /\ UNCHANGED <<queue, draining, read, lost, again>>
    BY <1>11 DEF Download, answerVars
  <2>2. g \notin {ModelStatus(model' = "ready")}
    BY OtherFrames
  <2> QED BY <2>1, <2>2, <1>12, OtherSends
<1> QED BY <1>1, <1>2, <1>3, <1>4, <1>5, <1>6, <1>7, <1>8, <1>9, <1>10, <1>11 DEF Next, Run, Inbound

(* What a step other than the prompt's answer does to the prompt. *)
LEMMA JobStep ==
  ASSUME TypeOK, PromptSent, [Next]_vars, ~HandleDispatch
  PROVE  answer' = answer /\ (job' = job \/ (job \in {"none", "sent"} /\ job' \in {"sent", "lost"}))
<1>1. CASE Dies
  BY <1>1 DEF Dies, PromptSent
<1>2. CASE Dispatch
  BY <1>2 DEF Dispatch
<1>3. CASE \E f \in BagToSet(sends) : SendStep(f)
  BY <1>3 DEF SendStep, Written, NotWritten, ReadAndThrown, answerVars
<1>4. CASE Run
  BY <1>4 DEF Run, Connect, DrainSend, ReceiveFails, answerVars
<1>5. CASE Open \/ Refused \/ Beat \/ Poll \/ Turn \/ SaveConfig \/ Download \/ TearDown \/ UNCHANGED vars
  BY <1>5 DEF Open, Refused, Beat, Poll, Turn, SaveConfig, Download, TearDown, vars, answerVars
<1>6. CASE HandleCatalog
  BY <1>6 DEF HandleCatalog
<1> QED BY <1>1, <1>2, <1>3, <1>4, <1>5, <1>6 DEF Next, Inbound

(* Every step keeps each frame of the answer in one place, but for what comes again. *)
LEMMA KeptStep ==
  ASSUME TypeOK, PromptSent, Unanswered, Kept, [Next]_vars
  PROVE  Kept' /\ Unanswered'
<1>1. CASE HandleDispatch
  BY <1>1, AnsweredKept
<1>2. CASE ~HandleDispatch
  <2>1. answer' = answer /\ (job' = "answered" <=> job = "answered")
    BY <1>2, JobStep
  <2>2. ASSUME NEW g \in AnswerFrames
        PROVE  Places(g)' = (IF g \in answer' THEN 1 ELSE 0) + Copies(g, again')
    <3>1. Balanced(g)
      BY <1>2, OtherStepsKept
    <3>2. Places(g) = (IF g \in answer THEN 1 ELSE 0) + Copies(g, again)
      BY DEF Kept
    <3>3. Copies(g, again) \in Nat /\ Copies(g, again') \in Nat /\ Places(g)' \in Nat
      BY TypeStep, CopiesTypes, CopiesTypesNext DEF Places
    <3> QED BY <2>1, <3>1, <3>2, <3>3 DEF Balanced
  <2> QED BY <2>1, <2>2 DEF Kept, Unanswered
<1> QED BY <1>1, <1>2

(* A step that puts something other than a prompt behind what is on its way. *)
LEMMA PromptAppend ==
  ASSUME TypeOK, PromptSent, NEW f, f # PromptDispatch, down' = Append(down, f), job' = job
  PROVE  PromptSent'
<1>1. down \in Seq(DownFrames)
  BY DEF TypeOK
<1>2. Len(down') = Len(down) + 1 /\ Len(down) \in Nat
  BY <1>1
<1>3. \A i \in 1 .. Len(down) : down'[i] = down[i]
  BY <1>1
<1>4. down'[Len(down) + 1] = f
  BY <1>1
<1>5. \A i \in 1 .. Len(down') : down'[i] = PromptDispatch => i \in 1 .. Len(down) /\ down[i] = PromptDispatch
  BY <1>2, <1>3, <1>4
<1> QED BY <1>5 DEF PromptSent

(* A frame that is read puts the catalog behind the prompt, at most. *)
LEMMA PromptMessage ==
  ASSUME TypeOK, PromptSent, NEW f, HandleMessage(f) \/ Lost(f), job' = job
  PROVE  PromptSent'
<1>1. CASE down' = down
  BY <1>1 DEF PromptSent
<1>2. CASE down' # down
  <2>1. down' = Append(down, CatalogResponse(entry # Absent))
    BY <1>2 DEF HandleMessage, Lost
  <2>2. CatalogResponse(entry # Absent) # PromptDispatch
    BY FrameTags
  <2> QED BY <2>1, <2>2, PromptAppend
<1> QED BY <1>1, <1>2

(* What is received is the first of what is on its way. *)
LEMMA PromptReceive ==
  ASSUME TypeOK, PromptSent, Inbound
  PROVE  PromptSent'
<1>1. down \in Seq(DownFrames) /\ down # <<>> /\ down' = Tail(down)
  BY DEF TypeOK, Inbound, HandleCatalog, HandleDispatch, Receive
<1>2. Len(down') = Len(down) - 1 /\ Len(down) \in Nat /\ Len(down) > 0
  BY <1>1
<1>3. \A i \in 1 .. Len(down') : i + 1 \in 1 .. Len(down) /\ down'[i] = down[i + 1]
  BY <1>1, <1>2
<1>4. CASE HandleCatalog
  <2>1. job' = job
    BY <1>4 DEF HandleCatalog
  <2>2. ASSUME NEW i \in 1 .. Len(down'), down'[i] = PromptDispatch,
               NEW j \in 1 .. Len(down'), down'[j] = PromptDispatch
        PROVE  job = "sent" /\ i = j
    <3>1. down[i + 1] = PromptDispatch /\ down[j + 1] = PromptDispatch /\ i + 1 \in 1 .. Len(down)
          /\ j + 1 \in 1 .. Len(down)
      BY <1>3, <2>2
    <3>2. job = "sent" /\ i + 1 = j + 1
      BY <3>1 DEF PromptSent
    <3> QED BY <1>2, <3>2
  <2> QED BY <2>1, <2>2 DEF PromptSent
<1>5. CASE HandleDispatch
  <2>1. 1 \in 1 .. Len(down) /\ down[1] = PromptDispatch
    BY <1>1, <1>2, <1>5 DEF HandleDispatch
  <2>2. ASSUME NEW i \in 1 .. Len(down'), down'[i] = PromptDispatch PROVE FALSE
    <3>1. i + 1 \in 1 .. Len(down) /\ down[i + 1] = PromptDispatch
      BY <1>3, <2>2
    <3>2. 1 = i + 1
      BY <2>1, <3>1 DEF PromptSent
    <3> QED BY <1>2, <3>2
  <2> QED BY <2>2 DEF PromptSent
<1> QED BY <1>4, <1>5 DEF Inbound

(* The one prompt is dispatched when none is on its way. *)
LEMMA PromptDispatched ==
  ASSUME TypeOK, PromptSent, Dispatch
  PROVE  PromptSent'
<1>1. job = "none" /\ down \in Seq(DownFrames)
  BY DEF Dispatch, TypeOK
<1>2. \A i \in 1 .. Len(down) : down[i] # PromptDispatch
  BY <1>1 DEF PromptSent
<1>3. CASE job' = "sent" /\ down' = Append(down, PromptDispatch)
  <2>1. Len(down') = Len(down) + 1 /\ Len(down) \in Nat /\ \A i \in 1 .. Len(down) : down'[i] = down[i]
    BY <1>1, <1>3
  <2>2. \A i \in 1 .. Len(down') : down'[i] = PromptDispatch => i = Len(down')
    BY <1>2, <2>1
  <2> QED BY <1>3, <2>2 DEF PromptSent
<1>4. CASE down' = down
  BY <1>2, <1>4 DEF PromptSent
<1> QED BY <1>3, <1>4 DEF Dispatch

(* Every step keeps the prompt single. *)
LEMMA PromptStep ==
  ASSUME TypeOK, PromptSent, [Next]_vars
  PROVE  PromptSent'
<1>1. CASE Inbound
  BY <1>1, PromptReceive
<1>2. CASE Dispatch
  BY <1>2, PromptDispatched
<1>3. CASE Dies
  <2>1. Len(down') = 0
    BY <1>3 DEF Dies
  <2> QED BY <2>1 DEF PromptSent
<1>4. CASE \E f \in BagToSet(sends) : Written(f)
  BY <1>4, PromptMessage DEF Written
<1>5. CASE \E f \in BagToSet(sends) : NotWritten(f)
  BY <1>5 DEF NotWritten, answerVars, PromptSent
<1>6. CASE DrainSend \/ \E f \in BagToSet(sends) : ReadAndThrown(f)
  BY <1>6, PromptMessage DEF DrainSend, ReadAndThrown
<1>7. CASE Connect \/ ReceiveFails \/ Open \/ Refused \/ Beat \/ Poll \/ TearDown \/ UNCHANGED vars
  BY <1>7 DEF Connect, ReceiveFails, Open, Refused, Beat, Poll, TearDown, vars, answerVars, PromptSent
<1>8. CASE Turn \/ SaveConfig \/ Download
  BY <1>8 DEF Turn, SaveConfig, Download, answerVars, PromptSent
<1> QED BY <1>1, <1>2, <1>3, <1>4, <1>5, <1>6, <1>7, <1>8 DEF Next, Run, SendStep

(* There is no prompt and no answer at the start. *)
LEMMA KeptInit == Init => PromptSent /\ Unanswered /\ Kept
<1> SUFFICES ASSUME Init PROVE PromptSent /\ Unanswered /\ Kept
  OBVIOUS
<1>1. PromptSent
  BY DEF Init, PromptSent
<1>2. ASSUME NEW g \in AnswerFrames PROVE Places(g) = 0 /\ Copies(g, again) = 0
  <2>1. Copies(g, sends) = 0
    <3>1. g \notin {Register, CatalogRequest}
      BY OtherFrames
    <3> QED BY <3>1, BagOfSet DEF Init
  <2> QED BY <2>1, EmptyIsBag DEF Init, Places
<1>3. answer = {} /\ Unanswered
  BY DEF Init, Unanswered
<1> QED BY <1>1, <1>2, <1>3 DEF Kept

(* Through sends that throw or are lost, the queue, and connections that drain
   only a part of it, every frame of an answer is in exactly one place, and in one
   more for each send that was read and threw, for every number of connections, of
   such sends, and length of an answer (Tunnel.swift: send, drainMessages). *)
THEOREM AnswersKept == Spec => []AnswerKept
<1>1. TypeOK /\ PromptSent /\ Unanswered /\ Kept /\ [Next]_vars => (PromptSent /\ Unanswered /\ Kept)'
  BY PromptStep, KeptStep
<1>2. TypeOK /\ Kept => AnswerKept
  BY KeptIsAnswerKept
<1> QED BY <1>1, <1>2, KeptInit, TypeCorrect, PTL DEF Spec
=============================================================================
