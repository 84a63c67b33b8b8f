----------------------------- MODULE NodeService -----------------------------
(***************************************************************************)
(* What a node promises for the prompts dispatched to it: a prompt is      *)
(* refused with one Error, or accepted; an accepted one is answered by     *)
(* TokenChunks of increasing index and then by one Done or one Error, after *)
(* which no frame speaks of it any more; only a prompt whose worker never  *)
(* came up stays without an answer.  Backend implements this (Service).    *)
(***************************************************************************)
EXTENDS Naturals, Sequences

CONSTANTS Requests, MaxTokens

VARIABLES
  state,   \* per request: "new", "held", "over" or "lost"
  frames   \* the frames queued for the Fleet Manager

Init ==
  /\ state = [r \in Requests |-> "new"]
  /\ frames = <<>>

Final(r) == {[t |-> "Done", req |-> r, index |-> 0], [t |-> "Error", req |-> r, index |-> 0]}

Accept(r) ==
  /\ state[r] = "new"
  /\ state' = [state EXCEPT ![r] = "held"]
  /\ UNCHANGED frames

Refuse(r) ==
  /\ state[r] = "new"
  /\ state' = [state EXCEPT ![r] = "over"]
  /\ frames' = Append(frames, [t |-> "Error", req |-> r, index |-> 0])

\* A token without text has an index and no frame, so indices may skip.
Chunk(r) ==
  /\ state[r] = "held"
  /\ \E i \in 0 .. MaxTokens - 1 :
       /\ \A k \in 1 .. Len(frames) :
            frames[k].t = "TokenChunk" /\ frames[k].req = r => frames[k].index < i
       /\ frames' = Append(frames, [t |-> "TokenChunk", req |-> r, index |-> i])
  /\ UNCHANGED state

Finish(r) ==
  /\ state[r] = "held"
  /\ state' = [state EXCEPT ![r] = "over"]
  /\ \E f \in Final(r) : frames' = Append(frames, f)

\* All the prompts a worker that does not come up has been given.
Lose ==
  /\ state' = [r \in Requests |-> IF state[r] = "held" THEN "lost" ELSE state[r]]
  /\ UNCHANGED frames

Next ==
  \/ \E r \in Requests : Accept(r) \/ Refuse(r) \/ Chunk(r) \/ Finish(r)
  \/ Lose

Spec == Init /\ [][Next]_<<state, frames>>
=============================================================================
