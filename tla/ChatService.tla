----------------------------- MODULE ChatService -----------------------------
(***************************************************************************)
(* What the chat API promises for a request, whatever the tunnels do: it is *)
(* refused before any node has it, or accepted once; an accepted request   *)
(* ends at most once, answered, failed, or left by its client; the node's  *)
(* delivery points are posted at most once, before the client sees the end *)
(* of the answer, and never for a request that failed.                     *)
(* FleetManager implements this (its definition Service).                  *)
(***************************************************************************)
EXTENDS Naturals

CONSTANT Requests

VARIABLES status, credit

vars == <<status, credit>>

Statuses == {"new", "refused", "open", "answered", "failed", "left"}

Init ==
  /\ status = [r \in Requests |-> "new"]
  /\ credit = [r \in Requests |-> 0]

Becomes(r, from, to) ==
  /\ status[r] = from
  /\ status' = [status EXCEPT ![r] = to]
  /\ UNCHANGED credit

Refuse(r) == Becomes(r, "new", "refused")

Accept(r) == Becomes(r, "new", "open")

\* A client may leave between its node's last frame and the posting.
Post(r) ==
  /\ status[r] \in {"open", "left"} /\ credit[r] = 0
  /\ credit' = [credit EXCEPT ![r] = 1]
  /\ UNCHANGED status

Answer(r) == credit[r] = 1 /\ Becomes(r, "open", "answered")

Fail(r) == credit[r] = 0 /\ Becomes(r, "open", "failed")

Leave(r) == Becomes(r, "open", "left")

Next == \E r \in Requests :
  Refuse(r) \/ Accept(r) \/ Post(r) \/ Answer(r) \/ Fail(r) \/ Leave(r)

Spec == Init /\ [][Next]_vars
=============================================================================
