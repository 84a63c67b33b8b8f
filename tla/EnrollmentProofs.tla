-------------------------- MODULE EnrollmentProofs --------------------------
(***************************************************************************)
(* Theorems about Enrollment, for any nodes, machines, tokens, runs and    *)
(* times: every property its run checks.                                   *)
(***************************************************************************)
EXTENDS Enrollment, TLAPS

LEMMA AbsentIsNothing == Absent \notin Nat /\ Absent \notin Row
BY EnrollmentAssumption

(* A run under way has its key on its machine, and, once stored, its       *)
(* certificate; no other run touches the files of a machine meanwhile.     *)
FilesOwned ==
  \A r \in Runs :
    /\ pc[r] \in {"certified", "storing", "stored", "writing"} => r \in issued
    /\ ~gone[r] /\ pc[r] \notin {"new", "done", "failed"} => key[machine[r]] = r
    /\ ~gone[r] /\ pc[r] \in {"stored", "writing"} => cert[machine[r]] = r

(* Where a run is once its handler has tried to consume the token. *)
AfterUse == {"consumed", "certified", "storing", "stored", "writing", "done", "failed"}
USE DEF AfterUse

(* A consumed row shows by whom, when, and that it was in time. *)
ConsumptionShows ==
  \A r \in Runs : affected[r] =>
    /\ pc[r] \in AfterUse
    /\ tokens[token[r]] # Absent
    /\ tokens[token[r]].node = NodeId(r)
    /\ tokens[token[r]].used = stamp[r]
    /\ token[r] \notin withdrawn
    /\ Second(stamp[r]) <= Second(tokens[token[r]].expires)

ConsumedOnce ==
  \A r, s \in Runs : affected[r] /\ affected[s] /\ token[r] = token[s] => r = s

IssuedConsumed == \A r \in issued : affected[r]

WithdrawnAreSpent ==
  \A k \in withdrawn : tokens[k] # Absent /\ tokens[k].used # Absent

LEMMA InitTyped == Init => TypeOK
BY DEF Init, TypeOK, PCs

(* A token's lifetime is a number of seconds. *)
LEMMA TtlIsNat == \A asked \in TtlAsked \cup {Absent} : Ttl(asked) \in Nat
BY EnrollmentAssumption DEF Ttl

LEMMA AdminTyped ==
  ASSUME TypeOK, NEW k \in Tokens, CreateToken(k) \/ RevokeToken(k)
  PROVE  TypeOK'
<1> USE DEF runVars, fileVars
<1>1. CASE CreateToken(k)
  <2>1. PICK n \in Nodes, asked \in TtlAsked \cup {Absent} :
          tokens' = [tokens EXCEPT ![k] =
            [node |-> n, expires |-> now + 2 * Ttl(asked), used |-> Absent]]
    BY <1>1 DEF CreateToken
  <2>2. now + 2 * Ttl(asked) \in Nat
    BY TtlIsNat DEF TypeOK
  <2>3. tokens' \in [Tokens -> Row \cup {Absent}]
    BY <2>1, <2>2 DEF TypeOK, Row
  <2> QED BY <1>1, <2>3 DEF CreateToken, TypeOK
<1>2. CASE RevokeToken(k)
  <2>1. tokens[k] \in Row /\ now \in Nat
    BY <1>2 DEF RevokeToken, TypeOK
  <2>2. [tokens[k] EXCEPT !.used = IF @ = Absent THEN now ELSE @] \in Row
    BY <2>1 DEF Row
  <2>3. tokens' \in [Tokens -> Row \cup {Absent}]
    BY <1>2, <2>2 DEF RevokeToken, TypeOK
  <2>4. withdrawn' \subseteq Tokens
    BY <1>2 DEF RevokeToken, TypeOK
  <2> QED BY <1>2, <2>3, <2>4 DEF RevokeToken, TypeOK
<1> QED BY <1>1, <1>2

LEMMA HandlerTyped ==
  ASSUME TypeOK, NEW r \in Runs, Handler(r)
  PROVE  TypeOK'
<1> USE DEF fileVars, Advance, PCs
<1>1. CASE Sign(r)
  BY <1>1 DEF Sign, sign_csr_with_ca, TypeOK
<1>2. CASE TakeTime(r)
  BY <1>2 DEF TakeTime, TypeOK
<1>3. CASE ConsumeToken(r)
  <2>1. token[r] \in Tokens /\ stamp[r] \in Nat
    BY <1>3 DEF ConsumeToken, TypeOK
  <2>2. tokens' \in [Tokens -> Row \cup {Absent}]
    <3>1. CASE UNCHANGED tokens
      BY <3>1 DEF TypeOK
    <3>2. CASE Matches(r) /\ tokens' = [tokens EXCEPT ![token[r]].used = stamp[r]]
      <4>1. tokens[token[r]] \in Row
        BY <2>1, <3>2 DEF Matches, TypeOK
      <4>2. [tokens[token[r]] EXCEPT !.used = stamp[r]] \in Row
        BY <2>1, <4>1 DEF Row
      <4> QED BY <2>1, <3>2, <4>2 DEF TypeOK
    <3> QED BY <1>3, <3>1, <3>2 DEF ConsumeToken
  <2> QED BY <1>3, <2>2 DEF ConsumeToken, TypeOK
<1>4. CASE Answer(r)
  BY <1>4 DEF Answer, TypeOK
<1> QED BY <1>1, <1>2, <1>3, <1>4 DEF Handler

LEMMA CommandTyped ==
  ASSUME TypeOK, FilesOwned, NEW r \in Runs, Command(r)
  PROVE  TypeOK'
<1> USE DEF fileVars, Advance, PCs
<1>1. ASSUME NEW m \in Machines, GenerateKey(r, m) PROVE TypeOK'
  BY <1>1 DEF GenerateKey, TypeOK
<1>2. CASE Post(r)
  BY <1>2 DEF Post, TypeOK
<1>3. CASE StoreCert(r)
  BY <1>3 DEF StoreCert, WriteCert, TypeOK
<1>4. CASE OpenCert(r)
  BY <1>4 DEF OpenCert, TypeOK
<1>5. CASE OpenPem(r)
  BY <1>5 DEF OpenPem, TypeOK
<1>6. CASE CommandEnds(r)
  BY <1>6 DEF CommandEnds, TypeOK
<1>7. CASE StorePem(r)
  <2>1. machine[r] \in Machines /\ cert[machine[r]] \in Runs /\ key[machine[r]] \in Runs
    BY <1>7 DEF StorePem, FilesOwned, TypeOK
  <2>2. pem' \in [Machines -> [cert: Runs, key: Runs] \cup {Absent, Cut}]
    BY <1>7, <2>1 DEF StorePem, TypeOK
  <2> QED BY <1>7, <2>2 DEF StorePem, TypeOK
<1> QED BY <1>1, <1>2, <1>3, <1>4, <1>5, <1>6, <1>7 DEF Command

LEMMA ClockTyped ==
  ASSUME TypeOK, Tick \/ UNCHANGED vars
  PROVE  TypeOK'
<1>1. CASE Tick
  BY <1>1 DEF Tick, runVars, fileVars, TypeOK
<1>2. CASE UNCHANGED vars
  BY <1>2 DEF vars, runVars, fileVars, TypeOK
<1> QED BY <1>1, <1>2

LEMMA StepTyped == TypeOK /\ FilesOwned /\ [Next]_vars => TypeOK'
BY AdminTyped, HandlerTyped, CommandTyped, ClockTyped DEF Next

(* Of the steps, only those of a run change what FilesOwned speaks of. *)
LEMMA StepFiles ==
  ASSUME TypeOK, FilesOwned, [Next]_vars
  PROVE  FilesOwned'
<1> USE DEF Advance, PCs
<1>1. ASSUME NEW r \in Runs, Handler(r) PROVE FilesOwned'
  <2> USE DEF fileVars, TypeOK
  <2>1. CASE Sign(r)
    BY <2>1 DEF Sign, sign_csr_with_ca, FilesOwned
  <2>2. CASE TakeTime(r)
    BY <2>2 DEF TakeTime, FilesOwned
  <2>3. CASE ConsumeToken(r)
    <3>1. /\ UNCHANGED <<gone, machine, key, cert, issued>>
          /\ pc[r] = "stamped"
          /\ \E to \in {"consumed", "failed"} : pc' = [pc EXCEPT ![r] = to]
      BY <2>3 DEF ConsumeToken
    <3> QED BY <3>1 DEF FilesOwned
  <2>4. CASE Answer(r)
    BY <2>4 DEF Answer, FilesOwned
  <2> QED BY <1>1, <2>1, <2>2, <2>3, <2>4 DEF Handler
<1>2. ASSUME NEW r \in Runs, Command(r) PROVE FilesOwned'
  <2> USE DEF fileVars, TypeOK
  <2>1. ASSUME NEW m \in Machines, GenerateKey(r, m) PROVE FilesOwned'
    <3> SUFFICES ASSUME NEW s \in Runs
                 PROVE  /\ pc'[s] \in {"certified", "storing", "stored", "writing"}
                             => s \in issued'
                        /\ ~gone'[s] /\ pc'[s] \notin {"new", "done", "failed"}
                             => key'[machine'[s]] = s
                        /\ ~gone'[s] /\ pc'[s] \in {"stored", "writing"} => cert'[machine'[s]] = s
      BY DEF FilesOwned
    <3>1. CASE s = r
      BY <2>1, <3>1 DEF GenerateKey
    <3>2. CASE s # r
      <4>1. pc'[s] = pc[s] /\ machine'[s] = machine[s] /\ gone' = gone /\ cert' = cert
        BY <2>1, <3>2 DEF GenerateKey
      <4>2. ~gone[s] /\ pc[s] \notin {"new", "done", "failed"}
              => machine[s] # m /\ machine[s] \in Machines
        BY <2>1 DEF GenerateKey, Active
      <4> QED BY <2>1, <4>1, <4>2 DEF GenerateKey, FilesOwned
    <3> QED BY <3>1, <3>2
  <2>2. CASE Post(r)
    BY <2>2 DEF Post, FilesOwned
  <2>3. CASE OpenCert(r) \/ StoreCert(r)
    <3>1. machine[r] \in Machines /\ key[machine[r]] = r
      BY <2>3 DEF OpenCert, StoreCert, FilesOwned
    <3>2. ASSUME NEW s \in Runs, ~gone[s], pc[s] \in {"stored", "writing"}
          PROVE  machine[s] # machine[r]
      BY <2>3, <3>1, <3>2 DEF OpenCert, StoreCert, FilesOwned
    <3>3. CASE OpenCert(r)
      BY <3>1, <3>2, <3>3 DEF OpenCert, FilesOwned
    <3>4. CASE StoreCert(r)
      BY <3>1, <3>2, <3>4 DEF StoreCert, WriteCert, FilesOwned
    <3> QED BY <2>3, <3>3, <3>4
  <2>4. CASE OpenPem(r)
    BY <2>4 DEF OpenPem, FilesOwned
  <2>5. CASE StorePem(r)
    BY <2>5 DEF StorePem, FilesOwned
  <2>6. CASE CommandEnds(r)
    BY <2>6 DEF CommandEnds, FilesOwned
  <2> QED BY <1>2, <2>1, <2>2, <2>3, <2>4, <2>5, <2>6 DEF Command
<1>3. ASSUME NEW k \in Tokens, CreateToken(k) \/ RevokeToken(k) PROVE FilesOwned'
  BY <1>3 DEF CreateToken, RevokeToken, runVars, fileVars, FilesOwned
<1>4. CASE Tick
  BY <1>4 DEF Tick, runVars, fileVars, FilesOwned
<1>5. CASE UNCHANGED vars
  BY <1>5 DEF vars, runVars, fileVars, FilesOwned
<1> QED BY <1>1, <1>2, <1>3, <1>4, <1>5 DEF Next

(* Runs do not share files. *)
LEMMA FilesStayOwned == Spec => [](TypeOK /\ FilesOwned)
<1>1. Init => TypeOK /\ FilesOwned
  BY InitTyped DEF Init, FilesOwned
<1>2. TypeOK /\ FilesOwned /\ [Next]_vars => TypeOK' /\ FilesOwned'
  BY StepTyped, StepFiles
<1> QED BY <1>1, <1>2, PTL DEF Spec

(* Every reachable state is well typed; in particular node.pem is only     *)
(* ever put together from files that are there (enroll.rs:154-158).        *)
THEOREM TypeCorrect == Spec => []TypeOK
BY FilesStayOwned, PTL

-----------------------------------------------------------------------------
(* Tokens.                                                                 *)

TokensSafe == ConsumptionShows /\ ConsumedOnce /\ IssuedConsumed /\ WithdrawnAreSpent

(* Steps after which no token, stamp or result of a run is different.      *)
LEMMA TokensUntouched ==
  ASSUME TypeOK, TokensSafe, UNCHANGED <<tokens, withdrawn, stamp, affected, issued>>,
         \A r \in Runs : affected[r] => machine'[r] = machine[r] /\ token'[r] = token[r],
         \A r \in Runs : affected[r] => pc'[r] = pc[r] \/ pc'[r] \in AfterUse
  PROVE  TokensSafe'
BY DEF TokensSafe, ConsumptionShows, ConsumedOnce, IssuedConsumed, WithdrawnAreSpent,
       NodeId, TypeOK

LEMMA AdminTokens ==
  ASSUME TypeOK, TokensSafe, NEW k \in Tokens, CreateToken(k) \/ RevokeToken(k)
  PROVE  TokensSafe'
<1> USE DEF runVars, fileVars, TokensSafe, IssuedConsumed, ConsumedOnce, NodeId
<1>1. CASE CreateToken(k)
  <2>1. \A l \in Tokens : tokens[l] # Absent => tokens'[l] = tokens[l]
    BY <1>1 DEF CreateToken, TypeOK
  <2>2. ConsumptionShows'
    BY <1>1, <2>1 DEF CreateToken, ConsumptionShows, TypeOK
  <2>3. WithdrawnAreSpent'
    BY <1>1, <2>1 DEF CreateToken, WithdrawnAreSpent, TypeOK
  <2> QED BY <1>1, <2>2, <2>3 DEF CreateToken
<1>2. CASE RevokeToken(k)
  <2>1. \A l \in Tokens : tokens[l] # Absent /\ tokens[l].used # Absent => tokens'[l] = tokens[l]
    BY <1>2 DEF RevokeToken, TypeOK, Row
  <2>2. tokens'[k] # Absent /\ tokens'[k].used # Absent
    <3>1. [tokens[k] EXCEPT !.used = IF @ = Absent THEN now ELSE @] \in Row
      BY <1>2 DEF RevokeToken, TypeOK, Row
    <3> QED BY <1>2, <3>1, AbsentIsNothing DEF RevokeToken, TypeOK, Row
  <2>3. withdrawn' = withdrawn \/ (withdrawn' = withdrawn \cup {k} /\ tokens[k].used = Absent)
    BY <1>2 DEF RevokeToken
  <2>4. WithdrawnAreSpent'
    BY <1>2, <2>1, <2>2, <2>3 DEF WithdrawnAreSpent, TypeOK
  <2>5. ConsumptionShows'
    <3> SUFFICES ASSUME NEW r \in Runs, affected[r]
                 PROVE  tokens'[token[r]] = tokens[token[r]] /\ token[r] \notin withdrawn'
      BY <1>2 DEF RevokeToken, ConsumptionShows
    <3>1. token[r] \in Tokens /\ stamp[r] \in Nat /\ tokens[token[r]] # Absent
            /\ tokens[token[r]].used = stamp[r] /\ token[r] \notin withdrawn
      BY DEF ConsumptionShows, TypeOK
    <3> QED BY <2>1, <2>3, <3>1, AbsentIsNothing
  <2> QED BY <1>2, <2>4, <2>5 DEF RevokeToken
<1> QED BY <1>1, <1>2

(* A text that sorts after another is not of an earlier second. *)
LEMMA TextOrder ==
  ASSUME NEW a \in Nat, NEW b \in Nat, TextAfter(a, b)
  PROVE  Second(b) <= Second(a)
BY DEF TextAfter, Second

(* The one step that changes a row on behalf of a run. *)
LEMMA ConsumeTokens ==
  ASSUME TypeOK, TokensSafe, NEW r \in Runs, ConsumeToken(r)
  PROVE  TokensSafe'
<1> USE DEF fileVars, Advance
<1>1. pc[r] = "stamped" /\ ~affected[r] /\ token[r] \in Tokens /\ stamp[r] \in Nat
  BY DEF ConsumeToken, TokensSafe, ConsumptionShows, TypeOK
<1>2. UNCHANGED <<withdrawn, gone, machine, token, stamp, issued>>
  BY DEF ConsumeToken
<1>3. \A s \in Runs : s # r => pc'[s] = pc[s]
  BY DEF ConsumeToken, TypeOK
<1>4. CASE UNCHANGED <<tokens, affected>>
  BY <1>1, <1>2, <1>3, <1>4, TokensUntouched
<1>5. CASE /\ Matches(r) /\ pc' = [pc EXCEPT ![r] = "consumed"]
           /\ tokens' = [tokens EXCEPT ![token[r]].used = stamp[r]]
           /\ affected' = [affected EXCEPT ![r] = TRUE]
  <2> DEFINE row == tokens[token[r]]
  <2>1. row \in Row /\ row # Absent /\ row.node = NodeId(r) /\ row.used = Absent
          /\ TextAfter(row.expires, stamp[r])
    BY <1>1, <1>5 DEF Matches, TypeOK
  <2>2. Second(stamp[r]) <= Second(row.expires)
    BY <1>1, <2>1, TextOrder DEF Row
  <2>3. tokens'[token[r]] = [row EXCEPT !.used = stamp[r]]
    BY <1>1, <1>5 DEF TypeOK
  <2>4. /\ tokens'[token[r]] \in Row /\ tokens'[token[r]].used = stamp[r]
        /\ tokens'[token[r]].node = row.node /\ tokens'[token[r]].expires = row.expires
    BY <1>1, <2>1, <2>3 DEF Row
  <2>5. tokens'[token[r]] # Absent
    BY <2>4, AbsentIsNothing
  <2>6. \A s \in Runs : affected[s] => token[s] # token[r] /\ s # r
    BY <1>1, <2>1, AbsentIsNothing DEF TokensSafe, ConsumptionShows, TypeOK
  <2>7. \A l \in Tokens : l # token[r] => tokens'[l] = tokens[l]
    BY <1>5 DEF TypeOK
  <2>8. token[r] \notin withdrawn
    BY <2>1 DEF TokensSafe, WithdrawnAreSpent
  <2>9. ConsumptionShows'
    <3> SUFFICES ASSUME NEW s \in Runs, affected'[s]
                 PROVE  /\ pc'[s] \in AfterUse
                        /\ tokens'[token[s]] # Absent
                        /\ tokens'[token[s]].node = NodeId(s)
                        /\ tokens'[token[s]].used = stamp[s]
                        /\ token[s] \notin withdrawn
                        /\ Second(stamp[s]) <= Second(tokens'[token[s]].expires)
      BY <1>2 DEF ConsumptionShows, NodeId
    <3>1. CASE s = r
      BY <1>5, <2>1, <2>2, <2>4, <2>5, <2>8, <3>1 DEF TypeOK
    <3>2. CASE s # r
      <4>1. affected[s] /\ token[s] \in Tokens /\ token[s] # token[r]
        BY <1>5, <2>6, <3>2 DEF TypeOK, TokensSafe, ConsumptionShows
      <4> QED BY <1>3, <2>7, <3>2, <4>1 DEF TokensSafe, ConsumptionShows
    <3> QED BY <3>1, <3>2
  <2>10. ConsumedOnce'
    BY <1>2, <1>5, <2>6 DEF TokensSafe, ConsumedOnce, TypeOK
  <2>11. IssuedConsumed'
    BY <1>2, <1>5 DEF TokensSafe, IssuedConsumed, TypeOK
  <2>12. WithdrawnAreSpent'
    BY <1>2, <2>7, <2>8 DEF TokensSafe, WithdrawnAreSpent, TypeOK
  <2> QED BY <2>9, <2>10, <2>11, <2>12 DEF TokensSafe
<1> QED BY <1>4, <1>5 DEF ConsumeToken

LEMMA RunTokens ==
  ASSUME TypeOK, TokensSafe, NEW r \in Runs, Handler(r) \/ Command(r)
  PROVE  TokensSafe'
<1> USE DEF fileVars, Advance
<1>0. /\ affected[r] => pc[r] \in AfterUse
      /\ pc \in [Runs -> PCs] /\ affected \in [Runs -> BOOLEAN]
  BY DEF TokensSafe, ConsumptionShows, TypeOK
<1>1. CASE Sign(r)
  BY <1>0, <1>1, TokensUntouched DEF Sign, sign_csr_with_ca
<1>2. CASE TakeTime(r)
  <2>1. pc[r] = "signed" /\ ~affected[r]
    BY <1>0, <1>2 DEF TakeTime
  <2>2. \A s \in Runs : affected[s] => s # r /\ pc'[s] = pc[s] /\ stamp'[s] = stamp[s]
    BY <1>0, <1>2, <2>1 DEF TakeTime, TypeOK
  <2> QED BY <1>2, <2>2 DEF TakeTime, TokensSafe, ConsumptionShows, ConsumedOnce,
                            IssuedConsumed, WithdrawnAreSpent, NodeId, TypeOK
<1>3. CASE ConsumeToken(r)
  BY <1>3, ConsumeTokens
<1>4. CASE Answer(r)
  <2>1. \A s \in issued' : affected[s]
    BY <1>4 DEF Answer, TokensSafe, IssuedConsumed
  <2>2. \A s \in Runs : affected[s]
          => pc'[s] \in AfterUse
    BY <1>0, <1>4 DEF Answer, TokensSafe, ConsumptionShows
  <2>3. UNCHANGED <<tokens, withdrawn, machine, token, stamp, affected>>
    BY <1>4 DEF Answer
  <2> QED BY <2>1, <2>2, <2>3 DEF TokensSafe, ConsumptionShows, ConsumedOnce,
                                 IssuedConsumed, WithdrawnAreSpent, NodeId
<1>5. ASSUME NEW m \in Machines, GenerateKey(r, m) PROVE TokensSafe'
  <2>1. ~affected[r] /\ UNCHANGED <<tokens, withdrawn, stamp, affected, issued>>
    BY <1>0, <1>5 DEF GenerateKey
  <2>2. \A s \in Runs : s # r =>
          machine'[s] = machine[s] /\ token'[s] = token[s] /\ pc'[s] = pc[s]
    BY <1>5 DEF GenerateKey, TypeOK
  <2> QED BY <2>1, <2>2, TokensUntouched
<1>6. CASE Post(r)
  BY <1>0, <1>6, TokensUntouched DEF Post
<1>7. CASE StoreCert(r)
  BY <1>0, <1>7, TokensUntouched DEF StoreCert
<1>8. CASE StorePem(r)
  BY <1>0, <1>8, TokensUntouched DEF StorePem
<1>9. CASE CommandEnds(r)
  BY <1>0, <1>9, TokensUntouched DEF CommandEnds
<1>10. CASE OpenCert(r)
  BY <1>0, <1>10, TokensUntouched DEF OpenCert
<1>11. CASE OpenPem(r)
  BY <1>0, <1>11, TokensUntouched DEF OpenPem
<1> QED BY <1>1, <1>2, <1>3, <1>4, <1>5, <1>6, <1>7, <1>8, <1>9, <1>10, <1>11
        DEF Handler, Command

LEMMA StepTokens == TypeOK /\ TokensSafe /\ [Next]_vars => TokensSafe'
<1>1. TypeOK /\ TokensSafe /\ (Tick \/ UNCHANGED vars) => TokensSafe'
  BY DEF Tick, vars, runVars, fileVars, TokensSafe, ConsumptionShows, ConsumedOnce,
         IssuedConsumed, WithdrawnAreSpent, NodeId
<1> QED BY <1>1, AdminTokens, RunTokens DEF Next

LEMMA TokensStaySafe == Spec => [](TypeOK /\ TokensSafe)
<1>1. Init => TokensSafe
  BY DEF Init, TokensSafe, ConsumptionShows, ConsumedOnce, IssuedConsumed, WithdrawnAreSpent
<1> QED BY <1>1, StepTokens, TypeCorrect, PTL DEF Spec

(* A token yields at most one certificate, for its node, and its row says  *)
(* when, however handlers, revocations and lost answers interleave.        *)
THEOREM OneCertificate == Spec => []OneCertificatePerToken
<1>1. TypeOK /\ TokensSafe => OneCertificatePerToken
  BY DEF TypeOK, TokensSafe, ConsumptionShows, ConsumedOnce, IssuedConsumed,
         OneCertificatePerToken
<1> QED BY <1>1, TokensStaySafe, PTL

(* A token withdrawn before its use never yields a certificate, also to a  *)
(* handler that was signing when it was withdrawn.                         *)
THEOREM WithdrawnIsWithdrawn == Spec => []WithdrawnYieldsNothing
<1>1. TokensSafe => WithdrawnYieldsNothing
  BY DEF TokensSafe, ConsumptionShows, WithdrawnYieldsNothing
<1> QED BY <1>1, TokensStaySafe, PTL

(* No certificate comes of a token whose last second was over, though the  *)
(* database compares texts.                                                *)
THEOREM ConsumedBeforeExpiry == Spec => []ConsumedInTime
<1>1. TypeOK /\ TokensSafe => ConsumedInTime
  BY DEF TypeOK, TokensSafe, ConsumptionShows, IssuedConsumed, ConsumedInTime
<1> QED BY <1>1, TokensStaySafe, PTL

(* The time of use in a row never changes. *)
THEOREM UseStays == Spec => UseIsFinal
<1>1. ASSUME TypeOK, [Next]_vars, NEW k \in Tokens,
             tokens[k] # Absent, tokens[k].used # Absent
      PROVE  tokens'[k] = tokens[k]
  <2> USE <1>1 DEF runVars, fileVars, Advance
  <2>1. ASSUME NEW l \in Tokens, CreateToken(l) PROVE tokens'[k] = tokens[k]
    BY <2>1 DEF CreateToken, TypeOK
  <2>2. ASSUME NEW l \in Tokens, RevokeToken(l) PROVE tokens'[k] = tokens[k]
    BY <2>2 DEF RevokeToken, TypeOK, Row
  <2>3. ASSUME NEW r \in Runs, ConsumeToken(r) PROVE tokens'[k] = tokens[k]
    BY <2>3 DEF ConsumeToken, Matches, TypeOK
  <2>4. ASSUME NEW r \in Runs, Sign(r) \/ TakeTime(r) \/ Answer(r) \/ Command(r)
        PROVE  tokens' = tokens
    BY <2>4 DEF Sign, sign_csr_with_ca, TakeTime, Answer, Command, GenerateKey, Post,
                OpenCert, StoreCert, OpenPem, StorePem, CommandEnds
  <2>5. Tick \/ UNCHANGED vars => tokens' = tokens
    BY DEF Tick, vars
  <2> QED BY <2>1, <2>2, <2>3, <2>4, <2>5 DEF Next, Handler
<1>2. TypeOK /\ [Next]_vars =>
        [\A k \in Tokens : tokens[k] # Absent /\ tokens[k].used # Absent
           => tokens'[k] = tokens[k]]_vars
  BY <1>1
<1> QED BY <1>2, TypeCorrect, PTL DEF Spec, UseIsFinal

-----------------------------------------------------------------------------
(* Steps that leave node.pem alone, take no run out of its write and       *)
(* withdraw no certificate.                                                *)
LEMMA PemUntouched ==
  ASSUME PemMatches, pem' = pem, issued \subseteq issued',
         \A r \in issued : machine'[r] = machine[r]
                            /\ (pc[r] = "writing" => pc'[r] = "writing")
  PROVE  PemMatches'
BY DEF PemMatches

(* A whole node.pem holds an issued certificate and its own key; one cut   *)
(* short is left by a run that was issued a certificate and ended in the   *)
(* write, on that machine.                                                 *)
THEOREM PemMatchesOrCut == Spec => []PemMatches
<1>1. Init => PemMatches
  BY EnrollmentAssumption DEF Init, PemMatches
<1>2. ASSUME TypeOK, FilesOwned, PemMatches, [Next]_vars PROVE PemMatches'
  <2> USE <1>2 DEF runVars, fileVars, Advance
  <2>1. ASSUME NEW r \in Runs, StorePem(r) PROVE PemMatches'
    <3>1. /\ machine[r] \in Machines /\ r \in issued
          /\ cert[machine[r]] = r /\ key[machine[r]] = r
      BY <2>1 DEF StorePem, FilesOwned, TypeOK
    <3>2. pem'[machine[r]] = [cert |-> r, key |-> r]
      BY <2>1, <3>1 DEF StorePem, TypeOK
    <3>3. pem'[machine[r]] # Cut
      BY <3>2, EnrollmentAssumption
    <3>4. \A s \in Runs : s # r => pc'[s] = pc[s]
      BY <2>1 DEF StorePem, TypeOK
    <3>5. \A m \in Machines : m # machine[r] => pem'[m] = pem[m]
      BY <2>1 DEF StorePem, TypeOK
    <3>6. UNCHANGED <<issued, machine>> /\ issued \subseteq Runs
      BY <2>1 DEF StorePem, TypeOK
    <3> QED BY <3>1, <3>2, <3>3, <3>4, <3>5, <3>6 DEF PemMatches
  <2>2. ASSUME NEW r \in Runs, OpenPem(r) PROVE PemMatches'
    <3>1. machine[r] \in Machines /\ r \in issued /\ pc'[r] = "writing"
      BY <2>2 DEF OpenPem, FilesOwned, TypeOK
    <3>2. \A s \in Runs : s # r => pc'[s] = pc[s]
      BY <2>2 DEF OpenPem, TypeOK
    <3>3. pem' = [pem EXCEPT ![machine[r]] = Cut] /\ UNCHANGED <<issued, machine>>
      BY <2>2 DEF OpenPem
    <3> QED BY <3>1, <3>2, <3>3 DEF PemMatches, TypeOK
  <2>3. ASSUME NEW r \in Runs,
               Handler(r) \/ Post(r) \/ OpenCert(r) \/ StoreCert(r) \/ CommandEnds(r)
        PROVE  PemMatches'
    <3>1. pem' = pem /\ machine' = machine /\ issued \subseteq issued'
      BY <2>3 DEF Handler, Sign, TakeTime, ConsumeToken, Answer, Post, OpenCert,
                  StoreCert, CommandEnds
    <3>2. ASSUME NEW s \in Runs, pc[s] = "writing" PROVE pc'[s] = "writing"
      BY <2>3, <3>2 DEF Handler, Sign, sign_csr_with_ca, TakeTime, ConsumeToken, Answer,
                        Post, OpenCert, StoreCert, CommandEnds, TypeOK
    <3> QED BY <3>1, <3>2, PemUntouched DEF TypeOK
  <2>4. ASSUME NEW r \in Runs, NEW m \in Machines, GenerateKey(r, m) PROVE PemMatches'
    <3>1. pc[r] = "new" /\ pem' = pem /\ issued' = issued
      BY <2>4 DEF GenerateKey
    <3>2. \A s \in Runs : s # r => machine'[s] = machine[s] /\ pc'[s] = pc[s]
      BY <2>4 DEF GenerateKey, TypeOK
    <3> QED BY <3>1, <3>2 DEF PemMatches, TypeOK
  <2>5. ASSUME NEW k \in Tokens, CreateToken(k) \/ RevokeToken(k)
        PROVE  PemMatches'
    BY <2>5, PemUntouched DEF CreateToken, RevokeToken
  <2>6. Tick \/ UNCHANGED vars => PemMatches'
    BY PemUntouched DEF Tick, vars
  <2> QED BY <2>1, <2>2, <2>3, <2>4, <2>5, <2>6 DEF Next, Command
<1> QED BY <1>1, <1>2, FilesStayOwned, PTL DEF Spec
=============================================================================
