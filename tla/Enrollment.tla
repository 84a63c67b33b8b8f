----------------------------- MODULE Enrollment -----------------------------
(***************************************************************************)
(* Bootstrap enrollment: one-time tokens in SQLite (db.rs), the handlers   *)
(* that create, revoke and consume them (enrollment.rs), and the Linux     *)
(* node's enroll command (enroll.rs) with the files it leaves behind.      *)
(* Handlers interleave at their awaits; a command may be killed or lose    *)
(* its connection anywhere, and is run again.  A file is first emptied and *)
(* then written, and a command that ends in between leaves it cut.         *)
(*                                                                         *)
(* Requests that fail the checks of their form or of the admin's bearer    *)
(* change nothing and are left out.  An instant is a number of half        *)
(* seconds; the database compares instants as the RFC 3339 texts stored.   *)
(***************************************************************************)
EXTENDS Naturals

CONSTANTS
  Nodes,       \* node ids
  Machines,    \* machines the enroll command runs on
  NodeOf,      \* the node id typed on a machine
  Tokens,      \* token values (each a fresh pair of UUIDs)
  Runs,        \* runs of the enroll command
  Absent,      \* "None", NULL
  Cut,         \* contents of a file emptied and not, or not wholly, written
  TtlAsked,    \* bound: the values of ttl_seconds asked for
  MinTtl, MaxTtl, DefaultTtl,  \* seconds
  MaxTime      \* bound: the clock

Row == [node: Nodes, expires: Nat, used: Nat \cup {Absent}]

ASSUME EnrollmentAssumption ==
  /\ NodeOf \in [Machines -> Nodes]
  /\ Absent \notin Nodes \cup Machines \cup Tokens \cup Runs \cup Nat \cup Row
  /\ Cut \notin {Absent} \cup Runs \cup [cert: Runs, key: Runs]
  /\ TtlAsked \subseteq Nat
  /\ MinTtl \in Nat /\ MaxTtl \in Nat /\ DefaultTtl \in Nat /\ MaxTime \in Nat

VARIABLES
  now,         \* the Fleet Manager's clock
  tokens,      \* table enrollment_tokens: token -> row, or Absent
  withdrawn,   \* tokens revoked before they were used (history)
  pc,          \* run: where the command, or the handler it waits for, is
  gone,        \* run: has the command lost its connection, or been killed?
  machine, token,  \* run: where it runs, and the --token it was given
  stamp,       \* run: the handler's now_rfc3339
  affected,    \* run: did its UPDATE change a row?
  issued,      \* runs answered with a certificate
  key, cert, pem   \* machine: the key file's, certificate's and node.pem's run

runVars  == <<pc, gone, machine, token, stamp, affected>>
fileVars == <<key, cert, pem>>
vars == <<now, tokens, withdrawn, runVars, issued, fileVars>>

\* The command generates a key and posts; the handler signs, takes the time,
\* consumes the token and answers; the command stores what it got: it opens the
\* certificate's file ("storing"), writes it ("stored"), opens node.pem ("writing")
\* and writes it ("done").
PCs == {"new", "keyed", "signing", "signed", "stamped", "consumed", "certified",
        "storing", "stored", "writing", "done", "failed"}

TypeOK ==
  /\ now \in Nat
  /\ tokens \in [Tokens -> Row \cup {Absent}]
  /\ withdrawn \subseteq Tokens
  /\ pc \in [Runs -> PCs] /\ gone \in [Runs -> BOOLEAN]
  /\ machine \in [Runs -> Machines \cup {Absent}]
  /\ token \in [Runs -> Tokens \cup {Absent}]
  /\ \A r \in Runs : pc[r] # "new" => machine[r] \in Machines /\ token[r] \in Tokens
  /\ stamp \in [Runs -> Nat]
  /\ affected \in [Runs -> BOOLEAN]
  /\ issued \subseteq Runs
  /\ key \in [Machines -> Runs \cup {Absent}]
  /\ cert \in [Machines -> Runs \cup {Absent, Cut}]
  /\ pem \in [Machines -> [cert: Runs, key: Runs] \cup {Absent, Cut}]

Init ==
  /\ now = 0
  /\ tokens = [k \in Tokens |-> Absent]
  /\ withdrawn = {}
  /\ pc = [r \in Runs |-> "new"]
  /\ gone = [r \in Runs |-> FALSE]
  /\ machine = [r \in Runs |-> Absent]
  /\ token = [r \in Runs |-> Absent]
  /\ stamp = [r \in Runs |-> 0]
  /\ affected = [r \in Runs |-> FALSE]
  /\ issued = {}
  /\ key = [m \in Machines |-> Absent]
  /\ cert = [m \in Machines |-> Absent]
  /\ pem = [m \in Machines |-> Absent]

-----------------------------------------------------------------------------
(* Time.  An RFC 3339 text has no fraction in a whole second, and else the *)
(* fraction's digits without trailing zeros; then comes the Z, which sorts *)
(* after the point and the digits: "...:07Z" is a greater text than        *)
(* "...:07.5Z", half a second later.  (Shorter fractions sort after the    *)
(* longer ones they begin in the same way, which halves do not show.)      *)

Second(t) == t \div 2

WholeSecond(t) == t % 2 = 0

\* The text of instant a sorts after the text of instant b.
TextAfter(a, b) ==
  \/ Second(a) > Second(b)
  \/ Second(a) = Second(b) /\ WholeSecond(a) /\ ~WholeSecond(b)

\* ttl_seconds out of range counts as not given.
Ttl(asked) == IF asked \in MinTtl .. MaxTtl THEN asked ELSE DefaultTtl

-----------------------------------------------------------------------------
(* The admin's requests.  A statement that fails changes nothing.          *)

CreateToken(k) ==
  /\ tokens[k] = Absent
  /\ \E n \in Nodes, asked \in TtlAsked \cup {Absent} :
       tokens' = [tokens EXCEPT ![k] =
         [node |-> n, expires |-> now + 2 * Ttl(asked), used |-> Absent]]
  /\ UNCHANGED <<now, withdrawn, runVars, issued, fileVars>>

\* mutated: without COALESCE
RevokeAgain(k) ==
  /\ tokens[k] # Absent
  /\ tokens' = [tokens EXCEPT ![k].used = now]
  /\ withdrawn' = IF tokens[k].used = Absent THEN withdrawn \cup {k} ELSE withdrawn
  /\ UNCHANGED <<now, runVars, issued, fileVars>>

\* COALESCE(used_at, now): "revoked" is also the answer for a used token.
RevokeToken(k) ==
  /\ tokens[k] # Absent
  /\ tokens' = [tokens EXCEPT ![k].used = IF @ = Absent THEN now ELSE @]
  /\ withdrawn' = IF tokens[k].used = Absent THEN withdrawn \cup {k} ELSE withdrawn
  /\ UNCHANGED <<now, runVars, issued, fileVars>>

-----------------------------------------------------------------------------
(* enroll_node.  Nothing tells it that the command has gone; if its future *)
(* is dropped then, it takes no further step.                              *)

Advance(r, from, to) == pc[r] = from /\ pc' = [pc EXCEPT ![r] = to]

\* openssl checks and signs the CSR in a directory of its own, or fails.
sign_csr_with_ca(r) ==
  Advance(r, "signing", "signed") \/ Advance(r, "signing", "failed")

\* The CSR is signed and the CA read, or the answer is 400 or 500.
Sign(r) ==
  /\ sign_csr_with_ca(r)
  /\ UNCHANGED <<now, tokens, withdrawn, gone, machine, token, stamp, affected,
                 issued, fileVars>>

TakeTime(r) ==
  /\ Advance(r, "signed", "stamped")
  /\ stamp' = [stamp EXCEPT ![r] = now]
  /\ UNCHANGED <<now, tokens, withdrawn, gone, machine, token, affected, issued, fileVars>>

NodeId(r) == NodeOf[machine[r]]

\* mutated: the UPDATE without used_at IS NULL
MatchesUsed(r) ==
  LET row == tokens[token[r]]
  IN row # Absent /\ row.node = NodeId(r) /\ TextAfter(row.expires, stamp[r])

\* mutated: the UPDATE without expires_at > ?
MatchesExpired(r) ==
  LET row == tokens[token[r]]
  IN row # Absent /\ row.node = NodeId(r) /\ row.used = Absent

\* The WHERE of the UPDATE.
Matches(r) ==
  LET row == tokens[token[r]]
  IN /\ row # Absent
     /\ row.node = NodeId(r) /\ row.used = Absent
     /\ TextAfter(row.expires, stamp[r])

\* One statement; it may fail, and the answer is 500.
ConsumeToken(r) ==
  /\ \/ /\ Advance(r, "stamped", "consumed") /\ Matches(r)
        /\ tokens' = [tokens EXCEPT ![token[r]].used = stamp[r]]
        /\ affected' = [affected EXCEPT ![r] = TRUE]
     \/ /\ Advance(r, "stamped", "consumed") /\ ~Matches(r)
        /\ UNCHANGED <<tokens, affected>>
     \/ /\ Advance(r, "stamped", "failed")
        /\ UNCHANGED <<tokens, affected>>
  /\ UNCHANGED <<now, withdrawn, gone, machine, token, stamp, issued, fileVars>>

\* mutated: an update of no row is no error
AnswerAlways(r) ==
  /\ Advance(r, "consumed", "certified")
  /\ issued' = issued \cup {r}
  /\ UNCHANGED <<now, tokens, withdrawn, gone, machine, token, stamp, affected, fileVars>>

\* The certificate, or 401 "invalid or expired token".
Answer(r) ==
  /\ IF affected[r] THEN Advance(r, "consumed", "certified") /\ issued' = issued \cup {r}
                    ELSE Advance(r, "consumed", "failed") /\ UNCHANGED issued
  /\ UNCHANGED <<now, tokens, withdrawn, gone, machine, token, stamp, affected, fileVars>>

-----------------------------------------------------------------------------
(* The enroll command.  One runs on a machine at a time.                   *)

Active(m) == {r \in Runs :
  machine[r] = m /\ ~gone[r] /\ pc[r] \notin {"new", "done", "failed"}}

\* A new private key replaces the one in the output directory.  (A key file that
\* openssl leaves cut is read by no later step: the run is over.)
GenerateKey(r, m) ==
  /\ Advance(r, "new", "keyed") /\ Active(m) = {}
  /\ machine' = [machine EXCEPT ![r] = m]
  /\ \E k \in Tokens : tokens[k] # Absent /\ token' = [token EXCEPT ![r] = k]
  /\ key' = [key EXCEPT ![m] = r]
  /\ UNCHANGED <<now, tokens, withdrawn, gone, stamp, affected, issued, cert, pem>>

Post(r) ==
  /\ ~gone[r] /\ Advance(r, "keyed", "signing")
  /\ UNCHANGED <<now, tokens, withdrawn, gone, machine, token, stamp, affected,
                 issued, fileVars>>

\* mutated: the certificate's file is left to the caller
KeepCert(r) == UNCHANGED cert

WriteCert(r) == cert' = [cert EXCEPT ![machine[r]] = r]

OpenCert(r) ==
  /\ ~gone[r] /\ Advance(r, "certified", "storing")
  /\ cert' = [cert EXCEPT ![machine[r]] = Cut]
  /\ UNCHANGED <<now, tokens, withdrawn, gone, machine, token, stamp, affected,
                 issued, key, pem>>

StoreCert(r) ==
  /\ ~gone[r] /\ Advance(r, "storing", "stored")
  /\ WriteCert(r)
  /\ UNCHANGED <<now, tokens, withdrawn, gone, machine, token, stamp, affected,
                 issued, key, pem>>

\* The files of certificate and key have been read; node.pem is opened, and what
\* it held is gone.
OpenPem(r) ==
  /\ ~gone[r] /\ Advance(r, "stored", "writing")
  /\ pem' = [pem EXCEPT ![machine[r]] = Cut]
  /\ UNCHANGED <<now, tokens, withdrawn, gone, machine, token, stamp, affected,
                 issued, key, cert>>

\* node.pem is written whole, from the two files (no one has changed them since
\* they were read: only one command is active on a machine).
StorePem(r) ==
  /\ ~gone[r] /\ Advance(r, "writing", "done")
  /\ pem' = [pem EXCEPT ![machine[r]] = [cert |-> cert[machine[r]], key |-> key[machine[r]]]]
  /\ UNCHANGED <<now, tokens, withdrawn, gone, machine, token, stamp, affected,
                 issued, key, cert>>

\* Any step of the command fails, its connection is lost, the disk is full, or it
\* is killed.
CommandEnds(r) ==
  /\ ~gone[r] /\ pc[r] \notin {"new", "done", "failed"}
  /\ gone' = [gone EXCEPT ![r] = TRUE]
  /\ UNCHANGED <<now, tokens, withdrawn, pc, machine, token, stamp, affected,
                 issued, fileVars>>

-----------------------------------------------------------------------------
Tick ==
  /\ now < MaxTime
  /\ now' = now + 1
  /\ UNCHANGED <<tokens, withdrawn, runVars, issued, fileVars>>

Handler(r) == Sign(r) \/ TakeTime(r) \/ ConsumeToken(r) \/ Answer(r)

Command(r) ==
  \/ \E m \in Machines : GenerateKey(r, m)
  \/ Post(r) \/ OpenCert(r) \/ StoreCert(r) \/ OpenPem(r) \/ StorePem(r)
  \/ CommandEnds(r)

Next ==
  \/ \E k \in Tokens : CreateToken(k) \/ RevokeToken(k)
  \/ \E r \in Runs : Handler(r) \/ Command(r)
  \/ Tick

Spec == Init /\ [][Next]_vars

-----------------------------------------------------------------------------
(* Properties *)

\* A token yields one certificate, for the node it was made for, and the row says
\* when: two commands with one token, or one run again, cannot both have one,
\* however their handlers interleave (DESIGN.md:231-234, db.rs:259-281).
OneCertificatePerToken ==
  \A r \in issued :
    /\ tokens[token[r]] # Absent
    /\ tokens[token[r]].node = NodeId(r)
    /\ tokens[token[r]].used = stamp[r]
    /\ \A s \in issued : token[s] = token[r] => s = r

\* A token withdrawn before its use never yields a certificate, even to a handler
\* that was signing at the time (SETUP.md:191 "revokes a token immediately").
WithdrawnYieldsNothing ==
  \A r \in Runs : affected[r] => token[r] \notin withdrawn

\* Comparing texts instead of instants is right to the second: no certificate
\* comes of a token whose last second was over when the handler took the time.
ConsumedInTime ==
  \A r \in issued : Second(stamp[r]) <= Second(tokens[token[r]].expires)

\* The time of use in a row is final: revoking a used token keeps it.
UseIsFinal ==
  [][\A k \in Tokens : tokens[k] # Absent /\ tokens[k].used # Absent
       => tokens'[k] = tokens[k]]_vars

\* A whole node.pem holds a certificate of the key next to it, whichever run wrote
\* which of the files and wherever runs ended: a run that fails leaves a new key
\* behind, but never in node.pem.  A cut one is only left by a run that had its
\* certificate and ended in the very write (enroll.rs:93-158): no run that is
\* refused, or fails before, destroys the node.pem that is there.
PemMatches ==
  \A m \in Machines :
    /\ pem[m] \notin {Absent, Cut} => pem[m].cert = pem[m].key /\ pem[m].cert \in issued
    /\ pem[m] = Cut => \E r \in issued : machine[r] = m /\ pc[r] = "writing"
=============================================================================
