--------------------------- MODULE PreconferSigner ---------------------------
(***************************************************************************)
(* The preconfer signer (src/services/preconfer-signer/src/main.rs): a     *)
(* service that promises, for the one bond of its profile, to confirm one  *)
(* transaction.  Two different receipts for a bond forfeit its collateral, *)
(* so a decision is written to a journal before its receipt is published.  *)
(*                                                                         *)
(* Requests of several connections run concurrently in one process; only   *)
(* the look-up in the journal and the commit hold its mutex.  A process    *)
(* may die at any point, and another may be started at any time.           *)
(***************************************************************************)
EXTENDS Naturals, Sequences

CONSTANTS
    Procs,     \* processes started on the same configuration
    Requests,  \* preconfirm messages
    Spenders,  \* transactions that spend the protected output
    NRelays,   \* relay_urls, at least two
    Nothing    \* no process, no transaction

ASSUME SignerAssumption ==
    /\ Nothing \notin Spenders /\ Nothing \notin Procs
    /\ NRelays \in Nat /\ NRelays >= 2

VARIABLES
    header,    \* the journal has its header line
    lines,     \* the receipts in the journal
    torn,      \* the journal ends in a half-written line
    proc,      \* process -> its DecisionJournal
    req,       \* request -> its progress
    relay,     \* relay -> the receipt it stores for the bond
    mempool,   \* transactions the node accepted
    released   \* receipts that left a process

signerVars == <<header, lines, torn, proc, req, relay, mempool, released>>
journal == <<header, lines, torn>>
world == <<relay, mempool, released>>

Process == [up : BOOLEAN, decision : Spenders \cup {Nothing}, failed : BOOLEAN]

Request == [at : {"new", "lookup", "validate", "commit", "publish", "broadcast", "ok", "error"},
            proc : Procs \cup {Nothing}, tx : Spenders \cup {Nothing}, acks : Nat]

(* The values every variable may take.                                       *)
SignerTypeOK ==
    /\ header \in BOOLEAN /\ torn \in BOOLEAN
    /\ lines \in Seq(Spenders)
    /\ proc \in [Procs -> Process]
    /\ req \in [Requests -> Request]
    /\ relay \in [1..NRelays -> Spenders \cup {Nothing}]
    /\ mempool \subseteq Spenders /\ released \subseteq Spenders

Down == [up |-> FALSE, decision |-> Nothing, failed |-> FALSE]

SignerInit ==
    /\ header = FALSE /\ lines = <<>> /\ torn = FALSE
    /\ proc = [p \in Procs |-> Down]
    /\ req = [r \in Requests |-> [at |-> "new", proc |-> Nothing, tx |-> Nothing, acks |-> 0]]
    /\ relay = [i \in 1..NRelays |-> Nothing]
    /\ mempool = {} /\ released = {}

-----------------------------------------------------------------------------
(* DecisionJournal::open.                                                    *)

(* Mutant of LockFree: the file is not locked.                               *)
LockFreeAlways(p) == TRUE

(* try_lock: the file lock dies with its process.                            *)
LockFree(p) == \A q \in Procs : ~proc[q].up

(* A torn journal, or one with two decisions, keeps the service down.        *)
Start(p) ==
    /\ ~proc[p].up
    /\ LockFree(p)
    /\ ~torn /\ Len(lines) <= 1
    /\ header' = TRUE
    /\ proc' = [proc EXCEPT ![p] = [up |-> TRUE, failed |-> FALSE,
                                    decision |-> IF lines = <<>> THEN Nothing ELSE lines[1]]]
    /\ UNCHANGED <<lines, torn, req, world>>

(* The header of a new journal could not be written durably.                 *)
HeaderFails(p) ==
    /\ ~proc[p].up
    /\ LockFree(p)
    /\ ~header /\ ~torn
    /\ \/ header' = TRUE /\ UNCHANGED torn
       \/ torn' = TRUE /\ UNCHANGED header
    /\ UNCHANGED <<lines, proc, req, world>>

-----------------------------------------------------------------------------
(* preconfirm.                                                               *)

Goto(r, at) == req' = [req EXCEPT ![r].at = at]

At(r, at) == req[r].at = at

Arrive(r, p, tx) ==
    /\ At(r, "new")
    /\ proc[p].up
    /\ req' = [req EXCEPT ![r] = [at |-> "lookup", proc |-> p, tx |-> tx, acks |-> 0]]
    /\ UNCHANGED <<journal, proc, world>>

(* existing, under the mutex: a decided transaction is published again, any  *)
(* other is refused.                                                         *)
Lookup(r) ==
    /\ At(r, "lookup")
    /\ LET decision == proc[req[r].proc].decision IN
         Goto(r, CASE decision = Nothing -> "validate"
                   [] decision = req[r].tx -> "publish"
                   [] OTHER -> "error")
    /\ UNCHANGED <<journal, proc, world>>

(* The node has validated chain, bond and transaction; the receipt is signed *)
(* but still private.                                                        *)
Validated(r) ==
    /\ At(r, "validate")
    /\ Goto(r, "commit")
    /\ UNCHANGED <<journal, proc, world>>

(* The request is malformed, the node refuses it, or the mutex is poisoned.  *)
Refused(r) ==
    /\ req[r].at \in {"lookup", "validate", "commit"}
    /\ Goto(r, "error")
    /\ UNCHANGED <<journal, proc, world>>

(* Another request has decided meanwhile.                                    *)
CommitExisting(r) ==
    /\ At(r, "commit")
    /\ LET p == req[r].proc IN
         /\ ~proc[p].failed
         /\ proc[p].decision # Nothing
         /\ Goto(r, IF proc[p].decision = req[r].tx THEN "publish" ELSE "error")
    /\ UNCHANGED <<journal, proc, world>>

(* Mutant of Appendable: a failed journal is used again.                     *)
AppendableAgain(p) == proc[p].decision = Nothing

(* commit goes as far as to append a line.                                   *)
Appendable(p) == ~proc[p].failed /\ proc[p].decision = Nothing

(* The line is appended and synced.                                          *)
CommitNew(r) ==
    /\ At(r, "commit")
    /\ Appendable(req[r].proc)
    /\ lines' = Append(lines, req[r].tx)
    /\ proc' = [proc EXCEPT ![req[r].proc].decision = req[r].tx]
    /\ Goto(r, "publish")
    /\ UNCHANGED <<header, torn, world>>

(* The append failed before, in the middle of, or after its write.           *)
CommitFails(r) ==
    /\ At(r, "commit")
    /\ Appendable(req[r].proc)
    /\ \/ torn' \in {torn, TRUE} /\ UNCHANGED lines
       \/ lines' = Append(lines, req[r].tx) /\ UNCHANGED torn
    /\ proc' = [proc EXCEPT ![req[r].proc].failed = TRUE]
    /\ Goto(r, "error")
    /\ UNCHANGED <<header, world>>

(* Mutant of PublishedTo: the acknowledgement of one relay will do.          *)
PublishedToAny(r) == IF req[r].acks + 1 >= 1 THEN "broadcast" ELSE "publish"

PublishedTo(r) == IF req[r].acks + 1 = NRelays THEN "broadcast" ELSE "publish"

(* The next relay stores the receipt, or has it already, and says so; it may *)
(* also store it and the answer be lost.                                     *)
PublishReceipt(r) ==
    /\ At(r, "publish")
    /\ LET i == req[r].acks + 1 IN
         /\ relay[i] \in {Nothing, req[r].tx}
         /\ relay' = [relay EXCEPT ![i] = req[r].tx]
         /\ \/ req' = [req EXCEPT ![r].acks = i, ![r].at = PublishedTo(r)]
            \/ Goto(r, "error")
    /\ released' = released \cup {req[r].tx}
    /\ UNCHANGED <<journal, proc, mempool>>

(* The relay is unreachable or refuses; nothing is undone.                   *)
PublishFails(r) ==
    /\ At(r, "publish")
    /\ Goto(r, "error")
    /\ released' \in {released, released \cup {req[r].tx}}
    /\ UNCHANGED <<journal, proc, relay, mempool>>

(* The node has the transaction, now or from an earlier attempt.             *)
Broadcast(r) ==
    /\ At(r, "broadcast")
    /\ mempool' = mempool \cup {req[r].tx}
    /\ Goto(r, "ok")
    /\ UNCHANGED <<journal, proc, relay, released>>

(* The receipt is durable but the broadcast is uncertain.                    *)
BroadcastFails(r) ==
    /\ At(r, "broadcast")
    /\ mempool' \in {mempool, mempool \cup {req[r].tx}}
    /\ Goto(r, "error")
    /\ UNCHANGED <<journal, proc, relay, released>>

-----------------------------------------------------------------------------
(* The process dies, its requests with it.  A line that was being appended   *)
(* may be in the journal, in part or as a whole.                             *)
Crash(p) ==
    /\ proc[p].up
    /\ proc' = [proc EXCEPT ![p] = Down]
    /\ req' = [r \in Requests |-> IF req[r].proc = p /\ req[r].at \notin {"ok", "error"}
                                    THEN [req[r] EXCEPT !.at = "error"] ELSE req[r]]
    /\ \/ UNCHANGED <<lines, torn>>
       \/ \E r \in Requests :
            /\ At(r, "commit") /\ req[r].proc = p /\ Appendable(p)
            /\ \/ torn' = TRUE /\ UNCHANGED lines
               \/ lines' = Append(lines, req[r].tx) /\ UNCHANGED torn
    /\ UNCHANGED <<header, world>>

SignerNext ==
    \/ \E p \in Procs : Start(p) \/ HeaderFails(p) \/ Crash(p)
    \/ \E r \in Requests :
         \/ \E p \in Procs, tx \in Spenders : Arrive(r, p, tx)
         \/ Lookup(r) \/ Validated(r) \/ Refused(r)
         \/ CommitExisting(r) \/ CommitNew(r) \/ CommitFails(r)
         \/ PublishReceipt(r) \/ PublishFails(r) \/ Broadcast(r) \/ BroadcastFails(r)

SignerSpec == SignerInit /\ [][SignerNext]_signerVars

-----------------------------------------------------------------------------
(* Whatever has left a process is the only decision in a readable journal:   *)
(* no crash, failed write, concurrent request or second process makes the    *)
(* service forget a receipt, contradict it, or refuse to start again.        *)
ReleasedRecoverable == \A tx \in released : lines = <<tx>> /\ ~torn

(* Once a bond has a decision, only the identical transaction is retryable:  *)
(* the service never has two different receipts out.                         *)
OneReceipt == \A s, t \in released : s = t

(* A client that reads Preconfirmed can rely on it: every relay stores the   *)
(* receipt and the node has the transaction.                                 *)
PreconfirmedHolds ==
    \A r \in Requests : req[r].at = "ok" =>
        req[r].tx \in mempool /\ \A i \in 1..NRelays : relay[i] = req[r].tx
=============================================================================
