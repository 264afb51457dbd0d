------------------------------ MODULE SpendGate ------------------------------
(***************************************************************************)
(* The signing gate of epw: authorize_and_sign                             *)
(* (src/rust/wallet-cli/src/gate.rs), the policy it evaluates (policy.rs)  *)
(* and the audit log that is also the policy's spend history (audit.rs).   *)
(*                                                                         *)
(* Several epw processes (commands, `epw sign`, the MCP server) share one  *)
(* home directory and no lock.  Each process is one call of the gate at a  *)
(* time; it may die at any point, also in the middle of an append.         *)
(***************************************************************************)
EXTENDS Integers, Sequences, FiniteSets, Functions

CONSTANTS
    Procs,      \* epw processes
    Bundles,    \* approval bundles
    Content,    \* bundle -> its steps and the DEX it relies on
    Assets, PolicyAsset,
    Policies,   \* resolved policy.toml files
    Window,     \* WINDOW_SECS, in ticks
    MaxTime,    \* bound: ticks explored
    MaxCalls,   \* bound: calls of the gate
    None        \* no limit, no list, no DEX

Kinds == {"transfer", "swap_take", "swap_offer"}
Approvals == {"interactive", "deferred", "prepare", "approved"}

ASSUME GateAssumption ==
    /\ Window \in Nat \ {0} /\ MaxTime \in Nat /\ MaxCalls \in Nat
    /\ PolicyAsset \in Assets
    /\ Bundles # {}
    /\ \A limits \in Policies, a \in Assets :
         limits.per24h[a] # None => limits.per24h[a] \in Nat
    /\ \A b \in Bundles :
         /\ Len(Content[b].steps) \in Nat
         /\ \A i \in 1..Len(Content[b].steps) :
              LET s == Content[b].steps[i] IN
              s.kind \in Kinds /\ s.out \in [Assets -> Nat] /\ s.fee \in Nat

VARIABLES
    audit,     \* the JSONL log: "signed" entries with their time and spend
    tail,      \* how the log's text ends, and whether it can be read
    parked,    \* bundles with a file in pending/
    proc,      \* process -> the gate call it is in
    released,  \* signatures handed back to the caller of the gate
    calls,
    policy,    \* the policy in force; nothing here changes it
    now

vars == <<audit, tail, parked, proc, released, calls, policy, now>>

(* "ended": the last line has its newline; "open": the last line is complete  *)
(* but its newline was not written; "torn": some line is not an entry.        *)
Tails == {"ended", "open", "torn"}

Call == [at : {"idle", "review", "confirm", "sign"}, bundle : Bundles, approval : Approvals,
         step : Nat, human : BOOLEAN]

Entry == [time : Nat, bundle : Bundles, step : Nat \ {0}, by : Procs]

Signature == [bundle : Bundles, step : Nat \ {0}, human : BOOLEAN]

(* The values every variable may take.                                       *)
TypeOK ==
    /\ audit \in Seq(Entry)
    /\ tail \in Tails
    /\ parked \subseteq Bundles
    /\ proc \in [Procs -> Call]
    /\ released \subseteq Signature
    /\ policy \in Policies
    /\ calls \in Nat /\ now \in Nat

-----------------------------------------------------------------------------
(* policy.rs.                                                                *)

Steps(b) == Content[b].steps

(* spend_of one review: the negative deltas, and the fee of the policy asset. *)
StepSpend(s, a) == s.out[a] + (IF a = PolicyAsset THEN s.fee ELSE 0)

SpendOf(b, a) == SumFunction([i \in 1..Len(Steps(b)) |-> StepSpend(Steps(b)[i], a)])

(* Mutant of InWindow: the window is one tick short.                         *)
InShortWindow(time, t) == time + Window - 1 > t

InWindow(time, t) == time + Window > t

(* What some entries of the log have spent, and window_spend over them all.  *)
Spent(a, entries) ==
    SumFunctionOnSet([i \in 1..Len(audit) |-> StepSpend(Steps(audit[i].bundle)[audit[i].step], a)],
                     entries)

WindowSpend(a, t) == Spent(a, {i \in 1..Len(audit) : InWindow(audit[i].time, t)})

LimitViolated(b, a) ==
    LET spend == SpendOf(b, a)
        perTx == policy.perTx[a]
        per24h == policy.per24h[a]
    IN /\ spend > 0
       /\ \/ policy.mode = "auto" /\ perTx = None /\ per24h = None
          \/ perTx # None /\ spend > perTx
          \/ per24h # None /\ WindowSpend(a, now) + spend > per24h

(* Maker outputs of a take routed by the DEX are exempt.                     *)
RecipientViolated(b, s) ==
    /\ policy.recipients # None
    /\ ~(s.kind = "swap_take" /\ Content[b].dex # None)
    /\ ~(s.pays \subseteq policy.recipients)

DexViolated(b) ==
    /\ Content[b].dex # None
    /\ IF policy.dexUrls # {} THEN Content[b].dex \notin policy.dexUrls ELSE policy.mode = "auto"

(* evaluate: no rule is violated.                                            *)
Allowed(b) ==
    /\ Steps(b) # <<>>
    /\ \A a \in Assets : ~LimitViolated(b, a)
    /\ \A i \in 1..Len(Steps(b)) : ~RecipientViolated(b, Steps(b)[i])
    /\ ~DexViolated(b)

-----------------------------------------------------------------------------
(* audit.rs: append writes the entry and its newline behind whatever is       *)
(* there, so an entry behind an open line becomes part of that line.          *)

WholeAppend == IF tail = "ended" THEN "ended" ELSE "torn"

OpenAppend == IF tail = "ended" THEN "open" ELSE "torn"

(* An append that failed or was cut off wrote nothing, a part, all but the    *)
(* newline, or everything; with the whole entry its line reads as an entry.   *)
Unwritten == {tail, "torn"}
Written == {WholeAppend, OpenAppend}

-----------------------------------------------------------------------------
Init ==
    /\ audit = <<>> /\ tail = "ended" /\ parked = {} /\ released = {}
    /\ proc = [p \in Procs |-> [at |-> "idle", bundle |-> CHOOSE b \in Bundles : TRUE,
                                approval |-> "prepare", step |-> 0, human |-> FALSE]]
    /\ policy \in Policies
    /\ calls = 0 /\ now = 0

Goto(p, at) == proc' = [proc EXCEPT ![p].at = at]

(* authorize_and_sign is called.                                             *)
Begin(p, b, approval) ==
    /\ proc[p].at = "idle"
    /\ calls < MaxCalls
    /\ calls' = calls + 1
    /\ proc' = [proc EXCEPT ![p] = [at |-> "review", bundle |-> b, approval |-> approval,
                                    step |-> 0, human |-> FALSE]]
    /\ UNCHANGED <<audit, tail, parked, released, policy, now>>

(* The stored review does not match the PSET, or the network or the bundle's *)
(* own hash differ, or the log cannot be read.                               *)
Mismatch(p) ==
    /\ proc[p].at = "review"
    /\ Goto(p, "idle")
    /\ UNCHANGED <<audit, tail, parked, released, calls, policy, now>>

(* Mutant of Evaluate: a torn log is taken for an empty one.                 *)
EvaluateAnyLog(p) ==
    /\ proc[p].at = "review"
    /\ IF Allowed(proc[p].bundle)
         THEN Goto(p, "confirm") /\ UNCHANGED tail
         ELSE Goto(p, "idle") /\ tail' \in Unwritten \cup Written
    /\ UNCHANGED <<audit, parked, released, calls, policy, now>>

(* The spend history is read and the policy decides; a refusal is logged, if *)
(* the append succeeds (its entry does not count as spend).                  *)
Evaluate(p) ==
    /\ proc[p].at = "review"
    /\ tail # "torn"
    /\ IF Allowed(proc[p].bundle)
         THEN Goto(p, "confirm") /\ UNCHANGED tail
         ELSE Goto(p, "idle") /\ tail' \in Unwritten \cup Written
    /\ UNCHANGED <<audit, parked, released, calls, policy, now>>

NeedsHuman == policy.mode = "confirm"

(* The bundle is written to pending/ and the log (or cannot be) and the call *)
(* ends.                                                                     *)
Park(p) ==
    /\ proc[p].at = "confirm"
    /\ \/ proc[p].approval = "prepare"
       \/ NeedsHuman /\ proc[p].approval \in {"deferred", "interactive"}  \* no terminal
    /\ \/ UNCHANGED <<parked, tail>>
       \/ parked' = parked \cup {proc[p].bundle} /\ tail' \in Unwritten \cup Written
    /\ Goto(p, "idle")
    /\ UNCHANGED <<audit, released, calls, policy, now>>

(* A human answered the prompt, or gave the approval hash on the command     *)
(* line.                                                                     *)
Confirm(p) ==
    /\ proc[p].at = "confirm"
    /\ proc[p].approval = "approved" \/ (NeedsHuman /\ proc[p].approval = "interactive")
    /\ proc' = [proc EXCEPT ![p].at = "sign", ![p].human = TRUE]
    /\ UNCHANGED <<audit, tail, parked, released, calls, policy, now>>

(* The hash does not match, or the prompt was answered with no, which is     *)
(* logged if the append succeeds.                                            *)
Decline(p) ==
    /\ proc[p].at = "confirm"
    /\ \/ proc[p].approval = "approved" /\ UNCHANGED tail
       \/ NeedsHuman /\ proc[p].approval = "interactive" /\ tail' \in Unwritten \cup Written
    /\ Goto(p, "idle")
    /\ UNCHANGED <<audit, parked, released, calls, policy, now>>

(* Mutant of Unattended: the MCP server never asks.                          *)
UnattendedAlways(p) ==
    /\ proc[p].at = "confirm"
    /\ proc[p].approval \in {"deferred", "interactive"}
    /\ Goto(p, "sign")
    /\ UNCHANGED <<audit, tail, parked, released, calls, policy, now>>

(* Auto mode: nobody is asked.                                               *)
Unattended(p) ==
    /\ proc[p].at = "confirm"
    /\ ~NeedsHuman
    /\ proc[p].approval \in {"deferred", "interactive"}
    /\ Goto(p, "sign")
    /\ UNCHANGED <<audit, tail, parked, released, calls, policy, now>>

Record(p) == [time |-> now, bundle |-> proc[p].bundle, step |-> proc[p].step + 1, by |-> p]

(* The next step is signed in memory and its "signed" entry appended.        *)
SignStep(p) ==
    /\ proc[p].at = "sign"
    /\ proc[p].step < Len(Steps(proc[p].bundle))
    /\ audit' = Append(audit, Record(p))
    /\ tail' = WholeAppend
    /\ proc' = [proc EXCEPT ![p].step = proc[p].step + 1]
    /\ UNCHANGED <<parked, released, calls, policy, now>>

(* The core refuses to sign, or the append fails or the process dies before, *)
(* during or after the write: the signatures of the call are dropped.        *)
SignFails(p) ==
    /\ proc[p].at = "sign"
    /\ proc[p].step < Len(Steps(proc[p].bundle))
    /\ \/ UNCHANGED audit /\ tail' \in Unwritten
       \/ audit' = Append(audit, Record(p)) /\ tail' \in Written
    /\ Goto(p, "idle")
    /\ UNCHANGED <<parked, released, calls, policy, now>>

(* Mutant of Release: the signatures of the first step leave early.          *)
ReleaseEarly(p) ==
    /\ proc[p].at = "sign"
    /\ released' = released \cup {[bundle |-> proc[p].bundle, step |-> i, human |-> proc[p].human] :
                                  i \in 1..Len(Steps(proc[p].bundle))}
    /\ parked' = parked \ {proc[p].bundle}
    /\ Goto(p, "idle")
    /\ UNCHANGED <<audit, tail, calls, policy, now>>

(* Every step is signed and logged: the signatures are returned, and a       *)
(* parked copy is removed if it can be.                                      *)
Release(p) ==
    /\ proc[p].at = "sign"
    /\ proc[p].step = Len(Steps(proc[p].bundle))
    /\ released' = released \cup {[bundle |-> proc[p].bundle, step |-> i, human |-> proc[p].human] :
                                  i \in 1..Len(Steps(proc[p].bundle))}
    /\ parked' \in {parked, parked \ {proc[p].bundle}}
    /\ Goto(p, "idle")
    /\ UNCHANGED <<audit, tail, calls, policy, now>>

(* The process dies between two appends (in the middle of one it ends like   *)
(* the failing append of Evaluate, Park, Decline or SignFails).              *)
Crash(p) ==
    /\ proc[p].at # "idle"
    /\ Goto(p, "idle")
    /\ UNCHANGED <<audit, tail, parked, released, calls, policy, now>>

Tick ==
    /\ now < MaxTime
    /\ now' = now + 1
    /\ UNCHANGED <<audit, tail, parked, proc, released, calls, policy>>

Next ==
    \/ \E p \in Procs :
         \/ \E b \in Bundles, approval \in Approvals : Begin(p, b, approval)
         \/ Mismatch(p) \/ Evaluate(p) \/ Park(p) \/ Confirm(p) \/ Decline(p) \/ Unattended(p)
         \/ SignStep(p) \/ SignFails(p) \/ Release(p) \/ Crash(p)
    \/ Tick

Spec == Init /\ [][Next]_vars

-----------------------------------------------------------------------------
(* The limits are hard caps: in no rolling window does what was signed for   *)
(* an asset exceed its per_24h limit.                                        *)
RollingLimit ==
    \A t \in 0..now, a \in Assets :
        policy.per24h[a] # None =>
            Spent(a, {i \in 1..Len(audit) : audit[i].time <= t /\ audit[i].time > t - Window})
                <= policy.per24h[a]

(* A signature leaves the gate only after every signature of its bundle is   *)
(* in the log, so a crash can lose a signature but never its record.         *)
AuditedBeforeRelease ==
    \A r \in released :
        \E i \in 1..Len(audit) : audit[i].bundle = r.bundle /\ audit[i].step = r.step

(* In confirm mode every signature that left the gate was approved by a      *)
(* human in the call that made it, however the request arrived.              *)
HumanInConfirmMode == policy.mode = "confirm" => \A r \in released : r.human

(* What is logged or released is the rest of the bundle whose entry is the   *)
(* last in the log.                                                          *)
LastBundleOnly ==
    LET last == audit[Len(audit)]
        new == audit'[Len(audit')]
    IN /\ audit' # audit =>
            audit # <<>> /\ new.bundle = last.bundle /\ new.step = last.step + 1
       /\ released' # released =>
            /\ audit # <<>> /\ last.step = Len(Steps(last.bundle))
            /\ \A r \in released' \ released : r.bundle = last.bundle

(* An unreadable log fails closed for the one process that runs: once a line *)
(* is torn no bundle is begun any more.  Only the call that tore the line, by*)
(* appending its entry to an open one, still finishes its own bundle: it read*)
(* the log before.                                                           *)
FailsClosed == [][tail = "torn" => LastBundleOnly]_vars
=============================================================================
