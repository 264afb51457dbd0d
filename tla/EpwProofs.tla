------------------------------- MODULE EpwProofs -------------------------------
(***************************************************************************)
(* Proofs about the two ends of an epw command: SpendGate, which decides   *)
(* what it may sign, for any number of processes sharing one home          *)
(* directory, any bundles and any policies; and HdScan, which finds the    *)
(* wallet's coins, for any coins, gap and bounds.                          *)
(***************************************************************************)
EXTENDS SpendGate, HdScan, DataTheorems, WellFoundedInduction

(***************************************************************************)
(* SpendGate.                                                              *)
(***************************************************************************)

Recorded(b, k) == \E i \in 1..Len(audit) : audit[i].bundle = b /\ audit[i].step = k

(* A call has recorded every step it has signed so far ...                   *)
SignedRecorded ==
    \A p \in Procs : proc[p].at # "idle" =>
        \A k \in 1..proc[p].step : Recorded(proc[p].bundle, k)

(* ... and, where the policy wants a human, has asked one.                   *)
SignedByHuman ==
    \A p \in Procs : proc[p].at = "sign" /\ policy.mode = "confirm" => proc[p].human

GateInv == TypeOK /\ SignedRecorded /\ SignedByHuman /\ AuditedBeforeRelease /\ HumanInConfirmMode

-----------------------------------------------------------------------------
(* Nothing is signed in the initial state.                                   *)
LEMMA GateInit == Init => GateInv
<1> SUFFICES ASSUME Init PROVE GateInv
  OBVIOUS
<1>1. (CHOOSE b \in Bundles : TRUE) \in Bundles
  BY GateAssumption DEF GateAssumption
<1>2. proc \in [Procs -> Call]
  <2>1. PICK b \in Bundles : b = CHOOSE x \in Bundles : TRUE
    BY <1>1
  <2> DEFINE c == [at |-> "idle", bundle |-> b, approval |-> "prepare", step |-> 0, human |-> FALSE]
  <2>2. proc = [p \in Procs |-> c]
    BY <2>1 DEF Init
  <2>3. c \in Call
    BY DEF Call, Approvals
  <2> HIDE DEF c
  <2> QED BY <2>2, <2>3
<1>3. TypeOK
  <2>1. audit = <<>> /\ tail = "ended" /\ parked = {} /\ released = {} /\ policy \in Policies
        /\ calls = 0 /\ now = 0
    BY DEF Init
  <2>2. audit \in Seq(Entry)
    BY <2>1
  <2> QED BY <1>2, <2>1, <2>2 DEF TypeOK, Tails
<1>4. SignedRecorded /\ SignedByHuman /\ AuditedBeforeRelease /\ HumanInConfirmMode
  BY DEF Init, SignedRecorded, SignedByHuman, AuditedBeforeRelease, HumanInConfirmMode
<1> QED BY <1>3, <1>4 DEF GateInv

(* What one step of a process does to its own call, and to the others.       *)
LEMMA OneProcess ==
    ASSUME TypeOK, NEW p \in Procs, NEW c \in Call, proc' = [proc EXCEPT ![p] = c]
    PROVE  proc' \in [Procs -> Call] /\ proc'[p] = c /\ \A q \in Procs : q # p => proc'[q] = proc[q]
BY DEF TypeOK

(* An appended entry leaves the earlier ones in place.                       *)
LEMMA LogExtends ==
    ASSUME TypeOK, NEW p \in Procs, audit' = Append(audit, Record(p))
    PROVE  /\ audit' \in Seq(Entry)
           /\ \A b, k : Recorded(b, k) => Recorded(b, k)'
           /\ \A b, k : b = proc[p].bundle /\ k = proc[p].step + 1 => Recorded(b, k)'
<1> DEFINE n == Len(audit)
           e == Record(p)
<1>1. e \in Entry
  <2>1. proc[p] \in Call
    BY DEF TypeOK
  <2> QED BY <2>1 DEF Record, Entry, TypeOK, Call
<1>2. audit' \in Seq(Entry) /\ Len(audit') = n + 1 /\ audit'[n + 1] = e /\ n \in Nat
      /\ \A i \in 1..n : audit'[i] = audit[i] /\ i \in 1..(n + 1)
  BY <1>1 DEF TypeOK
<1>3. \A b, k : Recorded(b, k) => Recorded(b, k)'
  BY <1>2 DEF Recorded
<1>4. n + 1 \in 1..(n + 1)
  BY <1>2
<1>5. e.bundle = proc[p].bundle /\ e.step = proc[p].step + 1
  BY DEF Record
<1>6. \A b, k : b = proc[p].bundle /\ k = proc[p].step + 1 => Recorded(b, k)'
  BY <1>2, <1>4, <1>5 DEF Recorded
<1> QED BY <1>2, <1>3, <1>6

(* A call that neither signs nor starts to sign disturbs nothing.            *)
LEMMA OtherStep ==
    ASSUME GateInv, NEW p \in Procs, NEW c \in Call, proc' = [proc EXCEPT ![p] = c],
           c.at # "sign",
           \/ c.at = "idle" \/ c.step = 0
           \/ c.bundle = proc[p].bundle /\ c.step = proc[p].step /\ proc[p].at # "idle",
           audit' = audit, released' = released, policy' = policy
    PROVE  /\ proc' \in [Procs -> Call]
           /\ (SignedRecorded /\ SignedByHuman /\ AuditedBeforeRelease /\ HumanInConfirmMode)'
<1>1. TypeOK
  BY DEF GateInv
<1>2. proc' \in [Procs -> Call] /\ proc'[p] = c /\ \A q \in Procs : q # p => proc'[q] = proc[q]
  BY <1>1, OneProcess
<1>3. c.step = 0 => \A k \in 1..c.step : FALSE
  OBVIOUS
<1>4. SignedRecorded'
  BY <1>2, <1>3 DEF GateInv, SignedRecorded, Recorded
<1>5. SignedByHuman'
  BY <1>2 DEF GateInv, SignedByHuman
<1>6. AuditedBeforeRelease' /\ HumanInConfirmMode'
  BY DEF GateInv, AuditedBeforeRelease, HumanInConfirmMode
<1> QED BY <1>2, <1>4, <1>5, <1>6

(* Moving a call to another stage changes nothing else of it.                *)
LEMMA GotoFacts ==
    ASSUME TypeOK, NEW p \in Procs, NEW at \in {"idle", "review", "confirm", "sign"}, Goto(p, at)
    PROVE  \E c \in Call :
             /\ proc' = [proc EXCEPT ![p] = c]
             /\ c.at = at /\ c.bundle = proc[p].bundle /\ c.step = proc[p].step
             /\ c.human = proc[p].human
<1> DEFINE c == [proc[p] EXCEPT !.at = at]
<1>1. proc[p] \in Call
  BY DEF TypeOK
<1>2. c \in Call /\ c.at = at /\ c.bundle = proc[p].bundle /\ c.step = proc[p].step
      /\ c.human = proc[p].human
  BY <1>1 DEF Call
<1>3. proc' = [proc EXCEPT ![p] = c]
  BY DEF Goto, TypeOK
<1> QED BY <1>2, <1>3

(* A call that starts to sign has recorded nothing yet and asked whom it had *)
(* to ask.                                                                   *)
LEMMA StartsToSign ==
    ASSUME GateInv, NEW p \in Procs, NEW c \in Call, proc' = [proc EXCEPT ![p] = c],
           proc[p].at # "idle", c.bundle = proc[p].bundle, c.step = proc[p].step,
           policy.mode = "confirm" => c.human,
           audit' = audit, released' = released, policy' = policy
    PROVE  /\ proc' \in [Procs -> Call]
           /\ (SignedRecorded /\ SignedByHuman /\ AuditedBeforeRelease /\ HumanInConfirmMode)'
<1>1. TypeOK
  BY DEF GateInv
<1>2. proc' \in [Procs -> Call] /\ proc'[p] = c /\ \A q \in Procs : q # p => proc'[q] = proc[q]
  BY <1>1, OneProcess
<1>4. SignedRecorded'
  BY <1>2 DEF GateInv, SignedRecorded, Recorded
<1>5. SignedByHuman'
  BY <1>2 DEF GateInv, SignedByHuman
<1>6. AuditedBeforeRelease' /\ HumanInConfirmMode'
  BY DEF GateInv, AuditedBeforeRelease, HumanInConfirmMode
<1> QED BY <1>2, <1>4, <1>5, <1>6

-----------------------------------------------------------------------------
(* However an append ends, the log's text ends in one of three ways.         *)
LEMMA TailsClosed ==
    TypeOK => Unwritten \cup Written \subseteq Tails /\ WholeAppend \in Tails
BY DEF TypeOK, Tails, Unwritten, Written, WholeAppend, OpenAppend

(* Every step of every process keeps the invariant.                          *)
LEMMA GateNext == GateInv /\ [Next]_vars => GateInv'
<1> SUFFICES ASSUME GateInv, [Next]_vars PROVE GateInv'
  OBVIOUS
<1>0. TypeOK /\ \A p \in Procs : proc[p] \in Call
  BY DEF GateInv, TypeOK
<1> USE DEF GateInv
<1>i. ASSUME NEW p \in Procs, NEW at \in {"idle", "confirm"}, Goto(p, at), proc[p].at # "idle",
             UNCHANGED <<audit, released, policy>>
      PROVE  proc' \in [Procs -> Call]
             /\ (SignedRecorded /\ SignedByHuman /\ AuditedBeforeRelease /\ HumanInConfirmMode)'
  BY <1>0, <1>i, GotoFacts, OtherStep
<1>1. ASSUME NEW p \in Procs, NEW b \in Bundles, NEW approval \in Approvals, Begin(p, b, approval)
      PROVE  GateInv'
  <2> DEFINE c == [at |-> "review", bundle |-> b, approval |-> approval,
                   step |-> 0, human |-> FALSE]
  <2>1. c \in Call /\ c.at # "sign" /\ c.step = 0
    BY DEF Call
  <2>2. proc' = [proc EXCEPT ![p] = c] /\ UNCHANGED <<audit, released, policy>>
    BY <1>1 DEF Begin
  <2> HIDE DEF c
  <2>3. /\ proc' \in [Procs -> Call]
        /\ (SignedRecorded /\ SignedByHuman /\ AuditedBeforeRelease /\ HumanInConfirmMode)'
    BY <2>1, <2>2, OtherStep
  <2> QED BY <1>0, <1>1, <2>3 DEF Begin, TypeOK
<1>2. ASSUME NEW p \in Procs, Mismatch(p) PROVE GateInv'
  BY <1>0, <1>2, <1>i DEF Mismatch, TypeOK
<1>3. ASSUME NEW p \in Procs, Evaluate(p) PROVE GateInv'
  <2>1. /\ proc[p].at = "review" /\ UNCHANGED <<audit, parked, released, calls, policy, now>>
        /\ \E at \in {"idle", "confirm"} : Goto(p, at)
        /\ tail' \in Tails
    BY <1>0, <1>3, TailsClosed DEF Evaluate, TypeOK
  <2> QED BY <1>0, <1>i, <2>1 DEF TypeOK
<1>4. ASSUME NEW p \in Procs, Park(p) PROVE GateInv'
  <2>1. proc[p].bundle \in Bundles
    BY <1>0 DEF Call
  <2> QED BY <1>0, <1>4, <1>i, <2>1, TailsClosed DEF Park, TypeOK
<1>5. ASSUME NEW p \in Procs, Decline(p) PROVE GateInv'
  BY <1>0, <1>5, <1>i, TailsClosed DEF Decline, TypeOK
<1>6. ASSUME NEW p \in Procs, Crash(p) PROVE GateInv'
  BY <1>0, <1>6, <1>i DEF Crash, TypeOK
<1>7. ASSUME NEW p \in Procs, Confirm(p) PROVE GateInv'
  <2> DEFINE c == [proc[p] EXCEPT !.at = "sign", !.human = TRUE]
  <2>1. c \in Call /\ c.bundle = proc[p].bundle /\ c.step = proc[p].step /\ c.human
    BY <1>0 DEF Call
  <2>2. proc' = [proc EXCEPT ![p] = c] /\ UNCHANGED <<audit, released, policy>> /\ proc[p].at # "idle"
    BY <1>0, <1>7 DEF Confirm, TypeOK
  <2> HIDE DEF c
  <2>3. /\ proc' \in [Procs -> Call]
        /\ (SignedRecorded /\ SignedByHuman /\ AuditedBeforeRelease /\ HumanInConfirmMode)'
    BY <2>1, <2>2, StartsToSign
  <2> QED BY <1>0, <1>7, <2>3 DEF Confirm, TypeOK
<1>8. ASSUME NEW p \in Procs, Unattended(p) PROVE GateInv'
  <2>1. policy.mode # "confirm" /\ Goto(p, "sign") /\ proc[p].at # "idle"
        /\ UNCHANGED <<audit, released, policy>>
    BY <1>8 DEF Unattended, NeedsHuman
  <2>2. /\ proc' \in [Procs -> Call]
        /\ (SignedRecorded /\ SignedByHuman /\ AuditedBeforeRelease /\ HumanInConfirmMode)'
    BY <1>0, <2>1, GotoFacts, StartsToSign
  <2> QED BY <1>0, <1>8, <2>2 DEF Unattended, TypeOK
<1>9. ASSUME NEW p \in Procs, SignStep(p) PROVE GateInv'
  <2> DEFINE c == [proc[p] EXCEPT !.step = proc[p].step + 1]
  <2>1. c \in Call /\ c.bundle = proc[p].bundle /\ c.step = proc[p].step + 1 /\ c.at = "sign"
        /\ c.human = proc[p].human /\ proc[p].step \in Nat /\ proc[p].at = "sign"
    BY <1>0, <1>9 DEF Call, SignStep
  <2>2. proc' = [proc EXCEPT ![p] = c]
    BY <1>0, <1>9 DEF SignStep, TypeOK
  <2> HIDE DEF c
  <2>3. proc' \in [Procs -> Call] /\ proc'[p] = c /\ \A q \in Procs : q # p => proc'[q] = proc[q]
    BY <1>0, <2>1, <2>2, OneProcess
  <2>4. audit' = Append(audit, Record(p)) /\ UNCHANGED <<parked, released, calls, policy, now>>
        /\ tail' \in Tails
    BY <1>0, <1>9, TailsClosed DEF SignStep
  <2>5. /\ audit' \in Seq(Entry)
        /\ \A b, k : Recorded(b, k) => Recorded(b, k)'
        /\ \A b, k : b = proc[p].bundle /\ k = proc[p].step + 1 => Recorded(b, k)'
    BY <1>0, <2>4, LogExtends
  <2>6. TypeOK'
    BY <1>0, <2>3, <2>4, <2>5 DEF TypeOK
  <2>7. SignedRecorded'
    <3> SUFFICES ASSUME NEW q \in Procs, proc'[q].at # "idle", NEW k \in 1..proc'[q].step
                 PROVE  \E i \in 1..Len(audit') : audit'[i].bundle = proc'[q].bundle /\ audit'[i].step = k
      BY DEF SignedRecorded, Recorded
    <3>1. CASE q # p
      <4>1. Recorded(proc[q].bundle, k)
        BY <2>3, <3>1 DEF SignedRecorded
      <4>2. PICK b : b = proc[q].bundle
        OBVIOUS
      <4>3. Recorded(b, k)'
        BY <2>5, <4>1, <4>2
      <4> QED BY <2>3, <3>1, <4>2, <4>3 DEF Recorded
    <3>2. CASE q = p
      <4>1. PICK b : b = proc[p].bundle
        OBVIOUS
      <4>2. k = proc[p].step + 1 \/ k \in 1..proc[p].step
        BY <2>1, <2>3, <3>2
      <4>3. Recorded(b, k)'
        <5>1. CASE k = proc[p].step + 1
          BY <2>5, <4>1, <5>1
        <5>2. CASE k \in 1..proc[p].step
          <6>1. Recorded(b, k)
            BY <2>1, <4>1, <5>2 DEF SignedRecorded
          <6> QED BY <2>5, <6>1
        <5> QED BY <4>2, <5>1, <5>2
      <4> QED BY <2>1, <2>3, <3>2, <4>1, <4>3 DEF Recorded
    <3> QED BY <3>1, <3>2
  <2>8. SignedByHuman'
    BY <2>1, <2>3, <2>4 DEF SignedByHuman
  <2>9. AuditedBeforeRelease'
    BY <2>4, <2>5 DEF AuditedBeforeRelease, Recorded
  <2> QED BY <2>4, <2>6, <2>7, <2>8, <2>9 DEF HumanInConfirmMode
<1>10. ASSUME NEW p \in Procs, SignFails(p) PROVE GateInv'
  <2>1. UNCHANGED <<parked, released, calls, policy, now>> /\ Goto(p, "idle") /\ tail' \in Tails
    BY <1>0, <1>10, TailsClosed DEF SignFails
  <2>2. audit' = audit \/ audit' = Append(audit, Record(p))
    BY <1>10 DEF SignFails
  <2>3. audit' \in Seq(Entry) /\ \A b, k : Recorded(b, k) => Recorded(b, k)'
    BY <1>0, <2>2, LogExtends DEF Recorded, TypeOK
  <2>4. PICK c \in Call : proc' = [proc EXCEPT ![p] = c] /\ c.at = "idle"
    BY <1>0, <2>1, GotoFacts
  <2>5. proc' \in [Procs -> Call] /\ proc'[p] = c /\ \A q \in Procs : q # p => proc'[q] = proc[q]
    BY <1>0, <2>4, OneProcess
  <2>6. TypeOK'
    BY <1>0, <2>1, <2>3, <2>5 DEF TypeOK
  <2>7. SignedRecorded'
    <3> SUFFICES ASSUME NEW q \in Procs, proc'[q].at # "idle", NEW k \in 1..proc'[q].step
                 PROVE  \E i \in 1..Len(audit') : audit'[i].bundle = proc'[q].bundle /\ audit'[i].step = k
      BY DEF SignedRecorded, Recorded
    <3>1. q # p
      BY <2>4, <2>5
    <3>2. Recorded(proc[q].bundle, k)
      BY <2>5, <3>1 DEF SignedRecorded
    <3>3. PICK b : b = proc[q].bundle
      OBVIOUS
    <3>4. Recorded(b, k)'
      BY <2>3, <3>2, <3>3
    <3> QED BY <2>5, <3>1, <3>3, <3>4 DEF Recorded
  <2>8. SignedByHuman'
    BY <2>1, <2>4, <2>5 DEF SignedByHuman
  <2>9. AuditedBeforeRelease'
    BY <2>1, <2>3, SMTT(30) DEF AuditedBeforeRelease, Recorded
  <2> QED BY <2>1, <2>6, <2>7, <2>8, <2>9 DEF HumanInConfirmMode
<1>11. ASSUME NEW p \in Procs, Release(p) PROVE GateInv'
  <2> DEFINE b == proc[p].bundle
             new == {[bundle |-> b, step |-> i, human |-> proc[p].human] : i \in 1..Len(Steps(b))}
  <2>1. b \in Bundles /\ proc[p].human \in BOOLEAN /\ Len(Steps(b)) \in Nat /\ proc[p].at = "sign"
        /\ proc[p].step = Len(Steps(b))
    BY <1>0, <1>11, GateAssumption DEF GateAssumption, Release, Call, Steps
  <2>2. released' = released \cup new /\ parked' \in {parked, parked \ {b}} /\ Goto(p, "idle")
        /\ UNCHANGED <<audit, tail, calls, policy, now>>
    BY <1>11 DEF Release
  <2>3. new \subseteq Signature
    BY <2>1 DEF Signature
  <2>4. PICK c \in Call : proc' = [proc EXCEPT ![p] = c] /\ c.at = "idle"
    BY <1>0, <2>2, GotoFacts
  <2>5. proc' \in [Procs -> Call] /\ proc'[p] = c /\ \A q \in Procs : q # p => proc'[q] = proc[q]
    BY <1>0, <2>4, OneProcess
  <2>6. TypeOK'
    BY <1>0, <2>2, <2>3, <2>5 DEF TypeOK
  <2>7. SignedRecorded' /\ SignedByHuman'
    BY <2>2, <2>4, <2>5 DEF SignedRecorded, SignedByHuman, Recorded
  <2>8. \A r \in new : r.bundle = b /\ r.step \in 1..proc[p].step /\ r.human = proc[p].human
    BY <2>1
  <2>9. AuditedBeforeRelease'
    <3>1. \A r \in new : Recorded(r.bundle, r.step)
      BY <2>1, <2>8 DEF SignedRecorded
    <3> QED BY <2>2, <3>1 DEF AuditedBeforeRelease, Recorded
  <2>10. HumanInConfirmMode'
    BY <2>1, <2>2, <2>8 DEF HumanInConfirmMode, SignedByHuman
  <2> QED BY <2>6, <2>7, <2>9, <2>10
<1>12. CASE Tick
  BY <1>0, <1>12 DEF Tick, TypeOK, SignedRecorded, SignedByHuman, AuditedBeforeRelease,
                     HumanInConfirmMode, Recorded
<1>13. CASE UNCHANGED vars
  BY <1>0, <1>13 DEF vars, TypeOK, SignedRecorded, SignedByHuman, AuditedBeforeRelease,
                     HumanInConfirmMode, Recorded
<1> QED
  BY <1>1, <1>2, <1>3, <1>4, <1>5, <1>6, <1>7, <1>8, <1>9, <1>10, <1>11, <1>12, <1>13 DEF Next

(* The invariant holds in every reachable state.                             *)
LEMMA GateInvariant == Spec => []GateInv
BY GateInit, GateNext, PTL DEF Spec

(* Every variable stays in its type.                                         *)
THEOREM TypeCorrect == Spec => []TypeOK
BY GateInvariant, PTL DEF GateInv

(* Whatever process is killed and however the processes interleave, every    *)
(* signature that left the gate is in the audit log.                         *)
THEOREM AuditedBeforeReleaseHolds == Spec => []AuditedBeforeRelease
BY GateInvariant, PTL DEF GateInv

(* In confirm mode no signature leaves the gate without a human.             *)
THEOREM HumanInConfirmModeHolds == Spec => []HumanInConfirmMode
BY GateInvariant, PTL DEF GateInv
-----------------------------------------------------------------------------
(* The hard caps.  Nothing coordinates two processes: both may evaluate the  *)
(* same history (the run gate_two shows it), so the claim is about a home    *)
(* directory that one process uses at a time.  The invariant follows the     *)
(* budget: what a call has been allowed and not signed yet is covered by     *)
(* what is left of the window.                                               *)

(* What each entry of the log, and each step of a bundle, spends.            *)
Amounts(a) ==
    [i \in 1..Len(audit) |-> StepSpend(Steps(audit[i].bundle)[audit[i].step], a)]
StepSpends(b, a) == [i \in 1..Len(Steps(b)) |-> StepSpend(Steps(b)[i], a)]

(* What a call has still to sign.                                            *)
Rest(p, a) ==
    SumFunctionOnSet(StepSpends(proc[p].bundle, a),
                     (proc[p].step + 1)..Len(Steps(proc[p].bundle)))

Within(t) == {i \in 1..Len(audit) : audit[i].time <= t /\ audit[i].time > t - Window}

LogSound ==
    \A i \in 1..Len(audit) :
        audit[i].time <= now /\ audit[i].step <= Len(Steps(audit[i].bundle))

StepsLeft ==
    \A p \in Procs :
        /\ proc[p].step <= Len(Steps(proc[p].bundle))
        /\ proc[p].at \in {"review", "confirm"} => proc[p].step = 0

Budget ==
    \A p \in Procs, a \in Assets :
        proc[p].at \in {"confirm", "sign"} /\ policy.per24h[a] # None /\ Rest(p, a) > 0 =>
            Spent(a, Within(now)) + Rest(p, a) <= policy.per24h[a]

CapInv == LogSound /\ StepsLeft /\ Budget /\ RollingLimit


(* One process has a home directory to itself.                               *)
Alone == \A p, q \in Procs : p = q

(* What a step, a bundle and an entry spend are naturals.                    *)
LEMMA SpendsAreNat ==
    /\ \A b \in Bundles, a \in Assets :
         /\ Len(Steps(b)) \in Nat
         /\ \A i \in 1..Len(Steps(b)) :
              StepSpends(b, a)[i] \in Nat /\ StepSpends(b, a)[i] = StepSpend(Steps(b)[i], a)
    /\ TypeOK /\ LogSound =>
         /\ Len(audit) \in Nat
         /\ \A a \in Assets, i \in 1..Len(audit) : Amounts(a)[i] \in Nat
<1>1. ASSUME NEW b \in Bundles, NEW a \in Assets
      PROVE  /\ Len(Steps(b)) \in Nat
             /\ \A i \in 1..Len(Steps(b)) : StepSpend(Steps(b)[i], a) \in Nat
  <2>1. Len(Steps(b)) \in Nat
    BY GateAssumption DEF GateAssumption, Steps
  <2>2. ASSUME NEW i \in 1..Len(Steps(b)) PROVE StepSpend(Steps(b)[i], a) \in Nat
    <3>1. Steps(b)[i].out \in [Assets -> Nat] /\ Steps(b)[i].fee \in Nat
      BY GateAssumption DEF GateAssumption, Steps
    <3> QED BY <3>1 DEF StepSpend
  <2> QED BY <2>1, <2>2
<1>2. ASSUME TypeOK, LogSound, NEW a \in Assets, NEW i \in 1..Len(audit)
      PROVE  Amounts(a)[i] \in Nat
  <2>1. audit[i] \in Entry
    BY <1>2 DEF TypeOK
  <2>2. PICK b \in Bundles : b = audit[i].bundle
    BY <2>1 DEF Entry
  <2>3. PICK k : k = audit[i].step /\ k \in 1..Len(Steps(b))
    <3>1. audit[i].step \in Nat \ {0} /\ audit[i].step <= Len(Steps(b))
      BY <1>2, <2>1, <2>2 DEF Entry, LogSound
    <3> QED BY <1>1, <3>1
  <2>4. Amounts(a)[i] = StepSpend(Steps(b)[k], a)
    BY <2>2, <2>3 DEF Amounts
  <2> QED BY <1>1, <2>3, <2>4
<1>3. TypeOK => Len(audit) \in Nat
  BY DEF TypeOK
<1> QED BY <1>1, <1>2, <1>3 DEF StepSpends

(* Sets of entries are finite, and what they spent is a natural that grows   *)
(* with the set.                                                             *)
LEMMA SpentFacts ==
    ASSUME TypeOK, LogSound, NEW a \in Assets, NEW E \in SUBSET (1..Len(audit))
    PROVE  /\ IsFiniteSet(E)
           /\ Spent(a, E) = SumFunctionOnSet(Amounts(a), E)
           /\ Spent(a, E) \in Nat
           /\ \A F \in SUBSET E : Spent(a, F) <= Spent(a, E)
<1>1. Len(audit) \in Nat /\ \A i \in 1..Len(audit) : Amounts(a)[i] \in Nat
  BY SpendsAreNat
<1>2. IsFiniteSet(E)
  <2>1. IsFiniteSet(1..Len(audit))
    BY <1>1, FS_Interval
  <2> QED BY <2>1, FS_Subset
<1>3. \A F : Spent(a, F) = SumFunctionOnSet(Amounts(a), F)
  BY DEF Spent, Amounts
<1>4. \A i \in E : Amounts(a)[i] \in Nat
  BY <1>1
<1>5. SumFunctionOnSet(Amounts(a), E) \in Nat
  BY <1>2, <1>4, SumNat
<1>6. \A F \in SUBSET E : SumFunctionOnSet(Amounts(a), F) <= SumFunctionOnSet(Amounts(a), E)
  BY <1>2, <1>4, SumSubset
<1> QED BY <1>2, <1>3, <1>5, <1>6

(* What is counted at a time is what lies in the window then, and no more    *)
(* comes into it when nothing but time passes.                               *)
LEMMA Windows ==
    ASSUME TypeOK, LogSound, NEW t \in Nat
    PROVE  /\ Within(t) \in SUBSET (1..Len(audit))
           /\ Within(now) = {i \in 1..Len(audit) : InWindow(audit[i].time, now)}
           /\ now <= t => Within(t) \subseteq Within(now)
<1>1. Window \in Nat /\ now \in Nat
  BY GateAssumption DEF GateAssumption, TypeOK
<1>2. \A i \in 1..Len(audit) : audit[i].time \in Nat /\ audit[i].time <= now
  <2>1. \A i \in 1..Len(audit) : audit[i] \in Entry
    BY DEF TypeOK
  <2> QED BY <2>1 DEF Entry, LogSound
<1> QED BY <1>1, <1>2 DEF Within, InWindow

-----------------------------------------------------------------------------
(* An entry for the next step takes its spend from what the call had left to *)
(* the window.                                                               *)
LEMMA OneMoreEntry ==
    ASSUME GateInv, CapInv, NEW p \in Procs, proc[p].at = "sign",
           proc[p].step < Len(Steps(proc[p].bundle)),
           audit' = Append(audit, Record(p)), now' = now, policy' = policy
    PROVE  /\ LogSound' /\ RollingLimit'
           /\ \A a \in Assets :
                /\ Spent(a, Within(now))'
                     = Spent(a, Within(now)) + StepSpends(proc[p].bundle, a)[proc[p].step + 1]
                /\ StepSpends(proc[p].bundle, a)[proc[p].step + 1] \in Nat
                /\ Rest(p, a) = StepSpends(proc[p].bundle, a)[proc[p].step + 1]
                     + SumFunctionOnSet(StepSpends(proc[p].bundle, a),
                                (proc[p].step + 2)..Len(Steps(proc[p].bundle)))
                /\ SumFunctionOnSet(StepSpends(proc[p].bundle, a),
                                (proc[p].step + 2)..Len(Steps(proc[p].bundle))) \in Nat
<1>0. TypeOK /\ LogSound /\ proc[p] \in Call /\ now \in Nat /\ Window \in Nat \ {0}
  BY GateAssumption DEF GateAssumption, GateInv, CapInv, TypeOK
<1> DEFINE n == Len(audit)
<1>1. PICK b \in Bundles : b = proc[p].bundle
  BY <1>0 DEF Call
<1>2. PICK k \in Nat : k = proc[p].step + 1 /\ k \in 1..Len(Steps(b)) /\ Len(Steps(b)) \in Nat
                       /\ k + 1 = proc[p].step + 2
  BY SMTT(30), <1>0, <1>1, SpendsAreNat DEF Call
<1>3. Record(p) \in Entry /\ Record(p).time = now /\ Record(p).bundle = b /\ Record(p).step = k
  BY <1>0, <1>1, <1>2 DEF Record, Entry
<1>4. /\ n \in Nat /\ Len(audit') = n + 1 /\ audit'[n + 1] = Record(p) /\ audit' \in Seq(Entry)
      /\ \A i \in 1..n : audit'[i] = audit[i] /\ audit[i] \in Entry
      /\ 1..(n + 1) = 1..n \cup {n + 1} /\ n + 1 \notin 1..n
  BY <1>0, <1>3 DEF TypeOK
<1>5. LogSound'
  BY <1>0, <1>2, <1>3, <1>4 DEF LogSound
<1>6. ASSUME NEW a \in Assets
      PROVE  /\ \A i \in 1..n : Amounts(a)'[i] = Amounts(a)[i] /\ Amounts(a)[i] \in Nat
             /\ Amounts(a)'[n + 1] = StepSpends(b, a)[k] /\ StepSpends(b, a)[k] \in Nat
  <2>1. \A i \in 1..n : Amounts(a)'[i] = Amounts(a)[i]
    BY <1>4 DEF Amounts
  <2>2. Amounts(a)'[n + 1] = StepSpends(b, a)[k]
    BY <1>2, <1>3, <1>4 DEF Amounts, StepSpends
  <2> QED BY <1>0, <1>2, <2>1, <2>2, SpendsAreNat
<1>7. ASSUME NEW a \in Assets, NEW E \in SUBSET (1..n)
      PROVE  /\ SumFunctionOnSet(Amounts(a)', E) = Spent(a, E)
             /\ SumFunctionOnSet(Amounts(a)', E \cup {n + 1}) = Spent(a, E) + StepSpends(b, a)[k]
  <2>1. IsFiniteSet(E) /\ Spent(a, E) = SumFunctionOnSet(Amounts(a), E)
    BY <1>0, SpentFacts
  <2>2. (\A i \in E : Amounts(a)'[i] = Amounts(a)[i]) /\ \A i \in E : Amounts(a)'[i] \in Int
    BY <1>6
  <2>3. SumFunctionOnSet(Amounts(a)', E) = SumFunctionOnSet(Amounts(a), E)
    BY <2>1, <2>2, SumSame, ZenonT(60)
  <2>4. n + 1 \notin E /\ Amounts(a)'[n + 1] \in Int /\ Amounts(a)'[n + 1] = StepSpends(b, a)[k]
    BY <1>4, <1>6
  <2>5. SumFunctionOnSet(Amounts(a)', E \cup {n + 1})
          = SumFunctionOnSet(Amounts(a)', E) + Amounts(a)'[n + 1]
    <3>1. PICK f : f = Amounts(a)'
      OBVIOUS
    <3>2. PICK y : y = n + 1
      OBVIOUS
    <3>3. \A i \in E : f[i] \in Int
      BY <2>2, <3>1
    <3>4. f[y] \in Int /\ y \notin E /\ IsFiniteSet(E)
      BY <2>1, <2>4, <3>1, <3>2
    <3>5. SumFunctionOnSet(f, E \cup {y}) = SumFunctionOnSet(f, E) + f[y]
      BY ONLY <3>3, <3>4, SumAdd
    <3> QED BY <3>1, <3>2, <3>5
  <2> QED BY <2>1, <2>3, <2>4, <2>5
<1>8. /\ \A t \in Nat : t < now => Within(t)' = Within(t)
      /\ Within(now)' = Within(now) \cup {n + 1}
      /\ \A t \in Nat : Within(t) \in SUBSET (1..n)
  <2>1. Within(now)' = Within(now) \cup {n + 1}
    BY <1>0, <1>3, <1>4 DEF Within
  <2>2. ASSUME NEW t \in Nat, t < now PROVE Within(t)' = Within(t)
    BY <1>0, <1>3, <1>4, <2>2 DEF Within
  <2> QED BY <2>1, <2>2 DEF Within
<1>9. ASSUME NEW a \in Assets
      PROVE  /\ \A t \in Nat : t < now => Spent(a, Within(t))' = Spent(a, Within(t))
             /\ Spent(a, Within(now))' = Spent(a, Within(now)) + StepSpends(b, a)[k]
  <2>1. \A E : Spent(a, E)' = SumFunctionOnSet(Amounts(a)', E')
    BY DEF Spent, Amounts
  <2> QED BY <1>0, <1>7, <1>8, <2>1
<1>10. ASSUME NEW a \in Assets
       PROVE  /\ StepSpends(b, a)[k] \in Nat
              /\ SumFunctionOnSet(StepSpends(b, a), (k + 1)..Len(Steps(b))) \in Nat
              /\ SumFunctionOnSet(StepSpends(b, a), k..Len(Steps(b))) = StepSpends(b, a)[k]
                   + SumFunctionOnSet(StepSpends(b, a), (k + 1)..Len(Steps(b)))
  <2> DEFINE R == (k + 1)..Len(Steps(b))
  <2>1. k..Len(Steps(b)) = R \cup {k} /\ k \notin R /\ IsFiniteSet(R)
        /\ R \subseteq 1..Len(Steps(b))
    <3>1. IsFiniteSet(R)
      <4>1. k + 1 \in Int /\ Len(Steps(b)) \in Int
        BY <1>2
      <4> QED BY <4>1, FS_Interval
    <3> QED BY SMTT(30), <1>2, <3>1
  <2>2. \A i \in R : StepSpends(b, a)[i] \in Nat
    BY <1>2, <2>1, SpendsAreNat
  <2>3. StepSpends(b, a)[k] \in Nat
    BY <1>2, SpendsAreNat
  <2> HIDE DEF R
  <2>4. SumFunctionOnSet(StepSpends(b, a), R) \in Nat
    BY <2>1, <2>2, SumNat
  <2>5. SumFunctionOnSet(StepSpends(b, a), R \cup {k})
          = SumFunctionOnSet(StepSpends(b, a), R) + StepSpends(b, a)[k]
    BY <2>1, <2>2, <2>3, SumAdd
  <2>6. SumFunctionOnSet(StepSpends(b, a), k..Len(Steps(b)))
          = SumFunctionOnSet(StepSpends(b, a), R) + StepSpends(b, a)[k]
    BY <2>1, <2>5
  <2>7. SumFunctionOnSet(StepSpends(b, a), k..Len(Steps(b)))
          = StepSpends(b, a)[k] + SumFunctionOnSet(StepSpends(b, a), R)
    BY <2>3, <2>4, <2>6
  <2> QED BY <2>3, <2>4, <2>7 DEF R
<1>11. RollingLimit'
  <2> SUFFICES ASSUME NEW t \in 0..now, NEW a \in Assets, policy.per24h[a] # None
               PROVE  Spent(a, Within(t))' <= policy.per24h[a]
    BY DEF RollingLimit, Within
  <2>1. Spent(a, Within(t)) <= policy.per24h[a]
    BY DEF CapInv, RollingLimit, Within
  <2>2. CASE t < now
    BY <1>9, <2>1, <2>2
  <2>3. CASE t = now
    <3>1. CASE StepSpends(b, a)[k] = 0
      <4>1. Spent(a, Within(now)) \in Nat
        BY <1>0, <1>8, SpentFacts
      <4> QED BY <1>9, <2>1, <2>3, <3>1, <4>1
    <3>2. CASE StepSpends(b, a)[k] # 0
      <4>1. Rest(p, a) = StepSpends(b, a)[k]
                           + SumFunctionOnSet(StepSpends(b, a), (k + 1)..Len(Steps(b)))
        BY <1>1, <1>2, <1>10 DEF Rest
      <4>2. Rest(p, a) > 0
        BY <1>10, <3>2, <4>1
      <4>3. Spent(a, Within(now)) + Rest(p, a) <= policy.per24h[a]
        BY <4>2 DEF CapInv, Budget
      <4>4. Spent(a, Within(now)) \in Nat /\ policy.per24h[a] \in Nat
        BY <1>0, <1>8, SpentFacts, GateAssumption DEF GateAssumption, TypeOK
      <4>5. Spent(a, Within(t))' = Spent(a, Within(now)) + StepSpends(b, a)[k]
        BY <1>9, <2>3
      <4> QED BY SMTT(30), <1>10, <4>1, <4>3, <4>4, <4>5
    <3> QED BY <3>1, <3>2
  <2> QED BY <1>0, <2>2, <2>3
<1> QED BY <1>1, <1>2, <1>5, <1>9, <1>10, <1>11 DEF Rest


(* While the log, the clock and the policy stand still, so does what is      *)
(* counted.                                                                  *)
LEMMA SameLog ==
    ASSUME CapInv, UNCHANGED <<audit, now, policy>>
    PROVE  LogSound' /\ RollingLimit' /\ \A a : Spent(a, Within(now))' = Spent(a, Within(now))
BY DEF CapInv, LogSound, RollingLimit, Spent, Within

(* A call that moves on with what it has been allowed, or ends, keeps to the *)
(* budget.                                                                   *)
LEMMA CallMoves ==
    ASSUME GateInv, CapInv, NEW p \in Procs, NEW c \in Call, proc' = [proc EXCEPT ![p] = c],
           UNCHANGED <<audit, now, policy>>,
           c.step = 0 \/ c.at \in {"idle", "sign"}, c.step = 0 \/ c.step = proc[p].step,
           c.step = proc[p].step => c.step = 0 \/ c.bundle = proc[p].bundle,
           c.at \in {"confirm", "sign"} =>
               /\ proc[p].at \in {"confirm", "sign"}
               /\ c.bundle = proc[p].bundle /\ c.step = proc[p].step
    PROVE  CapInv'
<1>1. TypeOK
  BY DEF GateInv
<1>2. proc' \in [Procs -> Call] /\ proc'[p] = c /\ \A q \in Procs : q # p => proc'[q] = proc[q]
  BY <1>1, OneProcess
<1>3. LogSound' /\ RollingLimit' /\ \A a : Spent(a, Within(now))' = Spent(a, Within(now))
  BY SameLog
<1>4. StepsLeft'
  <2>1. Len(Steps(c.bundle)) \in Nat
    BY SpendsAreNat, GateAssumption DEF Call, GateAssumption
  <2>2. c.step <= Len(Steps(c.bundle))
    BY <2>1 DEF CapInv, StepsLeft
  <2>3. c.at \in {"review", "confirm"} => c.step = 0
    OBVIOUS
  <2> QED BY <1>2, <2>2, <2>3 DEF CapInv, StepsLeft
<1>5. Budget'
  <2> SUFFICES ASSUME NEW q \in Procs, NEW a \in Assets, proc'[q].at \in {"confirm", "sign"},
                      policy.per24h[a] # None, Rest(q, a)' > 0
               PROVE  Spent(a, Within(now))' + Rest(q, a)' <= policy.per24h[a]
    BY DEF Budget
  <2>1. /\ proc[q].at \in {"confirm", "sign"}
        /\ proc'[q].bundle = proc[q].bundle /\ proc'[q].step = proc[q].step
    BY <1>2
  <2>2. Rest(q, a)' = Rest(q, a)
    BY <2>1 DEF Rest, StepSpends
  <2> QED BY <1>3, <2>1, <2>2 DEF CapInv, Budget
<1> QED BY <1>3, <1>4, <1>5 DEF CapInv

(* An empty log is under every limit.                                        *)
LEMMA CapInit == Init => CapInv
<1> SUFFICES ASSUME Init PROVE CapInv
  OBVIOUS
<1>1. TypeOK
  BY GateInit DEF GateInv
<1>2. LogSound /\ \A t : Within(t) = {}
  BY DEF Init, LogSound, Within
<1>3. \A p \in Procs : proc[p].at = "idle" /\ proc[p].step = 0
  BY DEF Init
<1>4. StepsLeft
  BY <1>1, <1>3, SpendsAreNat DEF StepsLeft, TypeOK, Call
<1>5. RollingLimit
  <2> SUFFICES ASSUME NEW t \in 0..now, NEW a \in Assets, policy.per24h[a] # None
               PROVE  Spent(a, Within(t)) <= policy.per24h[a]
    BY DEF RollingLimit, Within
  <2>1. Spent(a, {}) = 0
    BY SumEmpty DEF Spent
  <2>2. policy.per24h[a] \in Nat
    BY <1>1, GateAssumption DEF GateAssumption, TypeOK
  <2> QED BY <1>2, <2>1, <2>2
<1> QED BY <1>2, <1>3, <1>4, <1>5 DEF CapInv, Budget

(* Every step of the one process keeps the invariant.                        *)
LEMMA CapNext == ASSUME Alone PROVE GateInv /\ CapInv /\ [Next]_vars => CapInv'
<1> SUFFICES ASSUME GateInv, CapInv, [Next]_vars PROVE CapInv'
  OBVIOUS
<1>0. TypeOK /\ LogSound /\ now \in Nat /\ \A p \in Procs : proc[p] \in Call
  BY DEF GateInv, CapInv, TypeOK
<1>i. ASSUME NEW p \in Procs, NEW at \in {"idle", "sign"}, Goto(p, at),
             proc[p].at \in {"confirm", "sign"} \/ at = "idle",
             UNCHANGED <<audit, now, policy>>
      PROVE  CapInv'
  <2>1. PICK c \in Call : /\ proc' = [proc EXCEPT ![p] = c]
                          /\ c.at = at /\ c.bundle = proc[p].bundle /\ c.step = proc[p].step
    BY <1>0, <1>i, GotoFacts
  <2> QED BY <1>i, <2>1, CallMoves
<1>1. ASSUME NEW p \in Procs, NEW b \in Bundles, NEW approval \in Approvals, Begin(p, b, approval)
      PROVE  CapInv'
  <2> DEFINE c == [at |-> "review", bundle |-> b, approval |-> approval,
                   step |-> 0, human |-> FALSE]
  <2>1. c \in Call /\ c.at = "review" /\ c.step = 0
    BY DEF Call
  <2>2. proc' = [proc EXCEPT ![p] = c] /\ UNCHANGED <<audit, now, policy>>
    BY <1>1 DEF Begin
  <2> HIDE DEF c
  <2> QED BY <2>1, <2>2, CallMoves
<1>2. ASSUME NEW p \in Procs, Mismatch(p) PROVE CapInv'
  BY <1>2, <1>i DEF Mismatch
<1>3. ASSUME NEW p \in Procs, Evaluate(p) PROVE CapInv'
  <2>1. /\ proc[p].at = "review" /\ UNCHANGED <<audit, now, policy>>
        /\ Allowed(proc[p].bundle) => Goto(p, "confirm")
        /\ ~Allowed(proc[p].bundle) => Goto(p, "idle")
    BY <1>3 DEF Evaluate
  <2>2. CASE ~Allowed(proc[p].bundle)
    BY <1>i, <2>1, <2>2
  <2>3. CASE Allowed(proc[p].bundle)
    <3>1. PICK c \in Call : /\ proc' = [proc EXCEPT ![p] = c]
                            /\ c.at = "confirm" /\ c.bundle = proc[p].bundle
                            /\ c.step = proc[p].step
      BY <1>0, <2>1, <2>3, GotoFacts
    <3>2. proc' \in [Procs -> Call] /\ proc'[p] = c /\ \A q \in Procs : q = p
      BY <1>0, <3>1, OneProcess DEF Alone
    <3>3. LogSound' /\ RollingLimit' /\ \A a : Spent(a, Within(now))' = Spent(a, Within(now))
      BY <2>1, SameLog
    <3>4. c.step = 0 /\ proc[p].step = 0
      BY <2>1, <3>1 DEF CapInv, StepsLeft
    <3>5. StepsLeft'
      BY <3>1, <3>2, <3>4, <1>0, SpendsAreNat DEF CapInv, StepsLeft, Call
    <3>6. Budget'
      <4> SUFFICES ASSUME NEW a \in Assets, policy.per24h[a] # None, Rest(p, a)' > 0
                   PROVE  Spent(a, Within(now)) + Rest(p, a)' <= policy.per24h[a]
        BY <2>1, <3>2, <3>3 DEF Budget
      <4>1. PICK b \in Bundles : b = c.bundle
        BY DEF Call
      <4>2. Rest(p, a)' = SumFunctionOnSet(StepSpends(b, a), 1..Len(Steps(b)))
        BY <3>2, <3>4, <4>1 DEF Rest, StepSpends
      <4>3. SpendOf(b, a) = SumFunctionOnSet(StepSpends(b, a), 1..Len(Steps(b)))
        BY DEF SpendOf, SumFunction, StepSpends
      <4>4. ~LimitViolated(b, a)
        BY <2>3, <3>1, <4>1 DEF Allowed
      <4>5. ~(WindowSpend(a, now) + SpendOf(b, a) > policy.per24h[a])
        BY <4>2, <4>3, <4>4 DEF LimitViolated
      <4>6. WindowSpend(a, now) = Spent(a, Within(now)) /\ Spent(a, Within(now)) \in Nat
        BY <1>0, Windows, SpentFacts DEF WindowSpend
      <4>7. policy.per24h[a] \in Nat
        BY <1>0, GateAssumption DEF GateAssumption, TypeOK
      <4>8. SpendOf(b, a) \in Nat
        <5>1. IsFiniteSet(1..Len(Steps(b))) /\ \A i \in 1..Len(Steps(b)) : StepSpends(b, a)[i] \in Nat
          BY SpendsAreNat, FS_Interval
        <5> QED BY <4>3, <5>1, SumNat
      <4> QED BY <4>2, <4>3, <4>5, <4>6, <4>7, <4>8
    <3> QED BY <3>3, <3>5, <3>6 DEF CapInv
  <2> QED BY <2>2, <2>3
<1>4. ASSUME NEW p \in Procs, Park(p) PROVE CapInv'
  BY <1>4, <1>i DEF Park
<1>5. ASSUME NEW p \in Procs, Decline(p) PROVE CapInv'
  BY <1>5, <1>i DEF Decline
<1>6. ASSUME NEW p \in Procs, Crash(p) PROVE CapInv'
  BY <1>6, <1>i DEF Crash
<1>7. ASSUME NEW p \in Procs, Unattended(p) PROVE CapInv'
  BY <1>7, <1>i DEF Unattended
<1>8. ASSUME NEW p \in Procs, Release(p) PROVE CapInv'
  BY <1>8, <1>i DEF Release
<1>9. ASSUME NEW p \in Procs, Confirm(p) PROVE CapInv'
  <2> DEFINE c == [proc[p] EXCEPT !.at = "sign", !.human = TRUE]
  <2>1. c \in Call /\ c.at = "sign" /\ c.bundle = proc[p].bundle /\ c.step = proc[p].step
    BY <1>0 DEF Call
  <2>2. proc' = [proc EXCEPT ![p] = c] /\ UNCHANGED <<audit, now, policy>> /\ proc[p].at = "confirm"
    BY <1>0, <1>9 DEF Confirm, TypeOK
  <2> HIDE DEF c
  <2> QED BY <2>1, <2>2, CallMoves
<1>10. ASSUME NEW p \in Procs, SignStep(p) PROVE CapInv'
  <2> DEFINE c == [proc[p] EXCEPT !.step = proc[p].step + 1]
  <2>1. /\ c \in Call /\ c.bundle = proc[p].bundle /\ c.step = proc[p].step + 1 /\ c.at = "sign"
        /\ proc[p].step \in Nat /\ proc[p].at = "sign"
        /\ proc[p].step < Len(Steps(proc[p].bundle)) /\ proc[p].bundle \in Bundles
    BY <1>0, <1>10, SMTT(30) DEF Call, SignStep
  <2>2. /\ proc' = [proc EXCEPT ![p] = c] /\ audit' = Append(audit, Record(p))
        /\ now' = now /\ policy' = policy
    BY <1>0, <1>10 DEF SignStep, TypeOK
  <2> HIDE DEF c
  <2>3. proc' \in [Procs -> Call] /\ proc'[p] = c /\ \A q \in Procs : q = p
    BY <1>0, <2>1, <2>2, OneProcess DEF Alone
  <2>4. LogSound' /\ RollingLimit'
    BY <2>1, <2>2, OneMoreEntry
  <2>5. StepsLeft'
    BY <2>1, <2>3, SpendsAreNat DEF StepsLeft
  <2>6. Budget'
    <3> SUFFICES ASSUME NEW a \in Assets, policy.per24h[a] # None, Rest(p, a)' > 0
                 PROVE  Spent(a, Within(now))' + Rest(p, a)' <= policy.per24h[a]
      BY <2>2, <2>3 DEF Budget
    <3> DEFINE next == StepSpends(proc[p].bundle, a)[proc[p].step + 1]
               rest == SumFunctionOnSet(StepSpends(proc[p].bundle, a),
                                        (proc[p].step + 2)..Len(Steps(proc[p].bundle)))
    <3>1. /\ Spent(a, Within(now))' = Spent(a, Within(now)) + next
          /\ next \in Nat /\ rest \in Nat /\ Rest(p, a) = next + rest
      BY <2>1, <2>2, OneMoreEntry
    <3>2. Rest(p, a)' = rest
      <4>1. c.step + 1 = proc[p].step + 2
        BY <2>1
      <4> QED BY <2>1, <2>3, <4>1 DEF Rest, StepSpends
    <3>3. Spent(a, Within(now)) \in Nat
      BY <1>0, Windows, SpentFacts
    <3> HIDE DEF next, rest
    <3>4. Rest(p, a) > 0
      BY <3>1, <3>2
    <3>5. Spent(a, Within(now)) + Rest(p, a) <= policy.per24h[a]
      BY <2>1, <3>4 DEF CapInv, Budget
    <3>6. policy.per24h[a] \in Nat
      BY <1>0, GateAssumption DEF GateAssumption, TypeOK
    <3> QED BY <3>1, <3>2, <3>3, <3>5, <3>6
  <2> QED BY <2>4, <2>5, <2>6 DEF CapInv
<1>11. ASSUME NEW p \in Procs, SignFails(p) PROVE CapInv'
  <2>1. /\ Goto(p, "idle") /\ now' = now /\ policy' = policy /\ proc[p].at = "sign"
        /\ proc[p].step < Len(Steps(proc[p].bundle))
    BY <1>11 DEF SignFails
  <2>2. CASE audit' = audit
    BY <1>i, <2>1, <2>2
  <2>3. CASE audit' = Append(audit, Record(p))
    <3>1. LogSound' /\ RollingLimit'
      BY <2>1, <2>3, OneMoreEntry
    <3>2. PICK c \in Call : /\ proc' = [proc EXCEPT ![p] = c]
                            /\ c.at = "idle" /\ c.bundle = proc[p].bundle
                            /\ c.step = proc[p].step
      BY <1>0, <2>1, GotoFacts
    <3>3. proc' \in [Procs -> Call] /\ proc'[p] = c /\ \A q \in Procs : q = p
      BY <1>0, <3>2, OneProcess DEF Alone
    <3>4. StepsLeft' /\ Budget'
      BY <3>2, <3>3 DEF CapInv, StepsLeft, Budget
    <3> QED BY <3>1, <3>4 DEF CapInv
  <2> QED BY <1>11, <2>2, <2>3 DEF SignFails
<1>12. CASE Tick
  <2>1. now' = now + 1 /\ UNCHANGED <<audit, proc, policy>>
    BY <1>12 DEF Tick
  <2>2. LogSound' /\ StepsLeft'
    <3>1. \A i \in 1..Len(audit) : audit[i] \in Entry
      BY <1>0 DEF TypeOK
    <3> QED BY <1>0, <2>1, <3>1 DEF CapInv, LogSound, StepsLeft, Entry
  <2>3. ASSUME NEW a \in Assets
        PROVE  /\ \A E : Spent(a, E)' = Spent(a, E')
               /\ Spent(a, Within(now + 1)) <= Spent(a, Within(now))
               /\ Spent(a, Within(now + 1)) \in Nat /\ Spent(a, Within(now)) \in Nat
               /\ Within(now)' = Within(now + 1)
    <3>1. Within(now)' = Within(now + 1) /\ now + 1 \in Nat /\ now <= now + 1
      BY <1>0, <2>1 DEF Within
    <3>2. Within(now + 1) \subseteq Within(now) /\ Within(now) \in SUBSET (1..Len(audit))
          /\ Within(now + 1) \in SUBSET (1..Len(audit))
      BY <1>0, <3>1, Windows
    <3>3. \A E : Spent(a, E)' = Spent(a, E')
      BY <2>1 DEF Spent
    <3> QED BY <1>0, <3>1, <3>2, <3>3, SpentFacts
  <2>4. RollingLimit'
    <3> SUFFICES ASSUME NEW t \in 0..(now + 1), NEW a \in Assets, policy.per24h[a] # None
                 PROVE  Spent(a, Within(t))' <= policy.per24h[a]
      BY <2>1 DEF RollingLimit, Within
    <3>1. Within(t)' = Within(t) /\ Spent(a, Within(t))' = Spent(a, Within(t))
      BY <2>1 DEF Within, Spent
    <3>2. t \in 0..now => Spent(a, Within(t)) <= policy.per24h[a]
      BY DEF CapInv, RollingLimit, Within
    <3>3. now \in 0..now
      BY <1>0
    <3>4. Spent(a, Within(now)) <= policy.per24h[a]
      BY <3>3 DEF CapInv, RollingLimit, Within
    <3>5. policy.per24h[a] \in Nat
      BY <1>0, GateAssumption DEF GateAssumption, TypeOK
    <3>6. t = now + 1 \/ t \in 0..now
      BY <1>0
    <3> QED BY <2>3, <3>1, <3>2, <3>4, <3>5, <3>6
  <2>5. Budget'
    <3> SUFFICES ASSUME NEW p \in Procs, NEW a \in Assets, proc[p].at \in {"confirm", "sign"},
                        policy.per24h[a] # None, Rest(p, a) > 0
                 PROVE  Spent(a, Within(now))' + Rest(p, a) <= policy.per24h[a]
      BY <2>1 DEF Budget, Rest, StepSpends
    <3>1. Spent(a, Within(now)) + Rest(p, a) <= policy.per24h[a]
      BY DEF CapInv, Budget
    <3>2. policy.per24h[a] \in Nat
      BY <1>0, GateAssumption DEF GateAssumption, TypeOK
    <3>3. Spent(a, Within(now))' = Spent(a, Within(now + 1))
      BY <2>3
    <3>4. Rest(p, a) \in Nat
      <4> DEFINE b == proc[p].bundle
                 R == (proc[p].step + 1)..Len(Steps(b))
      <4>1. b \in Bundles /\ proc[p].step \in Nat
        BY <1>0 DEF Call
      <4>2. Len(Steps(b)) \in Nat
        BY <4>1, SpendsAreNat
      <4>3. IsFiniteSet(R)
        <5>1. proc[p].step + 1 \in Int /\ Len(Steps(b)) \in Int
          BY <4>1, <4>2
        <5> QED BY <5>1, FS_Interval
      <4>4. \A i \in R : i \in 1..Len(Steps(b))
        BY <4>1, <4>2
      <4>5. \A i \in R : StepSpends(b, a)[i] \in Nat
        BY <4>1, <4>4, SpendsAreNat
      <4> HIDE DEF R
      <4>6. SumFunctionOnSet(StepSpends(b, a), R) \in Nat
        BY <4>3, <4>5, SumNat
      <4> QED BY <4>6 DEF Rest, R
    <3> QED BY <2>3, <3>1, <3>2, <3>3, <3>4
  <2> QED BY <2>2, <2>4, <2>5 DEF CapInv
<1>13. CASE UNCHANGED vars
  <2>1. UNCHANGED <<audit, now, policy, proc>>
    BY <1>13 DEF vars
  <2>2. LogSound' /\ RollingLimit' /\ \A a : Spent(a, Within(now))' = Spent(a, Within(now))
    BY <2>1, SameLog
  <2> QED BY <2>1, <2>2 DEF CapInv, StepsLeft, Budget, Rest, StepSpends
<1> QED
  BY <1>1, <1>2, <1>3, <1>4, <1>5, <1>6, <1>7, <1>8, <1>9, <1>10, <1>11, <1>12, <1>13 DEF Next

(* The limits are hard caps: with one process at a time no rolling window    *)
(* ever holds more than its limit, whatever crashes, however long a human    *)
(* waits and wherever in a bundle the window ends.                           *)
THEOREM RollingLimitHolds == ASSUME Alone PROVE Spec => []RollingLimit
<1>1. Spec => [](GateInv /\ CapInv)
  BY GateInit, GateNext, CapInit, CapNext, PTL DEF Spec
<1> QED BY <1>1, PTL DEF CapInv

(* With a torn line in the log a call has not yet read it, or is the one     *)
(* that signs and has just logged.                                           *)
JustLogged(p) ==
    /\ proc[p].at = "sign" /\ audit # <<>>
    /\ audit[Len(audit)].bundle = proc[p].bundle /\ audit[Len(audit)].step = proc[p].step

Torn == tail = "torn" => \A p \in Procs : proc[p].at \in {"idle", "review"} \/ JustLogged(p)

Closed == tail = "torn" => LastBundleOnly

(* It stays so, and until the line is removed no other bundle is logged or   *)
(* released.                                                                 *)
LEMMA TornNext == ASSUME Alone PROVE GateInv /\ Torn /\ [Next]_vars => Torn' /\ Closed
<1> SUFFICES ASSUME GateInv, Torn, [Next]_vars PROVE Torn' /\ Closed
  OBVIOUS
<1>0. TypeOK /\ \A p \in Procs : proc[p] \in Call
  BY DEF GateInv, TypeOK
<1>q. ASSUME UNCHANGED <<audit, released>> PROVE Closed
  BY <1>q DEF Closed, LastBundleOnly
<1>1. ASSUME NEW p \in Procs, NEW b \in Bundles, NEW approval \in Approvals, Begin(p, b, approval)
      PROVE  Torn' /\ Closed
  <2>1. \A q \in Procs : proc'[q].at = "review"
    BY <1>0, <1>1 DEF Begin, TypeOK, Alone
  <2> QED BY <1>1, <1>q, <2>1 DEF Begin, Torn
<1>2. ASSUME NEW p \in Procs, NEW at, Goto(p, at)
      PROVE  \A q \in Procs : proc'[q].at = at
  BY <1>0, <1>2 DEF Goto, Alone, TypeOK, Call
<1>3. ASSUME NEW p \in Procs, Evaluate(p) PROVE Torn' /\ Closed
  <2>1. tail # "torn" /\ UNCHANGED <<audit, released>>
    BY <1>3 DEF Evaluate
  <2>2. CASE Allowed(proc[p].bundle)
    BY <1>3, <1>q, <2>1, <2>2 DEF Evaluate, Torn
  <2>3. CASE ~Allowed(proc[p].bundle)
    <3>1. Goto(p, "idle")
      BY <1>3, <2>3 DEF Evaluate
    <3> QED BY <1>2, <1>q, <2>1, <3>1 DEF Torn
  <2> QED BY <2>2, <2>3
<1>4. ASSUME NEW p \in Procs, Mismatch(p) \/ Park(p) \/ Decline(p) \/ Crash(p)
      PROVE  Torn' /\ Closed
  <2>1. Goto(p, "idle") /\ UNCHANGED <<audit, released>>
    BY <1>4 DEF Mismatch, Park, Decline, Crash
  <2> QED BY <1>2, <1>q, <2>1 DEF Torn
<1>6. ASSUME NEW p \in Procs, Confirm(p) \/ Unattended(p) PROVE Torn' /\ Closed
  <2>1. proc[p].at = "confirm" /\ UNCHANGED <<audit, tail, released>>
    BY <1>6 DEF Confirm, Unattended
  <2>2. tail # "torn"
    BY <2>1 DEF Torn, JustLogged
  <2> QED BY <1>q, <2>1, <2>2 DEF Torn
<1>7. ASSUME NEW p \in Procs, SignStep(p) PROVE Torn' /\ Closed
  <2> DEFINE n == Len(audit)
             e == Record(p)
  <2>1. /\ audit' = Append(audit, e) /\ proc[p].at = "sign" /\ UNCHANGED released
        /\ e.bundle = proc[p].bundle /\ e.step = proc[p].step + 1
    BY <1>7 DEF SignStep, Record
  <2>2. audit \in Seq(Entry) /\ e \in Entry
    BY <1>0 DEF TypeOK, Record, Entry, Call
  <2> HIDE DEF e
  <2>3. n \in Nat /\ Len(audit') = n + 1 /\ audit'[Len(audit')] = e /\ audit' # <<>>
    BY <2>1, <2>2
  <2>4. \A q \in Procs : /\ proc'[q].at = "sign" /\ proc'[q].bundle = proc[p].bundle
                         /\ proc'[q].step = proc[p].step + 1
    BY <1>0, <1>7, <2>1 DEF SignStep, Alone, TypeOK, Call
  <2>5. Torn'
    BY <2>1, <2>3, <2>4 DEF Torn, JustLogged
  <2>6. tail = "torn" => JustLogged(p)
    BY <2>1 DEF Torn
  <2> QED BY <2>1, <2>3, <2>5, <2>6 DEF Closed, LastBundleOnly, JustLogged
<1>8. ASSUME NEW p \in Procs, SignFails(p) PROVE Torn' /\ Closed
  <2> DEFINE n == Len(audit)
             e == Record(p)
  <2>1. /\ Goto(p, "idle") /\ proc[p].at = "sign" /\ UNCHANGED released
        /\ audit' = audit \/ audit' = Append(audit, e)
        /\ e.bundle = proc[p].bundle /\ e.step = proc[p].step + 1
    BY <1>8 DEF SignFails, Record
  <2>2. audit \in Seq(Entry) /\ e \in Entry
    BY <1>0 DEF TypeOK, Record, Entry, Call
  <2>3. Torn'
    BY <1>2, <2>1 DEF Torn
  <2>4. tail = "torn" => JustLogged(p)
    BY <2>1 DEF Torn
  <2> HIDE DEF e
  <2>5. CASE audit' = Append(audit, e)
    <3>1. n \in Nat /\ Len(audit') = n + 1 /\ audit'[Len(audit')] = e
      BY <2>2, <2>5
    <3> QED BY <2>1, <2>3, <2>4, <3>1 DEF Closed, LastBundleOnly, JustLogged
  <2> QED BY <1>q, <2>1, <2>3, <2>5
<1>9. ASSUME NEW p \in Procs, Release(p) PROVE Torn' /\ Closed
  <2>1. /\ Goto(p, "idle") /\ proc[p].at = "sign" /\ UNCHANGED audit
        /\ proc[p].step = Len(Steps(proc[p].bundle))
        /\ \A r \in released' \ released : r.bundle = proc[p].bundle
    BY <1>9 DEF Release
  <2>2. Torn'
    BY <1>2, <2>1 DEF Torn
  <2>3. tail = "torn" => JustLogged(p)
    BY <2>1 DEF Torn
  <2> QED BY <2>1, <2>2, <2>3 DEF Closed, LastBundleOnly, JustLogged
<1>10. CASE Tick \/ UNCHANGED vars
  <2>1. UNCHANGED <<audit, tail, proc, released>>
    BY <1>10 DEF Tick, vars
  <2> QED BY <1>q, <2>1 DEF Torn, JustLogged
<1> QED BY <1>1, <1>3, <1>4, <1>6, <1>7, <1>8, <1>9, <1>10 DEF Next

(* An unreadable log fails closed, for good: the one process there is begins *)
(* no bundle any more; at most the call whose append made the log unreadable *)
(* logs and releases the rest of its own.                                    *)
THEOREM FailsClosedHolds == ASSUME Alone PROVE Spec => FailsClosed
<1>1. Init => Torn
  BY DEF Init, Torn
<1>2. GateInv /\ Torn /\ [Next]_vars => [tail = "torn" => LastBundleOnly]_vars
  BY TornNext DEF Closed
<1>3. GateInv /\ Torn /\ [Next]_vars => Torn'
  BY TornNext
<1> QED BY <1>1, <1>2, <1>3, GateInit, GateNext, PTL DEF Spec, FailsClosed

(***************************************************************************)
(* HdScan.                                                                 *)
(***************************************************************************)

(* An output as the explorer lists it, under an address of the wallet.       *)
Reference == [id : Nat \ {0}, address : [branch : Branches, index : Nat],
              claims : {<<>>} \cup Nat \X Nat]

Utxo == [id : Nat \ {0}, address : [branch : Branches, index : Nat],
         asset : Nat, value : Nat, blind : {"none", "wallet", "foreign"}]

ScanType ==
    /\ coins \subseteq Coin /\ events \in Nat
    /\ walk \in [branch : Branches, index : Nat, trailing : Nat, next : Nat,
                 found : SUBSET Reference, failed : BOOLEAN]
    /\ \A i \in DOMAIN page : i \in Nat /\ (page[i].at = "done" => page[i].utxos \subseteq Reference)
    /\ listed \subseteq Reference
    /\ snapshot \in [utxos : SUBSET Utxo, skipped : SUBSET Nat, next : [Branches -> Nat]]

ScanInv == ScanType /\ SnapshotHonest

-----------------------------------------------------------------------------
(* Nothing has been believed yet when a command starts.                      *)
LEMMA ScanInvInit == ScanInit => ScanInv
<1> SUFFICES ASSUME ScanInit PROVE ScanInv
  OBVIOUS
<1>1. coins \subseteq Coin
  BY ScanAssumption DEF ScanInit, ScanAssumption
<1>2. walk \in [branch : Branches, index : Nat, trailing : Nat, next : Nat,
                found : SUBSET Reference, failed : BOOLEAN]
  BY DEF ScanInit, NoWalk, Branches
<1>3. snapshot \in [utxos : SUBSET Utxo, skipped : SUBSET Nat, next : [Branches -> Nat]]
  BY DEF ScanInit, Empty
<1>4. DOMAIN page = {}
  BY DEF ScanInit
<1>5. SnapshotHonest
  BY DEF ScanInit, Empty, SnapshotHonest
<1> QED BY <1>1, <1>2, <1>3, <1>4, <1>5 DEF ScanInv, ScanType, ScanInit

(* An explorer may distort outputs, but lists them under the address asked.  *)
LEMMA ShownCoins == ASSUME coins \subseteq Coin PROVE Shown \subseteq Coin
<1>1. Live \subseteq Coin /\ Stranger \in Coin
  BY ScanAssumption DEF Live, Stranger, Coin, Branches, ScanAssumption
<1>2. ASSUME NEW c \in Coin
      PROVE  /\ [c EXCEPT !.value = @ + 1] \in Coin /\ [c EXCEPT !.spent = "no"] \in Coin
             /\ [c EXCEPT !.index = @ + 1] \in Coin
  BY DEF Coin
<1>3. ASSUME NEW c \in Live PROVE Distorted(c) \subseteq Coin
  <2>1. c \in Coin
    BY <1>1
  <2>2. CASE explorer \in {"wrongValue", "wrongRaw"}
    BY <1>2, <2>1, <2>2 DEF Distorted
  <2>3. CASE explorer = "stale"
    BY <1>2, <2>1, <2>3 DEF Distorted
  <2>4. CASE explorer = "twice"
    BY <1>2, <2>1, <2>4 DEF Distorted
  <2>5. CASE explorer \notin {"wrongValue", "wrongRaw", "stale", "twice"}
    BY <2>1, <2>5 DEF Distorted
  <2> QED BY <2>2, <2>3, <2>4, <2>5
<1> QED BY <1>1, <1>3 DEF Shown

(* What an explorer lists is under an address of the wallet.                 *)
LEMMA ListedReferences ==
    ASSUME coins \subseteq Coin, NEW b \in Branches, NEW i \in Nat
    PROVE  Utxos(At(b, i)) \subseteq Reference
<1> SUFFICES ASSUME NEW c \in Shown
             PROVE  [id |-> c.id, address |-> At(b, i), claims |-> Claims(c)] \in Reference
  BY DEF Utxos
<1>1. c \in Coin
  BY ShownCoins
<1>2. Claims(c) \in {<<>>} \cup Nat \X Nat
  BY <1>1 DEF Claims, Coin
<1> QED BY <1>1, <1>2 DEF Reference, At, Coin

(* A raw transaction that hashes to the id of a listed output, and pays the   *)
(* address it is listed under, is the transaction of a coin of the wallet.    *)
LEMMA VerifiedIsReal ==
    ASSUME NEW ref \in Reference, NEW raw, RawVerifies(ref, raw)
    PROVE  \E c \in coins : raw = Tx(c)
<1>1. ref.id # 0 /\ ref.address.branch \in Branches
  BY DEF Reference
<1>2. raw \in RealTxs
  BY <1>1 DEF RawVerifies, Txid
<1>3. raw # StrangerTx
  <2> SUFFICES ASSUME raw = StrangerTx PROVE FALSE
    OBVIOUS
  <2>1. raw.script = At("stranger", 0)
    BY DEF StrangerTx, Tx
  <2> QED BY <1>1, <2>1 DEF RawVerifies, At, Branches
<1> QED BY <1>2, <1>3 DEF RealTxs

-----------------------------------------------------------------------------
(* The chain moves: a coin may be confirmed, spent or dropped, but it stays   *)
(* what it is.                                                                *)
LEMMA ChainKeeps ==
    ASSUME ScanInv, Chain PROVE ScanInv'
<1> USE DEF ScanInv
<1>1. UNCHANGED <<walk, page, listed, snapshot>> /\ events' = events + 1
  BY DEF Chain, Pay, ConfirmPayment, Spend, ConfirmSpend, Drop, Happens
<1>2. /\ coins' \subseteq Coin
      /\ \A c \in coins : \E d \in coins' :
           /\ d.id = c.id /\ AddressOf(d) = AddressOf(c)
           /\ d.asset = c.asset /\ d.value = c.value /\ d.blind = c.blind
  <2>1. CASE \E a \in Payable : Pay(a)
    <3>1. PICK a \in Payable : Pay(a)
      BY <2>1
    <3>2. a \in [branch : Branches, index : Nat] /\ events \in Nat
      BY ScanAssumption DEF ScanAssumption, ScanType
    <3>3. [id |-> FreshId + 1 + events, branch |-> a.branch, index |-> a.index, asset |-> 0, value |-> 7,
           blind |-> "none", funded |-> "mempool", spent |-> "no"] \in Coin
      BY <3>2, ScanAssumption DEF Coin, ScanAssumption
    <3> QED BY <3>1, <3>3 DEF Pay, Happens, ScanType
  <2>2. CASE \E c \in coins : ConfirmPayment(c) \/ Spend(c) \/ ConfirmSpend(c) \/ Drop(c)
    <3>1. PICK c \in coins : ConfirmPayment(c) \/ Spend(c) \/ ConfirmSpend(c) \/ Drop(c)
      BY <2>2
    <3>2. c \in Coin
      BY DEF ScanType
    <3>3. PICK d : /\ coins' = (coins \ {c}) \cup {d}
                   /\ \E f \in {"chain", "dropped"}, s \in {"no", "mempool", "chain"} :
                        d \in {[c EXCEPT !.funded = f], [c EXCEPT !.spent = s],
                               [c EXCEPT !.funded = f, !.spent = s]}
      BY <3>1 DEF ConfirmPayment, Spend, ConfirmSpend, Drop, Happens, Change
    <3>4. /\ d \in Coin /\ d.id = c.id /\ d.branch = c.branch /\ d.index = c.index
          /\ d.asset = c.asset /\ d.value = c.value /\ d.blind = c.blind
      BY <3>2, <3>3 DEF Coin
    <3> QED BY <3>3, <3>4 DEF ScanType, AddressOf, At
  <2> QED BY <2>1, <2>2 DEF Chain
<1>3. SnapshotHonest'
  <2> SUFFICES ASSUME NEW u \in snapshot.utxos
               PROVE  \E d \in coins' : /\ d.id = u.id /\ AddressOf(d) = u.address
                                        /\ <<d.asset, d.value>> = <<u.asset, u.value>>
                                        /\ d.blind # "foreign"
    BY <1>1 DEF SnapshotHonest, AddressOf, At
  <2>1. PICK c \in coins : /\ c.id = u.id /\ AddressOf(c) = u.address
                           /\ <<c.asset, c.value>> = <<u.asset, u.value>>
                           /\ c.blind # "foreign"
    BY DEF SnapshotHonest
  <2> QED BY <1>2, <2>1
<1> QED BY <1>1, <1>2, <1>3 DEF ScanType

-----------------------------------------------------------------------------
(* Opening the wallet and walking over its addresses: nothing enters the      *)
(* snapshot, and what is listed is listed under addresses of the wallet.      *)
LEMMA OpenKeeps ==
    ASSUME ScanInv, Open \/ CheckPin \/ StartPage PROVE ScanInv'
<1>1. UNCHANGED <<coins, events, walk, listed, snapshot>>
  BY DEF Open, CheckPin, StartPage, Unreachable, Fail, chain
<1>2. \A i \in DOMAIN page' :
        i \in Nat /\ (page'[i].at = "done" => page'[i].utxos \subseteq Reference)
  <2>1. CASE UNCHANGED page
    BY <2>1 DEF ScanInv, ScanType
  <2>2. CASE page' = [i \in walk.index..(walk.index + PageSize - 1) |-> [at |-> "stats"]]
    BY <2>2 DEF ScanInv, ScanType
  <2> QED BY <2>1, <2>2 DEF Open, CheckPin, StartPage, Unreachable, Fail
<1> QED BY <1>1, <1>2 DEF ScanInv, ScanType, SnapshotHonest, AddressOf, At

(* The answers of one address.                                               *)
LEMMA AnswerKeeps ==
    ASSUME ScanInv, NEW i \in DOMAIN page, NEW r, Answer(i, r),
           r.at = "done" => r.utxos \subseteq Reference
    PROVE  ScanInv'
<1>1. UNCHANGED <<coins, events, walk, listed, snapshot>> /\ page' = [page EXCEPT ![i] = r]
  BY DEF Answer, chain
<1>2. \A j \in DOMAIN page' :
        j \in Nat /\ (page'[j].at = "done" => page'[j].utxos \subseteq Reference)
  BY <1>1 DEF ScanInv, ScanType
<1> QED BY <1>1, <1>2 DEF ScanInv, ScanType, SnapshotHonest, AddressOf, At

(* A thread gets an answer or an error for its address.                      *)
LEMMA AddressKeeps ==
    ASSUME ScanInv, NEW i \in DOMAIN page, AskStats(i) \/ AskUtxos(i) \/ TimesOut(i)
    PROVE  ScanInv'
<1> DEFINE Good(r) == r.at = "done" => r.utxos \subseteq Reference
<1>1. ASSUME NEW info, NEW utxos, utxos \subseteq Reference PROVE Good(Result(info, utxos))
  BY <1>1 DEF Result
<1>2. Utxos(At(walk.branch, i)) \subseteq Reference
  BY ListedReferences DEF ScanInv, ScanType
<1>3. CASE AskStats(i)
  <2>1. PICK info, r : /\ Answer(i, r)
                       /\ r \in {[at |-> "error"], [at |-> "list", info |-> info], Result(info, {})}
    BY <1>3 DEF AskStats
  <2>2. Good(r)
    BY <2>1, <1>1
  <2> QED BY <2>1, <2>2, AnswerKeeps
<1>4. CASE AskUtxos(i)
  BY <1>1, <1>2, <1>4, AnswerKeeps DEF AskUtxos
<1>5. CASE TimesOut(i)
  <2>1. Good([at |-> "error"])
    OBVIOUS
  <2> QED BY <1>5, <2>1, AnswerKeeps DEF TimesOut
<1> QED BY <1>3, <1>4, <1>5

(* Taking a result adds to what has been found.                              *)
LEMMA JoinKeeps ==
    ASSUME ScanInv, Join PROVE ScanInv'
<1> DEFINE r == page[walk.index]
           Walks == [branch : Branches, index : Nat, trailing : Nat, next : Nat,
                     found : SUBSET Reference, failed : BOOLEAN]
<1>1. /\ UNCHANGED <<coins, events, listed, snapshot>> /\ walk' = Take(walk, r)
      /\ page' = <<>> \/ page' = page
  BY DEF Join, chain
<1>2. walk \in Walks /\ (r.at # "error" => r.utxos \subseteq Reference)
  BY DEF ScanInv, ScanType, Join, Answered
<1> HIDE DEF r
<1>3. Take(walk, r) \in Walks
  <2>1. CASE r.at = "error"
    BY <1>2, <2>1 DEF Take
  <2>2. CASE r.at # "error"
    <3>1. /\ walk.index + 1 \in Nat /\ walk.found \cup r.utxos \subseteq Reference
          /\ (IF r.used THEN 0 ELSE walk.trailing + 1) \in Nat
          /\ (IF r.used THEN walk.index + 1 ELSE walk.next) \in Nat
      BY <1>2, <2>2
    <3> QED BY <1>2, <2>2, <3>1 DEF Take
  <2> QED BY <2>1, <2>2
<1>4. \A i \in DOMAIN page' :
        i \in Nat /\ (page'[i].at = "done" => page'[i].utxos \subseteq Reference)
  <2>1. CASE page' = <<>>
    BY <2>1
  <2>2. CASE page' = page
    BY <2>2 DEF ScanInv, ScanType
  <2> QED BY <1>1, <2>1, <2>2
<1>5. SnapshotHonest'
  BY <1>1 DEF ScanInv, SnapshotHonest, AddressOf, At
<1> QED BY <1>1, <1>3, <1>4, <1>5 DEF ScanInv, ScanType

(* The end of a branch hands over what has been found.                       *)
LEMMA BranchEndsKeeps ==
    ASSUME ScanInv, BranchEnds PROVE ScanInv'
<1>1. UNCHANGED <<coins, events, page>> /\ listed' = listed \cup walk.found
  BY DEF BranchEnds, chain
<1>2. /\ walk' \in [branch : Branches, index : Nat, trailing : Nat, next : Nat,
                   found : SUBSET Reference, failed : BOOLEAN]
      /\ snapshot' \in [utxos : SUBSET Utxo, skipped : SUBSET Nat, next : [Branches -> Nat]]
      /\ snapshot'.utxos = snapshot.utxos
  BY DEF BranchEnds, ScanInv, ScanType, NoWalk, Branches
<1>3. listed' \subseteq Reference
  BY <1>1 DEF ScanInv, ScanType
<1> QED BY <1>1, <1>2, <1>3 DEF ScanInv, ScanType, SnapshotHonest, AddressOf, At

-----------------------------------------------------------------------------
(* The outputs have ids, so there is a first one.                            *)
LEMMA FirstIsListed ==
    ASSUME listed # {}, listed \subseteq Reference PROVE FirstListed \in listed
<1>1. PICK n \in {l.id : l \in listed} :
        \A m \in {l.id : l \in listed} : ~(<<m, n>> \in OpToRel(<, Nat))
  <2>1. {l.id : l \in listed} \subseteq Nat /\ {l.id : l \in listed} # {}
    BY DEF Reference
  <2> QED BY <2>1, NatLessThanWellFounded, WFMin
<1>2. PICK l \in listed : l.id = n
  OBVIOUS
<1>3. \A q \in listed : q.id \in Nat
  BY DEF Reference
<1>4. ASSUME NEW q \in listed PROVE l.id <= q.id
  <2>1. ~(<<q.id, l.id>> \in OpToRel(<, Nat))
    BY <1>1, <1>2
  <2>2. q.id \in Nat /\ l.id \in Nat
    BY <1>3
  <2>3. ~(q.id < l.id)
    BY <2>1, <2>2 DEF OpToRel
  <2> QED BY <2>2, <2>3
<1> QED BY <1>2, <1>4 DEF FirstListed

(* What is fetched is filed only after it has been verified.                 *)
LEMMA FetchKeeps ==
    ASSUME ScanInv, Fetch PROVE ScanInv'
<1> DEFINE ref == FirstListed
<1>1. UNCHANGED <<coins, events, walk, page>>
  BY DEF Fetch, Fail, chain
<1>2. CASE Fail
  BY <1>1, <1>2 DEF Fail, ScanInv, ScanType, SnapshotHonest, AddressOf, At
<1>3. ASSUME NEW raw \in RawTxs(ref.id), listed # {}, listed' = listed \ {ref},
             snapshot' = IF RawVerifies(ref, raw)
                         THEN [snapshot EXCEPT !.utxos = @ \cup
                                 {[id |-> ref.id, address |-> ref.address, asset |-> raw.asset,
                                   value |-> raw.value, blind |-> raw.blind]}]
                         ELSE [snapshot EXCEPT !.skipped = @ \cup {ref.id}]
      PROVE  ScanInv'
  <2>1. ref \in listed
    BY <1>3, FirstIsListed DEF ScanInv, ScanType
  <2>2. ref \in Reference /\ listed' \subseteq Reference
    BY <1>3, <2>1 DEF ScanInv, ScanType
  <2>3. CASE ~RawVerifies(ref, raw)
    <3>1. /\ snapshot' \in [utxos : SUBSET Utxo, skipped : SUBSET Nat, next : [Branches -> Nat]]
          /\ snapshot'.utxos = snapshot.utxos
      BY <1>3, <2>2, <2>3 DEF ScanInv, ScanType, Reference
    <3> QED BY <1>1, <2>2, <3>1 DEF ScanInv, ScanType, SnapshotHonest, AddressOf, At
  <2>4. CASE RawVerifies(ref, raw)
    <3> DEFINE u == [id |-> ref.id, address |-> ref.address, asset |-> raw.asset,
                     value |-> raw.value, blind |-> raw.blind]
    <3>1. PICK c \in coins : raw = Tx(c)
      BY <2>2, <2>4, VerifiedIsReal
    <3>2. c \in Coin /\ raw.id = ref.id /\ raw.script = ref.address /\ raw.blind # "foreign"
      BY <2>2, <2>4, <3>1 DEF ScanInv, ScanType, RawVerifies, Txid, RealTxs
    <3>3. /\ u \in Utxo
          /\ c.id = u.id /\ AddressOf(c) = u.address /\ c.asset = u.asset /\ c.value = u.value
          /\ c.blind # "foreign"
      BY <2>2, <3>1, <3>2 DEF Tx, Coin, Reference, Utxo
    <3> HIDE DEF u, ref
    <3>4. /\ snapshot' \in [utxos : SUBSET Utxo, skipped : SUBSET Nat, next : [Branches -> Nat]]
          /\ snapshot'.utxos = snapshot.utxos \cup {u}
      BY <1>3, <2>4, <3>3 DEF ScanInv, ScanType, u
    <3>5. SnapshotHonest'
      BY <1>1, <3>3, <3>4 DEF ScanInv, SnapshotHonest, AddressOf, At
    <3> QED BY <1>1, <2>2, <3>4, <3>5 DEF ScanInv, ScanType
  <2> QED BY <2>3, <2>4
<1> QED BY <1>2, <1>3 DEF Fetch

-----------------------------------------------------------------------------
(* Every step preserves the invariant.                                       *)
LEMMA ScanInvNext == ScanInv /\ [ScanNext]_scanVars => ScanInv'
<1> SUFFICES ASSUME ScanInv, [ScanNext]_scanVars PROVE ScanInv'
  OBVIOUS
<1>1. CASE Return \/ UNCHANGED scanVars
  BY <1>1 DEF Return, scanVars, chain, ScanInv, ScanType, SnapshotHonest, AddressOf, At
<1>2. CASE \E i \in DOMAIN page : AskStats(i) \/ AskUtxos(i) \/ TimesOut(i)
  BY <1>2, AddressKeeps
<1> QED BY <1>1, <1>2, ChainKeeps, OpenKeeps, JoinKeeps, BranchEndsKeeps, FetchKeeps DEF ScanNext, Scanner

(* Whatever the explorer answers, every coin of a snapshot was really paid to *)
(* the wallet address it is filed under, and is what it is said to be.        *)
THEOREM SnapshotHonestHolds == ScanSpec => []SnapshotHonest
<1>1. ScanInv => SnapshotHonest
  BY DEF ScanInv
<1> QED BY <1>1, ScanInvInit, ScanInvNext, PTL DEF ScanSpec

(* A stored chain is never exchanged: the pin is written only where there was *)
(* none, or again as it was.                                                 *)
THEOREM PinStaysHolds == ScanSpec => PinStays
<1>1. [ScanNext]_scanVars => [config.genesis # "none" => config'.genesis = config.genesis]_config
  <2> SUFFICES ASSUME ScanNext, config' # config, config.genesis # "none"
               PROVE  config'.genesis = config.genesis
    BY DEF scanVars
  <2>1. Open
    BY DEF ScanNext, Scanner, Chain, CheckPin, Unreachable, StartPage, Join, BranchEnds, Fetch, Return,
           AskStats, AskUtxos, TimesOut, Answer, Pay, ConfirmPayment, Spend, ConfirmSpend, Drop, Happens
  <2>2. PICK genesis \in Genesis : /\ Adoptable(genesis)
                                  /\ config' = [genesis |-> genesis, policy |-> "set"]
    BY <2>1 DEF Open, Unreachable
  <2> QED BY <2>2 DEF Adoptable
<1> QED BY <1>1, PTL DEF ScanSpec, PinStays

-----------------------------------------------------------------------------
(* The second part of the invariant: what an explorer that tells the truth,  *)
(* as far as it answers, makes known of the coins that stay.                 *)

Truthful == explorer \in {"honest", "down"}

RefOf(c) == [id |-> c.id, address |-> AddressOf(c), claims |-> Claims(c)]
Refs(cs) == {RefOf(c) : c \in cs}

(* Coins that were spendable at the start and are still what they were.      *)
Kept == {c \in start : c.spent = "no" /\ c.id \notin touched}

(* Ids are never used twice, and the scan starts with an old coin set.       *)
CoinsOnce ==
    /\ IsFiniteSet(coins)
    /\ \A c, d \in coins : c.id = d.id => c = d
    /\ \A c \in coins : c.id < FreshId + 1 + events /\ c.id # FreshId
    /\ \A c \in start : c.id < FreshId

(* Until the scan begins there has been nothing to see, and nothing changes. *)
Fresh ==
    phase \in {"open", "pin"} =>
        /\ events = 0 /\ start = {} /\ touched = {} /\ walk = NoWalk /\ page = <<>>
        /\ \A c \in coins : c.id < FreshId /\ c.funded # "dropped"

(* The same output, perhaps in another state.                                *)
Same(c, d) ==
    /\ c.id = d.id /\ c.branch = d.branch /\ c.index = d.index
    /\ c.asset = d.asset /\ c.value = d.value /\ c.blind = d.blind

(* A coin of the start is still there; untouched, it is as spendable as then. *)
Origin ==
    \A c \in start : \E d \in coins :
        /\ Same(c, d)
        /\ c.id \notin touched => d.funded # "dropped" /\ (c.spent = "no" => d.spent = "no")

(* Nothing is listed that is not an output of the wallet.                    *)
ListedTrue ==
    Truthful =>
        /\ walk.found \cup listed \subseteq Refs(coins)
        /\ \A i \in DOMAIN page : page[i].at = "done" => page[i].utxos \subseteq Refs(coins)

(* An answered address is known to be used if it was all along, and its kept *)
(* coins are listed.                                                         *)
PageTrue ==
    Truthful => \A i \in DOMAIN page :
        /\ page[i].at = "list" => Used(page[i].info)
        /\ page[i].at = "done" =>
             /\ i \in SteadyUse(walk.branch) => page[i].used
             /\ \A c \in Kept : AddressOf(c) = At(walk.branch, i) => RefOf(c) \in page[i].utxos

(* So are the addresses behind the loop: none of the trailing ones is in use *)
(* all along, and the next address is behind those that are.                 *)
WalkTrue ==
    Truthful =>
        /\ walk.trailing <= walk.index
        /\ \A i \in SteadyUse(walk.branch) :
             i < walk.index => i < walk.next /\ i < walk.index - walk.trailing
        /\ \A c \in Kept :
             c.branch = walk.branch /\ c.index < walk.index => RefOf(c) \in walk.found

Finished == IF phase \in {"fetch", "done"} THEN Branches
            ELSE IF phase = "scan" /\ walk.branch = "change" THEN {"external"} ELSE {}

Filed(c) == IF c.blind = "foreign" THEN c.id \in snapshot.skipped
            ELSE \E u \in snapshot.utxos : u.id = c.id

(* Of a branch that is finished every kept coin is filed, or still to be.    *)
BranchTrue ==
    Truthful => \A b \in Finished :
        /\ \A i \in SteadyUse(b) : Covered(b, i) => i < snapshot.next[b]
        /\ \A c \in Kept :
             c.branch = b /\ Covered(b, c.index) => RefOf(c) \in listed \/ Filed(c)

AllFetched == phase = "done" => listed = {}

CompleteInv ==
    /\ reserved \in Nat /\ phase \in {"open", "pin", "scan", "fetch", "done", "failed"}
    /\ CoinsOnce /\ Fresh /\ Origin /\ ListedTrue /\ PageTrue /\ WalkTrue /\ BranchTrue
    /\ AllFetched

-----------------------------------------------------------------------------
(* The third part: with an honest explorer and a chain that stands still.    *)

Quiet == explorer = "honest" /\ events = 0

(* The stored chain is the explorer's.                                       *)
OnChain ==
    explorer = "honest" =>
        config.genesis \in (IF phase = "open" THEN {"none", "ours"} ELSE {"ours"})

(* Whatever has been listed can be fetched.                                  *)
Fetchable == walk.found \cup listed \subseteq Refs(Live)

(* The answers of a page agree with each other.                              *)
PageQuiet ==
    \A i \in DOMAIN page :
        /\ page[i].at # "error"
        /\ page[i].at = "list" =>
             /\ Expected(page[i].info) = Cardinality(Utxos(At(walk.branch, i)))
             /\ \E c \in coins : c.index = i
        /\ page[i].at = "done" => /\ page[i].utxos \subseteq Refs(Live)
                                  /\ page[i].used => \E c \in coins : c.index = i

(* The loop is never farther than Gap from an address in use.                *)
WalkQuiet ==
    /\ ~walk.failed /\ walk.trailing <= walk.index
    /\ \/ walk.trailing = walk.index
       \/ \E c \in coins : c.index + walk.trailing + 1 = walk.index

RangeQuiet ==
    /\ reserved <= MaxIndex + 1 /\ Gap <= MaxIndex + 1
    /\ \A c \in coins : c.index + Gap <= MaxIndex

QuietInv ==
    /\ OnChain
    /\ Quiet => phase # "failed" /\ Fetchable /\ PageQuiet /\ WalkQuiet /\ RangeQuiet

(* The numbers of a coin are numbers.                                        *)
LEMMA CoinFields ==
    ASSUME NEW c \in Coin
    PROVE  /\ c.id \in Nat \ {0} /\ c.branch \in Branches /\ c.index \in Nat
           /\ c.asset \in Nat /\ c.value \in Nat
           /\ c.funded \in {"chain", "mempool", "dropped"}
           /\ c.spent \in {"no", "mempool", "chain"}
BY DEF Coin

(* A listed output depends on what never changes of a coin.                  *)
LEMMA SameRef == ASSUME NEW c, NEW d, Same(c, d) PROVE RefOf(c) = RefOf(d)
BY DEF Same, RefOf, AddressOf, At, Claims

(* Before anything has been scanned nothing is claimed of it.                *)
LEMMA CompleteInit == ScanInit => CompleteInv
<1> SUFFICES ASSUME ScanInit PROVE CompleteInv
  OBVIOUS
<1>1. PICK s \in Starts : coins = s.coins /\ reserved = s.reserved
  BY DEF ScanInit
<1>2. /\ coins \subseteq Coin /\ IsFiniteSet(coins) /\ reserved \in Nat
      /\ \A c, d \in coins : c.id = d.id => c = d
      /\ \A c \in coins : c.id < FreshId /\ c.funded # "dropped"
      /\ FreshId \in Nat
  BY <1>1, ScanAssumption DEF ScanAssumption
<1>3. \A c \in coins : c.id \in Nat
  BY <1>2, CoinFields
<1>4. CoinsOnce /\ Fresh
  BY <1>2, <1>3 DEF ScanInit, CoinsOnce, Fresh
<1>5. Origin /\ AllFetched
  BY DEF ScanInit, Origin, AllFetched
<1>6. ListedTrue /\ PageTrue
  BY DEF ScanInit, ListedTrue, PageTrue, NoWalk
<1>7. WalkTrue /\ BranchTrue
  BY DEF ScanInit, WalkTrue, BranchTrue, NoWalk, SteadyUse, Kept, Finished
<1> QED BY <1>2, <1>4, <1>5, <1>6, <1>7 DEF CompleteInv, ScanInit

(* What an event of the chain does to the coins: each stays, one may be new; *)
(* none that was dropped comes back, and those spent or dropped are noted.   *)
LEMMA ChainStep ==
    ASSUME ScanInv, CompleteInv, Chain
    PROVE  /\ UNCHANGED <<fixed, config, phase, walk, page, listed, snapshot, start>>
           /\ phase \in {"scan", "fetch"} /\ events' = events + 1 /\ touched \subseteq touched'
           /\ CoinsOnce'
           /\ \A c \in coins : \E d \in coins' :
                /\ Same(c, d)
                /\ c.id \notin touched' =>
                     /\ c.funded # "dropped" => d.funded # "dropped"
                     /\ c.spent = "no" => d.spent = "no"
           /\ \A d \in coins' : d.id < FreshId =>
                \E c \in coins : Same(c, d) /\ (d.funded # "dropped" => c.funded # "dropped")
<1>1. /\ UNCHANGED <<fixed, config, phase, walk, page, listed, snapshot, start>>
      /\ phase \in {"scan", "fetch"} /\ events' = events + 1
  BY DEF Chain, Pay, ConfirmPayment, Spend, ConfirmSpend, Drop, Happens
<1>2. /\ events \in Nat /\ FreshId \in Nat /\ \A c \in coins : c \in Coin /\ c.id \in Nat
      /\ IsFiniteSet(coins) /\ \A c, d \in coins : c.id = d.id => c = d
      /\ \A c \in coins : c.id < FreshId + 1 + events /\ c.id # FreshId
      /\ \A c \in start : c.id < FreshId
  BY CoinFields, ScanAssumption DEF ScanInv, ScanType, CompleteInv, CoinsOnce, ScanAssumption
<1>3. CASE \E a \in Payable : Pay(a)
  <2>1. PICK n : coins' = coins \cup {n} /\ n.id = FreshId + 1 + events /\ touched' = touched
    BY <1>3 DEF Pay, Happens
  <2>2. IsFiniteSet(coins')
    BY <1>2, <2>1, FS_AddElement
  <2>3. n.id < FreshId + 1 + events' /\ ~(n.id < FreshId) /\ n.id # FreshId
    BY <1>1, <1>2, <2>1
  <2>4. \A c \in coins : c.id < FreshId + 1 + events' /\ c.id # n.id
    BY <1>1, <1>2, <2>1
  <2>5. CoinsOnce'
    BY <1>1, <1>2, <2>1, <2>2, <2>3, <2>4 DEF CoinsOnce
  <2>6. \A c \in coins : c \in coins' /\ Same(c, c)
    BY <2>1 DEF Same
  <2>7. \A d \in coins' : d.id < FreshId => d \in coins
    BY <2>1, <2>3
  <2> QED BY <1>1, <2>1, <2>5, <2>6, <2>7
<1>4. CASE \E c \in coins : ConfirmPayment(c) \/ Spend(c) \/ ConfirmSpend(c) \/ Drop(c)
  <2>1. PICK c \in coins : ConfirmPayment(c) \/ Spend(c) \/ ConfirmSpend(c) \/ Drop(c)
    BY <1>4
  <2>2. c \in Coin
    BY <1>2
  <2>3. PICK d : /\ coins' = (coins \ {c}) \cup {d} /\ Same(c, d) /\ d \in Coin
                 /\ d.funded # "dropped" => c.funded # "dropped"
                 /\ c.id \notin touched' =>
                      /\ c.funded # "dropped" => d.funded # "dropped"
                      /\ c.spent = "no" => d.spent = "no"
    <3>1. CASE ConfirmPayment(c)
      <4> DEFINE d == [c EXCEPT !.funded = "chain"]
      <4>1. coins' = (coins \ {c}) \cup {d} /\ c.funded = "mempool"
        BY <3>1 DEF ConfirmPayment, Happens, Change
      <4>2. d \in Coin /\ Same(c, d) /\ d.funded = "chain" /\ d.spent = c.spent
        BY <2>2 DEF Coin, Same
      <4> HIDE DEF d
      <4> QED BY <4>1, <4>2
    <3>2. CASE Spend(c)
      <4> DEFINE d == [c EXCEPT !.spent = "mempool"]
      <4>1. coins' = (coins \ {c}) \cup {d} /\ c.id \in touched'
        BY <3>2 DEF Spend, Happens, Change
      <4>2. d \in Coin /\ Same(c, d) /\ d.funded = c.funded
        BY <2>2 DEF Coin, Same
      <4> HIDE DEF d
      <4> QED BY <4>1, <4>2
    <3>3. CASE ConfirmSpend(c)
      <4> DEFINE d == [c EXCEPT !.spent = "chain"]
      <4>1. coins' = (coins \ {c}) \cup {d} /\ c.spent = "mempool"
        BY <3>3 DEF ConfirmSpend, Happens, Change
      <4>2. d \in Coin /\ Same(c, d) /\ d.funded = c.funded
        BY <2>2 DEF Coin, Same
      <4> HIDE DEF d
      <4> QED BY <4>1, <4>2
    <3>4. CASE Drop(c)
      <4> DEFINE d == [c EXCEPT !.funded = "dropped", !.spent = "no"]
      <4>1. coins' = (coins \ {c}) \cup {d} /\ c.id \in touched'
        BY <3>4 DEF Drop, Happens, Change
      <4>2. d \in Coin /\ Same(c, d) /\ d.funded = "dropped"
        BY <2>2 DEF Coin, Same
      <4> HIDE DEF d
      <4> QED BY <4>1, <4>2
    <3> QED BY <2>1, <3>1, <3>2, <3>3, <3>4
  <2>4. touched \subseteq touched'
    BY <2>1 DEF ConfirmPayment, Spend, ConfirmSpend, Drop
  <2>5. IsFiniteSet(coins')
    <3>1. IsFiniteSet(coins \ {c})
      BY <1>2, FS_RemoveElement
    <3> QED BY <2>3, <3>1, FS_AddElement
  <2>6. d.id = c.id
    BY <2>3 DEF Same
  <2>7. \A e \in coins' : e.id < FreshId + 1 + events' /\ e.id # FreshId
    BY <1>1, <1>2, <2>3, <2>6
  <2>8. CoinsOnce'
    BY <1>1, <1>2, <2>3, <2>5, <2>6, <2>7 DEF CoinsOnce
  <2>9. \A e : Same(e, e)
    BY DEF Same
  <2> QED BY <1>1, <2>3, <2>4, <2>8, <2>9
<1> QED BY <1>3, <1>4 DEF Chain

(* Less and less is in use all along, kept or to be covered.                 *)
LEMMA ChainLasts ==
    ASSUME ScanInv, CompleteInv, Chain
    PROVE  /\ \A b \in Branches : SteadyUse(b)' \subseteq SteadyUse(b)
           /\ \A b \in Branches, i \in Nat : Covered(b, i)' => Covered(b, i)
           /\ Kept' \subseteq Kept /\ Refs(coins) \subseteq Refs(coins')
<1>1. \A b \in Branches : SteadyUse(b)' \subseteq SteadyUse(b)
  <2> SUFFICES ASSUME NEW b \in Branches, NEW d \in coins', d.funded # "dropped", d.branch = b,
                      NEW e \in start, d.id = e.id
               PROVE  d.index \in SteadyUse(b)
    BY ChainStep DEF SteadyUse, Live
  <2>1. d.id < FreshId
    BY DEF CompleteInv, CoinsOnce
  <2>2. PICK c \in coins : Same(c, d) /\ c.funded # "dropped"
    BY <2>1, ChainStep
  <2> QED BY <2>2 DEF Same, SteadyUse, Live
<1>2. \A b \in Branches, i \in Nat : Covered(b, i)' => Covered(b, i)
  BY <1>1, ChainStep DEF Covered, MinIndex, fixed
<1>3. Kept' \subseteq Kept
  BY ChainStep DEF Kept
<1>4. Refs(coins) \subseteq Refs(coins')
  BY ChainStep, SameRef DEF Refs
<1> QED BY <1>1, <1>2, <1>3, <1>4

(* The chain may move at any time: nothing that has been said of the scan    *)
(* was about coins that leave, or about those that come.                     *)
LEMMA ChainComplete ==
    ASSUME ScanInv, CompleteInv, Chain PROVE CompleteInv'
<1>1. /\ UNCHANGED <<explorer, reserved, phase, walk, page, listed, snapshot, start>>
      /\ phase \in {"scan", "fetch"} /\ touched \subseteq touched' /\ CoinsOnce'
  BY ChainStep DEF fixed
<1>2. /\ walk.branch \in Branches /\ Finished \subseteq Branches /\ \A c \in start : c.index \in Nat
      /\ \A b \in Branches : SteadyUse(b) \subseteq Nat
  <2>1. \A c \in coins : c \in Coin
    BY DEF ScanInv, ScanType
  <2>2. \A c \in start : c.index \in Nat
    BY <2>1, CoinFields DEF CompleteInv, Origin, Same
  <2>3. \A b \in Branches : SteadyUse(b) \subseteq Nat
    BY <2>1, CoinFields DEF SteadyUse, Live
  <2> QED BY <2>2, <2>3 DEF ScanInv, ScanType, Finished, Branches
<1>3. Fresh' /\ AllFetched'
  BY <1>1 DEF Fresh, AllFetched
<1>4. Origin'
  <2> SUFFICES ASSUME NEW c \in start
               PROVE  \E e \in coins' :
                        /\ Same(c, e)
                        /\ c.id \notin touched' => /\ e.funded # "dropped"
                                                   /\ (c.spent = "no" => e.spent = "no")
    BY <1>1 DEF Origin, Same
  <2>1. PICK d \in coins :
          /\ Same(c, d)
          /\ c.id \notin touched => d.funded # "dropped" /\ (c.spent = "no" => d.spent = "no")
    BY DEF CompleteInv, Origin
  <2>2. PICK e \in coins' :
          /\ Same(d, e)
          /\ d.id \notin touched' => /\ d.funded # "dropped" => e.funded # "dropped"
                                     /\ d.spent = "no" => e.spent = "no"
    BY ChainStep
  <2>3. Same(c, e) /\ c.id = d.id
    BY <2>1, <2>2 DEF Same
  <2> QED BY <1>1, <2>1, <2>2, <2>3
<1>5. ListedTrue'
  BY <1>1, ChainLasts DEF CompleteInv, ListedTrue, Truthful
<1>6. PageTrue'
  BY <1>1, <1>2, ChainLasts DEF CompleteInv, PageTrue, Truthful, RefOf, AddressOf, At, Claims
<1>7. WalkTrue'
  BY <1>1, <1>2, ChainLasts DEF CompleteInv, WalkTrue, Truthful, RefOf, AddressOf, At, Claims
<1>8. BranchTrue'
  <2> SUFFICES ASSUME Truthful, NEW b \in Finished
               PROVE  /\ \A i \in SteadyUse(b)' : Covered(b, i)' => i < snapshot.next[b]
                      /\ \A c \in Kept' : c.branch = b /\ Covered(b, c.index)' =>
                           RefOf(c) \in listed \/ Filed(c)
    BY <1>1 DEF BranchTrue, Truthful, Finished, Filed, RefOf, AddressOf, At, Claims
  <2>1. /\ \A i \in SteadyUse(b) : Covered(b, i) => i < snapshot.next[b]
        /\ \A c \in Kept : c.branch = b /\ Covered(b, c.index) => RefOf(c) \in listed \/ Filed(c)
    BY DEF CompleteInv, BranchTrue
  <2>2. \A c \in Kept : c.index \in Nat
    BY <1>2 DEF Kept
  <2> QED BY <1>2, <2>1, <2>2, ChainLasts
<1> QED BY <1>1, <1>3, <1>4, <1>5, <1>6, <1>7, <1>8 DEF CompleteInv

(* Where neither coins nor the start change, neither does what follows.      *)
LEMMA StillLasts ==
    ASSUME UNCHANGED <<chain, fixed, start>>
    PROVE  /\ \A b : SteadyUse(b)' = SteadyUse(b)
           /\ \A b, i : Covered(b, i)' = Covered(b, i)
           /\ Kept' = Kept /\ Refs(coins)' = Refs(coins) /\ Truthful' = Truthful
           /\ CoinsOnce' = CoinsOnce /\ Origin' = Origin
           /\ \A c : RefOf(c)' = RefOf(c)
<1>1. UNCHANGED <<coins, touched, events, explorer, reserved, start>>
  BY DEF chain, fixed
<1>2. \A b : SteadyUse(b)' = SteadyUse(b)
  BY <1>1 DEF SteadyUse, Live
<1>3. \A b, i : Covered(b, i)' = Covered(b, i)
  BY <1>1, <1>2 DEF Covered, MinIndex
<1>4. Kept' = Kept /\ Truthful' = Truthful /\ CoinsOnce' = CoinsOnce /\ Origin' = Origin
  BY <1>1 DEF Kept, Truthful, CoinsOnce, Origin, Same
<1>5. Refs(coins)' = Refs(coins) /\ \A c : RefOf(c)' = RefOf(c)
  BY <1>1 DEF Refs, RefOf, AddressOf, At, Claims
<1> QED BY <1>2, <1>3, <1>4, <1>5

(* A step of the scanner that fails, or opens the wallet, sees no coins.     *)
LEMMA FailComplete ==
    ASSUME ScanInv, CompleteInv, UNCHANGED <<chain, fixed, walk, listed, snapshot, start>>,
           page' = page, phase' \in {"pin", "failed"}, phase' = "pin" => phase = "open"
    PROVE  CompleteInv'
<1>1. Fresh' /\ AllFetched' /\ Finished' = {} /\ reserved' = reserved
  BY DEF CompleteInv, Fresh, AllFetched, chain, fixed, Finished
<1>2. ListedTrue'
  BY StillLasts DEF CompleteInv, ListedTrue
<1>3. PageTrue'
  BY StillLasts DEF CompleteInv, PageTrue
<1>4. WalkTrue'
  BY StillLasts DEF CompleteInv, WalkTrue
<1>5. BranchTrue'
  BY <1>1 DEF BranchTrue
<1> QED BY <1>1, <1>2, <1>3, <1>4, <1>5, StillLasts DEF CompleteInv

(* The scan starts: the coins of now are those it must find.                 *)
LEMMA PinComplete ==
    ASSUME ScanInv, CompleteInv, Open \/ CheckPin PROVE CompleteInv'
<1>1. CASE Open \/ (CheckPin /\ Fail)
  BY <1>1, FailComplete DEF Open, CheckPin, Unreachable, Fail
<1>2. CASE CheckPin /\ ~Fail
  <2>1. /\ phase = "pin" /\ phase' = "scan" /\ start' = coins
        /\ UNCHANGED <<chain, fixed, walk, page, listed, snapshot>>
    BY <1>2 DEF CheckPin, Unreachable
  <2>2. /\ UNCHANGED <<coins, touched, events, explorer, reserved>>
        /\ walk = NoWalk /\ page = <<>> /\ touched = {} /\ events = 0
        /\ \A c \in coins : c.id < FreshId /\ c.funded # "dropped" /\ c \in Coin /\ c.index \in Nat
    BY <2>1, CoinFields DEF CompleteInv, Fresh, chain, fixed, ScanInv, ScanType
  <2>3. CoinsOnce' /\ Fresh' /\ AllFetched'
    BY <2>1, <2>2 DEF CompleteInv, CoinsOnce, Fresh, AllFetched
  <2>4. Origin'
    BY <2>1, <2>2 DEF Origin, Same
  <2>5. ListedTrue'
    BY <2>1, <2>2 DEF CompleteInv, ListedTrue, Truthful, Refs, RefOf, AddressOf, At, Claims
  <2>6. PageTrue'
    BY <2>1, <2>2 DEF PageTrue
  <2>7. WalkTrue'
    <3>1. SteadyUse("external")' \subseteq Nat /\ \A c \in Kept' : c.index \in Nat
      BY <2>1, <2>2 DEF SteadyUse, Live, Kept
    <3>2. walk' = NoWalk /\ walk'.index = 0 /\ walk'.trailing = 0 /\ walk'.branch = "external"
      BY <2>1, <2>2 DEF NoWalk
    <3> QED BY <3>1, <3>2 DEF WalkTrue
  <2>8. BranchTrue'
    BY <2>1, <2>2 DEF BranchTrue, Finished, NoWalk
  <2> QED BY <2>1, <2>2, <2>3, <2>4, <2>5, <2>6, <2>7, <2>8 DEF CompleteInv
<1> QED BY <1>1, <1>2

(* Steps between the pages of a branch change nothing but the page.          *)
LEMMA PageComplete ==
    ASSUME ScanInv, CompleteInv, UNCHANGED <<chain, fixed, phase, walk, listed, snapshot, start>>,
           phase \in {"open", "pin"} => page' = <<>>,
           Truthful => \A i \in DOMAIN page' :
             /\ page'[i].at = "list" => Used(page'[i].info)
             /\ page'[i].at = "done" =>
                  /\ page'[i].utxos \subseteq Refs(coins)
                  /\ i \in SteadyUse(walk.branch) => page'[i].used
                  /\ \A c \in Kept : AddressOf(c) = At(walk.branch, i) =>
                       RefOf(c) \in page'[i].utxos
    PROVE  CompleteInv'
<1>1. Fresh' /\ AllFetched' /\ Finished' = Finished /\ reserved' = reserved
  BY DEF CompleteInv, Fresh, AllFetched, chain, fixed, Finished
<1>2. ListedTrue'
  BY StillLasts DEF CompleteInv, ListedTrue
<1>3. PageTrue'
  BY StillLasts DEF CompleteInv, PageTrue, AddressOf, At, Used
<1>4. WalkTrue'
  BY StillLasts DEF CompleteInv, WalkTrue
<1>5. BranchTrue'
  <2>1. \A c : Filed(c)' = Filed(c)
    BY DEF Filed
  <2> QED BY <1>1, <2>1, StillLasts DEF CompleteInv, BranchTrue
<1> QED BY <1>1, <1>2, <1>3, <1>4, <1>5, StillLasts DEF CompleteInv

(* A page is asked for, or the range is exhausted.                           *)
LEMMA StartPageComplete ==
    ASSUME ScanInv, CompleteInv, StartPage PROVE CompleteInv'
<1>1. CASE Fail
  BY <1>1, FailComplete DEF Fail
<1>2. CASE ~Fail
  <2>1. /\ page' = [i \in walk.index..(walk.index + PageSize - 1) |-> [at |-> "stats"]]
        /\ UNCHANGED <<chain, fixed, phase, walk, listed, snapshot, start>> /\ phase = "scan"
    BY <1>2 DEF StartPage
  <2>2. \A i \in DOMAIN page' : page'[i].at = "stats"
    BY <2>1
  <2> QED BY <2>1, <2>2, PageComplete
<1> QED BY <1>1, <1>2

-----------------------------------------------------------------------------
(* The answers of an explorer that does not distort them. *)

(* It shows what there is.                                                   *)
LEMMA ShownTrue == ASSUME Truthful PROVE Shown = Live
<1>1. \A c \in Live : Distorted(c) = {c}
  BY DEF Distorted, Truthful
<1> QED BY <1>1 DEF Shown, Truthful

(* An address with an output has been used.                                  *)
LEMMA CoinUses ==
    ASSUME ScanInv, CompleteInv, Truthful, NEW c \in Live
    PROVE  Used(Stats(AddressOf(c)))
<1> DEFINE at == {d \in Shown : AddressOf(d) = AddressOf(c)}
           funded(in) == {d \in at : d.funded = in}
           spent(in) == {d \in at : d.spent = in}
<1>1. c \in at /\ c.funded \in {"chain", "mempool"} /\ at \subseteq coins /\ IsFiniteSet(coins)
  BY ShownTrue, CoinFields DEF Live, ScanInv, ScanType, CompleteInv, CoinsOnce
<1>2. \A in : /\ IsFiniteSet(funded(in)) /\ Cardinality(funded(in)) \in Nat
              /\ IsFiniteSet(spent(in)) /\ Cardinality(spent(in)) \in Nat
  <2> SUFFICES ASSUME NEW in
               PROVE  /\ IsFiniteSet(funded(in)) /\ Cardinality(funded(in)) \in Nat
                      /\ IsFiniteSet(spent(in)) /\ Cardinality(spent(in)) \in Nat
    OBVIOUS
  <2>1. funded(in) \subseteq coins /\ spent(in) \subseteq coins
    BY <1>1
  <2> HIDE DEF funded, spent
  <2> QED BY <1>1, <2>1, FS_Subset, FS_CardinalityType
<1>3. c \in funded("chain") \/ c \in funded("mempool")
  BY <1>1
<1>4. LET count(in) == [funded |-> Cardinality(funded(in)), spent |-> Cardinality(spent(in)),
                        txs |-> Cardinality(funded(in)) + Cardinality(spent(in))]
      IN  Stats(AddressOf(c)) = [chain |-> count("chain"), mempool |-> count("mempool")]
  BY DEF Stats, Truthful
<1> HIDE DEF funded, spent
<1>5. Cardinality(funded("chain")) > 0 \/ Cardinality(funded("mempool")) > 0
  BY <1>2, <1>3, FS_EmptySet
<1> QED BY <1>4, <1>5 DEF Used

(* What it lists are outputs of the wallet.                                  *)
LEMMA UtxosTrue ==
    ASSUME Truthful, NEW a PROVE Utxos(a) \subseteq Refs(coins)
BY ShownTrue DEF Utxos, Live, Refs, RefOf

(* A kept coin is there and listed under its address.                        *)
LEMMA KeptListed ==
    ASSUME ScanInv, CompleteInv, Truthful, NEW c \in Kept
    PROVE  /\ RefOf(c) \in Utxos(AddressOf(c)) /\ c.index \in Nat
           /\ \E d \in Live : Same(c, d) /\ AddressOf(d) = AddressOf(c)
           /\ c.index \in SteadyUse(c.branch)
<1>1. PICK d \in coins : Same(c, d) /\ d.funded # "dropped" /\ d.spent = "no"
  BY DEF CompleteInv, Origin, Kept
<1>2. d \in Live /\ RefOf(c) = RefOf(d) /\ AddressOf(d) = AddressOf(c)
  BY <1>1, SameRef DEF Live, Same, AddressOf, At
<1>3. RefOf(d) \in Utxos(AddressOf(d))
  BY <1>1, <1>2, ShownTrue DEF Utxos, RefOf
<1>4. d.index \in Nat
  BY CoinFields DEF ScanInv, ScanType
<1>5. c \in start
  BY DEF Kept
<1>6. c.index \in SteadyUse(c.branch)
  BY <1>1, <1>2, <1>5 DEF SteadyUse, Same
<1> QED BY <1>1, <1>2, <1>3, <1>4, <1>6 DEF Same

(* An address that is not in use has none of them.                           *)
LEMMA UnusedTrue ==
    ASSUME ScanInv, CompleteInv, Truthful, NEW b, NEW i, ~Used(Stats(At(b, i)))
    PROVE  i \notin SteadyUse(b) /\ \A c \in Kept : AddressOf(c) # At(b, i)
<1>1. \A d \in Live : AddressOf(d) # At(b, i)
  BY CoinUses
<1>2. i \notin SteadyUse(b)
  BY <1>1 DEF SteadyUse, AddressOf
<1> QED BY <1>1, <1>2, KeptListed

(* An address is answered with what there is at that moment.                 *)
LEMMA AddressComplete ==
    ASSUME ScanInv, CompleteInv, NEW i \in DOMAIN page, AskStats(i) \/ AskUtxos(i) \/ TimesOut(i)
    PROVE  CompleteInv'
<1> DEFINE Good(r) == Truthful =>
             /\ r.at = "list" => Used(r.info)
             /\ r.at = "done" =>
                  /\ r.utxos \subseteq Refs(coins)
                  /\ i \in SteadyUse(walk.branch) => r.used
                  /\ \A c \in Kept : AddressOf(c) = At(walk.branch, i) => RefOf(c) \in r.utxos
<1>1. ASSUME NEW r, Answer(i, r), Good(r) PROVE CompleteInv'
  <2>1. /\ page' = [page EXCEPT ![i] = r]
        /\ UNCHANGED <<chain, fixed, phase, walk, listed, snapshot, start>>
    BY <1>1 DEF Answer
  <2>2. phase \notin {"open", "pin"}
    BY DEF CompleteInv, Fresh
  <2>3. Truthful => \A j \in DOMAIN page' :
          /\ page'[j].at = "list" => Used(page'[j].info)
          /\ page'[j].at = "done" =>
               /\ page'[j].utxos \subseteq Refs(coins)
               /\ j \in SteadyUse(walk.branch) => page'[j].used
               /\ \A c \in Kept : AddressOf(c) = At(walk.branch, j) => RefOf(c) \in page'[j].utxos
    BY <1>1, <2>1 DEF CompleteInv, ListedTrue, PageTrue
  <2> QED BY <2>1, <2>2, <2>3, PageComplete
<1>2. CASE AskStats(i)
  <2> DEFINE info == Stats(At(walk.branch, i))
             r == IF Expected(info) < 0 THEN [at |-> "error"]
                  ELSE IF Used(info) THEN [at |-> "list", info |-> info]
                  ELSE Result(info, {})
  <2>1. Answer(i, r)
    BY <1>2 DEF AskStats
  <2> HIDE DEF info
  <2>2. CASE r.at = "error"
    BY <1>1, <2>1, <2>2
  <2>3. CASE Used(info) /\ r.at # "error"
    BY <1>1, <2>1, <2>3
  <2>4. CASE ~Used(info) /\ r.at # "error"
    <3>1. r.at = "done" /\ r.utxos = {}
      BY <2>4 DEF Result
    <3> HIDE DEF r
    <3>2. Good(r)
      BY <2>4, <3>1, UnusedTrue DEF info
    <3> QED BY <1>1, <2>1, <3>2
  <2> QED BY <2>2, <2>3, <2>4
<1>3. CASE AskUtxos(i)
  <2> DEFINE utxos == Utxos(At(walk.branch, i))
             r == Result(page[i].info, utxos)
  <2>1. Answer(i, r) /\ page[i].at = "list"
    BY <1>3 DEF AskUtxos
  <2>2. Truthful => /\ utxos \subseteq Refs(coins) /\ Used(page[i].info)
                    /\ \A c \in Kept : AddressOf(c) = At(walk.branch, i) => RefOf(c) \in utxos
    BY <2>1, UtxosTrue, KeptListed DEF CompleteInv, PageTrue
  <2> HIDE DEF utxos
  <2>3. Good(r)
    BY <2>2 DEF Result
  <2> QED BY <1>1, <2>1, <2>3
<1>4. CASE TimesOut(i)
  <2>1. Good([at |-> "error"])
    OBVIOUS
  <2> QED BY <1>1, <1>4, <2>1 DEF TimesOut
<1> QED BY <1>2, <1>3, <1>4

-----------------------------------------------------------------------------
(* The loop over a branch, and what follows it. *)

(* A result is taken: what is behind the loop has been answered.             *)
LEMMA JoinComplete ==
    ASSUME ScanInv, CompleteInv, Join PROVE CompleteInv'
<1> DEFINE r == page[walk.index]
<1>1. /\ UNCHANGED <<chain, fixed, listed, snapshot, start>> /\ walk' = Take(walk, r)
      /\ page' = <<>> \/ page' = page
      /\ phase = "scan" /\ phase' \in {"scan", "failed"}
      /\ walk.index \in DOMAIN page /\ r.at \in {"done", "error"}
  BY DEF Join, Answered
<1>2. walk \in [branch : Branches, index : Nat, trailing : Nat, next : Nat,
                found : SUBSET Reference, failed : BOOLEAN]
  BY DEF ScanInv, ScanType
<1>3. Truthful /\ r.at = "done" =>
        /\ r.utxos \subseteq Refs(coins)
        /\ walk.index \in SteadyUse(walk.branch) => r.used
        /\ \A c \in Kept : AddressOf(c) = At(walk.branch, walk.index) => RefOf(c) \in r.utxos
  BY <1>1 DEF CompleteInv, ListedTrue, PageTrue
<1> HIDE DEF r
<1>4. /\ walk'.branch = walk.branch
      /\ r.at = "error" => walk'.index = walk.index /\ walk'.trailing = walk.trailing
                           /\ walk'.next = walk.next /\ walk'.found = walk.found
      /\ r.at = "done" => /\ walk'.index = walk.index + 1 /\ walk'.found = walk.found \cup r.utxos
                          /\ r.used => walk'.trailing = 0 /\ walk'.next = walk.index + 1
                          /\ ~r.used => /\ walk'.trailing = walk.trailing + 1
                                        /\ walk'.next = walk.next
  BY <1>1, <1>2 DEF Take
<1>5. Fresh' /\ AllFetched' /\ Finished' \subseteq Finished /\ reserved' = reserved
  BY <1>1, <1>4 DEF CompleteInv, Fresh, AllFetched, chain, fixed, Finished
<1>6. ListedTrue'
  <2>1. Truthful => walk'.found \subseteq Refs(coins)
    BY <1>1, <1>3, <1>4 DEF CompleteInv, ListedTrue
  <2>2. Truthful => \A i \in DOMAIN page' : page'[i].at = "done" => page'[i].utxos \subseteq Refs(coins)
    BY <1>1 DEF CompleteInv, ListedTrue
  <2> QED BY <1>1, <2>1, <2>2, StillLasts DEF CompleteInv, ListedTrue
<1>7. PageTrue'
  <2>1. Truthful => \A i \in DOMAIN page' :
          /\ page'[i].at = "list" => Used(page'[i].info)
          /\ page'[i].at = "done" =>
               /\ i \in SteadyUse(walk.branch) => page'[i].used
               /\ \A c \in Kept : AddressOf(c) = At(walk.branch, i) => RefOf(c) \in page'[i].utxos
    BY <1>1 DEF CompleteInv, PageTrue
  <2> QED BY <1>1, <1>4, <2>1, StillLasts DEF PageTrue, AddressOf, At, Used
<1>8. WalkTrue'
  <2> SUFFICES ASSUME Truthful
               PROVE  /\ walk'.trailing <= walk'.index
                      /\ \A i \in SteadyUse(walk.branch) :
                           i < walk'.index => i < walk'.next /\ i < walk'.index - walk'.trailing
                      /\ \A c \in Kept : c.branch = walk.branch /\ c.index < walk'.index =>
                           RefOf(c) \in walk'.found
    BY <1>1, <1>4, StillLasts DEF WalkTrue
  <2>1. /\ walk.trailing <= walk.index
        /\ \A i \in SteadyUse(walk.branch) :
             i < walk.index => i < walk.next /\ i < walk.index - walk.trailing
        /\ \A c \in Kept :
             c.branch = walk.branch /\ c.index < walk.index => RefOf(c) \in walk.found
    BY DEF CompleteInv, WalkTrue
  <2>2. SteadyUse(walk.branch) \subseteq Nat /\ \A c \in Kept : c.index \in Nat
    BY KeptListed, CoinFields DEF SteadyUse, Live, ScanInv, ScanType
  <2>3. CASE r.at = "error"
    BY <1>4, <2>1, <2>3
  <2>4. CASE r.at = "done"
    <3>1. walk'.trailing <= walk'.index
      BY <1>2, <1>4, <2>1, <2>4
    <3>2. ASSUME NEW i \in SteadyUse(walk.branch), i < walk'.index
          PROVE  i < walk'.next /\ i < walk'.index - walk'.trailing
      <4>1. i \in Nat /\ (i < walk.index \/ i = walk.index)
        BY <1>2, <1>4, <2>2, <2>4, <3>2
      <4>2. CASE r.used
        BY <1>2, <1>4, <2>4, <4>1, <4>2
      <4>3. CASE ~r.used
        <5>1. i < walk.index
          BY <1>3, <2>4, <4>1, <4>3
        <5>2. i < walk.next /\ i < walk.index - walk.trailing
          BY <2>1, <5>1
        <5> QED BY <1>2, <1>4, <2>4, <4>1, <4>3, <5>2
      <4> QED BY <4>2, <4>3
    <3>3. ASSUME NEW c \in Kept, c.branch = walk.branch, c.index < walk'.index
          PROVE  RefOf(c) \in walk'.found
      <4>1. c.index < walk.index \/ c.index = walk.index
        BY <1>2, <1>4, <2>2, <2>4, <3>3
      <4>2. c.index = walk.index => AddressOf(c) = At(walk.branch, walk.index)
        BY <3>3 DEF AddressOf
      <4> QED BY <1>3, <1>4, <2>1, <2>4, <3>3, <4>1, <4>2
    <3> QED BY <3>1, <3>2, <3>3
  <2> QED BY <1>1, <2>3, <2>4
<1>9. BranchTrue'
  <2>1. \A c : Filed(c)' = Filed(c)
    BY <1>1 DEF Filed
  <2> QED BY <1>1, <1>5, <2>1, StillLasts DEF CompleteInv, BranchTrue
<1> QED BY <1>1, <1>5, <1>6, <1>7, <1>8, <1>9, StillLasts DEF CompleteInv

(* A loop that ends has passed every covered address that is in use: at its  *)
(* end Gap addresses in a row are not.                                       *)
LEMMA EndCovers ==
    ASSUME ScanInv, CompleteInv, Truthful, ~Continues(walk), NEW i \in Nat,
           Covered(walk.branch, i)
    PROVE  i < walk.index
<1> SUFFICES ASSUME walk.index <= i PROVE FALSE
  BY DEF ScanInv, ScanType
<1>1. /\ walk.index \in Nat /\ walk.trailing \in Nat /\ Gap \in Nat
      /\ MinIndex(walk.branch) \in Nat
  BY ScanAssumption DEF ScanInv, ScanType, CompleteInv, MinIndex, ScanAssumption
<1>2. walk.trailing >= Gap /\ walk.index >= MinIndex(walk.branch) /\ walk.trailing <= walk.index
  BY <1>1 DEF Continues, CompleteInv, WalkTrue
<1>3. walk.index \in (IF MinIndex(walk.branch) > Gap THEN MinIndex(walk.branch) ELSE Gap)..i
  BY <1>1, <1>2
<1>4. PICK j \in (walk.index - Gap)..(walk.index - 1) : j \in SteadyUse(walk.branch)
  BY <1>3 DEF Covered
<1>5. j < walk.index => j < walk.index - walk.trailing
  BY <1>4 DEF CompleteInv, WalkTrue
<1> QED BY <1>1, <1>2, <1>4, <1>5

(* A branch ends: its next address and its outputs go into the result.       *)
LEMMA BranchEndsComplete ==
    ASSUME ScanInv, CompleteInv, BranchEnds PROVE CompleteInv'
<1>1. /\ UNCHANGED <<chain, fixed, start, page>> /\ walk' = [NoWalk EXCEPT !.branch = "change"]
      /\ listed' = listed \cup walk.found /\ snapshot' = [snapshot EXCEPT !.next[walk.branch] = walk.next]
      /\ phase = "scan" /\ ~Continues(walk) /\ page = <<>>
      /\ phase' = "scan" => walk.branch = "external"
      /\ phase' = "fetch" => walk.branch # "external"
      /\ phase' \in {"scan", "fetch", "failed"}
  BY DEF BranchEnds
<1>2. /\ walk.branch \in Branches /\ walk'.branch = "change" /\ walk'.index = 0 /\ walk'.trailing = 0
      /\ walk'.found = {}
  BY <1>1 DEF ScanInv, ScanType, NoWalk
<1>3. /\ snapshot'.next[walk.branch] = walk.next
      /\ \A b \in Branches : b # walk.branch => snapshot'.next[b] = snapshot.next[b]
      /\ snapshot'.utxos = snapshot.utxos /\ snapshot'.skipped = snapshot.skipped
  BY <1>1, <1>2 DEF ScanInv, ScanType
<1>4. Finished' \subseteq Finished \cup {walk.branch}
  BY <1>1, <1>2 DEF Finished, Branches
<1>5. Fresh' /\ AllFetched' /\ reserved' = reserved
  BY <1>1 DEF Fresh, AllFetched, fixed
<1>6. ListedTrue' /\ PageTrue'
  BY <1>1, <1>2, StillLasts DEF CompleteInv, ListedTrue, PageTrue
<1>7. Truthful => \A c \in Kept : c.index \in Nat
  BY KeptListed
<1>8. \A b \in Branches : SteadyUse(b) \subseteq Nat
  BY CoinFields DEF SteadyUse, Live, ScanInv, ScanType
<1>9. WalkTrue'
  <2>1. \A i \in SteadyUse("change") : ~(i < 0)
    BY <1>8 DEF Branches
  <2>2. Truthful => \A c \in Kept : ~(c.index < 0)
    BY <1>7
  <2>3. /\ walk'.trailing <= walk'.index
        /\ \A i \in SteadyUse("change") :
             i < walk'.index => i < walk'.next /\ i < walk'.index - walk'.trailing
        /\ Truthful => \A c \in Kept :
             c.branch = walk'.branch /\ c.index < walk'.index => RefOf(c) \in walk'.found
    BY <1>2, <2>1, <2>2
  <2>4. SteadyUse(walk.branch)' = SteadyUse("change")
    BY <1>1, <1>2 DEF SteadyUse, Live, chain
  <2> QED BY <1>1, <2>3, <2>4, StillLasts DEF WalkTrue
<1>10. BranchTrue'
  <2> SUFFICES ASSUME Truthful, NEW b \in Finished \cup {walk.branch}
               PROVE  /\ \A i \in SteadyUse(b) : Covered(b, i) => i < snapshot'.next[b]
                      /\ \A c \in Kept : c.branch = b /\ Covered(b, c.index) =>
                           RefOf(c) \in listed' \/ Filed(c)
    <3>1. \A c : Filed(c)' = Filed(c)
      BY <1>3 DEF Filed
    <3> QED BY <1>1, <1>4, <3>1, StillLasts DEF BranchTrue
  <2>1. CASE b = walk.branch
    <3>1. ASSUME NEW i \in SteadyUse(b), Covered(b, i) PROVE i < snapshot'.next[b]
      <4>1. i < walk.index
        BY <1>1, <1>2, <1>8, <2>1, <3>1, EndCovers
      <4> QED BY <1>3, <2>1, <4>1 DEF CompleteInv, WalkTrue
    <3>2. ASSUME NEW c \in Kept, c.branch = b, Covered(b, c.index) PROVE RefOf(c) \in listed'
      <4>1. c.index < walk.index
        BY <1>1, <1>7, <2>1, <3>2, EndCovers
      <4> QED BY <1>1, <2>1, <3>2, <4>1 DEF CompleteInv, WalkTrue
    <3> QED BY <3>1, <3>2
  <2>2. CASE b # walk.branch
    <3>1. b \in Finished /\ b \in Branches
      BY <2>2 DEF Finished, Branches
    <3>2. /\ \A i \in SteadyUse(b) : Covered(b, i) => i < snapshot.next[b]
          /\ \A c \in Kept : c.branch = b /\ Covered(b, c.index) => RefOf(c) \in listed \/ Filed(c)
      BY <3>1 DEF CompleteInv, BranchTrue
    <3> QED BY <1>1, <1>3, <2>2, <3>1, <3>2
  <2> QED BY <2>1, <2>2
<1> QED BY <1>1, <1>5, <1>6, <1>9, <1>10, StillLasts DEF CompleteInv

-----------------------------------------------------------------------------
(* The raw transaction of an output, from an explorer that tells the truth.  *)
LEMMA RawTrue ==
    ASSUME ScanInv, CompleteInv, Truthful, NEW c \in coins, NEW raw \in RawTxs(c.id)
    PROVE  raw = Tx(c) /\ (RawVerifies(RefOf(c), raw) <=> c.blind # "foreign")
<1>1. c.id # FreshId /\ \A d \in coins : d.id = c.id => d = c
  BY DEF CompleteInv, CoinsOnce
<1>2. raw.id = c.id /\ raw \in {Tx(d) : d \in Live} \cup {StrangerTx}
  BY DEF RawTxs, Truthful
<1>3. StrangerTx.id = FreshId /\ \A d : Tx(d).id = d.id
  BY DEF StrangerTx, Tx, Stranger
<1>4. raw = Tx(c)
  BY <1>1, <1>2, <1>3 DEF Live
<1>5. Txid(raw) = c.id /\ raw.script = AddressOf(c) /\ raw.blind = c.blind
  BY <1>4 DEF Txid, RealTxs, Tx
<1> QED BY <1>4, <1>5 DEF RawVerifies, RefOf

(* A listed output is filed, or the scan fails.                              *)
LEMMA FetchComplete ==
    ASSUME ScanInv, CompleteInv, Fetch PROVE CompleteInv'
<1> DEFINE ref == FirstListed
<1>1. CASE Fail
  <2>1. UNCHANGED <<chain, fixed, walk, listed, snapshot, start, page>> /\ phase' = "failed"
    BY <1>1 DEF Fail
  <2> QED BY <2>1, FailComplete
<1>2. CASE ~Fail
  <2>1. PICK raw \in RawTxs(ref.id) :
          /\ listed' = listed \ {ref} /\ listed # {} /\ phase = "fetch"
          /\ UNCHANGED <<chain, fixed, phase, walk, page, start>>
          /\ snapshot' = IF RawVerifies(ref, raw)
                         THEN [snapshot EXCEPT !.utxos = @ \cup
                                 {[id |-> ref.id, address |-> ref.address, asset |-> raw.asset,
                                   value |-> raw.value, blind |-> raw.blind]}]
                         ELSE [snapshot EXCEPT !.skipped = @ \cup {ref.id}]
    BY <1>2 DEF Fetch
  <2>2. ref \in listed
    BY <2>1, FirstIsListed DEF ScanInv, ScanType
  <2> HIDE DEF ref
  <2>3. /\ snapshot'.next = snapshot.next
        /\ RawVerifies(ref, raw) => /\ \E u \in snapshot'.utxos : u.id = ref.id
                                    /\ snapshot.utxos \subseteq snapshot'.utxos
                                    /\ snapshot'.skipped = snapshot.skipped
        /\ ~RawVerifies(ref, raw) => /\ snapshot'.skipped = snapshot.skipped \cup {ref.id}
                                     /\ snapshot'.utxos = snapshot.utxos
    <3> DEFINE u == [id |-> ref.id, address |-> ref.address, asset |-> raw.asset,
                     value |-> raw.value, blind |-> raw.blind]
    <3>1. u.id = ref.id
      OBVIOUS
    <3>2. snapshot \in [utxos : SUBSET Utxo, skipped : SUBSET Nat, next : [Branches -> Nat]]
      BY DEF ScanInv, ScanType
    <3>3. snapshot' = IF RawVerifies(ref, raw)
                      THEN [snapshot EXCEPT !.utxos = @ \cup {u}]
                      ELSE [snapshot EXCEPT !.skipped = @ \cup {ref.id}]
      BY <2>1
    <3> HIDE DEF u
    <3> QED BY <3>1, <3>2, <3>3
  <2>4. Fresh' /\ AllFetched' /\ Finished' = Finished /\ reserved' = reserved
    BY <2>1 DEF Fresh, AllFetched, fixed, Finished
  <2>5. ListedTrue'
    BY <2>1, StillLasts DEF CompleteInv, ListedTrue
  <2>6. PageTrue'
    BY <2>1, StillLasts DEF CompleteInv, PageTrue
  <2>7. WalkTrue'
    BY <2>1, StillLasts DEF CompleteInv, WalkTrue
  <2>8. Truthful => \A c \in Kept : RefOf(c) = ref => Filed(c)'
    <3> SUFFICES ASSUME Truthful, NEW c \in Kept, RefOf(c) = ref PROVE Filed(c)'
      OBVIOUS
    <3>1. PICK d \in coins : Same(c, d)
      BY DEF CompleteInv, Origin, Kept
    <3>2. RefOf(d) = ref /\ d.blind = c.blind /\ d.id = c.id /\ ref.id = d.id
      BY <3>1, SameRef DEF Same, RefOf
    <3>3. RawVerifies(ref, raw) <=> c.blind # "foreign"
      BY <3>2, RawTrue
    <3> QED BY <2>3, <3>2, <3>3 DEF Filed
  <2>9. \A c : Filed(c) => Filed(c)'
    BY <2>3 DEF Filed
  <2>10. BranchTrue'
    <3> SUFFICES ASSUME Truthful, NEW b \in Finished
                 PROVE  /\ \A i \in SteadyUse(b) : Covered(b, i) => i < snapshot'.next[b]
                        /\ \A c \in Kept : c.branch = b /\ Covered(b, c.index) =>
                             RefOf(c) \in listed' \/ Filed(c)'
      BY <2>1, <2>4, StillLasts DEF BranchTrue
    <3>1. /\ \A i \in SteadyUse(b) : Covered(b, i) => i < snapshot.next[b]
          /\ \A c \in Kept : c.branch = b /\ Covered(b, c.index) =>
               RefOf(c) \in listed \/ Filed(c)
      BY DEF CompleteInv, BranchTrue
    <3> QED BY <2>1, <2>3, <2>8, <2>9, <3>1
  <2> QED BY <2>1, <2>4, <2>5, <2>6, <2>7, <2>10, StillLasts DEF CompleteInv
<1> QED BY <1>1, <1>2

(* Everything has been fetched, and the result is what is filed.             *)
LEMMA ReturnComplete ==
    ASSUME ScanInv, CompleteInv, Return PROVE CompleteInv'
<1>1. /\ UNCHANGED <<chain, fixed, walk, page, listed, snapshot, start>> /\ listed = {}
      /\ phase = "fetch" /\ phase' = "done"
  BY DEF Return, chain, fixed
<1>2. Fresh' /\ AllFetched' /\ Finished' = Finished /\ reserved' = reserved
  BY <1>1 DEF Fresh, AllFetched, fixed, Finished
<1>3. ListedTrue'
  BY <1>1, StillLasts DEF CompleteInv, ListedTrue
<1>4. PageTrue'
  BY <1>1, StillLasts DEF CompleteInv, PageTrue
<1>5. WalkTrue'
  BY <1>1, StillLasts DEF CompleteInv, WalkTrue
<1>6. BranchTrue'
  <2>1. \A c : Filed(c)' = Filed(c)
    BY <1>1 DEF Filed
  <2> QED BY <1>1, <1>2, <2>1, StillLasts DEF CompleteInv, BranchTrue
<1> QED BY <1>1, <1>2, <1>3, <1>4, <1>5, <1>6, StillLasts DEF CompleteInv

(* Every step preserves the second part.                                     *)
LEMMA CompleteNext == ScanInv /\ CompleteInv /\ [ScanNext]_scanVars => CompleteInv'
<1> SUFFICES ASSUME ScanInv, CompleteInv, [ScanNext]_scanVars PROVE CompleteInv'
  OBVIOUS
<1>1. CASE UNCHANGED scanVars
  <2>1. /\ UNCHANGED <<chain, fixed, phase, walk, listed, snapshot, start>> /\ page' = page
    BY <1>1 DEF scanVars
  <2>2. phase \in {"open", "pin"} => page' = <<>>
    BY <2>1 DEF CompleteInv, Fresh
  <2>3. Truthful => \A i \in DOMAIN page' :
          /\ page'[i].at = "list" => Used(page'[i].info)
          /\ page'[i].at = "done" =>
               /\ page'[i].utxos \subseteq Refs(coins)
               /\ i \in SteadyUse(walk.branch) => page'[i].used
               /\ \A c \in Kept : AddressOf(c) = At(walk.branch, i) => RefOf(c) \in page'[i].utxos
    BY <2>1 DEF CompleteInv, ListedTrue, PageTrue
  <2> QED BY <2>1, <2>2, <2>3, PageComplete
<1>2. CASE \E i \in DOMAIN page : AskStats(i) \/ AskUtxos(i) \/ TimesOut(i)
  BY <1>2, AddressComplete
<1> QED BY <1>1, <1>2, ChainComplete, PinComplete, StartPageComplete, JoinComplete,
           BranchEndsComplete, FetchComplete, ReturnComplete DEF ScanNext, Scanner

(* Both parts hold in every reachable state.                                 *)
LEMMA CompleteInvariant == ScanSpec => [](ScanInv /\ CompleteInv)
<1>1. ScanInit => ScanInv /\ CompleteInv
  BY ScanInvInit, CompleteInit
<1>2. ScanInv /\ CompleteInv /\ [ScanNext]_scanVars => (ScanInv /\ CompleteInv)'
  BY ScanInvNext, CompleteNext
<1> QED BY <1>1, <1>2, PTL DEF ScanSpec

(* At the end of a scan both branches are finished and nothing is listed.    *)
LEMMA InvScanComplete == ScanInv /\ CompleteInv => ScanComplete
<1> SUFFICES ASSUME ScanInv, CompleteInv, phase = "done", Truthful
    PROVE  /\ \A c \in start :
                c.spent = "no" /\ c.id \notin touched /\ Covered(c.branch, c.index) => Filed(c)
           /\ \A b \in Branches : \A i \in SteadyUse(b) :
                Covered(b, i) => i < snapshot.next[b] /\ (b = "external" => i < ReceiveIndex)
           /\ reserved <= ReceiveIndex
  BY DEF ScanComplete, Truthful, Filed
<1>1. Finished = Branches /\ listed = {}
  BY DEF Finished, CompleteInv, AllFetched
<1>2. /\ snapshot.next["external"] \in Nat /\ snapshot.next.external = snapshot.next["external"]
      /\ reserved \in Nat
  BY DEF ScanInv, ScanType, CompleteInv, Branches
<1>3. ASSUME NEW c \in start, c.spent = "no", c.id \notin touched, Covered(c.branch, c.index)
      PROVE  Filed(c)
  <2>1. c \in Kept
    BY <1>3 DEF Kept
  <2>2. c.branch \in Branches
    <3>1. PICK d \in Live : Same(c, d)
      BY <2>1, KeptListed
    <3> QED BY <3>1, CoinFields DEF Same, Live, ScanInv, ScanType
  <2> QED BY <1>1, <1>3, <2>1, <2>2 DEF CompleteInv, BranchTrue
<1>4. \A b \in Branches : \A i \in SteadyUse(b) : Covered(b, i) => i < snapshot.next[b]
  BY <1>1 DEF CompleteInv, BranchTrue
<1>5. SteadyUse("external") \subseteq Nat
  BY CoinFields DEF SteadyUse, Live, ScanInv, ScanType
<1>6. reserved <= ReceiveIndex /\ snapshot.next["external"] <= ReceiveIndex /\ ReceiveIndex \in Nat
  BY <1>2 DEF ReceiveIndex
<1>7. \A i \in SteadyUse("external") : Covered("external", i) => i < ReceiveIndex
  BY <1>2, <1>4, <1>5, <1>6 DEF Branches
<1> QED BY <1>3, <1>4, <1>6, <1>7

(* Whatever comes and goes while it runs, a scan that ends well with an      *)
(* explorer that tells the truth has missed no coin that was there all along.*)
THEOREM ScanCompleteHolds == ScanSpec => []ScanComplete
BY CompleteInvariant, InvScanComplete, PTL

-----------------------------------------------------------------------------
(* With an honest explorer and a chain that stands still. *)

(* The scan starts on the explorer's chain, with addresses in range.         *)
LEMMA QuietInit == ASSUME SameChain, InRange PROVE ScanInit => QuietInv
<1> SUFFICES ASSUME ScanInit PROVE QuietInv
  OBVIOUS
<1>1. PICK s \in Starts : /\ coins = s.coins /\ explorer = s.explorer
                          /\ config = s.config /\ reserved = s.reserved
  BY DEF ScanInit
<1>2. OnChain
  BY <1>1 DEF ScanInit, OnChain, SameChain
<1>3. explorer = "honest" => RangeQuiet
  BY <1>1 DEF InRange, RangeQuiet
<1>4. phase # "failed" /\ Fetchable /\ PageQuiet /\ WalkQuiet
  BY DEF ScanInit, Fetchable, PageQuiet, WalkQuiet, NoWalk
<1> QED BY <1>2, <1>3, <1>4 DEF QuietInv, Quiet

(* Once the chain has moved nothing more is said.                            *)
LEMMA ChainQuiet == ASSUME ScanInv, QuietInv, Chain PROVE QuietInv'
<1>1. events' = events + 1 /\ events \in Nat /\ UNCHANGED <<explorer, config, phase>>
  BY DEF ScanInv, ScanType, Chain, Pay, ConfirmPayment, Spend, ConfirmSpend, Drop, Happens, fixed
<1> QED BY <1>1 DEF QuietInv, OnChain, Quiet

(* The honest explorer and DEX have the chain that is stored, or to be.      *)
LEMMA OpenQuiet == ASSUME QuietInv, Open \/ CheckPin PROVE QuietInv'
<1>1. UNCHANGED <<chain, fixed, walk, page, listed, snapshot>>
  BY DEF Open, CheckPin, Unreachable, Fail
<1>2. explorer = "honest" => Genesis = {"ours"} /\ DexHealth = "ours"
  BY DEF Genesis, DexHealth
<1>3. explorer = "honest" => config'.genesis = "ours" /\ phase' \in {"pin", "scan"}
  <2>1. CASE Open
    BY <1>2, <2>1 DEF Open, Unreachable, Adoptable, QuietInv, OnChain
  <2>2. CASE CheckPin
    BY <1>2, <2>2 DEF CheckPin, Unreachable, QuietInv, OnChain
  <2> QED BY <2>1, <2>2
<1>4. Fetchable' = Fetchable /\ PageQuiet' = PageQuiet /\ WalkQuiet' = WalkQuiet
      /\ RangeQuiet' = RangeQuiet /\ Quiet' = Quiet /\ explorer' = explorer
  <2>1. UNCHANGED <<coins, touched, events, explorer, reserved, walk, page, listed>>
    BY <1>1 DEF chain, fixed
  <2>2. \A a : Utxos(a)' = Utxos(a)
    BY <2>1 DEF Utxos, Shown, Live, Distorted, AddressOf, At, Claims
  <2>3. PageQuiet' = PageQuiet
    BY <2>1, <2>2 DEF PageQuiet, Refs, RefOf, Live, AddressOf, At, Claims, Expected
  <2> QED BY <2>1, <2>3 DEF Fetchable, WalkQuiet, RangeQuiet, Quiet, Refs, RefOf, Live,
                         AddressOf, At, Claims
<1> QED BY <1>3, <1>4 DEF QuietInv, OnChain, Quiet

(* What stays when only the scanner's own variables change.                  *)
LEMMA QuietStays ==
    ASSUME UNCHANGED <<chain, fixed>>
    PROVE  /\ Quiet' = Quiet /\ RangeQuiet' = RangeQuiet /\ explorer' = explorer
           /\ Refs(Live)' = Refs(Live) /\ coins' = coins
           /\ \A a : Utxos(a)' = Utxos(a)
<1>1. UNCHANGED <<coins, events, explorer, reserved>>
  BY DEF chain, fixed
<1>2. \A a : Utxos(a)' = Utxos(a)
  BY <1>1 DEF Utxos, Shown, Live, Distorted, AddressOf, At, Claims
<1> QED BY <1>1, <1>2 DEF Quiet, RangeQuiet, Refs, RefOf, Live, AddressOf, At, Claims

(* The loop stays in range.                                                  *)
LEMMA StartPageQuiet == ASSUME ScanInv, CompleteInv, QuietInv, StartPage PROVE QuietInv'
<1>1. UNCHANGED <<chain, fixed, config, walk, listed>> /\ phase = "scan" /\ Continues(walk)
  BY DEF StartPage, Fail
<1>2. OnChain'
  BY <1>1 DEF StartPage, Fail, QuietInv, OnChain, fixed
<1>3. ASSUME Quiet PROVE walk.index <= MaxIndex
  <2>1. /\ walk.index \in Nat /\ walk.trailing \in Nat /\ Gap \in Nat /\ MaxIndex \in Nat
        /\ reserved \in Nat /\ \A c \in coins : c.index \in Nat
    BY ScanAssumption, CoinFields DEF ScanInv, ScanType, CompleteInv, ScanAssumption
  <2>2. CASE walk.trailing < Gap
    <3>1. walk.trailing = walk.index \/ \E c \in coins : c.index + walk.trailing + 1 = walk.index
      BY <1>3 DEF QuietInv, WalkQuiet
    <3>2. Gap <= MaxIndex + 1 /\ \A c \in coins : c.index + Gap <= MaxIndex
      BY <1>3 DEF QuietInv, RangeQuiet
    <3> QED BY <2>1, <2>2, <3>1, <3>2
  <2>3. CASE ~(walk.trailing < Gap)
    <3>1. walk.index < MinIndex(walk.branch)
      BY <1>1, <2>3 DEF Continues
    <3>2. reserved <= MaxIndex + 1
      BY <1>3 DEF QuietInv, RangeQuiet
    <3>3. MinIndex(walk.branch) \in {reserved, 0}
      BY DEF MinIndex
    <3> QED BY <2>1, <3>1, <3>2, <3>3
  <2> QED BY <2>2, <2>3
<1>4. ASSUME Quiet
      PROVE  phase' # "failed" /\ Fetchable' /\ PageQuiet' /\ WalkQuiet' /\ RangeQuiet'
  <2>1. /\ page' = [i \in walk.index..(walk.index + PageSize - 1) |-> [at |-> "stats"]]
        /\ phase' = "scan"
    <3>1. ~(walk.index > MaxIndex)
      BY <1>3, <1>4, ScanAssumption DEF ScanInv, ScanType, ScanAssumption
    <3> QED BY <1>1, <3>1 DEF StartPage
  <2>2. PageQuiet'
    BY <2>1 DEF PageQuiet
  <2> QED BY <1>1, <1>4, <2>1, <2>2, QuietStays DEF QuietInv, Fetchable, WalkQuiet
<1> QED BY <1>1, <1>2, <1>4, QuietStays DEF QuietInv

-----------------------------------------------------------------------------
(* Counting the outputs of an address. *)

(* A set in two parts.                                                       *)
LEMMA TwoParts ==
    ASSUME NEW S, IsFiniteSet(S), NEW A, NEW B, S = A \cup B, A \cap B = {}
    PROVE  /\ IsFiniteSet(A) /\ IsFiniteSet(B) /\ Cardinality(A) \in Nat /\ Cardinality(B) \in Nat
           /\ Cardinality(S) = Cardinality(A) + Cardinality(B)
<1>1. IsFiniteSet(A) /\ IsFiniteSet(B)
  BY FS_Subset
<1>2. Cardinality(A) \in Nat /\ Cardinality(B) \in Nat /\ Cardinality(A \cap B) = 0
  BY <1>1, FS_CardinalityType, FS_EmptySet
<1>3. Cardinality(A \cup B) = Cardinality(A) + Cardinality(B) - Cardinality(A \cap B)
  BY <1>1, FS_Union
<1> QED BY <1>1, <1>2, <1>3

(* As many are listed as are unspent.                                        *)
LEMMA ListedCount ==
    ASSUME ScanInv, CompleteInv, Truthful, NEW a
    PROVE  LET unspent == {d \in {c \in Live : AddressOf(c) = a} : d.spent = "no"}
           IN  IsFiniteSet(unspent) /\ Cardinality(Utxos(a)) = Cardinality(unspent)
<1> DEFINE unspent == {d \in {c \in Live : AddressOf(c) = a} : d.spent = "no"}
           f == [d \in unspent |-> [id |-> d.id, address |-> a, claims |-> Claims(d)]]
<1>1. unspent \subseteq coins /\ IsFiniteSet(unspent)
  BY FS_Subset DEF Live, CompleteInv, CoinsOnce
<1>2. Utxos(a) = {f[d] : d \in unspent}
  BY ShownTrue DEF Utxos
<1>3. \A d, e \in unspent : f[d] = f[e] => d = e
  BY <1>1 DEF CompleteInv, CoinsOnce
<1> HIDE DEF unspent
<1>4. f \in [unspent -> Utxos(a)] /\ \A u \in Utxos(a) : \E d \in unspent : f[d] = u
  BY <1>2
<1> HIDE DEF f
<1>5. ExistsBijection(unspent, Utxos(a))
  BY <1>3, <1>4 DEF ExistsBijection, Bijection, Injection, Surjection, IsInjective
<1>6. Cardinality(Utxos(a)) = Cardinality(unspent)
  BY <1>1, <1>5, FS_Bijection
<1> QED BY <1>1, <1>6 DEF unspent

(* The honest explorer's numbers agree with its list, and an address that    *)
(* has been used has an output.                                              *)
LEMMA StatsTrue ==
    ASSUME ScanInv, CompleteInv, Truthful, NEW a
    PROVE  /\ Expected(Stats(a)) = Cardinality(Utxos(a)) /\ Cardinality(Utxos(a)) \in Nat
           /\ Used(Stats(a)) => \E c \in coins : AddressOf(c) = a
           /\ ~Used(Stats(a)) => Expected(Stats(a)) = 0
<1> DEFINE at == {c \in Live : AddressOf(c) = a}
           fc == {d \in at : d.funded = "chain"}
           fm == {d \in at : d.funded = "mempool"}
           sn == {d \in at : d.spent = "no"}
           sc == {d \in at : d.spent = "chain"}
           sm == {d \in at : d.spent = "mempool"}
<1>1. Stats(a) = [chain |-> [funded |-> Cardinality(fc), spent |-> Cardinality(sc),
                             txs |-> Cardinality(fc) + Cardinality(sc)],
                  mempool |-> [funded |-> Cardinality(fm), spent |-> Cardinality(sm),
                               txs |-> Cardinality(fm) + Cardinality(sm)]]
  BY ShownTrue DEF Stats, Truthful
<1>2. /\ IsFiniteSet(at) /\ at \subseteq coins /\ at = fc \cup fm /\ fc \cap fm = {}
      /\ at = sn \cup (sc \cup sm) /\ sn \cap (sc \cup sm) = {} /\ sc \cap sm = {}
      /\ \A c \in at : AddressOf(c) = a
  <2>1. at \subseteq coins
    BY DEF Live
  <2>2. IsFiniteSet(at)
    BY <2>1, FS_Subset DEF CompleteInv, CoinsOnce
  <2>3. \A c \in at : c.funded \in {"chain", "mempool"} /\ c.spent \in {"no", "mempool", "chain"}
    BY CoinFields DEF Live, ScanInv, ScanType
  <2>4. at = fc \cup fm /\ at = sn \cup (sc \cup sm)
    BY <2>3
  <2>5. fc \cap fm = {} /\ sn \cap (sc \cup sm) = {} /\ sc \cap sm = {}
    OBVIOUS
  <2>6. \A c \in at : AddressOf(c) = a
    OBVIOUS
  <2> QED BY <2>1, <2>2, <2>4, <2>5, <2>6
<1>3. Cardinality(Utxos(a)) = Cardinality(sn)
  BY ListedCount
<1> HIDE DEF at, fc, fm, sn, sc, sm
<1>4. /\ Cardinality(fc) \in Nat /\ Cardinality(fm) \in Nat
      /\ Cardinality(at) = Cardinality(fc) + Cardinality(fm)
  BY <1>2, TwoParts
<1>5. /\ Cardinality(sn) \in Nat /\ IsFiniteSet(sc \cup sm) /\ Cardinality(sc \cup sm) \in Nat
      /\ Cardinality(at) = Cardinality(sn) + Cardinality(sc \cup sm)
  BY <1>2, TwoParts
<1>6. /\ Cardinality(sc) \in Nat /\ Cardinality(sm) \in Nat
      /\ Cardinality(sc \cup sm) = Cardinality(sc) + Cardinality(sm)
  BY <1>2, <1>5, TwoParts, ZenonT(60)
<1>7. Expected(Stats(a)) = Cardinality(fc) + Cardinality(fm) - (Cardinality(sc) + Cardinality(sm))
  BY <1>1 DEF Expected
<1>8. Expected(Stats(a)) = Cardinality(Utxos(a)) /\ Cardinality(Utxos(a)) \in Nat
  BY <1>3, <1>4, <1>5, <1>6, <1>7
<1>9. Used(Stats(a)) <=> Cardinality(fc) > 0 \/ Cardinality(fm) > 0
                         \/ Cardinality(sc) > 0 \/ Cardinality(sm) > 0
  BY <1>1, <1>4, <1>6 DEF Used
<1>10. at = {} => Cardinality(at) = 0
  BY FS_EmptySet
<1>11. Used(Stats(a)) => at # {}
  BY <1>4, <1>5, <1>6, <1>9, <1>10
<1>12. ~Used(Stats(a)) => Expected(Stats(a)) = 0
  BY <1>4, <1>6, <1>7, <1>9
<1> QED BY <1>2, <1>8, <1>11, <1>12

(* An address is answered without an error, and what is listed can be        *)
(* fetched.                                                                  *)
LEMMA AddressQuiet ==
    ASSUME ScanInv, CompleteInv, QuietInv, NEW i \in DOMAIN page,
           AskStats(i) \/ AskUtxos(i) \/ TimesOut(i)
    PROVE  QuietInv'
<1> DEFINE a == At(walk.branch, i)
           Good(r) == /\ r.at # "error"
                      /\ r.at = "list" => /\ Expected(r.info) = Cardinality(Utxos(a))
                                          /\ \E c \in coins : c.index = i
                      /\ r.at = "done" => /\ r.utxos \subseteq Refs(Live)
                                          /\ r.used => \E c \in coins : c.index = i
<1>1. ASSUME NEW r, Answer(i, r), Quiet => Good(r) PROVE QuietInv'
  <2>1. page' = [page EXCEPT ![i] = r] /\ UNCHANGED <<chain, fixed, config, phase, walk, listed>>
    BY <1>1 DEF Answer
  <2>2. Quiet => \A j \in DOMAIN page' :
          /\ page'[j].at # "error"
          /\ page'[j].at = "list" =>
               /\ Expected(page'[j].info) = Cardinality(Utxos(At(walk.branch, j)))
               /\ \E c \in coins : c.index = j
          /\ page'[j].at = "done" => /\ page'[j].utxos \subseteq Refs(Live)
                                     /\ page'[j].used => \E c \in coins : c.index = j
    BY <1>1, <2>1 DEF QuietInv, PageQuiet
  <2>3. Quiet => PageQuiet'
    BY <2>1, <2>2, QuietStays DEF PageQuiet, Expected, At
  <2> QED BY <2>1, <2>3, QuietStays DEF QuietInv, OnChain, Fetchable, WalkQuiet
<1>2. Utxos(a) \subseteq Refs(Live) \/ ~Quiet
  BY ShownTrue DEF Utxos, Refs, RefOf, Quiet, Truthful
<1>3. /\ Expected(Stats(a)) = Cardinality(Utxos(a)) /\ Cardinality(Utxos(a)) \in Nat
      /\ Used(Stats(a)) => \E c \in coins : c.index = i
      /\ ~Used(Stats(a)) => Expected(Stats(a)) = 0
      \/ ~Quiet
  BY StatsTrue DEF Quiet, Truthful, AddressOf, At
<1> HIDE DEF a
<1>4. CASE AskStats(i)
  <2> DEFINE info == Stats(a)
             r == IF Expected(info) < 0 THEN [at |-> "error"]
                  ELSE IF Used(info) THEN [at |-> "list", info |-> info]
                  ELSE Result(info, {})
  <2>1. Answer(i, r)
    BY <1>4 DEF AskStats, a
  <2> HIDE DEF info
  <2>2. ASSUME Quiet PROVE Good(r)
    <3>1. ~(Expected(info) < 0)
      BY <1>3, <2>2 DEF info
    <3>2. CASE Used(info)
      <4>1. r = [at |-> "list", info |-> info]
        BY <3>1, <3>2
      <4>2. r.at = "list" /\ r.info = info
        BY <4>1
      <4> QED BY <1>3, <2>2, <3>2, <4>2 DEF info
    <3>3. CASE ~Used(info)
      <4>1. r = Result(info, {})
        BY <3>1, <3>3
      <4>2. Cardinality({}) = Expected(info)
        BY <1>3, <2>2, <3>3, FS_EmptySet DEF info
      <4>3. r.at = "done" /\ r.utxos = {} /\ r.used = Used(info)
        BY <4>1, <4>2 DEF Result
      <4> HIDE DEF r
      <4> QED BY <3>3, <4>3
    <3> QED BY <3>2, <3>3
  <2> QED BY <1>1, <2>1, <2>2
<1>5. CASE AskUtxos(i)
  <2> DEFINE r == Result(page[i].info, Utxos(a))
  <2>1. Answer(i, r) /\ page[i].at = "list"
    BY <1>5 DEF AskUtxos, a
  <2>2. ASSUME Quiet PROVE Good(r)
    <3>1. Expected(page[i].info) = Cardinality(Utxos(a)) /\ \E c \in coins : c.index = i
      BY <2>1, <2>2 DEF QuietInv, PageQuiet, a
    <3>2. r.at = "done" /\ r.utxos = Utxos(a)
      BY <3>1 DEF Result
    <3> HIDE DEF r
    <3> QED BY <1>2, <2>2, <3>1, <3>2
  <2> QED BY <1>1, <2>1, <2>2
<1>6. CASE TimesOut(i)
  <2>1. Answer(i, [at |-> "error"]) /\ ~Quiet
    BY <1>6 DEF TimesOut, Quiet
  <2> QED BY <1>1, <2>1
<1> QED BY <1>4, <1>5, <1>6

-----------------------------------------------------------------------------
(* The loop takes a result without an error.                                 *)
LEMMA JoinQuiet == ASSUME ScanInv, CompleteInv, QuietInv, Join PROVE QuietInv'
<1> DEFINE r == page[walk.index]
<1>1. /\ UNCHANGED <<chain, fixed, config, listed>> /\ walk' = Take(walk, r)
      /\ page' = <<>> \/ page' = page
      /\ phase = "scan" /\ phase' = IF walk'.failed THEN "failed" ELSE "scan"
      /\ walk.index \in DOMAIN page /\ r.at \in {"done", "error"}
  BY DEF Join, Answered
<1>2. walk \in [branch : Branches, index : Nat, trailing : Nat, next : Nat,
                found : SUBSET Reference, failed : BOOLEAN]
  BY DEF ScanInv, ScanType
<1>3. OnChain'
  BY <1>1 DEF QuietInv, OnChain, fixed
<1>4. ASSUME Quiet
      PROVE  phase' # "failed" /\ Fetchable' /\ PageQuiet' /\ WalkQuiet' /\ RangeQuiet'
  <2>1. r.at = "done" /\ r.utxos \subseteq Refs(Live) /\ (r.used => \E c \in coins : c.index = walk.index)
    BY <1>1, <1>4 DEF QuietInv, PageQuiet
  <2> HIDE DEF r
  <2>2. /\ walk'.branch = walk.branch /\ walk'.failed = walk.failed
        /\ walk'.index = walk.index + 1 /\ walk'.found = walk.found \cup r.utxos
        /\ r.used => walk'.trailing = 0
        /\ ~r.used => walk'.trailing = walk.trailing + 1
    BY <1>1, <1>2, <2>1 DEF Take
  <2>3. ~walk.failed /\ walk.trailing <= walk.index
        /\ (walk.trailing = walk.index \/ \E c \in coins : c.index + walk.trailing + 1 = walk.index)
    BY <1>4 DEF QuietInv, WalkQuiet
  <2>4. \A c \in coins : c.index \in Nat
    BY CoinFields DEF ScanInv, ScanType
  <2>5. WalkQuiet'
    <3>1. CASE r.used
      <4>1. PICK c \in coins : c.index = walk.index
        BY <2>1, <3>1
      <4>2. c.index + walk'.trailing + 1 = walk'.index /\ walk'.trailing <= walk'.index
        BY <1>2, <2>2, <3>1, <4>1
      <4> QED BY <1>1, <2>2, <2>3, <4>2, QuietStays DEF WalkQuiet
    <3>2. CASE ~r.used
      <4>1. walk'.trailing <= walk'.index
        BY <1>2, <2>2, <2>3, <3>2
      <4>2. walk'.trailing = walk'.index \/ \E c \in coins : c.index + walk'.trailing + 1 = walk'.index
        <5>1. CASE walk.trailing = walk.index
          BY <1>2, <2>2, <3>2, <5>1
        <5>2. CASE \E c \in coins : c.index + walk.trailing + 1 = walk.index
          <6>1. PICK c \in coins : c.index + walk.trailing + 1 = walk.index
            BY <5>2
          <6>2. c.index + walk'.trailing + 1 = walk'.index
            BY <1>2, <2>2, <2>4, <3>2, <6>1
          <6> QED BY <6>2
        <5> QED BY <2>3, <5>1, <5>2
      <4> QED BY <1>1, <2>2, <2>3, <4>1, <4>2, QuietStays DEF WalkQuiet
    <3> QED BY <3>1, <3>2
  <2>6. Fetchable'
    BY <1>1, <1>4, <2>1, <2>2, QuietStays DEF QuietInv, Fetchable
  <2>7. PageQuiet'
    <3>1. \A i \in DOMAIN page' :
            /\ page'[i].at # "error"
            /\ page'[i].at = "list" =>
                 /\ Expected(page'[i].info) = Cardinality(Utxos(At(walk.branch, i)))
                 /\ \E c \in coins : c.index = i
            /\ page'[i].at = "done" => /\ page'[i].utxos \subseteq Refs(Live)
                                       /\ page'[i].used => \E c \in coins : c.index = i
      BY <1>1, <1>4 DEF QuietInv, PageQuiet
    <3> QED BY <1>1, <2>2, <3>1, QuietStays DEF PageQuiet, Expected, At
  <2> QED BY <1>1, <1>4, <2>2, <2>3, <2>5, <2>6, <2>7, QuietStays DEF QuietInv
<1> QED BY <1>1, <1>3, <1>4, QuietStays DEF QuietInv

(* No output is listed twice: an id is that of one output.                   *)
LEMMA BranchEndsQuiet == ASSUME ScanInv, CompleteInv, QuietInv, BranchEnds PROVE QuietInv'
<1>1. /\ UNCHANGED <<chain, fixed, config, page>> /\ walk' = [NoWalk EXCEPT !.branch = "change"]
      /\ listed' = listed \cup walk.found /\ page = <<>> /\ phase = "scan"
      /\ phase' = "failed" => \E p, q \in listed \cup walk.found : p # q /\ p.id = q.id
  BY DEF BranchEnds
<1>2. ASSUME Quiet PROVE phase' # "failed"
  <2>1. listed \cup walk.found \subseteq Refs(Live) /\ Live \subseteq coins
    BY <1>2 DEF QuietInv, Fetchable, Live
  <2>2. \A p, q \in Refs(Live) : p.id = q.id => p = q
    BY <2>1 DEF Refs, RefOf, CompleteInv, CoinsOnce
  <2> QED BY <1>1, <2>1, <2>2
<1>3. /\ walk'.index = 0 /\ walk'.trailing = 0 /\ walk'.found = {} /\ ~walk'.failed
  BY <1>1 DEF NoWalk
<1>4. PageQuiet' /\ WalkQuiet'
  BY <1>1, <1>3 DEF PageQuiet, WalkQuiet
<1>5. Quiet => Fetchable'
  BY <1>1, <1>3, QuietStays DEF QuietInv, Fetchable
<1>6. OnChain'
  BY <1>1, QuietStays DEF QuietInv, OnChain, BranchEnds
<1> QED BY <1>1, <1>2, <1>4, <1>5, <1>6, QuietStays DEF QuietInv

(* Every listed output is there, and is what it was listed as.               *)
LEMMA FetchQuiet == ASSUME ScanInv, CompleteInv, QuietInv, Fetch PROVE QuietInv'
<1> DEFINE ref == FirstListed
<1>1. UNCHANGED <<chain, fixed, config, walk, page>> /\ phase = "fetch" /\ listed # {}
      /\ listed' \subseteq listed
  BY DEF Fetch, Fail
<1>2. ASSUME Quiet PROVE phase' # "failed"
  <2>1. ref \in listed
    BY <1>1, FirstIsListed DEF ScanInv, ScanType
  <2>2. PICK c \in Live : ref = RefOf(c)
    BY <1>2, <2>1 DEF QuietInv, Fetchable, Refs
  <2>3. c \in coins /\ ref.id = c.id /\ ref.claims = Claims(c)
    BY <2>2 DEF Live, RefOf
  <2>4. Truthful /\ explorer = "honest"
    BY <1>2 DEF Quiet, Truthful
  <2>5. Tx(c) \in RawTxs(ref.id)
    BY <2>2, <2>3, <2>4 DEF RawTxs, Tx
  <2>6. \A raw \in RawTxs(ref.id) : ref.claims \in {<<>>, <<raw.asset, raw.value>>}
    <3> SUFFICES ASSUME NEW raw \in RawTxs(ref.id)
                 PROVE  ref.claims \in {<<>>, <<raw.asset, raw.value>>}
      OBVIOUS
    <3>1. raw = Tx(c)
      BY <2>3, <2>4, RawTrue
    <3> QED BY <2>3, <3>1 DEF Tx, Claims
  <2> HIDE DEF ref
  <2>7. \E raw \in RawTxs(ref.id) : UNCHANGED phase
    BY <2>4, <2>5, <2>6 DEF Fetch, ref
  <2> QED BY <1>1, <2>7
<1>3. Quiet => Fetchable' /\ PageQuiet' /\ WalkQuiet'
  <2>1. ASSUME Quiet PROVE PageQuiet'
    BY <1>1, <2>1, QuietStays DEF QuietInv, PageQuiet, Expected, At
  <2> QED BY <1>1, <2>1, QuietStays DEF QuietInv, Fetchable, WalkQuiet
<1>4. OnChain'
  BY <1>1, QuietStays DEF QuietInv, OnChain, Fetch, Fail
<1> QED BY <1>1, <1>2, <1>3, <1>4, QuietStays DEF QuietInv

(* Every step preserves the third part.                                      *)
LEMMA QuietNext == ScanInv /\ CompleteInv /\ QuietInv /\ [ScanNext]_scanVars => QuietInv'
<1> SUFFICES ASSUME ScanInv, CompleteInv, QuietInv, [ScanNext]_scanVars PROVE QuietInv'
  OBVIOUS
<1>1. CASE Return \/ UNCHANGED scanVars
  <2>1. /\ UNCHANGED <<chain, fixed, config, walk, page>> /\ listed' = listed
        /\ phase' = phase \/ (phase = "fetch" /\ phase' = "done")
    BY <1>1 DEF Return, scanVars
  <2>2. Quiet => PageQuiet'
    BY <2>1, QuietStays DEF QuietInv, PageQuiet, Expected, At
  <2> QED BY <2>1, <2>2, QuietStays DEF QuietInv, OnChain, Fetchable, WalkQuiet
<1>2. CASE \E i \in DOMAIN page : AskStats(i) \/ AskUtxos(i) \/ TimesOut(i)
  BY <1>2, AddressQuiet
<1> QED BY <1>1, <1>2, ChainQuiet, OpenQuiet, StartPageQuiet, JoinQuiet, BranchEndsQuiet,
           FetchQuiet DEF ScanNext, Scanner

(* A scan of the chain the wallet is pinned to, with its addresses in the    *)
(* range that can be scanned, never fails while the chain stands still and   *)
(* the explorer is honest.                                                   *)
THEOREM NoFalseAlarmHolds == ASSUME SameChain, InRange PROVE ScanSpec => []NoFalseAlarm
<1> DEFINE Inv == ScanInv /\ CompleteInv /\ QuietInv
<1>1. ScanInit => Inv
  BY ScanInvInit, CompleteInit, QuietInit
<1>2. Inv /\ [ScanNext]_scanVars => Inv'
  BY ScanInvNext, CompleteNext, QuietNext
<1>3. Inv => NoFalseAlarm
  <2> SUFFICES ASSUME ScanInv, QuietInv, phase = "failed", explorer = "honest" PROVE events > 0
    BY DEF NoFalseAlarm
  <2>1. events # 0 /\ events \in Nat
    BY DEF QuietInv, Quiet, ScanInv, ScanType
  <2> QED BY <2>1
<1> HIDE DEF Inv
<1> QED BY <1>1, <1>2, <1>3, PTL DEF ScanSpec

=============================================================================
