---------------------------- MODULE RouterProofs ----------------------------
(***************************************************************************)
(* Proofs about ProviderRouter, for any calls, origins, approvals and      *)
(* limits: consent, truthful and final answers, and no approval left over. *)
(***************************************************************************)
EXTENDS ProviderRouter, FiniteSetTheorems, TLAPS

(* An answered call is done, and only that.                                  *)
Answered == \A r \in Requests : entry[r].st = "done" <=> entry[r].outcome # "none"

(* The question belongs to the method, and a call that was never asked has   *)
(* neither a decision nor an approval.                                       *)
Question(e) ==
    /\ e.st = "asked" /\ e.method = "transaction" => e.kind = "transaction"
    /\ e.st = "asked" /\ e.kind = "connect" => e.method = "connect"
    /\ e.st = "sync" => e.method = "balances"
    /\ e.st = "check" => e.method # "disconnect"
    /\ e.st \in {"new", "check"} => e.decision = "none" /\ e.approvalId = None
Questions == \A r \in Requests : Question(entry[r])

(* ep_disconnect waits for its one revocation.                               *)
Revoking ==
    \A o \in ops : o.op = "revoke" /\ o.req # None =>
        /\ entry[o.req].st = "revoke" /\ entry[o.req].method = "disconnect"
        /\ \A p \in ops : p.op = "revoke" /\ p.req = o.req => p = o
Granting == \A o \in ops : o.op = "grant" => o.req # None

Started(r) == entry[r].st \notin {"new", "check"}

(* What a call of the promise queue knows.                                   *)
CallSound(c) ==
    /\ Started(c.req)
    /\ c.op = "prepare" => IF c.at = "queued" THEN c.id = None
                           ELSE c.id \in ApprovalIds /\ forReq[c.id] = c.req
    /\ c.op = "approve" => /\ forReq[c.id] = c.req
                           /\ entry[c.req].decision = "approve"
                           /\ c.at = "queued" <=> SignedFor(c.req) = {}
CallsSound == \A i \in 1..Len(calls) : CallSound(calls[i])

(* A request has one approve at most in the queue.                           *)
OneApprove ==
    \A i, j \in 1..Len(calls) :
        calls[i].op = "approve" /\ calls[j].op = "approve" /\ calls[i].req = calls[j].req => i = j

(* A request that was approved and is still pending waits for its approve,   *)
(* and what is prepared for it again comes later.                            *)
Awaiting ==
    \A r \in Requests : entry[r].st = "asked" /\ entry[r].decision = "approve" =>
        /\ entry[r].approvalId = None
        /\ \E i \in 1..Len(calls) :
             /\ calls[i].op = "approve" /\ calls[i].req = r
             /\ \A j \in 1..Len(calls) : calls[j].op = "prepare" /\ calls[j].req = r => i < j

(* Whose an approval is.                                                     *)
Owned ==
    /\ \A r \in Requests : entry[r].approvalId # None => forReq[entry[r].approvalId] = r
    /\ \A a \in ApprovalIds : forReq[a] # None => Started(forReq[a])
    /\ \A a \in usable : forReq[a] # None
    /\ \A i \in 1..Len(made) : forReq[made[i]] # None

(* What the entries, the promise queue and the approvals say of each other.  *)
Consent ==
    /\ Answered /\ Questions /\ CallsSound /\ OneApprove /\ Awaiting /\ Owned
    /\ SignedWithConsent /\ OkMeansSigned /\ NoForgottenApproval

RouterInv == TypeOK /\ Consent /\ Revoking /\ Granting

(* No page gets a second answer in a step.                                   *)
Final == \A r \in Requests : entry[r].outcome # "none" => entry'[r].outcome = entry[r].outcome

(* What most steps do to an entry: it stays, or goes forward without         *)
(* touching its decision and its approval.                                   *)
Moves(r) ==
    \/ entry'[r] = entry[r]
    \/ /\ entry[r].outcome # "none" => entry'[r].outcome = entry[r].outcome
       /\ entry'[r].method = entry[r].method
       /\ entry'[r].decision = entry[r].decision
       /\ entry'[r].approvalId = entry[r].approvalId
       /\ Question(entry'[r])
       /\ entry'[r].st = "done" <=> entry'[r].outcome # "none"
       /\ entry'[r].st = "new" => entry[r].st = "new"
       /\ entry'[r].st = "check" => entry[r].st \in {"new", "check"}
       /\ entry'[r].st = "asked" => entry[r].st \in {"check", "asked"}
       /\ entry'[r].outcome = "ok" /\ entry[r].method = "transaction" => SignedFor(r) # {}

-----------------------------------------------------------------------------
(* An approval that a call in the queue names was prepared for its request.  *)
LEMMA NamedApproval ==
    ASSUME TypeOK, CallsSound, NEW i \in 1..Len(calls), calls[i].id # None
    PROVE  forReq[calls[i].id] = calls[i].req
<1>1. calls[i] \in Call
  BY DEF TypeOK
<1>2. CallSound(calls[i])
  BY DEF CallsSound
<1> QED
  BY <1>1, <1>2 DEF Call, CallSound

(* Entries move, k calls leave the front of the queue whose requests are no  *)
(* longer pending, and approvals can only be lost.                           *)
LEMMA QueueStep ==
    ASSUME TypeOK, Consent, entry' \in [Requests -> Entry],
           \A r \in Requests : Moves(r),
           NEW k \in 0..Len(calls), calls' \in Seq(Call), Len(calls') = Len(calls) - k,
           \A i \in 1..Len(calls') : calls'[i] = calls[i + k],
           \A i \in 1..k : entry'[calls[i].req].st # "asked",
           usable' \subseteq usable, forReq' = forReq, made' = made
    PROVE  Consent' /\ Final
<1> USE DEF Consent
<1>0. /\ entry \in [Requests -> Entry] /\ calls \in Seq(Call)
      /\ forReq \in [ApprovalIds -> Requests \cup {None}] /\ usable \subseteq ApprovalIds
      /\ made \in Seq(ApprovalIds)
      /\ Len(calls) \in Nat /\ Len(calls') \in Nat /\ k \in Nat
  BY DEF TypeOK
<1>1. \A r \in Requests : SignedFor(r)' = SignedFor(r)
  BY DEF SignedFor
<1>2. Answered' /\ Final
  BY DEF Answered, Final, Moves
<1>3. Questions'
  BY DEF Questions, Moves
<1>4. \A i \in 1..Len(calls) : calls[i] \in Call /\ calls[i].req \in Requests
  BY <1>0 DEF Call
<1>5. \A r \in Requests : /\ Started(r) => Started(r)'
                          /\ entry'[r].decision = entry[r].decision
                          /\ entry'[r].approvalId = entry[r].approvalId
                          /\ entry'[r].method = entry[r].method
  BY DEF Moves, Started
<1>6. CallsSound'
  <2> SUFFICES ASSUME NEW i \in 1..Len(calls') PROVE CallSound(calls[i])'
    BY DEF CallsSound
  <2>1. i + k \in 1..Len(calls) /\ calls'[i] = calls[i + k]
    BY <1>0
  <2>3. CallSound(calls[i + k])
    BY <2>1 DEF CallsSound
  <2>2. calls[i + k].req \in Requests
    BY <1>4, <2>1
  <2> QED
    BY <1>1, <1>5, <2>1, <2>2, <2>3 DEF CallSound
<1>7. OneApprove'
  <2> SUFFICES ASSUME NEW i \in 1..Len(calls'), NEW j \in 1..Len(calls'),
                      calls'[i].op = "approve", calls'[j].op = "approve", calls'[i].req = calls'[j].req
               PROVE  i = j
    BY DEF OneApprove
  <2>1. i + k \in 1..Len(calls) /\ j + k \in 1..Len(calls)
    BY <1>0
  <2>2. i + k = j + k
    BY <2>1 DEF OneApprove
  <2> QED
    BY <1>0, <2>2
<1>8. Awaiting'
  <2> SUFFICES ASSUME NEW r \in Requests, entry'[r].st = "asked", entry'[r].decision = "approve"
      PROVE  /\ entry'[r].approvalId = None
             /\ \E i \in 1..Len(calls') :
                  /\ calls'[i].op = "approve" /\ calls'[i].req = r
                  /\ \A j \in 1..Len(calls') :
                       calls'[j].op = "prepare" /\ calls'[j].req = r => i < j
    BY DEF Awaiting
  <2>1. entry[r].st = "asked" /\ entry[r].decision = "approve"
    BY <1>5 DEF Moves, Questions, Question
  <2>2. PICK i \in 1..Len(calls) :
          /\ calls[i].op = "approve" /\ calls[i].req = r
          /\ \A j \in 1..Len(calls) : calls[j].op = "prepare" /\ calls[j].req = r => i < j
    BY <2>1 DEF Awaiting
  <2>3. i > k
    BY <1>0, <2>2
  <2>4. i - k \in 1..Len(calls')
    BY <1>0, <2>3
  <2>5. calls'[i - k] = calls[i]
    BY <1>0, <2>4
  <2>6. ASSUME NEW j \in 1..Len(calls'), calls'[j].op = "prepare", calls'[j].req = r
        PROVE  i - k < j
    <3>1. j + k \in 1..Len(calls) /\ calls'[j] = calls[j + k]
      BY <1>0
    <3>2. i < j + k
      BY <2>2, <2>6, <3>1
    <3> QED
      BY <1>0, <3>2
  <2>7. entry'[r].approvalId = None
    BY <1>5, <2>1 DEF Awaiting
  <2> QED
    BY <2>2, <2>4, <2>5, <2>6, <2>7
<1>9. Owned'
  BY <1>0, <1>5 DEF Owned, Started
<1>10. SignedWithConsent'
  BY <1>1, <1>5 DEF SignedWithConsent
<1>11. OkMeansSigned'
  BY <1>1, <1>5 DEF OkMeansSigned, Moves
<1>12. NoForgottenApproval'
  <2> SUFFICES ASSUME NEW a \in usable', entry'[forReq[a]].st = "asked",
                      entry'[forReq[a]].approvalId # a
               PROVE  \E i \in 1..Len(calls') : calls'[i].id = a
    BY DEF NoForgottenApproval
  <2> DEFINE r == forReq[a]
  <2>1. a \in ApprovalIds /\ a # None /\ r \in Requests
    BY <1>0, RouterAssumption DEF Owned
  <2>2. entry[r].st = "asked"
    BY <1>0, <2>1 DEF Owned, Started, Moves
  <2>3. PICK i \in 1..Len(calls) : calls[i].id = a
    BY <1>5, <2>1, <2>2 DEF NoForgottenApproval
  <2>4. calls[i].req = r
    BY <2>1, <2>3, NamedApproval
  <2>5. i > k
    BY <1>0, <2>4
  <2>6. i - k \in 1..Len(calls') /\ calls'[i - k] = calls[i]
    BY <1>0, <2>5
  <2> QED
    BY <2>3, <2>6
<1> QED
  BY <1>2, <1>3, <1>6, <1>7, <1>8, <1>9, <1>10, <1>11, <1>12

(* As long as the queue stays.                                               *)
LEMMA SameQueue ==
    ASSUME RouterInv, entry' \in [Requests -> Entry], \A r \in Requests : Moves(r),
           usable' \subseteq usable, UNCHANGED <<calls, forReq, made>>
    PROVE  Consent' /\ Final
<1> USE DEF RouterInv
<1>1. calls \in Seq(Call) /\ Len(calls) \in Nat
  BY DEF TypeOK
<1>2. 0 \in 0..Len(calls) /\ Len(calls') = Len(calls) - 0 /\ calls' \in Seq(Call)
  BY <1>1
<1>3. \A i \in 1..Len(calls') : calls'[i] = calls[i + 0]
  BY <1>1
<1>4. \A i \in 1..0 : entry'[calls[i].req].st # "asked"
  OBVIOUS
<1>5. TypeOK /\ Consent /\ forReq' = forReq /\ made' = made
  OBVIOUS
<1> QED
  BY ONLY <1>2, <1>3, <1>4, <1>5, QueueStep, RouterInv, entry' \in [Requests -> Entry],
     \A r \in Requests : Moves(r), usable' \subseteq usable

(* Most steps only move entries.                                             *)
LEMMA EntriesMove ==
    ASSUME RouterInv, entry' \in [Requests -> Entry], \A r \in Requests : Moves(r),
           \A r \in Requests : entry[r].st = "revoke" => entry'[r].st = "revoke",
           usable' \subseteq usable,
           UNCHANGED <<calls, forReq, made, unlocked, account, storage, stops>>
    PROVE  RouterInv' /\ Final
<1> USE DEF RouterInv, storage
<1>1. Consent' /\ Final
  BY SameQueue
<1>2. TypeOK'
  BY DEF TypeOK
<1>3. Revoking' /\ Granting'
  BY DEF TypeOK, SiteOp, Revoking, Granting, Moves
<1> QED
  BY <1>1, <1>2, <1>3

(* One entry moves.                                                          *)
LEMMA EntryMoves ==
    ASSUME RouterInv, NEW r \in Requests, NEW f \in Entry, entry' = [entry EXCEPT ![r] = f],
           entry[r].outcome # "none" => f.outcome = entry[r].outcome,
           f.method = entry[r].method, f.decision = entry[r].decision,
           f.approvalId = entry[r].approvalId,
           Question(f), f.st = "done" <=> f.outcome # "none", f.st = "new" => entry[r].st = "new",
           f.st = "check" => entry[r].st \in {"new", "check"},
           f.st = "asked" => entry[r].st \in {"check", "asked"},
           f.outcome = "ok" /\ entry[r].method = "transaction" => SignedFor(r) # {}
    PROVE  /\ entry' \in [Requests -> Entry] /\ entry'[r] = f
           /\ \A q \in Requests \ {r} : entry'[q] = entry[q]
           /\ \A q \in Requests : Moves(q)
<1>1. entry \in [Requests -> Entry]
  BY DEF RouterInv, TypeOK
<1>2. /\ entry' \in [Requests -> Entry] /\ entry'[r] = f
      /\ \A q \in Requests \ {r} : entry'[q] = entry[q]
  BY <1>1
<1> QED
  BY <1>2 DEF Moves

(* An answer settles an entry for good.                                      *)
LEMMA AnswerMoves ==
    ASSUME RouterInv, NEW r \in Requests, NEW outcome \in Outcomes \ {"none"},
           entry[r].st # "done", Answer(r, outcome),
           outcome = "ok" /\ entry[r].method = "transaction" => SignedFor(r) # {}
    PROVE  /\ entry' \in [Requests -> Entry] /\ entry'[r].st = "done"
           /\ \A q \in Requests \ {r} : entry'[q] = entry[q]
           /\ \A q \in Requests : Moves(q)
<1> DEFINE f == Done(entry[r], outcome)
<1>1. entry[r] \in Entry /\ entry[r].outcome = "none"
  BY DEF RouterInv, TypeOK, Consent, Answered
<1>2. /\ f \in Entry /\ f.st = "done" /\ f.outcome = outcome /\ f.method = entry[r].method
      /\ f.decision = entry[r].decision /\ f.approvalId = entry[r].approvalId
  BY <1>1 DEF Done, Entry
<1>3. Question(f)
  BY <1>2 DEF Question
<1>4. entry' = [entry EXCEPT ![r] = f]
  BY DEF Answer
<1>5. f.st = "done" <=> f.outcome # "none"
  BY <1>2
<1> HIDE DEF f
<1> QED
  BY <1>1, <1>5, <1>2, <1>3, <1>4, EntryMoves

(* Settling a pending entry answers it; another entry stays as it is.        *)
LEMMA FinishMoves ==
    ASSUME RouterInv, NEW r \in Requests, NEW outcome \in Outcomes \ {"none"},
           Finish(r, outcome),
           outcome = "ok" /\ entry[r].method = "transaction" => SignedFor(r) # {}
    PROVE  /\ entry' \in [Requests -> Entry] /\ entry'[r].st # "asked"
           /\ \A q \in Requests : entry[q].st # "asked" => entry'[q] = entry[q]
           /\ \A q \in Requests : Moves(q)
           /\ usable' \subseteq usable
<1>1. entry \in [Requests -> Entry]
  BY DEF RouterInv, TypeOK
<1>2. CASE entry[r].st = "asked"
  <2>1. Answer(r, outcome) /\ usable' \subseteq usable
    BY <1>2 DEF Finish, Answer
  <2> QED
    BY <1>1, <1>2, <2>1, AnswerMoves
<1>3. CASE entry[r].st # "asked"
  BY <1>1, <1>3 DEF Finish, Moves
<1> QED
  BY <1>2, <1>3

(* A question is asked of a call that was not asked before, or that was      *)
(* granted its connection.                                                   *)
LEMMA AskMoves ==
    ASSUME RouterInv, NEW r \in Requests, NEW kind \in {"connect", "unlock", "transaction"},
           entry[r].st \in {"check", "asked"}, Ask(r, kind),
           entry[r].method = "transaction" => kind = "transaction",
           kind = "connect" => entry[r].method = "connect"
    PROVE  /\ entry' \in [Requests -> Entry]
           /\ \A q \in Requests \ {r} : entry'[q] = entry[q]
           /\ \A q \in Requests : Moves(q)
<1>1. entry[r] \in Entry /\ entry[r].st # "done" /\ entry[r].outcome = "none"
  BY DEF RouterInv, TypeOK, Consent, Answered
<1>2. CASE entry' = [entry EXCEPT ![r] = Done(entry[r], "failed")]
  BY <1>1, <1>2, AnswerMoves DEF Answer, Outcomes
<1>3. CASE entry' = [entry EXCEPT ![r] =
                      [entry[r] EXCEPT !.st = "asked", !.kind = kind, !.window = "opening"]]
  <2> DEFINE f == [entry[r] EXCEPT !.st = "asked", !.kind = kind, !.window = "opening"]
  <2>1. /\ f \in Entry /\ f.st = "asked" /\ f.kind = kind /\ f.outcome = "none"
        /\ f.method = entry[r].method
        /\ f.decision = entry[r].decision /\ f.approvalId = entry[r].approvalId
    BY <1>1 DEF Entry
  <2>2. Question(f)
    BY <2>1 DEF Question
  <2>3. entry' = [entry EXCEPT ![r] = f]
    BY <1>3
  <2> HIDE DEF f
  <2> QED
    BY <1>1, <2>1, <2>2, <2>3, EntryMoves
<1> QED
  BY <1>2, <1>3 DEF Ask

-----------------------------------------------------------------------------
(* A provider call up to its question.                                       *)

(* A call whose permission was read is answered, refused or asked about.    *)
LEMMA CheckedKeeps ==
    ASSUME RouterInv, NEW r \in Requests, Checked(r)
    PROVE  RouterInv' /\ Final
<1>1. /\ entry \in [Requests -> Entry] /\ entry[r].st = "check" /\ entry[r] \in Entry
      /\ entry[r].outcome = "none" /\ entry[r].method # "disconnect"
  BY DEF Checked, RouterInv, TypeOK, Consent, Answered, Questions, Question
<1>2. /\ entry' \in [Requests -> Entry]
      /\ \A q \in Requests \ {r} : entry'[q] = entry[q]
      /\ \A q \in Requests : Moves(q)
  <2>1. ASSUME NEW outcome \in {"ok", "unauthorized", "failed"}, Answer(r, outcome),
               outcome = "ok" => entry[r].method # "transaction"
        PROVE  <1>2
    BY <1>1, <2>1, AnswerMoves DEF Outcomes
  <2>2. ASSUME NEW kind \in {"connect", "unlock", "transaction"}, Ask(r, kind),
               entry[r].method = "transaction" => kind = "transaction",
               kind = "connect" => entry[r].method = "connect"
        PROVE  <1>2
    BY <1>1, <2>2, AskMoves
  <2>3. CASE entry' = [entry EXCEPT ![r].st = "sync"] /\ entry[r].method = "balances"
    <3> DEFINE f == [entry[r] EXCEPT !.st = "sync"]
    <3>1. /\ f \in Entry /\ f.st = "sync" /\ f.outcome = "none" /\ f.method = entry[r].method
          /\ f.decision = entry[r].decision /\ f.approvalId = entry[r].approvalId
      BY <1>1 DEF Entry
    <3>2. Question(f)
      BY <2>3, <3>1 DEF Question
    <3>3. entry' = [entry EXCEPT ![r] = f]
      BY <1>1, <2>3
    <3> HIDE DEF f
    <3> QED
      BY <1>1, <3>1, <3>2, <3>3, EntryMoves
  <2>4. CASE entry[r].method = "connect"
    BY <2>1, <2>2, <2>4 DEF Checked
  <2>5. CASE entry[r].method # "connect" /\ entry[r].origin \notin sites
    BY <2>1, <2>5 DEF Checked
  <2>6. CASE entry[r].method \in {"address", "balances", "transaction"} /\ entry[r].origin \in sites
    BY <2>1, <2>2, <2>3, <2>6 DEF Checked
  <2> QED
    BY <1>1, <2>4, <2>5, <2>6 DEF Entry, AllMethods
<1>3. usable' \subseteq usable /\ UNCHANGED <<calls, forReq, made, unlocked, account, storage, stops>>
  BY DEF Checked, approvals
<1> QED
  BY <1>1, <1>2, <1>3, EntriesMove

(* These answer a call, or settle its question.                              *)
LEMMA SettlingKeeps ==
    ASSUME RouterInv, NEW r \in Requests,
           \/ CheckFailed(r) \/ Synced(r) \/ WindowFailed(r) \/ WindowClosed(r)
           \/ TimedOut(r) \/ Declined(r)
    PROVE  RouterInv' /\ Final
<1>1. /\ entry \in [Requests -> Entry]
      /\ entry[r].st = "sync" => entry[r].method = "balances"
  BY DEF RouterInv, TypeOK, Consent, Questions, Question
<1>2. /\ entry[r].st \notin {"done", "revoke"}
      /\ \/ (\E outcome \in Outcomes \ {"none"} :
               /\ Answer(r, outcome)
               /\ outcome = "ok" => entry[r].method = "balances") /\ usable' = usable
         \/ \E outcome \in Outcomes \ {"none", "ok"} : Finish(r, outcome)
      /\ UNCHANGED <<calls, forReq, made, unlocked, account, storage, stops>>
  <2>1. {"ok", "failed"} \subseteq Outcomes \ {"none"}
        /\ {"rejected", "failed"} \subseteq Outcomes \ {"none", "ok"}
    BY DEF Outcomes
  <2>2. CASE CheckFailed(r) \/ Synced(r)
    BY <1>1, <2>1, <2>2 DEF CheckFailed, Synced, approvals
  <2>3. CASE WindowFailed(r) \/ WindowClosed(r) \/ TimedOut(r) \/ Declined(r)
    BY <2>1, <2>3 DEF WindowFailed, WindowClosed, TimedOut, Declined
  <2> QED
    BY <2>2, <2>3
<1>3. /\ entry' \in [Requests -> Entry] /\ usable' \subseteq usable
      /\ \A q \in Requests : Moves(q)
      /\ \A q \in Requests : entry[q].st = "revoke" => entry'[q] = entry[q]
  <2>1. ASSUME NEW outcome \in Outcomes \ {"none"}, Answer(r, outcome),
               outcome = "ok" => entry[r].method = "balances", usable' = usable
        PROVE  <1>3
    BY <1>2, <2>1, AnswerMoves
  <2>2. ASSUME NEW outcome \in Outcomes \ {"none", "ok"}, Finish(r, outcome)
        PROVE  <1>3
    BY <2>2, FinishMoves
  <2> QED
    BY <1>2, <2>1, <2>2
<1> QED
  BY <1>2, <1>3, EntriesMove

(* A window appears or goes unnoticed.                                      *)
LEMMA WindowKeeps ==
    ASSUME RouterInv, NEW r \in Requests, WindowOpened(r) \/ WindowClosedEarly(r)
    PROVE  RouterInv' /\ Final
<1>1. entry \in [Requests -> Entry] /\ entry[r] \in Entry
  BY DEF RouterInv, TypeOK
<1>2. PICK w \in {"open", "gone"} : entry' = [entry EXCEPT ![r].window = w]
  BY DEF WindowOpened, WindowClosedEarly
<1> DEFINE f == [entry[r] EXCEPT !.window = w]
<1>3. /\ f \in Entry /\ f.st = entry[r].st /\ f.outcome = entry[r].outcome
      /\ f.method = entry[r].method /\ f.kind = entry[r].kind
      /\ f.decision = entry[r].decision /\ f.approvalId = entry[r].approvalId
  BY <1>1, <1>2 DEF Entry
<1>4. entry' = [entry EXCEPT ![r] = f] /\ Question(f)
  BY <1>1, <1>2, <1>3 DEF RouterInv, Consent, Questions, Question
<1>5. /\ f.st = "done" <=> f.outcome # "none"
      /\ f.outcome = "ok" /\ entry[r].method = "transaction" => SignedFor(r) # {}
  BY <1>3 DEF RouterInv, Consent, Answered, OkMeansSigned
<1> HIDE DEF f
<1>6. /\ entry' \in [Requests -> Entry] /\ entry'[r] = f
      /\ \A q \in Requests \ {r} : entry'[q] = entry[q]
      /\ \A q \in Requests : Moves(q)
  BY <1>3, <1>4, <1>5, EntryMoves
<1>7. usable' \subseteq usable /\ UNCHANGED <<calls, forReq, made, unlocked, account, storage, stops>>
  BY DEF WindowOpened, WindowClosedEarly, approvals
<1> QED
  BY <1>3, <1>6, <1>7, EntriesMove

(* A call goes on with the unlocked wallet.                                 *)
LEMMA UnlockedKeeps ==
    ASSUME RouterInv, NEW r \in Requests, ApprovedUnlock(r)
    PROVE  RouterInv' /\ Final
<1>1. /\ entry \in [Requests -> Entry] /\ entry[r] \in Entry
      /\ entry[r].st = "asked" /\ entry[r].outcome = "none" /\ entry[r].method # "transaction"
  BY DEF ApprovedUnlock, RouterInv, TypeOK, Consent, Answered, Questions, Question
<1>2. /\ entry' \in [Requests -> Entry]
      /\ \A q \in Requests \ {r} : entry'[q] = entry[q]
      /\ \A q \in Requests : Moves(q)
  <2>1. CASE entry[r].method = "balances"
    <3> DEFINE f == [entry[r] EXCEPT !.st = "sync"]
    <3>1. /\ f \in Entry /\ f.st = "sync" /\ f.outcome = "none" /\ f.method = entry[r].method
          /\ f.decision = entry[r].decision /\ f.approvalId = entry[r].approvalId
      BY <1>1 DEF Entry
    <3>2. Question(f)
      BY <2>1, <3>1 DEF Question
    <3>3. entry' = [entry EXCEPT ![r] = f]
      BY <1>1, <2>1 DEF ApprovedUnlock
    <3> HIDE DEF f
    <3> QED
      BY <1>1, <3>1, <3>2, <3>3, EntryMoves
  <2>2. CASE entry[r].method # "balances"
    <3>1. Answer(r, "ok") /\ "ok" \in Outcomes \ {"none"}
      BY <2>2 DEF ApprovedUnlock, Answer, Outcomes
    <3> QED
      BY <1>1, <3>1, AnswerMoves
  <2> QED
    BY <2>1, <2>2
<1>3. usable' \subseteq usable /\ UNCHANGED <<calls, forReq, made, unlocked, account, storage, stops>>
  BY DEF ApprovedUnlock, approvals
<1> QED
  BY <1>1, <1>2, <1>3, EntriesMove

-----------------------------------------------------------------------------
(* Permissions.                                                              *)

(* A new read-modify-write is well formed.                                   *)
LEMMA NewSiteOp ==
    ASSUME TypeOK, NEW op \in {"grant", "revoke"}, NEW r \in Requests \cup {None},
           NEW origin \in Origins, BeginSiteOp(op, r, origin)
    PROVE  ops' \subseteq SiteOp
BY DEF TypeOK, BeginSiteOp, SiteOp

(* A call arrives, ep_disconnect with its revocation.                       *)
LEMMA ArriveKeeps ==
    ASSUME RouterInv, NEW r \in Requests, Arrive(r)
    PROVE  RouterInv' /\ Final
<1>1. /\ entry \in [Requests -> Entry] /\ entry[r] \in Entry /\ entry[r].st = "new"
      /\ entry[r].outcome = "none" /\ entry[r].decision = "none" /\ entry[r].approvalId = None
  BY DEF Arrive, RouterInv, TypeOK, Consent, Answered, Questions, Question
<1> DEFINE st == IF entry[r].method = "disconnect" THEN "revoke" ELSE "check"
           f == [entry[r] EXCEPT !.st = st]
<1>2. /\ f \in Entry /\ f.st = st /\ f.outcome = "none" /\ f.method = entry[r].method
      /\ f.decision = "none" /\ f.approvalId = None
  BY <1>1 DEF Entry
<1>3. Question(f) /\ entry' = [entry EXCEPT ![r] = f]
  BY <1>1, <1>2 DEF Question, Arrive
<1>4. st \in {"revoke", "check"} /\ st # "done" /\ st # "new" /\ st # "asked"
  OBVIOUS
<1>5. /\ entry' \in [Requests -> Entry] /\ entry'[r] = f
      /\ \A q \in Requests \ {r} : entry'[q] = entry[q]
      /\ \A q \in Requests : Moves(q)
  <2> HIDE DEF f, st
  <2> QED
    BY <1>1, <1>2, <1>3, <1>4, EntryMoves
<1>6. UNCHANGED <<calls, usable, forReq, made, unlocked, account, sites, restoring, wallet, stops>>
  BY DEF Arrive, approvals
<1>7. Consent' /\ Final
  BY <1>5, <1>6, SameQueue
<1>8. ops' \subseteq SiteOp
  BY <1>1, NewSiteOp DEF Arrive, RouterInv, TypeOK, Entry
<1>9. TypeOK'
  BY <1>5, <1>6, <1>8 DEF RouterInv, TypeOK
<1>10. Revoking' /\ Granting'
  <2>1. \A o \in ops : o.op = "revoke" /\ o.req # None => o.req # r /\ o.req \in Requests
    BY <1>1 DEF RouterInv, TypeOK, SiteOp, Revoking
  <2>2. CASE entry[r].method = "disconnect"
    <3> DEFINE n == [op |-> "revoke", req |-> r, origin |-> entry[r].origin, at |-> "read", copy |-> {}]
    <3>1. ops' = ops \cup {n} /\ n.op = "revoke" /\ n.req = r
      BY <2>2 DEF Arrive, BeginSiteOp
    <3>2. entry'[r].st = "revoke" /\ entry'[r].method = "disconnect"
      BY <1>2, <1>5, <2>2
    <3> HIDE DEF n
    <3>3. \A o \in ops : o.op = "revoke" /\ o.req # None =>
            /\ entry'[o.req].st = "revoke" /\ entry'[o.req].method = "disconnect"
            /\ \A p \in ops : p.op = "revoke" /\ p.req = o.req => p = o
      BY <1>5, <2>1 DEF RouterInv, Revoking
    <3>4. Revoking'
      BY <2>1, <3>1, <3>2, <3>3 DEF Revoking
    <3>5. Granting'
      BY <3>1 DEF RouterInv, Granting
    <3> QED
      BY <3>4, <3>5
  <2>3. CASE entry[r].method # "disconnect"
    <3>1. ops' = ops
      BY <2>3 DEF Arrive
    <3> QED
      BY <1>5, <2>1, <3>1 DEF RouterInv, Revoking, Granting
  <2> QED
    BY <2>2, <2>3
<1> QED
  BY <1>7, <1>9, <1>10 DEF RouterInv

(* Operations of the user and grants wait for no revocation of a page.       *)
LEMMA BeginKeeps ==
    ASSUME RouterInv,
           \/ \E r \in Requests : ApprovedConnect(r)
           \/ \E o \in Origins : RevokeSite(o)
    PROVE  RouterInv' /\ Final
<1>1. UNCHANGED <<entry, calls, usable, forReq, made, unlocked, account, sites, restoring, wallet, stops>>
  BY DEF ApprovedConnect, RevokeSite, approvals
<1>2. \E op \in {"grant", "revoke"}, r \in Requests \cup {None}, origin \in Origins :
        BeginSiteOp(op, r, origin) /\ (op = "grant" => r # None) /\ (op = "revoke" => r = None)
  BY RouterAssumption DEF ApprovedConnect, RevokeSite, RouterInv, TypeOK, Entry
<1>3. PICK op \in {"grant", "revoke"}, r \in Requests \cup {None}, origin \in Origins :
        BeginSiteOp(op, r, origin) /\ (op = "grant" => r # None) /\ (op = "revoke" => r = None)
  BY <1>2
<1>4. entry' \in [Requests -> Entry] /\ \A q \in Requests : Moves(q)
  BY <1>1 DEF RouterInv, TypeOK, Moves
<1>5. Consent' /\ Final
  BY <1>1, <1>4, SameQueue
<1>6. TypeOK'
  BY <1>1, <1>3, NewSiteOp DEF RouterInv, TypeOK
<1>7. Revoking' /\ Granting'
  <2> DEFINE n == [op |-> op, req |-> r, origin |-> origin, at |-> "read", copy |-> {}]
  <2>1. ops' = ops \cup {n} /\ n.op = op /\ n.req = r
    BY <1>3 DEF BeginSiteOp
  <2> HIDE DEF n
  <2> QED
    BY <1>1, <1>3, <2>1 DEF RouterInv, Revoking, Granting
<1> QED
  BY <1>5, <1>6, <1>7 DEF RouterInv

(* The end of ep_disconnect is the answer to its page, nobody else's.        *)
LEMMA RevocationAnswered ==
    ASSUME RouterInv, NEW o \in ops, o.op = "revoke", NEW outcome \in Outcomes \ {"none"},
           AnswerRevoked(o, outcome)
    PROVE  /\ entry' \in [Requests -> Entry] /\ \A q \in Requests : Moves(q)
           /\ \A q \in Requests : entry[q].st = "revoke" /\ q # o.req => entry'[q] = entry[q]
<1>1. CASE o.req = None
  BY <1>1 DEF AnswerRevoked, RouterInv, TypeOK, Moves
<1>2. CASE o.req # None
  <2>1. o.req \in Requests /\ entry[o.req].st = "revoke" /\ entry[o.req].method = "disconnect"
    BY <1>2 DEF RouterInv, TypeOK, SiteOp, Revoking
  <2>2. Answer(o.req, outcome)
    BY <1>2 DEF AnswerRevoked
  <2> QED
    BY <2>1, <2>2, AnswerMoves
<1> QED
  BY <1>1, <1>2

(* A read-modify-write goes on, or ends and answers at most its own page.    *)
LEMMA SiteOpGoesOn ==
    ASSUME RouterInv, NEW o \in ops, entry' \in [Requests -> Entry],
           \A q \in Requests : Moves(q),
           \A q \in Requests : entry[q].st = "revoke" =>
               entry'[q] = entry[q] \/ (o.op = "revoke" /\ o.req = q),
           ops' \subseteq SiteOp, sites' \subseteq Origins,
           \/ ops' = ops \ {o}
           \/ /\ entry' = entry
              /\ \E n : ops' = (ops \ {o}) \cup {n} /\ n.op = o.op /\ n.req = o.req,
           UNCHANGED <<calls, usable, forReq, made, unlocked, account, restoring, wallet, stops>>
    PROVE  RouterInv' /\ Final
<1>1. Consent' /\ Final
  BY SameQueue
<1>2. TypeOK'
  BY DEF RouterInv, TypeOK
<1>3. \A p \in ops : p.op = "revoke" /\ p.req # None =>
         p.req \in Requests /\ entry[p.req].st = "revoke" /\ entry[p.req].method = "disconnect"
  BY DEF RouterInv, TypeOK, SiteOp, Revoking
<1>4. CASE ops' = ops \ {o}
  <2>1. ASSUME NEW p \in ops', p.op = "revoke", p.req # None
        PROVE  entry'[p.req] = entry[p.req]
    <3>1. p \in ops /\ p # o
      BY <1>4
    <3>2. ~(o.op = "revoke" /\ o.req = p.req)
      BY <2>1, <3>1 DEF RouterInv, Revoking
    <3>3. p.req \in Requests /\ entry[p.req].st = "revoke"
      BY <1>3, <2>1, <3>1
    <3> QED
      BY <3>2, <3>3
  <2>2. Revoking'
    BY <1>3, <1>4, <2>1 DEF RouterInv, Revoking
  <2>3. Granting'
    BY <1>4 DEF RouterInv, Granting
  <2> QED
    BY <1>1, <1>2, <2>2, <2>3 DEF RouterInv
<1>5. ASSUME entry' = entry, NEW n, ops' = (ops \ {o}) \cup {n}, n.op = o.op, n.req = o.req
      PROVE  Revoking' /\ Granting'
  BY <1>3, <1>5 DEF RouterInv, Revoking, Granting
<1> QED
  BY <1>1, <1>2, <1>4, <1>5 DEF RouterInv

(* The sites were read; there may be nothing to revoke.                     *)
LEMMA SitesReadKeeps ==
    ASSUME RouterInv, NEW o \in ops, SitesRead(o)
    PROVE  RouterInv' /\ Final
<1> DEFINE absent == o.op = "revoke" /\ o.origin \notin sites
           copy == IF o.op = "grant" THEN sites \cup {o.origin} ELSE sites \ {o.origin}
           n == [o EXCEPT !.at = "write", !.copy = copy]
<1>1. /\ entry \in [Requests -> Entry] /\ ops \subseteq SiteOp /\ o \in SiteOp
      /\ sites \subseteq Origins
  BY DEF RouterInv, TypeOK
<1>2. UNCHANGED <<calls, usable, forReq, made, unlocked, account, sites, restoring, wallet, stops>>
  BY DEF SitesRead, approvals
<1>3. CASE absent
  <2>1. ops' = ops \ {o} /\ AnswerRevoked(o, "ok") /\ "ok" \in Outcomes \ {"none"}
    BY <1>3 DEF SitesRead, Outcomes
  <2> QED
    BY <1>1, <1>2, <1>3, <2>1, RevocationAnswered, SiteOpGoesOn
<1>4. CASE ~absent
  <2>1. ops' = (ops \ {o}) \cup {n} /\ entry' = entry
    BY <1>4 DEF SitesRead
  <2>2. n \in SiteOp /\ n.op = o.op /\ n.req = o.req
    BY <1>1 DEF SiteOp
  <2>3. \A q \in Requests : Moves(q)
    BY <2>1 DEF Moves
  <2> HIDE DEF n
  <2> QED
    BY <1>1, <1>2, <2>1, <2>2, <2>3, SiteOpGoesOn
<1> QED
  BY <1>3, <1>4

(* The sites were written, and a connect goes on or is answered.            *)
LEMMA SitesWrittenKeeps ==
    ASSUME RouterInv, NEW o \in ops, SitesWritten(o)
    PROVE  RouterInv' /\ Final
<1>1. /\ entry \in [Requests -> Entry] /\ ops \subseteq SiteOp /\ o \in SiteOp
      /\ ops' = ops \ {o} /\ ops' \subseteq SiteOp /\ sites' \subseteq Origins
      /\ UNCHANGED <<calls, usable, forReq, made, unlocked, account, restoring, wallet, stops>>
  BY DEF SitesWritten, approvals, RouterInv, TypeOK, SiteOp
<1>2. CASE o.op = "revoke"
  <2>1. AnswerRevoked(o, "ok") /\ "ok" \in Outcomes \ {"none"}
    BY <1>2 DEF SitesWritten, Outcomes
  <2> QED
    BY <1>1, <1>2, <2>1, RevocationAnswered, SiteOpGoesOn
<1>3. CASE o.op = "grant"
  <2> DEFINE r == o.req
  <2>1. r \in Requests
    BY <1>1, <1>3 DEF RouterInv, Granting, SiteOp
  <2>2. CASE entry' = entry
    <3>1. \A q \in Requests : Moves(q)
      BY <2>2 DEF Moves
    <3> QED
      BY <1>1, <2>2, <3>1, SiteOpGoesOn
  <2>3. CASE entry[r].st = "asked" /\ entry[r].kind = "connect"
             /\ (Answer(r, "ok") \/ Ask(r, "unlock"))
    <3>1. entry[r].method = "connect"
      BY <2>1, <2>3 DEF RouterInv, Consent, Questions, Question
    <3>2. /\ entry' \in [Requests -> Entry] /\ \A q \in Requests : Moves(q)
          /\ \A q \in Requests \ {r} : entry'[q] = entry[q]
      <4>1. CASE Answer(r, "ok")
        BY <2>1, <2>3, <3>1, <4>1, AnswerMoves DEF Outcomes
      <4>2. CASE Ask(r, "unlock")
        BY <2>1, <2>3, <3>1, <4>2, AskMoves
      <4> QED
        BY <2>3, <4>1, <4>2
    <3>3. \A q \in Requests : entry[q].st = "revoke" => entry'[q] = entry[q]
      BY <2>3, <3>2
    <3> HIDE DEF r
    <3> QED
      BY <1>1, <3>2, <3>3, SiteOpGoesOn
  <2> QED
    BY <1>3, <2>2, <2>3 DEF SitesWritten
<1> QED
  BY <1>1, <1>2, <1>3 DEF SiteOp

(* The storage refused.                                                     *)
LEMMA SitesFailedKeeps ==
    ASSUME RouterInv, NEW o \in ops, SitesFailed(o)
    PROVE  RouterInv' /\ Final
<1>1. /\ entry \in [Requests -> Entry] /\ ops \subseteq SiteOp /\ o \in SiteOp
      /\ ops' = ops \ {o} /\ ops' \subseteq SiteOp /\ sites' \subseteq Origins
      /\ UNCHANGED <<calls, usable, forReq, made, unlocked, account, restoring, wallet, stops>>
  BY DEF SitesFailed, approvals, RouterInv, TypeOK
<1>2. CASE o.op = "revoke"
  <2>1. AnswerRevoked(o, "failed") /\ "failed" \in Outcomes \ {"none"}
    BY <1>2 DEF SitesFailed, Outcomes
  <2> QED
    BY <1>1, <1>2, <2>1, RevocationAnswered, SiteOpGoesOn
<1>3. CASE o.op # "revoke"
  <2>1. entry' = entry
    BY <1>3 DEF SitesFailed
  <2>2. \A q \in Requests : Moves(q)
    BY <2>1 DEF Moves
  <2> QED
    BY <1>1, <2>1, <2>2, SiteOpGoesOn
<1> QED
  BY <1>2, <1>3

-----------------------------------------------------------------------------
(* The promise queue.                                                        *)

(* A call that failed or is done leaves the queue, and its request is        *)
(* settled.                                                                  *)
LEMMA CallEnds ==
    ASSUME RouterInv, calls # <<>>, calls' = Tail(calls),
           entry' \in [Requests -> Entry], \A r \in Requests : Moves(r),
           \A r \in Requests : entry[r].st = "revoke" => entry'[r].st = "revoke",
           entry'[Head(calls).req].st # "asked",
           usable' \subseteq usable,
           UNCHANGED <<forReq, made, unlocked, account, storage, stops>>
    PROVE  RouterInv' /\ Final
<1> USE DEF RouterInv, storage
<1>1. calls \in Seq(Call) /\ Len(calls) \in Nat /\ Len(calls) >= 1
  BY DEF TypeOK
<1>2. calls' \in Seq(Call) /\ Len(calls') = Len(calls) - 1 /\ 1 \in 0..Len(calls)
  BY <1>1
<1>3. \A i \in 1..Len(calls') : calls'[i] = calls[i + 1]
  BY <1>1
<1>4. \A i \in 1..1 : entry'[calls[i].req].st # "asked"
  BY <1>1
<1>5. TypeOK /\ Consent /\ forReq' = forReq /\ made' = made
  OBVIOUS
<1>6. Consent' /\ Final
  BY ONLY <1>2, <1>3, <1>4, <1>5, QueueStep, RouterInv, entry' \in [Requests -> Entry],
     \A r \in Requests : Moves(r), usable' \subseteq usable
<1>7. TypeOK'
  BY <1>2 DEF TypeOK
<1>8. Revoking' /\ Granting'
  BY DEF TypeOK, SiteOp, Revoking, Granting, Moves
<1> QED
  BY <1>6, <1>7, <1>8

(* The three ways a call of the queue ends with its request settled.        *)
LEMMA CallEndsKeeps ==
    ASSUME RouterInv, PrepareFailed \/ ApproveDone \/ ApproveFailed
    PROVE  RouterInv' /\ Final
<1> DEFINE r == Head(calls).req
<1>1. /\ calls # <<>> /\ calls' = Tail(calls)
      /\ UNCHANGED <<forReq, made, unlocked, account, storage, stops>>
  BY DEF PrepareFailed, ApproveDone, ApproveFailed, HeadIs
<1>2. /\ calls \in Seq(Call) /\ Len(calls) \in Nat /\ Len(calls) >= 1
      /\ Head(calls) = calls[1] /\ calls[1] \in Call /\ entry \in [Requests -> Entry]
  BY <1>1 DEF RouterInv, TypeOK
<1>3. r \in Requests /\ CallSound(calls[1])
  BY <1>2 DEF Call, RouterInv, Consent, CallsSound
<1>4. {"ok", "failed"} \subseteq Outcomes \ {"none"}
  BY DEF Outcomes
<1>5. /\ entry' \in [Requests -> Entry] /\ entry'[r].st # "asked"
      /\ \A q \in Requests : entry[q].st # "asked" => entry'[q] = entry[q]
      /\ \A q \in Requests : Moves(q)
      /\ usable' \subseteq usable
  <2> HIDE DEF r
  <2>1. CASE PrepareFailed
    <3>1. Finish(r, "failed")
      BY <2>1 DEF PrepareFailed, r
    <3> QED
      BY <1>3, <1>4, <3>1, FinishMoves
  <2>2. CASE ApproveDone
    <3>1. Finish(r, "ok")
      BY <2>2 DEF ApproveDone, r
    <3>2. SignedFor(r) # {}
      BY <1>2, <1>3, <2>2 DEF ApproveDone, HeadIs, CallSound, r
    <3> QED
      BY <1>3, <1>4, <3>1, <3>2, FinishMoves
  <2>3. CASE ApproveFailed
    <3>1. CASE entry[r].st = "asked"
      <4>1. Answer(r, "failed") /\ usable' \subseteq usable
        BY <2>3, <3>1 DEF ApproveFailed, Answer, r
      <4> QED
        BY <1>2, <1>3, <1>4, <3>1, <4>1, AnswerMoves
    <3>2. CASE entry[r].st # "asked"
      <4>1. entry' = entry /\ usable' \subseteq usable
        BY <2>3, <3>2 DEF ApproveFailed, r
      <4> QED
        BY <1>2, <3>2, <4>1 DEF Moves
    <3> QED
      BY <3>1, <3>2
  <2> QED
    BY <2>1, <2>2, <2>3
<1> QED
  BY <1>1, <1>5, CallEnds

(* The wallet locks, unlocks, is restored, or an approval expires.           *)
LEMMA WalletKeeps ==
    ASSUME RouterInv,
           \/ Unlock \/ Lock \/ RestoreReplaced \/ RestoreRemoved \/ RestoreAdopted
           \/ RestoreFailed \/ \E a \in ApprovalIds : Expire(a)
    PROVE  RouterInv' /\ Final
<1>1. UNCHANGED <<entry, calls, forReq, made, ops, stops>> /\ usable' \subseteq usable
  BY DEF Unlock, Lock, RestoreReplaced, RestoreRemoved, RestoreAdopted, RestoreFailed, Expire,
         approvals, storage
<1>2. entry' \in [Requests -> Entry] /\ \A q \in Requests : Moves(q)
  BY <1>1 DEF RouterInv, TypeOK, Moves
<1>3. Consent' /\ Final
  BY <1>1, <1>2, SameQueue
<1>4. /\ unlocked' \in BOOLEAN /\ account' \in BOOLEAN /\ restoring' \in BOOLEAN
      /\ sites' \subseteq Origins
  BY Zenon DEF RouterInv, TypeOK, Unlock, Lock, RestoreReplaced, RestoreRemoved, RestoreAdopted,
         RestoreFailed, Expire, approvals, storage
<1>5. wallet' \in 0..MaxRestores
  BY RouterAssumption DEF RouterInv, TypeOK, Unlock, Lock, RestoreReplaced, RestoreRemoved, RestoreAdopted,
         RestoreFailed, Expire, approvals, storage
<1>6. TypeOK'
  BY <1>1, <1>2, <1>4, <1>5 DEF RouterInv, TypeOK
<1>7. Revoking' /\ Granting'
  BY <1>1 DEF RouterInv, Revoking, Granting
<1> QED
  BY <1>3, <1>6, <1>7 DEF RouterInv

(* The worker stops: nothing is pending any more.                           *)
LEMMA WorkerStoppedKeeps ==
    ASSUME RouterInv, WorkerStopped
    PROVE  RouterInv' /\ Final
<1>1. /\ entry \in [Requests -> Entry] /\ calls \in Seq(Call) /\ Len(calls) \in Nat
      /\ \A i \in 1..Len(calls) : calls[i].req \in Requests
  BY DEF RouterInv, TypeOK, Call
<1>0. \A r \in Requests : entry[r] \in Entry
  BY <1>1
<1>2. ASSUME NEW r \in Requests
      PROVE  entry'[r] \in Entry /\ Moves(r) /\ entry'[r].st # "asked"
  <2>1. CASE entry[r].st \in {"new", "done"}
    BY <1>1, <2>1 DEF WorkerStopped, Moves
  <2>2. CASE entry[r].st \notin {"new", "done"}
    <3> DEFINE f == Done(entry[r], "failed")
    <3>1. entry'[r] = f
      BY <2>2 DEF WorkerStopped
    <3>2. /\ f \in Entry /\ f.st = "done" /\ f.outcome = "failed" /\ f.method = entry[r].method
          /\ f.decision = entry[r].decision /\ f.approvalId = entry[r].approvalId
      BY <1>0 DEF Done, Entry, Outcomes
    <3>3. entry[r].outcome = "none"
      BY <2>2 DEF RouterInv, Consent, Answered
    <3> HIDE DEF f
    <3> QED
      BY <3>1, <3>2, <3>3 DEF Moves, Question
  <2> QED
    BY <2>1, <2>2
<1>3. entry' \in [Requests -> Entry]
  BY <1>2 DEF WorkerStopped
<1>4. /\ calls' = <<>> /\ calls' \in Seq(Call) /\ Len(calls') = Len(calls) - Len(calls)
      /\ Len(calls) \in 0..Len(calls) /\ usable' \subseteq usable /\ forReq' = forReq /\ made' = made
  BY <1>1 DEF WorkerStopped
<1>5. /\ \A i \in 1..Len(calls') : calls'[i] = calls[i + Len(calls)]
      /\ \A i \in 1..Len(calls) : entry'[calls[i].req].st # "asked"
  BY <1>1, <1>2, <1>4
<1>6. TypeOK /\ Consent /\ \A r \in Requests : Moves(r)
  BY <1>2 DEF RouterInv
<1>7. Consent' /\ Final
  BY ONLY <1>3, <1>4, <1>5, <1>6, QueueStep
<1>8. /\ unlocked' \in BOOLEAN /\ account' \in BOOLEAN /\ restoring' \in BOOLEAN
  BY Zenon DEF WorkerStopped, RouterInv, TypeOK
<1>9. /\ stops' \in 0..MaxStops /\ ops' = {} /\ wallet' = wallet /\ sites' = sites
  BY RouterAssumption DEF WorkerStopped, RouterInv, TypeOK
<1>10. TypeOK'
  BY <1>3, <1>4, <1>8, <1>9 DEF RouterInv, TypeOK
<1>11. Revoking' /\ Granting'
  BY <1>9 DEF Revoking, Granting
<1> QED
  BY <1>7, <1>10, <1>11 DEF RouterInv

(* A window asks for its transaction again.                                 *)
LEMMA DescribeKeeps ==
    ASSUME RouterInv, NEW r \in Requests, Describe(r)
    PROVE  RouterInv' /\ Final
<1> DEFINE c == [op |-> "prepare", req |-> r, id |-> None, at |-> "queued"]
<1>1. /\ calls \in Seq(Call) /\ Len(calls) \in Nat
      /\ UNCHANGED <<entry, usable, forReq, made, unlocked, account, sites, ops, restoring, wallet, stops>>
      /\ entry[r].st = "asked"
  BY DEF Describe, RouterInv, TypeOK, approvals, storage
<1>2. /\ c \in Call /\ c.op = "prepare" /\ c.req = r /\ c.id = None /\ c.at = "queued"
  BY DEF Call
<1>3. calls' = Append(calls, c)
  BY DEF Describe
<1> HIDE DEF c
<1>4. /\ calls' \in Seq(Call) /\ Len(calls') = Len(calls) + 1 /\ calls'[Len(calls) + 1] = c
      /\ \A i \in 1..Len(calls) : calls'[i] = calls[i]
  BY <1>1, <1>2, <1>3
<1>5. TypeOK'
  BY <1>1, <1>4 DEF RouterInv, TypeOK
<1>6. \A i \in 1..Len(calls') : i \in 1..Len(calls) \/ (i = Len(calls) + 1 /\ calls'[i] = c)
  BY <1>1, <1>4
<1>7. \A q \in Requests : SignedFor(q)' = SignedFor(q)
  BY <1>1 DEF SignedFor
<1>8. CallsSound'
  <2> SUFFICES ASSUME NEW i \in 1..Len(calls') PROVE CallSound(calls[i])'
    BY DEF CallsSound
  <2>1. CASE i \in 1..Len(calls)
    <3>1. CallSound(calls[i]) /\ calls'[i] = calls[i] /\ calls[i].req \in Requests
      BY <1>1, <1>4, <2>1 DEF RouterInv, Consent, CallsSound, Call
    <3> QED
      BY <1>1, <1>7, <3>1 DEF CallSound, Started
  <2>2. CASE calls'[i] = c
    BY <1>1, <1>2, <2>2 DEF CallSound, Started
  <2> QED
    BY <1>6, <2>1, <2>2
<1>9. OneApprove'
  BY <1>2, <1>4, <1>6 DEF RouterInv, Consent, OneApprove
<1>10. Awaiting'
  <2> SUFFICES ASSUME NEW q \in Requests, entry[q].st = "asked", entry[q].decision = "approve"
      PROVE  /\ entry[q].approvalId = None
             /\ \E i \in 1..Len(calls') :
                  /\ calls'[i].op = "approve" /\ calls'[i].req = q
                  /\ \A j \in 1..Len(calls') :
                       calls'[j].op = "prepare" /\ calls'[j].req = q => i < j
    BY <1>1 DEF Awaiting
  <2>1. PICK i \in 1..Len(calls) :
          /\ calls[i].op = "approve" /\ calls[i].req = q
          /\ \A j \in 1..Len(calls) : calls[j].op = "prepare" /\ calls[j].req = q => i < j
    BY DEF RouterInv, Consent, Awaiting
  <2>2. i \in 1..Len(calls') /\ calls'[i] = calls[i]
    BY <1>1, <1>4
  <2>3. ASSUME NEW j \in 1..Len(calls'), calls'[j].op = "prepare", calls'[j].req = q
        PROVE  i < j
    <3>1. CASE j \in 1..Len(calls)
      BY <1>4, <2>1, <2>3, <3>1
    <3>2. CASE j = Len(calls) + 1
      BY <1>1, <2>1, <3>2
    <3> QED
      BY <1>6, <3>1, <3>2
  <2>4. entry[q].approvalId = None
    BY DEF RouterInv, Consent, Awaiting
  <2> QED
    BY <2>1, <2>2, <2>3, <2>4
<1>11. NoForgottenApproval'
  BY <1>1, <1>4 DEF RouterInv, Consent, NoForgottenApproval
<1>12. Answered' /\ Questions' /\ Owned' /\ SignedWithConsent' /\ OkMeansSigned'
  BY <1>1, <1>7 DEF RouterInv, Consent, Answered, Questions, Owned, Started, SignedWithConsent,
                    OkMeansSigned
<1>13. Revoking' /\ Granting' /\ Final
  BY <1>1 DEF RouterInv, Revoking, Granting, Final
<1> QED
  BY <1>5, <1>8, <1>9, <1>10, <1>11, <1>12, <1>13 DEF RouterInv, Consent

(* The user's approval takes the place of the approval id: from here on the  *)
(* request waits for the controller.                                         *)
LEMMA ApprovedKeeps ==
    ASSUME RouterInv, NEW r \in Requests, NEW good \in BOOLEAN, ApprovedTransaction(r, good)
    PROVE  RouterInv' /\ Final
<1> DEFINE c == [op |-> "approve", req |-> r, id |-> entry[r].approvalId, good |-> good,
                 at |-> "queued"]
           f == [entry[r] EXCEPT !.approvalId = None, !.decision = "approve"]
<1>1. /\ calls \in Seq(Call) /\ Len(calls) \in Nat /\ entry \in [Requests -> Entry]
      /\ entry[r] \in Entry /\ entry[r].st = "asked" /\ entry[r].kind = "transaction"
      /\ Showing(r)
      /\ UNCHANGED <<usable, forReq, made, unlocked, account, sites, ops, restoring, wallet, stops>>
  BY DEF ApprovedTransaction, RouterInv, TypeOK, approvals, storage
<1>2. entry[r].approvalId \in ApprovalIds /\ forReq[entry[r].approvalId] = r
  BY <1>1 DEF Showing, Entry, RouterInv, Consent, Owned
<1>3. entry[r].decision = "none" /\ SignedFor(r) = {}
  <2>1. entry[r].decision # "approve"
    BY <1>1 DEF Showing, RouterInv, Consent, Awaiting
  <2> QED
    BY <1>1, <2>1 DEF Entry, RouterInv, Consent, SignedWithConsent
<1>4. /\ c \in Call /\ c.op = "approve" /\ c.req = r /\ c.id = entry[r].approvalId /\ c.at = "queued"
  BY <1>2 DEF Call
<1>5. /\ f \in Entry /\ f.st = "asked" /\ f.kind = entry[r].kind /\ f.method = entry[r].method
      /\ f.outcome = entry[r].outcome /\ f.approvalId = None /\ f.decision = "approve"
  BY <1>1 DEF Entry
<1>6. calls' = Append(calls, c) /\ entry' = [entry EXCEPT ![r] = f]
  BY <1>1 DEF ApprovedTransaction
<1> HIDE DEF c, f
<1>7. /\ calls' \in Seq(Call) /\ Len(calls') = Len(calls) + 1 /\ calls'[Len(calls) + 1] = c
      /\ \A i \in 1..Len(calls) : calls'[i] = calls[i]
  BY <1>1, <1>4, <1>6
<1>8. /\ entry' \in [Requests -> Entry] /\ entry'[r] = f
      /\ \A q \in Requests \ {r} : entry'[q] = entry[q]
  BY <1>1, <1>5, <1>6
<1>9. TypeOK'
  BY <1>1, <1>7, <1>8 DEF RouterInv, TypeOK
<1>10. \A i \in 1..Len(calls') : i \in 1..Len(calls) \/ (i = Len(calls) + 1 /\ calls'[i] = c)
  BY <1>1, <1>7
<1>11. /\ \A q \in Requests : SignedFor(q)' = SignedFor(q)
       /\ \A q \in Requests : Started(q)' <=> Started(q)
  BY <1>1, <1>5, <1>8 DEF SignedFor, Started
<1>12. \A i \in 1..Len(calls) :
          /\ CallSound(calls[i]) /\ calls'[i] = calls[i] /\ calls[i].req \in Requests
          /\ calls[i].op = "approve" => calls[i].req # r
  <2> SUFFICES ASSUME NEW i \in 1..Len(calls)
               PROVE  /\ CallSound(calls[i]) /\ calls'[i] = calls[i] /\ calls[i].req \in Requests
                      /\ calls[i].op = "approve" => calls[i].req # r
    OBVIOUS
  <2>1. CallSound(calls[i])
    BY DEF RouterInv, Consent, CallsSound
  <2>2. calls[i].req \in Requests
    BY <1>1 DEF Call
  <2> QED
    BY <1>3, <1>7, <2>1, <2>2 DEF CallSound
<1>13. CallsSound'
  <2> SUFFICES ASSUME NEW i \in 1..Len(calls') PROVE CallSound(calls[i])'
    BY DEF CallsSound
  <2>1. CASE i \in 1..Len(calls)
    <3>1. /\ CallSound(calls[i]) /\ calls'[i] = calls[i] /\ calls[i].req \in Requests
          /\ calls[i].op = "approve" => entry'[calls[i].req] = entry[calls[i].req]
      BY <1>8, <1>12, <2>1
    <3> QED
      BY <1>1, <1>11, <3>1 DEF CallSound
  <2>2. CASE calls'[i] = c
    BY <1>1, <1>2, <1>3, <1>4, <1>5, <1>8, <1>11, <2>2 DEF CallSound, Started
  <2> QED
    BY <1>10, <2>1, <2>2
<1>14. OneApprove'
  <2> SUFFICES ASSUME NEW i \in 1..Len(calls'), NEW j \in 1..Len(calls'),
                      calls'[i].op = "approve", calls'[j].op = "approve", calls'[i].req = calls'[j].req
               PROVE  i = j
    BY DEF OneApprove
  <2>1. CASE i \in 1..Len(calls) /\ j \in 1..Len(calls)
    BY <1>7, <2>1 DEF RouterInv, Consent, OneApprove
  <2>2. CASE i \in 1..Len(calls) /\ calls'[j] = c
    BY <1>4, <1>12, <2>2
  <2>3. CASE calls'[i] = c /\ j \in 1..Len(calls)
    BY <1>4, <1>12, <2>3
  <2> QED
    BY <1>10, <2>1, <2>2, <2>3
<1>15. Awaiting'
  <2> SUFFICES ASSUME NEW q \in Requests, entry'[q].st = "asked", entry'[q].decision = "approve"
      PROVE  /\ entry'[q].approvalId = None
             /\ \E i \in 1..Len(calls') :
                  /\ calls'[i].op = "approve" /\ calls'[i].req = q
                  /\ \A j \in 1..Len(calls') :
                       calls'[j].op = "prepare" /\ calls'[j].req = q => i < j
    BY DEF Awaiting
  <2>1. CASE q = r
    <3>1. ASSUME NEW j \in 1..Len(calls') PROVE ~(calls'[j].op = "prepare" /\ calls'[j].req = r)
      <4>1. CASE j \in 1..Len(calls)
        BY <1>1, <1>7, <4>1 DEF Showing
      <4>2. CASE calls'[j] = c
        BY <1>4, <4>2
      <4> QED
        BY <1>10, <4>1, <4>2
    <3>2. Len(calls) + 1 \in 1..Len(calls')
      BY <1>1, <1>7
    <3> QED
      BY <1>4, <1>5, <1>7, <1>8, <2>1, <3>1, <3>2
  <2>2. CASE q # r
    <3>1. entry'[q] = entry[q]
      BY <1>8, <2>2
    <3>2. PICK i \in 1..Len(calls) :
            /\ calls[i].op = "approve" /\ calls[i].req = q
            /\ \A j \in 1..Len(calls) : calls[j].op = "prepare" /\ calls[j].req = q => i < j
      BY <3>1 DEF RouterInv, Consent, Awaiting
    <3>3. i \in 1..Len(calls') /\ calls'[i] = calls[i]
      BY <1>1, <1>7
    <3>4. ASSUME NEW j \in 1..Len(calls'), calls'[j].op = "prepare", calls'[j].req = q
          PROVE  i < j
      BY <1>4, <1>7, <1>10, <3>2, <3>4
    <3>5. entry'[q].approvalId = None
      BY <3>1 DEF RouterInv, Consent, Awaiting
    <3> QED
      BY <3>2, <3>3, <3>4, <3>5
  <2> QED
    BY <2>1, <2>2
<1>16. NoForgottenApproval'
  <2> SUFFICES ASSUME NEW a \in usable, entry'[forReq[a]].st = "asked",
                      entry'[forReq[a]].approvalId # a
               PROVE  \E i \in 1..Len(calls') : calls'[i].id = a
    BY <1>1 DEF NoForgottenApproval
  <2>1. forReq[a] \in Requests
    BY DEF RouterInv, TypeOK, Consent, Owned
  <2>2. CASE forReq[a] = r /\ entry[r].approvalId = a
    <3>1. Len(calls) + 1 \in 1..Len(calls') /\ calls'[Len(calls) + 1].id = a
      BY <1>1, <1>4, <1>7, <2>2
    <3> QED
      BY <3>1
  <2>3. CASE ~(forReq[a] = r /\ entry[r].approvalId = a)
    <3>1. entry[forReq[a]].st = "asked" /\ entry[forReq[a]].approvalId # a
      BY <1>1, <1>8, <2>1, <2>3
    <3>2. PICK i \in 1..Len(calls) : calls[i].id = a
      BY <3>1 DEF RouterInv, Consent, NoForgottenApproval
    <3>3. i \in 1..Len(calls') /\ calls'[i] = calls[i]
      BY <1>1, <1>7
    <3> QED
      BY <3>2, <3>3
  <2> QED
    BY <2>2, <2>3
<1>17. Answered' /\ Final
  BY <1>1, <1>5, <1>8 DEF RouterInv, Consent, Answered, Final
<1>18. Questions'
  BY <1>1, <1>5, <1>8 DEF RouterInv, Consent, Questions, Question
<1>19. Owned'
  BY <1>1, <1>5, <1>8, <1>11 DEF RouterInv, Consent, Owned, TypeOK
<1>20. SignedWithConsent' /\ OkMeansSigned'
  BY <1>5, <1>8, <1>11 DEF RouterInv, Consent, SignedWithConsent, OkMeansSigned
<1>21. Revoking' /\ Granting'
  BY <1>1, <1>5, <1>8 DEF RouterInv, TypeOK, SiteOp, Revoking, Granting
<1> QED
  BY <1>9, <1>13, <1>14, <1>15, <1>16, <1>17, <1>18, <1>19, <1>20, <1>21 DEF RouterInv, Consent

(* The first call goes on; who waits for what stays the same.                *)
LEMMA HeadGoesOn ==
    ASSUME RouterInv, entry' = entry, Len(calls') = Len(calls),
           \A i \in 1..Len(calls) : calls'[i].op = calls[i].op /\ calls'[i].req = calls[i].req
    PROVE  Answered' /\ Questions' /\ OneApprove' /\ Awaiting' /\ Final
<1>1. Answered' /\ Questions' /\ Final
  BY DEF RouterInv, Consent, Answered, Questions, Final
<1>2. OneApprove'
  BY DEF RouterInv, Consent, OneApprove
<1>3. Awaiting'
  <2> SUFFICES ASSUME NEW r \in Requests, entry[r].st = "asked", entry[r].decision = "approve"
      PROVE  /\ entry[r].approvalId = None
             /\ \E i \in 1..Len(calls) :
                  /\ calls'[i].op = "approve" /\ calls'[i].req = r
                  /\ \A j \in 1..Len(calls) :
                       calls'[j].op = "prepare" /\ calls'[j].req = r => i < j
    BY DEF Awaiting
  <2> QED
    BY DEF RouterInv, Consent, Awaiting
<1> QED
  BY <1>1, <1>2, <1>3

(* The controller draws an approval that was not used before.               *)
LEMMA PlannedKeeps ==
    ASSUME RouterInv, NEW a \in ApprovalIds, Planned(a)
    PROVE  RouterInv' /\ Final
<1> DEFINE c == calls[1]
           n == [c EXCEPT !.id = a, !.at = "tokens"]
<1>1. /\ calls \in Seq(Call) /\ Len(calls) \in Nat /\ Len(calls) >= 1 /\ Head(calls) = c
      /\ c \in Call /\ c.op = "prepare" /\ c.at = "queued" /\ c.req \in Requests
      /\ forReq \in [ApprovalIds -> Requests \cup {None}] /\ forReq[a] = None
      /\ UNCHANGED <<entry, made, unlocked, account, sites, ops, restoring, wallet, stops>>
  BY DEF Planned, HeadIs, RouterInv, TypeOK, storage, Call
<1>2. /\ n \in Call /\ n.op = "prepare" /\ n.req = c.req /\ n.id = a /\ n.at = "tokens"
  BY <1>1 DEF Call
<1>3. calls' = [calls EXCEPT ![1] = n]
  BY <1>1 DEF Planned
<1>4. forReq' = [forReq EXCEPT ![a] = c.req] /\ usable' = usable \cup {a}
  BY <1>1 DEF Planned
<1> HIDE DEF n
<1>5. /\ calls' \in Seq(Call) /\ Len(calls') = Len(calls) /\ calls'[1] = n
      /\ \A i \in 1..Len(calls) : i # 1 => calls'[i] = calls[i]
  BY <1>1, <1>2, <1>3
<1>6. /\ forReq' \in [ApprovalIds -> Requests \cup {None}] /\ forReq'[a] = c.req
      /\ \A b \in ApprovalIds \ {a} : forReq'[b] = forReq[b]
  BY <1>1, <1>4
<1>7. TypeOK'
  BY <1>1, <1>4, <1>5, <1>6 DEF RouterInv, TypeOK
<1>8. Answered' /\ Questions' /\ OneApprove' /\ Awaiting' /\ Final
  <2>1. \A i \in 1..Len(calls) : calls'[i].op = calls[i].op /\ calls'[i].req = calls[i].req
    BY <1>1, <1>2, <1>5
  <2> QED
    BY <1>1, <1>5, <2>1, HeadGoesOn
<1>9. a # None /\ c.req # None /\ CallSound(c)
  BY <1>1, RouterAssumption DEF RouterInv, Consent, CallsSound
<1>10. \A q \in Requests : SignedFor(q)' = SignedFor(q)
  <2>1. \A i \in 1..Len(made) : made[i] \in ApprovalIds /\ made[i] # a
    BY <1>1 DEF RouterInv, TypeOK, Consent, Owned
  <2> QED
    BY <1>1, <1>6, <2>1 DEF SignedFor
<1>11. CallsSound'
  <2> SUFFICES ASSUME NEW i \in 1..Len(calls) PROVE CallSound(calls[i])'
    BY <1>5 DEF CallsSound
  <2>1. CASE i = 1
    BY <1>1, <1>2, <1>5, <1>6, <1>9, <2>1 DEF CallSound, Started
  <2>2. CASE i # 1
    <3>1. CallSound(calls[i]) /\ calls'[i] = calls[i] /\ calls[i].req \in Requests /\ calls[i] \in Call
      BY <1>1, <1>5, <2>2 DEF RouterInv, Consent, CallsSound, Call
    <3>2. calls[i].id = a => forReq[a] = calls[i].req
      BY <1>9, NamedApproval DEF RouterInv, Consent
    <3>3. calls[i].id # a
      BY <1>1, <3>1, <3>2, RouterAssumption
    <3> QED
      BY <1>1, <1>6, <1>10, <3>1, <3>3 DEF CallSound, Started, Call
  <2> QED
    BY <2>1, <2>2
<1>12. Owned'
  <2>1. \A q \in Requests : entry[q].approvalId # None => forReq'[entry[q].approvalId] = q
    <3> SUFFICES ASSUME NEW q \in Requests, entry[q].approvalId # None
                 PROVE  forReq'[entry[q].approvalId] = q
      OBVIOUS
    <3>1. entry[q].approvalId \in ApprovalIds
      BY DEF RouterInv, TypeOK, Entry
    <3>2. forReq[entry[q].approvalId] = q /\ q # None
      BY RouterAssumption DEF RouterInv, Consent, Owned
    <3> QED
      BY <1>1, <1>6, <3>1, <3>2
  <2>2. \A b \in ApprovalIds : forReq'[b] # None => entry[forReq'[b]].st \notin {"new", "check"}
    BY <1>1, <1>6, <1>9 DEF RouterInv, Consent, Owned, CallSound, Started
  <2>3. \A b \in usable' : forReq'[b] # None
    BY <1>4, <1>6, <1>9 DEF RouterInv, TypeOK, Consent, Owned
  <2>4. \A i \in 1..Len(made) : forReq'[made[i]] # None
    <3> SUFFICES ASSUME NEW i \in 1..Len(made) PROVE forReq'[made[i]] # None
      OBVIOUS
    <3>1. made[i] \in ApprovalIds /\ forReq[made[i]] # None
      BY DEF RouterInv, TypeOK, Consent, Owned
    <3> QED
      BY <1>1, <1>6, <3>1
  <2> QED
    BY <1>1, <2>1, <2>2, <2>3, <2>4 DEF Owned, Started
<1>13. NoForgottenApproval'
  <2> SUFFICES ASSUME NEW b \in usable', entry[forReq'[b]].st = "asked",
                      entry[forReq'[b]].approvalId # b
               PROVE  \E i \in 1..Len(calls) : calls'[i].id = b
    BY <1>1, <1>5 DEF NoForgottenApproval
  <2>1. CASE b = a
    BY <1>1, <1>2, <1>5, <2>1
  <2>2. CASE b # a
    <3>1. b \in usable /\ forReq'[b] = forReq[b] /\ b \in ApprovalIds /\ b # None
      BY <1>4, <1>6, <2>2, RouterAssumption DEF RouterInv, TypeOK
    <3>2. PICK i \in 1..Len(calls) : calls[i].id = b
      BY <3>1 DEF RouterInv, Consent, NoForgottenApproval
    <3>3. i # 1
      BY <1>1, <1>9, <3>1, <3>2 DEF CallSound
    <3> QED
      BY <1>5, <3>2, <3>3
  <2> QED
    BY <2>1, <2>2
<1>14. SignedWithConsent' /\ OkMeansSigned'
  BY <1>1, <1>10 DEF RouterInv, Consent, SignedWithConsent, OkMeansSigned
<1>15. Revoking' /\ Granting'
  BY <1>1 DEF RouterInv, Revoking, Granting
<1> QED
  BY <1>7, <1>8, <1>11, <1>12, <1>13, <1>14, <1>15 DEF RouterInv, Consent

(* The new approval takes the place of the one an earlier describe left.     *)
LEMMA PreparedKeeps ==
    ASSUME RouterInv, Prepared
    PROVE  RouterInv' /\ Final
<1> DEFINE c == calls[1]
           r == c.req
           f == [entry[r] EXCEPT !.approvalId = c.id]
<1>1. /\ calls \in Seq(Call) /\ Len(calls) \in Nat /\ Len(calls) >= 1 /\ Head(calls) = c
      /\ c \in Call /\ c.op = "prepare" /\ c.at = "tokens" /\ r \in Requests
      /\ entry \in [Requests -> Entry] /\ entry[r] \in Entry
      /\ UNCHANGED <<forReq, made, unlocked, account, sites, ops, restoring, wallet, stops>>
  BY DEF Prepared, HeadIs, RouterInv, TypeOK, storage, Call
<1>2. CallSound(c)
  BY <1>1 DEF RouterInv, Consent, CallsSound
<1>3. c.id \in ApprovalIds /\ forReq[c.id] = r /\ entry[r].st \notin {"new", "check"}
  BY <1>1, <1>2 DEF CallSound, Started
<1>4. /\ f \in Entry /\ f.st = entry[r].st /\ f.kind = entry[r].kind /\ f.method = entry[r].method
      /\ f.outcome = entry[r].outcome /\ f.decision = entry[r].decision /\ f.approvalId = c.id
  BY <1>1, <1>3 DEF Entry
<1>5. /\ calls' = Tail(calls) /\ entry' = [entry EXCEPT ![r] = f]
      /\ usable' = usable \ {entry[r].approvalId}
  BY <1>1 DEF Prepared, Superseded
<1> HIDE DEF f
<1>6. /\ calls' \in Seq(Call) /\ Len(calls') = Len(calls) - 1
      /\ \A i \in 1..Len(calls') : calls'[i] = calls[i + 1] /\ i + 1 \in 1..Len(calls)
  BY <1>1, <1>5
<1>7. \A i \in 1..Len(calls) : i # 1 => i - 1 \in 1..Len(calls') /\ calls'[i - 1] = calls[i]
  BY <1>1, <1>5
<1>8. /\ entry' \in [Requests -> Entry] /\ entry'[r] = f
      /\ \A q \in Requests \ {r} : entry'[q] = entry[q]
  BY <1>1, <1>4, <1>5
<1>9. \A q \in Requests : /\ entry'[q].st = entry[q].st /\ entry'[q].decision = entry[q].decision
                          /\ entry'[q].kind = entry[q].kind /\ entry'[q].method = entry[q].method
                          /\ entry'[q].outcome = entry[q].outcome
  BY <1>4, <1>8
<1>10. \A q \in Requests : SignedFor(q)' = SignedFor(q)
  BY <1>1 DEF SignedFor
<1>11. TypeOK'
  BY <1>1, <1>5, <1>6, <1>8 DEF RouterInv, TypeOK
<1>12. Answered' /\ Final /\ SignedWithConsent' /\ OkMeansSigned'
  BY <1>9, <1>10 DEF RouterInv, Consent, Answered, Final, SignedWithConsent, OkMeansSigned
<1>13. Questions'
  BY <1>3, <1>8, <1>9 DEF RouterInv, Consent, Questions, Question
<1>14. CallsSound'
  <2> SUFFICES ASSUME NEW i \in 1..Len(calls') PROVE CallSound(calls[i])'
    BY DEF CallsSound
  <2>1. CallSound(calls[i + 1]) /\ calls'[i] = calls[i + 1] /\ calls[i + 1].req \in Requests
    <3>1. calls'[i] = calls[i + 1] /\ i + 1 \in 1..Len(calls)
      BY <1>6
    <3> QED
      BY <1>1, <3>1 DEF RouterInv, Consent, CallsSound, Call
  <2> QED
    BY <1>1, <1>9, <1>10, <2>1 DEF CallSound, Started
<1>15. OneApprove'
  <2> SUFFICES ASSUME NEW i \in 1..Len(calls'), NEW j \in 1..Len(calls'),
                      calls'[i].op = "approve", calls'[j].op = "approve", calls'[i].req = calls'[j].req
               PROVE  i = j
    BY DEF OneApprove
  <2>1. /\ calls'[i] = calls[i + 1] /\ i + 1 \in 1..Len(calls)
        /\ calls'[j] = calls[j + 1] /\ j + 1 \in 1..Len(calls)
    BY <1>6
  <2>2. i + 1 = j + 1
    BY <2>1 DEF RouterInv, Consent, OneApprove
  <2> QED
    BY <1>6, <2>2
<1>16. Awaiting'
  <2> SUFFICES ASSUME NEW q \in Requests, entry'[q].st = "asked", entry'[q].decision = "approve"
      PROVE  /\ entry'[q].approvalId = None
             /\ \E i \in 1..Len(calls') :
                  /\ calls'[i].op = "approve" /\ calls'[i].req = q
                  /\ \A j \in 1..Len(calls') :
                       calls'[j].op = "prepare" /\ calls'[j].req = q => i < j
    BY DEF Awaiting
  <2>1. entry[q].st = "asked" /\ entry[q].decision = "approve"
    BY <1>9
  <2>2. PICK i \in 1..Len(calls) :
          /\ calls[i].op = "approve" /\ calls[i].req = q
          /\ \A j \in 1..Len(calls) : calls[j].op = "prepare" /\ calls[j].req = q => i < j
    BY <2>1 DEF RouterInv, Consent, Awaiting
  <2>3. i # 1
    BY <1>1, <2>2
  <2>4. q # r
    BY <1>1, <2>2
  <2>5. entry'[q].approvalId = None
    BY <1>8, <2>1, <2>4 DEF RouterInv, Consent, Awaiting
  <2>6. i - 1 \in 1..Len(calls') /\ calls'[i - 1] = calls[i]
    BY <1>7, <2>3
  <2>7. ASSUME NEW j \in 1..Len(calls'), calls'[j].op = "prepare", calls'[j].req = q
        PROVE  i - 1 < j
    <3>1. calls'[j] = calls[j + 1] /\ j + 1 \in 1..Len(calls)
      BY <1>6
    <3>2. i < j + 1
      BY <2>2, <2>7, <3>1
    <3> QED
      BY <1>6, <3>2
  <2> QED
    BY <2>2, <2>5, <2>6, <2>7
<1>17. Owned'
  <2>1. \A q \in Requests : entry'[q].approvalId # None => forReq[entry'[q].approvalId] = q
    BY <1>3, <1>4, <1>8 DEF RouterInv, Consent, Owned
  <2> QED
    BY <1>1, <1>5, <1>9, <2>1 DEF RouterInv, TypeOK, Consent, Owned, Started
<1>18. NoForgottenApproval'
  <2> SUFFICES ASSUME NEW a \in usable', entry'[forReq[a]].st = "asked",
                      entry'[forReq[a]].approvalId # a
               PROVE  \E i \in 1..Len(calls') : calls'[i].id = a
    BY <1>1 DEF NoForgottenApproval
  <2>1. a \in usable /\ a # entry[r].approvalId /\ a \in ApprovalIds /\ forReq[a] \in Requests
    BY <1>1, <1>5 DEF RouterInv, TypeOK, Consent, Owned
  <2>2. a # c.id
    BY <1>3, <1>4, <1>8
  <2>3. entry[forReq[a]].st = "asked" /\ entry[forReq[a]].approvalId # a
    BY <1>8, <1>9, <2>1
  <2>4. PICK i \in 1..Len(calls) : calls[i].id = a
    BY <2>1, <2>3 DEF RouterInv, Consent, NoForgottenApproval
  <2>5. i # 1
    BY <2>2, <2>4
  <2> QED
    BY <1>7, <2>4, <2>5
<1>19. Revoking' /\ Granting'
  BY <1>1, <1>9 DEF RouterInv, TypeOK, SiteOp, Revoking, Granting
<1> QED
  BY <1>11, <1>12, <1>13, <1>14, <1>15, <1>16, <1>17, <1>18, <1>19 DEF RouterInv, Consent

(* The one signature of a request.                                           *)
LEMMA SignedKeeps ==
    ASSUME RouterInv, Signed
    PROVE  RouterInv' /\ Final
<1> DEFINE c == calls[1]
           n == [c EXCEPT !.at = "broadcast"]
<1>1. /\ calls \in Seq(Call) /\ Len(calls) \in Nat /\ Len(calls) >= 1 /\ Head(calls) = c
      /\ c \in Call /\ c.op = "approve" /\ c.at = "queued" /\ c.req \in Requests
      /\ c.id \in ApprovalIds /\ made \in Seq(ApprovalIds) /\ Len(made) \in Nat
      /\ UNCHANGED <<entry, forReq, unlocked, account, sites, ops, restoring, wallet, stops>>
      /\ usable' \subseteq usable
  BY DEF Signed, HeadIs, RouterInv, TypeOK, storage, Call
<1>0. PICK r \in Requests : r = c.req
  BY <1>1
<1>2. CallSound(c)
  BY <1>1 DEF RouterInv, Consent, CallsSound
<1>3. /\ forReq[c.id] = r /\ entry[r].decision = "approve" /\ SignedFor(r) = {} /\ r # None
  BY <1>0, <1>1, <1>2, RouterAssumption DEF CallSound
<1>4. /\ n \in Call /\ n.op = "approve" /\ n.req = r /\ n.id = c.id /\ n.at = "broadcast"
  BY <1>0, <1>1 DEF Call
<1>5. calls' = [calls EXCEPT ![1] = n] /\ made' = Append(made, c.id)
  BY <1>1 DEF Signed
<1> HIDE DEF n
<1>6. /\ calls' \in Seq(Call) /\ Len(calls') = Len(calls) /\ calls'[1] = n
      /\ \A i \in 1..Len(calls) : i # 1 => calls'[i] = calls[i]
  BY <1>1, <1>4, <1>5
<1>7. /\ made' \in Seq(ApprovalIds) /\ Len(made') = Len(made) + 1 /\ made'[Len(made) + 1] = c.id
      /\ \A i \in 1..Len(made) : made'[i] = made[i]
  BY <1>1, <1>5
<1>8. TypeOK'
  BY <1>1, <1>6, <1>7 DEF RouterInv, TypeOK
<1>9. \A i \in 1..Len(calls) : calls'[i].op = calls[i].op /\ calls'[i].req = calls[i].req
  BY <1>0, <1>1, <1>4, <1>6
<1>10. Answered' /\ Questions' /\ OneApprove' /\ Awaiting' /\ Final
  BY <1>1, <1>6, <1>9, HeadGoesOn
<1>11. SignedFor(r)' = {Len(made) + 1}
  <2>1. SignedFor(r)' = {i \in 1..Len(made') : forReq[made'[i]] = r}
    BY <1>1 DEF SignedFor
  <2>2. \A i \in 1..Len(made) : forReq[made'[i]] # r
    BY <1>3, <1>7 DEF SignedFor
  <2>3. Len(made) + 1 \in 1..Len(made') /\ forReq[made'[Len(made) + 1]] = r
    BY <1>1, <1>3, <1>7
  <2>4. \A i \in 1..Len(made') : i \in 1..Len(made) \/ i = Len(made) + 1
    BY <1>1, <1>7
  <2> QED
    BY <2>1, <2>2, <2>3, <2>4
<1>12. \A q \in Requests \ {r} : SignedFor(q)' = SignedFor(q)
  BY <1>1, <1>3, <1>7 DEF SignedFor
<1>13. CallsSound'
  <2> SUFFICES ASSUME NEW i \in 1..Len(calls) PROVE CallSound(calls[i])'
    BY <1>6 DEF CallsSound
  <2>1. CASE i = 1
    <3>1. SignedFor(r)' # {}
      BY <1>11
    <3> QED
      BY <1>0, <1>1, <1>2, <1>3, <1>4, <1>6, <2>1, <3>1 DEF CallSound, Started
  <2>2. CASE i # 1
    <3>1. CallSound(calls[i]) /\ calls'[i] = calls[i] /\ calls[i].req \in Requests
      BY <1>1, <1>6, <2>2 DEF RouterInv, Consent, CallsSound, Call
    <3>2. calls[i].op = "approve" => calls[i].req # r
      BY <1>0, <1>1, <2>2 DEF RouterInv, Consent, OneApprove
    <3> QED
      BY <1>1, <1>12, <3>1, <3>2 DEF CallSound, Started
  <2> QED
    BY <2>1, <2>2
<1>14. SignedWithConsent' /\ OkMeansSigned'
  <2>1. Cardinality({Len(made) + 1}) = 1
    BY FS_Singleton
  <2>2. Cardinality(SignedFor(r)') = 1 /\ SignedFor(r)' # {}
    BY <1>11, <2>1
  <2>3. SignedWithConsent'
    BY <1>1, <1>3, <1>12, <2>2 DEF RouterInv, Consent, SignedWithConsent
  <2>4. OkMeansSigned'
    BY <1>1, <1>12, <2>2 DEF RouterInv, Consent, OkMeansSigned
  <2> QED
    BY <2>3, <2>4
<1>15. Owned'
  <2>1. \A i \in 1..Len(made') : forReq[made'[i]] # None
    BY <1>1, <1>3, <1>7 DEF RouterInv, Consent, Owned
  <2> QED
    BY <1>1, <2>1 DEF RouterInv, Consent, Owned, Started
<1>16. NoForgottenApproval'
  <2>1. \A i \in 1..Len(calls) : calls'[i].id = calls[i].id
    BY <1>1, <1>4, <1>6
  <2> QED
    BY <1>1, <1>6, <2>1 DEF RouterInv, Consent, NoForgottenApproval
<1>17. Revoking' /\ Granting'
  BY <1>1 DEF RouterInv, Revoking, Granting
<1> QED
  BY <1>8, <1>10, <1>13, <1>14, <1>15, <1>16, <1>17 DEF RouterInv, Consent

-----------------------------------------------------------------------------
(* Nothing has been asked.                                                  *)
LEMMA RouterInit == Init => RouterInv
<1> SUFFICES ASSUME Init PROVE RouterInv
  OBVIOUS
<1>1. PICK s \in Scenarios :
         entry = [r \in Requests |->
                    [st |-> "new", origin |-> s[r].origin, method |-> s[r].method, kind |-> "unlock",
                     window |-> "gone", approvalId |-> None, decision |-> "none", outcome |-> "none"]]
  BY DEF Init
<1>2. \A r \in Requests : s[r].origin \in Origins /\ s[r].method \in AllMethods
  BY RouterAssumption
<1>3. /\ entry \in [Requests -> Entry]
      /\ \A r \in Requests : /\ entry[r].st = "new" /\ entry[r].approvalId = None
                             /\ entry[r].decision = "none" /\ entry[r].outcome = "none"
  BY <1>1, <1>2 DEF Entry, AllMethods, Outcomes
<1>4. /\ calls = <<>> /\ usable = {} /\ made = <<>> /\ ops = {}
      /\ forReq = [a \in ApprovalIds |-> None] /\ sites \subseteq Origins
      /\ wallet = 0 /\ stops = 0
  BY DEF Init
<1>5. unlocked \in BOOLEAN /\ account \in BOOLEAN /\ restoring \in BOOLEAN
  BY Zenon DEF Init
<1>6. TypeOK
  BY <1>3, <1>4, <1>5, RouterAssumption DEF TypeOK
<1>7. \A r \in Requests : SignedFor(r) = {}
  BY <1>4 DEF SignedFor
<1>8. Consent
  BY <1>3, <1>4, <1>7 DEF Consent, Answered, Questions, Question, CallsSound, OneApprove, Awaiting,
                          Owned, SignedWithConsent, OkMeansSigned, NoForgottenApproval
<1>9. Revoking /\ Granting
  BY <1>4 DEF Revoking, Granting
<1> QED
  BY <1>6, <1>8, <1>9 DEF RouterInv

(* Each step keeps the invariant and every answer.                          *)
LEMMA RouterStep == RouterInv /\ [Next]_vars => RouterInv' /\ Final
<1> SUFFICES ASSUME RouterInv, [Next]_vars PROVE RouterInv' /\ Final
  OBVIOUS
<1>1. ASSUME NEW r \in Requests,
             \/ Arrive(r) \/ Progress(r) \/ Describe(r) \/ Declined(r)
             \/ WindowOpened(r) \/ WindowClosedEarly(r) \/ WindowFailed(r) \/ WindowClosed(r)
             \/ ApprovedConnect(r) \/ ApprovedUnlock(r)
             \/ \E good \in BOOLEAN : ApprovedTransaction(r, good)
      PROVE  RouterInv' /\ Final
  BY <1>1, ArriveKeeps, CheckedKeeps, SettlingKeeps, WindowKeeps, DescribeKeeps, BeginKeeps,
     UnlockedKeeps, ApprovedKeeps DEF Progress
<1>2. ASSUME NEW a \in ApprovalIds, Planned(a) \/ Expire(a)
      PROVE  RouterInv' /\ Final
  BY <1>2, PlannedKeeps, WalletKeeps
<1>3. CASE Prepared \/ PrepareFailed \/ Signed \/ ApproveDone \/ ApproveFailed
  BY <1>3, PreparedKeeps, SignedKeeps, CallEndsKeeps
<1>4. ASSUME NEW r \in Requests \cup {None}, StorageStep(r)
      PROVE  RouterInv' /\ Final
  BY <1>4, SitesReadKeeps, SitesWrittenKeeps, SitesFailedKeeps DEF StorageStep
<1>5. ASSUME NEW o \in Origins, RevokeSite(o)
      PROVE  RouterInv' /\ Final
  BY <1>5, BeginKeeps
<1>6. CASE \/ Unlock \/ Lock \/ WorkerStopped
           \/ RestoreReplaced \/ RestoreRemoved \/ RestoreAdopted \/ RestoreFailed
  BY <1>6, WalletKeeps, WorkerStoppedKeeps
<1>7. CASE UNCHANGED vars
  <2>1. /\ UNCHANGED <<entry, calls, usable, forReq, made, unlocked, account, sites, ops>>
        /\ UNCHANGED <<restoring, wallet, stops>>
    BY <1>7 DEF vars
  <2>2. entry' \in [Requests -> Entry] /\ \A r \in Requests : Moves(r)
    BY <2>1 DEF RouterInv, TypeOK, Moves
  <2> QED
    BY <2>1, <2>2, EntriesMove DEF storage
<1> QED
  BY <1>1, <1>2, <1>3, <1>4, <1>5, <1>6, <1>7 DEF Next

(* The invariant holds in every behaviour.                                  *)
LEMMA RouterInvariant == Spec => []RouterInv
<1>1. RouterInv /\ [Next]_vars => RouterInv'
  BY RouterStep
<1> QED
  BY <1>1, RouterInit, PTL DEF Spec

(* Every variable keeps its type.                                            *)
THEOREM TypeCorrect == Spec => []TypeOK
<1>1. RouterInv => TypeOK
  BY DEF RouterInv
<1> QED
  BY <1>1, RouterInvariant, PTL

(* Nothing is signed but under an approval prepared for a request that the   *)
(* user approved, and once at most, whatever windows, timers, decisions and  *)
(* describes race for the request (provider-router.ts).                      *)
THEOREM SignedWithConsentHolds == Spec => []SignedWithConsent
<1>1. RouterInv => SignedWithConsent
  BY DEF RouterInv, Consent
<1> QED
  BY <1>1, RouterInvariant, PTL

(* A page is never told of a transaction that was not signed.                *)
THEOREM OkMeansSignedHolds == Spec => []OkMeansSigned
<1>1. RouterInv => OkMeansSigned
  BY DEF RouterInv, Consent
<1> QED
  BY <1>1, RouterInvariant, PTL

(* The router knows of every approval the controller would accept for a      *)
(* pending request: the one it holds or one in a running call.               *)
THEOREM NoForgottenApprovalHolds == Spec => []NoForgottenApproval
<1>1. RouterInv => NoForgottenApproval
  BY DEF RouterInv, Consent
<1> QED
  BY <1>1, RouterInvariant, PTL

(* A page gets one answer.                                                   *)
THEOREM AnswerFinalHolds == Spec => AnswerFinal
<1>1. RouterInv /\ [Next]_vars => [Final]_vars
  BY RouterStep
<1> QED
  BY <1>1, RouterInvariant, PTL DEF Spec, AnswerFinal, Final
=============================================================================
