----------------------- MODULE WalletControllerProofs -----------------------
(***************************************************************************)
(* Proofs about WalletController, for every set of sessions, approval ids, *)
(* origins and requests and every value of the timeouts and limits.        *)
(***************************************************************************)
EXTENDS WalletController, FiniteSetTheorems, TLAPS

(* What the request held by a handler is, at the steps that read its fields. *)
JobShape ==
    /\ job.at = "plan" => job.req.kind = "prepare"
    /\ job.at \in {"broadcast", "split", "issuance"} => job.req.kind = "approve"
    /\ job.at \in {"settings", "clear"} => job.req.kind = "settings"

TInv == TypeOK /\ JobShape

(* d is c after time has passed and approvals were withdrawn: the same       *)
(* session with no new approval, or locked.                                  *)
Narrows(c, d) ==
    \/ d.session = c.session /\ d.live = c.live /\ d.pending \subseteq c.pending
    \/ d.session = NoSession /\ d.live = c.live \ {c.session} /\ d.pending = {}

-----------------------------------------------------------------------------
(* A request of each kind carries the fields its handler reads.              *)
LEMMA RequestFields ==
    ASSUME NEW r \in Request
    PROVE  /\ r.kind = "settings" /\ r.changed = "timer" => r.autoLock \in AutoLockChoices
           /\ r.kind = "prepare" => r.origin \in Origins /\ r.op \in Ops
           /\ r.kind = "approve" => r.id \in ApprovalIds
           /\ r.kind = "reject" => r.id \in ApprovalIds
BY DEF Request

(* Lock, Touch and Adopt produce well-formed controller states.              *)
LEMMA LockFacts ==
    ASSUME NEW c \in Control
    PROVE  /\ Lock(c) \in Control
           /\ Lock(c).session = NoSession
           /\ Lock(c).live = c.live \ {c.session}
           /\ Lock(c).pending = {}
           /\ Lock(c).timer = NoTimer
BY DEF Lock, Control

(* #touch stays within the type and moves only the deadline.                 *)
LEMMA TouchFacts ==
    ASSUME TypeOK, NEW c \in Control
    PROVE  /\ Touch(c) \in Control
           /\ Touch(c).session = c.session
           /\ Touch(c).live = c.live
           /\ Touch(c).pending = c.pending
           /\ Touch(c).autoLock = c.autoLock
           /\ Touch(c).timer = Touch(c).lastActivity + c.autoLock
<1>1. now \in Nat /\ c.autoLock \in Nat
  BY ConstantsAssumption DEF ConstantsAssumption, TypeOK, Control
<1>2. now + c.autoLock \in Nat
  BY <1>1
<1> QED BY <1>1, <1>2 DEF Touch, Control

(* The guarded #touch stays within the type.                                 *)
LEMMA TouchIfUnlockedFacts ==
    ASSUME TypeOK, NEW c \in Control
    PROVE  /\ TouchIfUnlocked(c) \in Control
           /\ TouchIfUnlocked(c).session = c.session
           /\ TouchIfUnlocked(c).live = c.live
           /\ TouchIfUnlocked(c).pending = c.pending
           /\ TouchIfUnlocked(c).autoLock = c.autoLock
           /\ c.session # NoSession =>
                TouchIfUnlocked(c).timer = TouchIfUnlocked(c).lastActivity + c.autoLock
BY TouchFacts DEF TouchIfUnlocked

(* #adopt stays within the type for any session.                             *)
LEMMA AdoptFacts ==
    ASSUME TypeOK, NEW c \in Control, NEW s \in Sessions \cup {NoSession}
    PROVE  /\ Adopt(c, s) \in Control
           /\ Adopt(c, s).session = s
           /\ Adopt(c, s).live = c.live
           /\ Adopt(c, s).pending = c.pending
           /\ Adopt(c, s).autoLock = stored
           /\ Adopt(c, s).timer = Adopt(c, s).lastActivity + Adopt(c, s).autoLock
<1> DEFINE d == [c EXCEPT !.session = s, !.autoLock = stored]
<1>1. d \in Control /\ d.session = s /\ d.live = c.live /\ d.pending = c.pending
      /\ d.autoLock = stored
  BY DEF Control, TypeOK
<1> QED BY <1>1, TouchFacts DEF Adopt

(* ExpireIfIdle locks or changes nothing; Sweep also drops old approvals.    *)
LEMMA ExpireIfIdleFacts ==
    ASSUME NEW c \in Control
    PROVE  /\ ExpireIfIdle(c) \in Control
           /\ ExpireIfIdle(c) = c \/ ExpireIfIdle(c) = Lock(c)
           /\ Narrows(c, ExpireIfIdle(c))
BY LockFacts DEF ExpireIfIdle, Narrows, Control

(* Dropping expired approvals only shrinks the map.                          *)
LEMMA ExpireApprovalsFacts ==
    ASSUME NEW c \in Control
    PROVE  /\ ExpireApprovals(c) \in Control
           /\ ExpireApprovals(c).session = c.session
           /\ ExpireApprovals(c).live = c.live
           /\ ExpireApprovals(c).pending \subseteq c.pending
           /\ ExpireApprovals(c).lastActivity = c.lastActivity
           /\ ExpireApprovals(c).autoLock = c.autoLock
           /\ ExpireApprovals(c).timer = c.timer
BY DEF ExpireApprovals, Control

(* The sweep before each message only narrows the controller.                *)
LEMMA SweepFacts ==
    ASSUME NEW c \in Control
    PROVE  Sweep(c) \in Control /\ Narrows(c, Sweep(c))
BY ExpireIfIdleFacts, ExpireApprovalsFacts DEF Sweep, Narrows

(* The head of the queue and what is left of it.                             *)
LEMMA DequeueFacts ==
    ASSUME TypeOK, NEW kinds, Dequeue(kinds)
    PROVE  /\ job.at = "idle"
           /\ Head(queue) \in Request
           /\ Head(queue).kind \in kinds
           /\ queue' = Tail(queue)
           /\ queue' \in Seq(Request)
BY DEF Dequeue, TypeOK

(* The idle handler, and any waiting one, has the type of a handler.         *)
LEMMA JobFacts ==
    /\ IdleJob \in Job
    /\ \A at \in Steps, r \in Request, s \in Sessions \cup {NoSession} :
          [at |-> at, req |-> r, sess |-> s] \in Job
<1>1. [kind |-> "touch"] \in Request
  BY DEF Request
<1> QED BY <1>1 DEF IdleJob, Job, Steps

(* A signature keeps the log well formed.                                    *)
LEMMA SignatureLogged ==
    ASSUME TypeOK, NEW a \in ApprovalIds, NEW what \in {"tx", "offer"}
    PROVE  Append(made, <<a, what>>) \in Seq(ApprovalIds \X {"tx", "offer"})
<1>1. <<a, what>> \in ApprovalIds \X {"tx", "offer"}
  OBVIOUS
<1> QED BY <1>1 DEF TypeOK

-----------------------------------------------------------------------------
(* The initial state is well typed.                                          *)
LEMMA TypeInit == Init => TInv
<1> SUFFICES ASSUME Init PROVE TInv
  OBVIOUS
<1>1. ctl \in Control
  BY ConstantsAssumption DEF ConstantsAssumption, Init, FreshControl, Control
<1>2. approval \in [ApprovalIds -> Approval]
  BY ConstantsAssumption DEF ConstantsAssumption, Init, Approval, Ops
<1>3. job \in Job /\ JobShape
  BY JobFacts DEF Init, IdleJob, JobShape
<1> QED BY <1>1, <1>2, <1>3 DEF Init, TInv, TypeOK

(* The handlers that run from the queue preserve the types.                  *)
LEMMA TypeStart == TInv /\ Start => TInv'
<1> SUFFICES ASSUME TInv, Start PROVE TInv'
  OBVIOUS
<1> USE DEF TInv, TypeOK, storage, grants
<1>0. ctl \in Control
  OBVIOUS
<1>s. Sweep(ctl) \in Control
  BY <1>0, SweepFacts
<1>1. CASE WalletTouch
  <2>1. ctl' \in Control
    BY <1>1, <1>s, TouchIfUnlockedFacts DEF WalletTouch
  <2> QED BY <1>1, <2>1, DequeueFacts DEF WalletTouch, JobShape
<1>2. CASE WalletLock
  <2>1. ctl' \in Control
    BY <1>2, <1>s, LockFacts DEF WalletLock
  <2> QED BY <1>2, <2>1, DequeueFacts DEF WalletLock, JobShape
<1>3. CASE TxReject
  <2>1. ctl' \in Control
    BY <1>3, <1>s DEF TxReject, Control
  <2> QED BY <1>3, <2>1, DequeueFacts DEF TxReject, JobShape
<1>4. CASE ExpireJob
  <2>1. ctl' \in Control
    BY <1>4, <1>0, ExpireIfIdleFacts DEF ExpireJob
  <2> QED BY <1>4, <2>1, DequeueFacts DEF ExpireJob, JobShape
<1>5. CASE StartRead
  <2>1. ctl' \in Control
    BY <1>5, <1>s, TouchIfUnlockedFacts DEF StartRead
  <2>2. job' \in Job /\ JobShape'
    BY <1>5, DequeueFacts, JobFacts DEF StartRead, Await, Steps, JobShape
  <2> QED BY <1>5, <2>1, <2>2, DequeueFacts DEF StartRead
<1>6. CASE StartCreate
  <2>2. job' \in Job /\ JobShape'
    BY <1>6, DequeueFacts, JobFacts DEF StartCreate, Await, Steps, JobShape
  <2> QED BY <1>6, <1>s, <2>2, DequeueFacts DEF StartCreate
<1>7. CASE StartUnlock
  <2>2. job' \in Job /\ JobShape'
    BY <1>7, DequeueFacts, JobFacts DEF StartUnlock, Await, Steps, JobShape
  <2> QED BY <1>7, <1>s, <2>2, DequeueFacts DEF StartUnlock
<1>8. CASE StartSettings
  <2>2. job' \in Job /\ JobShape'
    BY <1>8, DequeueFacts, JobFacts DEF StartSettings, Await, Steps, JobShape
  <2> QED BY <1>8, <1>s, <2>2, DequeueFacts DEF StartSettings
<1>9. CASE StartPrepare
  <2>1. Sweep(ctl).session \in Sessions \cup {NoSession}
    BY <1>s DEF Control
  <2>2. job' \in Job /\ JobShape'
    BY <1>9, <2>1, DequeueFacts, JobFacts DEF StartPrepare, Await, Steps, JobShape
  <2> QED BY <1>9, <1>s, <2>2, DequeueFacts DEF StartPrepare
<1>10. CASE StartApprove
  <2> DEFINE r == Head(queue)
             c == IF r.via = "page" THEN Sweep(ctl) ELSE ExpireIfIdle(ctl)
  <2>1. r \in Request /\ r.kind = "approve" /\ r.id \in ApprovalIds
    BY <1>10, DequeueFacts, RequestFields DEF StartApprove
  <2>2. c \in Control /\ Consume(c, r.id) \in Control
    BY <1>0, <1>s, ExpireIfIdleFacts DEF Consume, Control
  <2>3. ctl' \in Control
    BY <1>10, <2>2, TouchFacts DEF StartApprove
  <2>4. made' \in Seq(ApprovalIds \X {"tx", "offer"})
    <3> DEFINE what == IF approval[r.id].op = "offer_direct" THEN "offer" ELSE "tx"
    <3>1. made' = made \/ made' = Append(made, <<r.id, what>>)
      BY <1>10 DEF StartApprove, SignUnder
    <3>2. what \in {"tx", "offer"}
      OBVIOUS
    <3> QED BY <2>1, <3>1, <3>2, SignatureLogged
  <2>5. c.session \in Sessions \cup {NoSession}
    BY <2>2 DEF Control
  <2>6. job' \in Job /\ JobShape'
    BY <1>10, <2>1, <2>5, DequeueFacts, JobFacts DEF StartApprove, Await, Steps, JobShape
  <2> QED BY <1>10, <2>3, <2>4, <2>6, DequeueFacts DEF StartApprove
<1> QED BY <1>1, <1>2, <1>3, <1>4, <1>5, <1>6, <1>7, <1>8, <1>9, <1>10 DEF Start

(* So do the handlers that resume after a wait.                              *)
LEMMA TypeContinue == TInv /\ Continue => TInv'
<1> SUFFICES ASSUME TInv, Continue PROVE TInv'
  OBVIOUS
<1> USE DEF TInv, TypeOK, storage, grants
<1>0. ctl \in Control /\ job \in Job
  OBVIOUS
<1>j. job.req \in Request /\ job.sess \in Sessions \cup {NoSession}
  BY <1>0 DEF Job
<1>i. job' = IdleJob => job' \in Job /\ JobShape'
  BY JobFacts DEF IdleJob, JobShape
<1>1. ASSUME NEW s \in Sessions, CreateOpened(s) PROVE TInv'
  <2>1. ctl' \in Control
    BY <1>0, <1>1 DEF CreateOpened, Control
  <2>2. job' \in Job /\ JobShape'
    BY <1>1, <1>j, JobFacts DEF CreateOpened, Await, Steps, JobShape
  <2> QED BY <1>1, <2>1, <2>2 DEF CreateOpened
<1>2. ASSUME NEW s \in Sessions, UnlockOpened(s) PROVE TInv'
  <2> DEFINE c == Lock(ctl)
  <2>1. [c EXCEPT !.live = c.live \cup {s}] \in Control
    BY <1>0, LockFacts DEF Control
  <2>2. ctl' \in Control
    BY <1>2, <2>1, AdoptFacts DEF UnlockOpened
  <2> QED BY <1>2, <1>i, <2>2 DEF UnlockOpened, Settle
<1>3. CASE ReadSettled
  <2>1. ctl' \in Control
    BY <1>0, <1>3, ExpireIfIdleFacts, TouchIfUnlockedFacts DEF ReadSettled
  <2> QED BY <1>3, <1>i, <2>1 DEF ReadSettled, Settle
<1>4. CASE OpenOrStoreFailed
  BY <1>4, <1>i DEF OpenOrStoreFailed, Settle
<1>5. CASE CreateEncrypted
  <2>1. ctl' \in Control
    BY <1>0, <1>5, LockFacts DEF CreateEncrypted
  <2>2. job' \in Job /\ JobShape'
    BY <1>5, <1>i, <1>j, JobFacts DEF CreateEncrypted, Await, Settle, Steps, JobShape
  <2> QED BY <1>5, <2>1, <2>2 DEF CreateEncrypted
<1>6. CASE CreateStored
  <2>1. ctl' \in Control
    BY <1>0, <1>6, <1>j, AdoptFacts DEF CreateStored
  <2>2. job' \in Job /\ JobShape'
    BY <1>6, <1>i, <1>j, JobFacts DEF CreateStored, Await, Settle, Steps, JobShape
  <2> QED BY <1>6, <2>1, <2>2 DEF CreateStored
<1>7. CASE CreateAdopted
  <2>1. ctl' \in Control
    BY <1>0, <1>7, <1>j, AdoptFacts DEF CreateAdopted
  <2> QED BY <1>7, <1>i, <2>1 DEF CreateAdopted, Settle
<1>8. CASE SettingsStored
  <2>1. NewDelay(job.req) \in AutoLockChoices
    BY <1>8, <1>j, RequestFields DEF SettingsStored, JobShape, NewDelay
  <2>2. [ctl EXCEPT !.autoLock = NewDelay(job.req)] \in Control
    BY <1>0, <2>1 DEF Control
  <2>3. ctl' \in Control
    BY <1>8, <2>2, TouchIfUnlockedFacts DEF SettingsStored
  <2>4. job' \in Job /\ JobShape'
    BY <1>8, <1>i, <1>j, JobFacts DEF SettingsStored, Await, Settle, Steps, JobShape
  <2> QED BY <1>8, <2>1, <2>3, <2>4 DEF SettingsStored
<1>9. CASE SettingsRefused
  BY <1>9, <1>i DEF SettingsRefused, Settle
<1>10. CASE TokensCleared
  <2>1. ctl' \in Control
    BY <1>0, <1>10, LockFacts, TouchIfUnlockedFacts DEF TokensCleared
  <2> QED BY <1>10, <1>i, <2>1 DEF TokensCleared, Settle
<1>11. ASSUME NEW a \in ApprovalIds, PlanReady(a) PROVE TInv'
  <2>1. job.req.origin \in Origins /\ job.req.op \in Ops
    BY <1>11, <1>j, RequestFields DEF PlanReady, JobShape
  <2>2. now + ApprovalTimeout \in Nat
    BY ConstantsAssumption DEF ConstantsAssumption
  <2>3. approval' \in [ApprovalIds -> Approval]
    BY <1>11, <1>j, <2>1, <2>2 DEF PlanReady, Approval
  <2>4. [ctl EXCEPT !.pending = (ctl.pending \ ReplacedBy(job.req.origin)) \cup {a}] \in Control
    BY <1>0 DEF Control
  <2>5. ctl' \in Control
    BY <1>11, <2>4, TouchFacts DEF PlanReady
  <2> QED BY <1>11, <1>i, <2>3, <2>5 DEF PlanReady, Settle
<1>12. CASE PlanFailed
  BY <1>12, <1>i DEF PlanFailed, Settle
<1>13. CASE BroadcastDone
  <2>1. ctl' \in Control
    BY <1>0, <1>13, TouchFacts DEF BroadcastDone
  <2>2. job' \in Job /\ JobShape'
    BY <1>13, <1>i, <1>j, JobFacts DEF BroadcastDone, Await, Settle, Steps, JobShape
  <2> QED BY <1>13, <2>1, <2>2 DEF BroadcastDone
<1>14. CASE SplitOfferSigned
  <2>1. job.req.id \in ApprovalIds
    BY <1>14, <1>j, RequestFields DEF SplitOfferSigned, JobShape
  <2>2. made' \in Seq(ApprovalIds \X {"tx", "offer"})
    BY <1>14, <2>1, SignatureLogged DEF SplitOfferSigned, SignUnder
  <2> QED BY <1>14, <1>i, <2>2 DEF SplitOfferSigned, Settle
<1>15. CASE ApproveEnds
  BY <1>15, <1>i DEF ApproveEnds, Settle
<1>16. CASE ClearFailed
  BY <1>16, <1>i DEF ClearFailed, Settle
<1> QED
  BY <1>1, <1>2, <1>3, <1>4, <1>5, <1>6, <1>7, <1>8, <1>9, <1>10, <1>11, <1>12, <1>13,
     <1>14, <1>15, <1>16 DEF Continue

(* And so does everything that happens around the queue.                     *)
LEMMA TypeNext == TInv /\ [Next]_vars => TInv'
<1> SUFFICES ASSUME TInv, [Next]_vars PROVE TInv'
  OBVIOUS
<1> USE DEF TInv, TypeOK, storage, grants
<1>0. ctl \in Control
  OBVIOUS
<1>1. CASE UNCHANGED vars
  BY <1>1 DEF vars, JobShape
<1>2. ASSUME NEW r \in Inputs, Submit(r) PROVE TInv'
  <2>1. r \in Request
    BY InputsAssumption DEF InputsAssumption
  <2> QED BY <1>2, <2>1 DEF Submit, JobShape
<1>3. CASE Start
  BY <1>3, TypeStart
<1>4. CASE Continue
  BY <1>4, TypeContinue
<1>5. CASE IsUnlocked
  BY <1>0, <1>5, ExpireIfIdleFacts DEF IsUnlocked, JobShape
<1>6. CASE Snapshot
  BY <1>0, <1>6, TouchFacts DEF Snapshot, JobShape
<1>7. ASSUME NEW a \in ApprovalIds, Reject(a) PROVE TInv'
  <2>1. ctl' \in Control
    BY <1>0, <1>7 DEF Reject, Control
  <2> QED BY <1>7, <2>1 DEF Reject, JobShape
<1>8. CASE TimerFires
  <2>1. ctl' \in Control
    BY <1>0, <1>8 DEF TimerFires, Control
  <2>2. [kind |-> "expire"] \in Request
    BY DEF Request
  <2> QED BY <1>8, <2>1, <2>2 DEF TimerFires, JobShape
<1>9. CASE Tick
  BY <1>9 DEF Tick, JobShape
<1>10. CASE WorkerStopped
  <2>1. ctl' \in Control
    BY <1>10, ConstantsAssumption DEF ConstantsAssumption, WorkerStopped, FreshControl, Control
  <2>2. job' \in Job /\ JobShape'
    BY <1>10, JobFacts DEF WorkerStopped, Settle, IdleJob, JobShape
  <2> QED BY <1>10, <2>1, <2>2 DEF WorkerStopped
<1> QED BY <1>1, <1>2, <1>3, <1>4, <1>5, <1>6, <1>7, <1>8, <1>9, <1>10 DEF Next

(* The controller's fields keep their types whatever is submitted.           *)
THEOREM TypeCorrect == Spec => []TypeOK
<1>1. Spec => []TInv
  BY TypeInit, TypeNext, PTL DEF Spec
<1> QED BY <1>1, PTL DEF TInv

-----------------------------------------------------------------------------
(***************************************************************************)
(* Approvals of the controller are owned, one-shot, and implement          *)
(* OneTimeApproval.  What makes the invariants inductive is what a handler *)
(* knows while it waits: the session it holds is the current one or has    *)
(* been destroyed, and the approval it carries out has signed its          *)
(* transaction and not yet its offer.                                      *)
(***************************************************************************)

Logged(a, what) == \E i \in 1..Len(made) : made[i] = <<a, what>>

(* The handler's view of the session is not stale.                           *)
HandlerSession ==
    /\ job.at \in {"store", "adopt"} => ctl.session = NoSession
    /\ job.at \in {"plan", "broadcast", "split"} /\ job.sess \in ctl.live =>
         ctl.session = job.sess

(* The handler carries out an approval of its session, and its offer is still *)
(* to be signed.                                                              *)
HandlerApproval ==
    job.at \in {"broadcast", "split"} =>
        /\ approval[job.req.id].session = job.sess
        /\ Logged(job.req.id, "tx")
        /\ ~Logged(job.req.id, "offer")

HandlerInv == HandlerSession /\ HandlerApproval

ApprovalInv == PendingOwned /\ OneShot /\ HandlerInv

(* No approval is added, and none survives a change of session.              *)
PendingKept(c, d) ==
    /\ d.pending \subseteq c.pending
    /\ d.session = c.session \/ d.pending = {}

Waiting == {"store", "adopt", "plan", "broadcast", "split"}

-----------------------------------------------------------------------------
(* Withdrawing approvals or locking preserves what is known of approvals.    *)
LEMMA GrantsKept ==
    ASSUME PendingOwned, OneShot, PendingKept(ctl, ctl'), UNCHANGED grants
    PROVE  PendingOwned' /\ OneShot'
BY DEF PendingOwned, OneShot, PendingKept, grants

(* A handler that keeps waiting while the wallet is locked under it, and one *)
(* that holds nothing.                                                       *)
LEMMA HandlerKept ==
    ASSUME TInv, HandlerInv, Narrows(ctl, ctl'), UNCHANGED <<grants, job>>
    PROVE  HandlerInv'
BY DEF HandlerInv, HandlerSession, HandlerApproval, Logged, Narrows, grants

(* A handler that waits for no signature has nothing to keep.                *)
LEMMA HandlerFree ==
    ASSUME job'.at \notin Waiting
    PROVE  HandlerInv'
BY DEF HandlerInv, HandlerSession, HandlerApproval, Waiting

(* Narrowing a controller only removes approvals, or all with the session.   *)
LEMMA NarrowsKeeps ==
    ASSUME NEW c, NEW d, Narrows(c, d)
    PROVE  PendingKept(c, d)
BY DEF Narrows, PendingKept

(* A new signature in the log.                                               *)
LEMMA LogGrows ==
    ASSUME TypeOK, OneShot, NEW a \in issued, NEW what \in {"tx", "offer"},
           ~Logged(a, what), SignUnder(a, what), issued' = issued,
           ctl'.pending \subseteq ctl.pending, a \notin ctl'.pending
    PROVE  /\ OneShot'
           /\ Logged(a, what)'
           /\ \A b \in ApprovalIds, w \in {"tx", "offer"} :
                Logged(b, w)' => Logged(b, w) \/ (b = a /\ w = what)
<1> DEFINE n == Len(made)
           e == <<a, what>>
<1>1. n \in Nat /\ Len(made') = n + 1 /\ made'[n + 1] = e
  BY DEF TypeOK, SignUnder
<1>2. \A i \in 1..n : i \in 1..(n + 1) /\ made'[i] = made[i] /\ made[i] # e
  BY DEF TypeOK, SignUnder, Logged
<1>3. \A i \in 1..(n + 1) : i \in 1..n \/ i = n + 1
  BY <1>1
<1>4. \A i, j \in 1..Len(made') : made'[i] = made'[j] => i = j
  BY <1>1, <1>2, <1>3 DEF OneShot
<1>5. \A i \in 1..Len(made') : made'[i][1] \in issued' \ ctl'.pending
  <2>1. e[1] = a
    OBVIOUS
  <2> QED BY <1>1, <1>2, <1>3, <2>1 DEF OneShot
<1>6. OneShot'
  BY <1>4, <1>5 DEF OneShot
<1>7. Logged(a, what)'
  BY <1>1 DEF Logged
<1>8. ASSUME NEW b \in ApprovalIds, NEW w \in {"tx", "offer"}, Logged(b, w)'
      PROVE  Logged(b, w) \/ (b = a /\ w = what)
  BY <1>1, <1>2, <1>3, <1>8 DEF Logged
<1> QED BY <1>6, <1>7, <1>8

(* An approval that is still pending has signed nothing.                     *)
LEMMA PendingUnsigned ==
    ASSUME OneShot, NEW a \in ctl.pending, NEW what
    PROVE  ~Logged(a, what)
BY DEF OneShot, Logged

-----------------------------------------------------------------------------
(* Everything that runs from the queue and signs nothing can only lock or    *)
(* withdraw.                                                                 *)
QuietStart ==
    \/ WalletTouch \/ WalletLock \/ TxReject \/ ExpireJob \/ StartRead
    \/ StartCreate \/ StartUnlock \/ StartSettings \/ StartPrepare

(* A handler that starts without signing only narrows what is pending.       *)
LEMMA QuietStartNarrows ==
    ASSUME TInv, QuietStart
    PROVE  Narrows(ctl, ctl') /\ UNCHANGED <<grants, now>>
<1>0. ctl \in Control /\ TypeOK
  BY DEF TInv, TypeOK
<1>1. Sweep(ctl) \in Control /\ Narrows(ctl, Sweep(ctl))
  BY <1>0, SweepFacts
<1>2. CASE WalletTouch
  BY <1>0, <1>1, <1>2, TouchIfUnlockedFacts DEF WalletTouch, Narrows
<1>3. CASE WalletLock
  BY <1>0, <1>1, <1>3, LockFacts, ConstantsAssumption
  DEF ConstantsAssumption, Control, WalletLock, Narrows
<1>4. CASE TxReject
  BY <1>0, <1>1, <1>4 DEF TxReject, Narrows, Control
<1>5. CASE ExpireJob
  BY <1>0, <1>5, ExpireIfIdleFacts DEF ExpireJob
<1>6. CASE StartRead
  BY <1>0, <1>1, <1>6, TouchIfUnlockedFacts DEF StartRead, Narrows
<1>7. CASE StartCreate
  BY <1>1, <1>7 DEF StartCreate
<1>8. CASE StartUnlock
  BY <1>1, <1>8 DEF StartUnlock
<1>9. CASE StartSettings
  BY <1>1, <1>9 DEF StartSettings
<1>10. CASE StartPrepare
  BY <1>1, <1>10 DEF StartPrepare
<1> QED
  BY <1>2, <1>3, <1>4, <1>5, <1>6, <1>7, <1>8, <1>9, <1>10 DEF QuietStart

(* The handlers that resume and sign nothing, and the calls around them.     *)
QuietContinue ==
    \/ \E s \in Sessions : CreateOpened(s) \/ UnlockOpened(s)
    \/ ReadSettled \/ OpenOrStoreFailed \/ CreateEncrypted \/ CreateStored \/ CreateAdopted
    \/ SettingsStored \/ SettingsRefused \/ TokensCleared \/ ClearFailed
    \/ PlanFailed \/ BroadcastDone \/ ApproveEnds

(* A handler that goes on without signing grants nothing new.                *)
LEMMA QuietContinueKeeps ==
    ASSUME TInv, ApprovalInv, QuietContinue
    PROVE  PendingKept(ctl, ctl') /\ UNCHANGED <<grants, now>> /\ HandlerInv'
<1>0. ctl \in Control /\ TypeOK
  BY DEF TInv, TypeOK
<1>i. job' = IdleJob => HandlerInv'
  BY HandlerFree DEF IdleJob, Waiting
<1>1. ASSUME NEW s \in Sessions, CreateOpened(s)
      PROVE  PendingKept(ctl, ctl') /\ UNCHANGED <<grants, now>> /\ HandlerInv'
  <2>1. PendingKept(ctl, ctl') /\ UNCHANGED <<grants, now>>
    BY <1>0, <1>1 DEF CreateOpened, PendingKept, Control
  <2> QED BY <1>1, <2>1, HandlerFree DEF CreateOpened, Await, Waiting
<1>2. ASSUME NEW s \in Sessions, UnlockOpened(s)
      PROVE  PendingKept(ctl, ctl') /\ UNCHANGED <<grants, now>> /\ HandlerInv'
  <2> DEFINE c == Lock(ctl)
             d == [c EXCEPT !.live = c.live \cup {s}]
  <2>1. d \in Control /\ d.pending = {}
    BY <1>0, LockFacts DEF Control
  <2>2. ctl'.pending = {}
    BY <1>0, <1>2, <2>1, AdoptFacts DEF UnlockOpened
  <2> QED BY <1>2, <1>i, <2>2 DEF UnlockOpened, Settle, PendingKept
<1>3. CASE ReadSettled
  <2>1. Narrows(ctl, ctl')
    BY <1>0, <1>3, ExpireIfIdleFacts, TouchIfUnlockedFacts DEF ReadSettled, Narrows
  <2> QED BY <1>3, <1>i, <2>1, NarrowsKeeps DEF ReadSettled, Settle
<1>4. CASE OpenOrStoreFailed
  BY <1>4, <1>i DEF OpenOrStoreFailed, Settle, PendingKept
<1>5. CASE CreateEncrypted
  <2>1. PendingKept(ctl, ctl') /\ UNCHANGED <<grants, now>>
    BY <1>0, <1>5, LockFacts DEF CreateEncrypted, PendingKept
  <2>2. job' # IdleJob => ctl'.session = NoSession /\ job'.at = "store"
    BY <1>0, <1>5, LockFacts DEF CreateEncrypted, Await, Settle
  <2> QED BY <1>i, <2>1, <2>2 DEF HandlerInv, HandlerSession, HandlerApproval
<1>e. job.at \in {"store", "adopt"} => ctl.pending = {}
  BY DEF ApprovalInv, HandlerInv, HandlerSession, PendingOwned
<1>6. CASE CreateStored
  <2>1. CASE job.req.replace
    BY <1>6, <2>1
    DEF CreateStored, Await, ApprovalInv, HandlerInv, HandlerSession, HandlerApproval, PendingKept
  <2>2. CASE ~job.req.replace
    <3>1. job.sess \in Sessions \cup {NoSession}
      BY DEF TInv, TypeOK, Job
    <3>2. ctl'.pending = {}
      BY <1>0, <1>6, <1>e, <2>2, <3>1, AdoptFacts DEF CreateStored
    <3> QED BY <1>6, <1>i, <2>2, <3>2 DEF CreateStored, Settle, PendingKept
  <2> QED BY <2>1, <2>2
<1>7. CASE CreateAdopted
  <2>1. ctl.pending = {}
    BY <1>7, <1>e DEF CreateAdopted
  <2>2. job.sess \in Sessions \cup {NoSession}
    BY DEF TInv, TypeOK, Job
  <2>3. ctl'.pending = {}
    BY <1>0, <1>7, <2>1, <2>2, AdoptFacts DEF CreateAdopted
  <2> QED BY <1>7, <1>i, <2>3 DEF CreateAdopted, Settle, PendingKept
<1>8. CASE SettingsStored
  <2> DEFINE c == [ctl EXCEPT !.autoLock = NewDelay(job.req)]
  <2>1. job \in Job /\ job.req \in Request /\ stored \in AutoLockChoices
    BY DEF TInv, TypeOK, Job
  <2>2. c \in Control /\ c.session = ctl.session /\ c.pending = ctl.pending
    BY <1>0, <1>8, <2>1, RequestFields DEF SettingsStored, Control, TInv, JobShape, NewDelay
  <2>3. PendingKept(ctl, ctl') /\ UNCHANGED <<grants, now>>
    BY <1>0, <1>8, <2>2, TouchIfUnlockedFacts DEF SettingsStored, PendingKept
  <2>4. job' = IdleJob \/ job'.at = "clear"
    BY <1>8 DEF SettingsStored, Settle, Await
  <2> QED BY <1>i, <2>3, <2>4, HandlerFree DEF Waiting
<1>9. CASE SettingsRefused
  BY <1>9, <1>i DEF SettingsRefused, Settle, PendingKept
<1>10. CASE TokensCleared
  <2>1. Narrows(ctl, ctl')
    BY <1>0, <1>10, LockFacts, TouchIfUnlockedFacts DEF TokensCleared, Narrows
  <2> QED BY <1>10, <1>i, <2>1, NarrowsKeeps DEF TokensCleared, Settle
<1>11. CASE PlanFailed
  BY <1>11, <1>i DEF PlanFailed, Settle, PendingKept
<1>12. CASE BroadcastDone
  <2>1. ctl'.session = ctl.session /\ ctl'.live = ctl.live /\ ctl'.pending = ctl.pending
    BY <1>0, <1>12, TouchFacts DEF BroadcastDone
  <2>2. \/ job' = IdleJob
        \/ job'.at = "issuance"
        \/ job'.at = "split" /\ job'.req = job.req /\ job'.sess = job.sess
    BY <1>12 DEF BroadcastDone, Settle, Await
  <2>3. HandlerInv'
    BY <1>12, <1>i, <2>1, <2>2, HandlerFree
    DEF BroadcastDone, ApprovalInv, HandlerInv, HandlerSession, HandlerApproval, Logged, Waiting, grants
  <2> QED BY <1>12, <2>1, <2>3 DEF BroadcastDone, PendingKept
<1>13. CASE ApproveEnds
  BY <1>13, <1>i DEF ApproveEnds, Settle, PendingKept
<1>14. CASE ClearFailed
  BY <1>14, <1>i DEF ClearFailed, Settle, PendingKept
<1> QED
  BY <1>1, <1>2, <1>3, <1>4, <1>5, <1>6, <1>7, <1>8, <1>9, <1>10, <1>11, <1>12, <1>13, <1>14
  DEF QuietContinue

(* The router's calls, the clock, the timer and the browser.                 *)
Outside ==
    \/ \E r \in Inputs : Submit(r)
    \/ IsUnlocked \/ Snapshot
    \/ \E a \in ApprovalIds : Reject(a)
    \/ TimerFires \/ Tick \/ WorkerStopped

(* Calls around the queue, the timer, the clock and a stop grant nothing.    *)
LEMMA OutsideKeeps ==
    ASSUME TInv, ApprovalInv, Outside
    PROVE  /\ PendingKept(ctl, ctl')
           /\ UNCHANGED grants
           /\ now' = now \/ Tick
           /\ HandlerInv'
<1>0. ctl \in Control /\ TypeOK
  BY DEF TInv, TypeOK
<1>1. CASE WorkerStopped
  <2>1. ctl'.pending = {} /\ job' = IdleJob /\ UNCHANGED <<grants, now>>
    BY <1>1 DEF WorkerStopped, FreshControl, Settle
  <2> QED BY <2>1, HandlerFree DEF IdleJob, Waiting, PendingKept
<1>2. CASE ~WorkerStopped
  <2>1. ASSUME NEW r \in Inputs, Submit(r)
        PROVE  Narrows(ctl, ctl') /\ UNCHANGED <<grants, job, now>>
    BY <2>1 DEF Submit, Narrows
  <2>2. ASSUME IsUnlocked
        PROVE  Narrows(ctl, ctl') /\ UNCHANGED <<grants, job, now>>
    BY <1>0, <2>2, ExpireIfIdleFacts DEF IsUnlocked
  <2>3. ASSUME Snapshot
        PROVE  Narrows(ctl, ctl') /\ UNCHANGED <<grants, job, now>>
    BY <1>0, <2>3, TouchFacts DEF Snapshot, Narrows
  <2>4. ASSUME NEW a \in ApprovalIds, Reject(a)
        PROVE  Narrows(ctl, ctl') /\ UNCHANGED <<grants, job, now>>
    BY <1>0, <2>4 DEF Reject, Narrows, Control
  <2>5. ASSUME TimerFires
        PROVE  Narrows(ctl, ctl') /\ UNCHANGED <<grants, job, now>>
    BY <1>0, <2>5 DEF TimerFires, Narrows, Control
  <2>6. ASSUME Tick
        PROVE  Narrows(ctl, ctl') /\ UNCHANGED <<grants, job>>
    BY <2>6 DEF Tick, Narrows
  <2>7. Narrows(ctl, ctl') /\ UNCHANGED <<grants, job>> /\ (now' = now \/ Tick)
    BY <1>2, <2>1, <2>2, <2>3, <2>4, <2>5, <2>6
    DEF Outside
  <2> QED BY <2>7, NarrowsKeeps, HandlerKept DEF ApprovalInv
<1> QED BY <1>1, <1>2

-----------------------------------------------------------------------------
(* A plan that resolves finds its session open, hence current.               *)
LEMMA PlanReadyKeeps ==
    ASSUME TInv, ApprovalInv, NEW a \in ApprovalIds, PlanReady(a)
    PROVE  /\ ApprovalInv'
           /\ ctl.session # NoSession /\ job.sess = ctl.session /\ ctl'.session = ctl.session
           /\ ctl'.pending \subseteq ctl.pending \cup {a}
<1> DEFINE c == [ctl EXCEPT !.pending = (ctl.pending \ ReplacedBy(job.req.origin)) \cup {a}]
<1>0. ctl \in Control /\ TypeOK /\ approval \in [ApprovalIds -> Approval]
  BY DEF TInv, TypeOK
<1>1. job.sess \in ctl.live /\ ctl.session = job.sess /\ ctl.session # NoSession
  BY <1>0, ConstantsAssumption
  DEF ConstantsAssumption, PlanReady, AssertOpen, ApprovalInv, HandlerInv, HandlerSession, Control
<1>2. c \in Control /\ c.session = ctl.session
      /\ c.pending \subseteq ctl.pending \cup {a}
  BY <1>0 DEF Control
<1>3. ctl'.session = ctl.session /\ ctl'.pending \subseteq ctl.pending \cup {a}
  BY <1>0, <1>2, TouchFacts DEF PlanReady
<1>4. approval'[a].session = ctl.session
      /\ \A b \in ApprovalIds : b # a => approval'[b] = approval[b]
  BY <1>0, <1>1 DEF PlanReady
<1>5. a \notin issued /\ issued' = issued \cup {a} /\ made' = made
  BY DEF PlanReady
<1>6. PendingOwned'
  BY <1>0, <1>1, <1>3, <1>4, <1>5 DEF PendingOwned, ApprovalInv, Control
<1>7. OneShot'
  BY <1>3, <1>5 DEF OneShot, ApprovalInv
<1>8. HandlerInv'
  BY HandlerFree DEF PlanReady, Settle, IdleJob, Waiting
<1> QED BY <1>1, <1>3, <1>6, <1>7, <1>8 DEF ApprovalInv

(* An approval is accepted under its own session, before it expires, and     *)
(* leaves the map.                                                           *)
LEMMA StartApproveKeeps ==
    ASSUME TInv, ApprovalInv, StartApprove
    PROVE  /\ ApprovalInv'
           /\ UNCHANGED <<approval, issued, now>>
           /\ \/ PendingKept(ctl, ctl') /\ made' = made
              \/ \E a \in ctl.pending, what \in {"tx", "offer"} :
                    /\ approval[a].session = ctl.session
                    /\ now < approval[a].expires
                    /\ ctl'.pending \subseteq ctl.pending \ {a}
                    /\ ctl'.session = ctl.session
                    /\ made' = Append(made, <<a, what>>)
<1> DEFINE r == Head(queue)
           c == IF r.via = "page" THEN Sweep(ctl) ELSE ExpireIfIdle(ctl)
           d == Consume(c, r.id)
           direct == approval[r.id].op = "offer_direct"
           what == IF direct THEN "offer" ELSE "tx"
<1>0. ctl \in Control /\ TypeOK
  BY DEF TInv, TypeOK
<1>1. r \in Request /\ r.id \in ApprovalIds /\ job.at = "idle"
  BY <1>0, DequeueFacts, RequestFields DEF StartApprove
<1>2. c \in Control /\ Narrows(ctl, c)
  BY <1>0, SweepFacts, ExpireIfIdleFacts
<1>3. d \in Control /\ d.session = c.session /\ d.live = c.live /\ d.pending = c.pending \ {r.id}
  BY <1>2 DEF Consume, Control
<1>4. UNCHANGED <<approval, issued, now>>
  BY DEF StartApprove
<1>5. CASE ctl' = d /\ UNCHANGED <<job, made>>
  <2>1. PendingKept(ctl, ctl')
    BY <1>2, <1>3, <1>5 DEF Narrows, PendingKept
  <2>2. HandlerInv'
    BY <1>1, <1>5, HandlerFree DEF Waiting
  <2> QED BY <1>4, <1>5, <2>1, <2>2, GrantsKept DEF ApprovalInv, grants
<1>6. CASE /\ Acceptable(c, r)
           /\ ctl' = Touch(d)
           /\ SignUnder(r.id, what)
           /\ IF direct THEN UNCHANGED job ELSE Await("broadcast", r, c.session)
  <2> PICK a \in ApprovalIds : a = r.id
    BY <1>1
  <2> PICK w \in {"tx", "offer"} : w = what
    OBVIOUS
  <2>1. a \in c.pending /\ c.session # NoSession /\ approval[a].session = c.session
        /\ approval[a].expires > now
    BY <1>6 DEF Acceptable
  <2>2. c.session = ctl.session /\ c.live = ctl.live /\ c.pending \subseteq ctl.pending
    BY <1>2, <2>1 DEF Narrows
  <2>3. ctl'.session = ctl.session /\ ctl'.live = ctl.live
        /\ ctl'.pending \subseteq ctl.pending \ {a}
    BY <1>0, <1>3, <1>6, <2>2, TouchFacts
  <2>4. a \in ctl.pending /\ a \in issued
    BY <2>1, <2>2 DEF ApprovalInv, PendingOwned
  <2>5. ~direct => w = "tx"
    OBVIOUS
  <2>6. ~Logged(a, w) /\ ~Logged(a, "offer")
    BY <2>4, PendingUnsigned DEF ApprovalInv
  <2>7. /\ OneShot'
        /\ Logged(a, w)'
        /\ \A b \in ApprovalIds, v \in {"tx", "offer"} :
                Logged(b, v)' => Logged(b, v) \/ (b = a /\ v = w)
    BY <1>0, <1>4, <1>6, <2>3, <2>4, <2>5, <2>6, LogGrows DEF ApprovalInv
  <2>8. PendingOwned'
    BY <1>4, <2>3 DEF ApprovalInv, PendingOwned
  <2>9. HandlerInv'
    <3>1. CASE direct
      BY <1>1, <1>6, <3>1, HandlerFree DEF Waiting
    <3>2. CASE ~direct
      <4>1. job'.at = "broadcast" /\ job'.req.id = a /\ job'.sess = ctl.session
        BY <1>6, <2>2, <3>2 DEF Await
      <4>2. HandlerSession'
        BY <2>3, <4>1 DEF HandlerSession
      <4>3. ~Logged(a, "offer")'
        BY <1>1, <2>5, <2>6, <2>7, <3>2
      <4>4. Logged(a, "tx")'
        BY <2>5, <2>7, <3>2
      <4>5. HandlerApproval'
        BY <1>4, <2>1, <2>2, <4>1, <4>3, <4>4 DEF HandlerApproval, Logged
      <4> QED BY <4>2, <4>5 DEF HandlerInv
    <3> QED BY <3>1, <3>2
  <2>10. made' = Append(made, <<a, w>>)
    BY <1>6 DEF SignUnder
  <2> QED BY <1>4, <2>1, <2>2, <2>3, <2>4, <2>5, <2>7, <2>8, <2>9, <2>10 DEF ApprovalInv
<1> QED BY <1>5, <1>6 DEF StartApprove

(* The offer after a split is signed by the session that signed the split.   *)
LEMMA SplitOfferKeeps ==
    ASSUME TInv, ApprovalInv, SplitOfferSigned
    PROVE  /\ ApprovalInv'
           /\ job.req.id \in ApprovalIds
           /\ Logged(job.req.id, "tx") /\ ~Logged(job.req.id, "offer")
           /\ approval[job.req.id].session = ctl.session
           /\ made' = Append(made, <<job.req.id, "offer">>)
           /\ UNCHANGED <<ctl, approval, issued, now>>
<1> DEFINE a == job.req.id
<1>0. TypeOK
  BY DEF TInv
<1>1. job.at = "split" /\ job.sess = ctl.session
  BY DEF SplitOfferSigned, AssertOpen, ApprovalInv, HandlerInv, HandlerSession
<1>2. a \in ApprovalIds
  <2>1. job.req \in Request
    BY DEF TInv, TypeOK, Job
  <2> QED BY <1>1, <2>1, RequestFields DEF TInv, JobShape
<1>3. approval[a].session = ctl.session /\ Logged(a, "tx") /\ ~Logged(a, "offer")
  BY <1>1 DEF ApprovalInv, HandlerInv, HandlerApproval
<1>4. a \in issued \ ctl.pending
  BY <1>3 DEF Logged, OneShot, ApprovalInv
<1>5. UNCHANGED <<ctl, approval, issued, now>> /\ SignUnder(a, "offer")
  BY DEF SplitOfferSigned
<1>6. OneShot'
  BY <1>0, <1>3, <1>4, <1>5, LogGrows DEF ApprovalInv
<1>7. PendingOwned'
  BY <1>5 DEF PendingOwned, ApprovalInv
<1>8. HandlerInv'
  BY HandlerFree DEF SplitOfferSigned, Settle, IdleJob, Waiting
<1> QED BY <1>2, <1>3, <1>5, <1>6, <1>7, <1>8 DEF ApprovalInv, SignUnder

-----------------------------------------------------------------------------
(* A fresh worker satisfies the invariant.                                   *)
LEMMA ApprovalInit == Init => ApprovalInv
BY DEF Init, FreshControl, IdleJob, ApprovalInv, PendingOwned, OneShot, HandlerInv,
       HandlerSession, HandlerApproval

(* Every step is of one of the kinds the lemmas above treat.                 *)
LEMMA NextCases ==
    Next => \/ QuietStart \/ StartApprove \/ QuietContinue \/ SplitOfferSigned \/ Outside
            \/ \E a \in ApprovalIds : PlanReady(a)
BY DEF Next, Start, Continue, QuietStart, QuietContinue, Outside

(* A quiet start leaves a handler that holds nothing, or one that plans with *)
(* the current session.                                                      *)
LEMMA QuietStartHandler ==
    ASSUME TInv, QuietStart
    PROVE  HandlerInv'
<1>0. TypeOK
  BY DEF TInv
<1>1. CASE StartPrepare
  <2>1. \/ job' = job /\ job.at = "idle"
        \/ job'.at = "plan" /\ job'.sess = ctl'.session
    BY <1>0, <1>1, DequeueFacts DEF StartPrepare, Await
  <2> QED BY <2>1 DEF HandlerInv, HandlerSession, HandlerApproval
<1>2. CASE ~StartPrepare
  <2>1. job.at = "idle" /\ (job' = job \/ job'.at \in {"read", "open", "settings"})
    BY <1>0, <1>2, DequeueFacts
    DEF QuietStart, WalletTouch, WalletLock, TxReject, ExpireJob, StartRead, StartCreate,
        StartUnlock, StartSettings, Await
  <2> QED BY <2>1, HandlerFree DEF Waiting
<1> QED BY <1>1, <1>2

(* Every step of the controller keeps the invariant.                         *)
LEMMA ApprovalNext == TInv /\ ApprovalInv /\ [Next]_vars => ApprovalInv'
<1> SUFFICES ASSUME TInv, ApprovalInv, [Next]_vars PROVE ApprovalInv'
  OBVIOUS
<1>1. CASE QuietStart
  BY <1>1, QuietStartNarrows, NarrowsKeeps, GrantsKept, QuietStartHandler DEF ApprovalInv
<1>2. CASE StartApprove
  BY <1>2, StartApproveKeeps
<1>3. CASE QuietContinue
  BY <1>3, QuietContinueKeeps, GrantsKept DEF ApprovalInv
<1>4. CASE SplitOfferSigned
  BY <1>4, SplitOfferKeeps
<1>5. CASE Outside
  BY <1>5, OutsideKeeps, GrantsKept DEF ApprovalInv
<1>6. CASE \E a \in ApprovalIds : PlanReady(a)
  BY <1>6, PlanReadyKeeps
<1>7. CASE UNCHANGED vars
  BY <1>7 DEF vars, ApprovalInv, PendingOwned, OneShot, HandlerInv, HandlerSession,
              HandlerApproval, Logged
<1> QED BY <1>1, <1>2, <1>3, <1>4, <1>5, <1>6, <1>7, NextCases

(* The invariant holds in every reachable state.                             *)
LEMMA ApprovalInvariant == Spec => [](TInv /\ ApprovalInv)
BY TypeInit, TypeNext, ApprovalInit, ApprovalNext, PTL DEF Spec

(* No approval outlives the session it was prepared with.                    *)
THEOREM PendingOwnedHolds == Spec => []PendingOwned
BY ApprovalInvariant, PTL DEF ApprovalInv

(* No approval signs twice, and none that has signed can be used again.      *)
THEOREM OneShotHolds == Spec => []OneShot
BY ApprovalInvariant, PTL DEF ApprovalInv

-----------------------------------------------------------------------------
(* The size checked before the plan is awaited still holds when it resolves: *)
(* while a plan is awaited approvals can only be withdrawn.                  *)
Room ==
    /\ IsFiniteSet(ctl.pending)
    /\ Cardinality(ctl.pending) <= MaxPending
    /\ job.at = "plan" => Cardinality(ctl.pending) < MaxPending

(* A handler that waits for a plan has just started or was waiting before.   *)
LEMMA PlanStarts ==
    ASSUME TInv, Next, job'.at = "plan"
    PROVE  job' = job \/ StartPrepare
<1>0. TypeOK
  BY DEF TInv
<1>1. CASE Start
  <2>1. StartPrepare \/ job'.at # "plan"
    BY <1>0, <1>1, DequeueFacts
    DEF Start, WalletTouch, WalletLock, TxReject, ExpireJob, StartRead, StartCreate,
        StartUnlock, StartSettings, StartApprove, Await
  <2> QED BY <2>1
<1>2. CASE Continue
  <2>1. ASSUME NEW s \in Sessions, CreateOpened(s) \/ UnlockOpened(s) PROVE job'.at # "plan"
    BY <2>1 DEF CreateOpened, UnlockOpened, Await, Settle, IdleJob
  <2>2. ASSUME NEW a \in ApprovalIds, PlanReady(a) PROVE job'.at # "plan"
    BY <2>2 DEF PlanReady, Settle, IdleJob
  <2>3. ASSUME CreateEncrypted \/ CreateStored \/ CreateAdopted PROVE job'.at # "plan"
    BY <2>3 DEF CreateEncrypted, CreateStored, CreateAdopted, Await, Settle, IdleJob
  <2>4. ASSUME SettingsStored \/ SettingsRefused \/ TokensCleared \/ ClearFailed
        PROVE  job'.at # "plan"
    BY <2>4 DEF SettingsStored, SettingsRefused, TokensCleared, ClearFailed, Await, Settle, IdleJob
  <2>5. ASSUME BroadcastDone \/ SplitOfferSigned \/ ApproveEnds PROVE job'.at # "plan"
    BY <2>5 DEF BroadcastDone, SplitOfferSigned, ApproveEnds, Await, Settle, IdleJob
  <2>6. ASSUME ReadSettled \/ OpenOrStoreFailed \/ PlanFailed PROVE job'.at # "plan"
    BY <2>6 DEF ReadSettled, OpenOrStoreFailed, PlanFailed, Settle, IdleJob
  <2> QED BY <1>2, <2>1, <2>2, <2>3, <2>4, <2>5, <2>6 DEF Continue
<1>3. CASE Outside
  BY <1>3 DEF Outside, Submit, IsUnlocked, Snapshot, Reject, TimerFires, Tick, WorkerStopped,
              Settle, IdleJob
<1> QED BY <1>1, <1>2, <1>3 DEF Next, Outside

(* A plan in flight keeps room for its approval, whatever happens around it. *)
LEMMA RoomNext == TInv /\ TInv' /\ ApprovalInv /\ Room /\ [Next]_vars => Room'
<1> SUFFICES ASSUME TInv, TInv', ApprovalInv, Room, [Next]_vars PROVE Room'
  OBVIOUS
<1>0. MaxPending \in Nat /\ Cardinality(ctl.pending) \in Nat
  BY ConstantsAssumption, FS_CardinalityType DEF ConstantsAssumption, Room
<1>1. ASSUME NEW a \in ApprovalIds, PlanReady(a) PROVE Room'
  <2>1. ctl'.pending \in SUBSET (ctl.pending \cup {a})
    BY <1>1, PlanReadyKeeps
  <2>2. IsFiniteSet(ctl.pending \cup {a}) /\ Cardinality(ctl.pending \cup {a}) <= Cardinality(ctl.pending) + 1
    <3> DEFINE n == Cardinality(ctl.pending)
               m == Cardinality(ctl.pending \cup {a})
    <3>1. IsFiniteSet(ctl.pending \cup {a}) /\ (m = n \/ m = n + 1)
      BY FS_AddElement DEF Room
    <3>2. n \in Nat
      BY <1>0
    <3> HIDE DEF n, m
    <3>3. m <= n + 1
      BY <3>1, <3>2
    <3> QED BY <3>1, <3>3 DEF n, m
  <2>3. IsFiniteSet(ctl'.pending) /\ Cardinality(ctl'.pending) <= Cardinality(ctl.pending \cup {a})
    BY <2>1, <2>2, FS_Subset
  <2>4. Cardinality(ctl'.pending) \in Nat /\ Cardinality(ctl.pending \cup {a}) \in Nat
    BY <2>2, <2>3, FS_CardinalityType
  <2>5. Cardinality(ctl.pending) < MaxPending /\ job'.at # "plan"
    BY <1>1 DEF PlanReady, Room, Settle, IdleJob
  <2> QED BY <1>0, <2>2, <2>3, <2>4, <2>5 DEF Room
<1>2. CASE ~\E a \in ApprovalIds : PlanReady(a)
  <2>1. ctl'.pending \in SUBSET ctl.pending
    <3>1. CASE QuietStart
      BY <3>1, QuietStartNarrows, NarrowsKeeps DEF PendingKept
    <3>2. CASE StartApprove
      BY <3>2, StartApproveKeeps DEF PendingKept
    <3>3. CASE QuietContinue
      BY <3>3, QuietContinueKeeps DEF PendingKept
    <3>4. CASE SplitOfferSigned
      BY <3>4, SplitOfferKeeps
    <3>5. CASE Outside
      BY <3>5, OutsideKeeps DEF PendingKept
    <3>6. CASE UNCHANGED vars
      BY <3>6 DEF vars
    <3> QED BY <1>2, <3>1, <3>2, <3>3, <3>4, <3>5, <3>6, NextCases
  <2>2. IsFiniteSet(ctl'.pending) /\ Cardinality(ctl'.pending) <= Cardinality(ctl.pending)
    BY <2>1, FS_Subset DEF Room
  <2>3. Cardinality(ctl'.pending) \in Nat
    BY <2>2, FS_CardinalityType
  <2>4. ASSUME job'.at = "plan" PROVE Cardinality(ctl'.pending) < MaxPending
    <3>1. CASE job' = job
      BY <1>0, <2>2, <2>3, <2>4, <3>1 DEF Room
    <3>2. CASE StartPrepare
      <4>1. TypeOK /\ job.at = "idle"
        BY <3>2, DequeueFacts DEF TInv, StartPrepare
      <4>2. ~TooManyPending(ctl')
        BY <2>4, <3>2, <4>1 DEF StartPrepare
      <4> QED BY <1>0, <2>3, <4>2 DEF TooManyPending
    <3> QED BY <2>4, <3>1, <3>2, PlanStarts DEF vars
  <2> QED BY <1>0, <2>2, <2>3, <2>4 DEF Room
<1> QED BY <1>1, <1>2

(* The map of pending approvals never exceeds its limit.                     *)
THEOREM PendingBoundedHolds == Spec => []PendingBounded
<1>1. Init => Room
  BY FS_EmptySet, ConstantsAssumption
  DEF ConstantsAssumption, Init, FreshControl, IdleJob, Room
<1>2. Room => PendingBounded
  BY DEF Room, PendingBounded
<1> QED BY <1>1, <1>2, ApprovalInvariant, RoomNext, PTL DEF Spec

-----------------------------------------------------------------------------
(* Locking and withdrawing are steps of the abstract approvals.              *)
LEMMA KeptRefines ==
    ASSUME PendingKept(ctl, ctl'), UNCHANGED <<grants, now>>,
           ctl'.session \in Sessions \cup {NoSession}
    PROVE  Promise!Next
<1>1. CASE ctl'.session = ctl.session
  <2>1. Promise!Withdraw
    BY <1>1 DEF Promise!Withdraw, PendingKept, grants
  <2> QED BY <2>1 DEF Promise!Next
<1>2. CASE ctl'.pending = {}
  <2>1. Promise!ChangeHolder
    BY <1>2 DEF Promise!ChangeHolder, grants
  <2> QED BY <2>1 DEF Promise!Next
<1> QED BY <1>1, <1>2 DEF PendingKept

(* Every step of the controller is a step of OneTimeApproval or a stutter.   *)
LEMMA RefinesNext ==
    TInv /\ TInv' /\ ApprovalInv /\ [Next]_vars => [Promise!Next]_(Promise!vars)
<1> SUFFICES ASSUME TInv, TInv', ApprovalInv, [Next]_vars
             PROVE  [Promise!Next]_(Promise!vars)
  OBVIOUS
<1>0. /\ ctl'.session \in Sessions \cup {NoSession}
      /\ approval \in [ApprovalIds -> Approval]
  BY DEF TInv, TypeOK, Control
<1>1. CASE QuietStart
  BY <1>0, <1>1, QuietStartNarrows, NarrowsKeeps, KeptRefines
<1>2. CASE StartApprove
  <2>1. CASE PendingKept(ctl, ctl') /\ made' = made
    BY <1>0, <1>2, <2>1, StartApproveKeeps, KeptRefines DEF grants
  <2>2. ASSUME NEW a \in ctl.pending, NEW what \in {"tx", "offer"},
               approval[a].session = ctl.session, now < approval[a].expires,
               ctl'.pending \subseteq ctl.pending \ {a}, ctl'.session = ctl.session,
               made' = Append(made, <<a, what>>), UNCHANGED <<approval, issued, now>>
        PROVE  Promise!Next
    <3>1. a \in ApprovalIds
      BY DEF TInv, TypeOK, Control
    <3>2. Promise!Use(a, what)
      BY <2>2, <3>1 DEF Promise!Use
    <3> QED BY <3>1, <3>2 DEF Promise!Next
  <2> QED BY <1>2, <2>1, <2>2, StartApproveKeeps
<1>3. CASE QuietContinue
  BY <1>0, <1>3, QuietContinueKeeps, KeptRefines
<1>4. CASE SplitOfferSigned
  <2>1. Promise!OfferAfterSplit(job.req.id)
    BY <1>4, SplitOfferKeeps DEF Promise!OfferAfterSplit, Promise!Signed, Logged
  <2> QED BY <1>4, <2>1, SplitOfferKeeps DEF Promise!Next
<1>5. CASE Outside
  <2>1. CASE Tick
    <3>1. Promise!Tick
      BY <2>1 DEF Tick, grants, Promise!Tick
    <3> QED BY <3>1 DEF Promise!Next
  <2>2. CASE now' = now
    BY <1>0, <1>5, <2>2, OutsideKeeps, KeptRefines
  <2> QED BY <1>5, <2>1, <2>2, OutsideKeeps
<1>6. ASSUME NEW a \in ApprovalIds, PlanReady(a) PROVE Promise!Next
  <2>1. ctl.session # NoSession /\ job.sess = ctl.session /\ ctl'.session = ctl.session
        /\ ctl'.pending \subseteq ctl.pending \cup {a}
    BY <1>6, PlanReadyKeeps
  <2>2. /\ approval'[a].session = ctl.session
        /\ approval'[a].expires = now + ApprovalTimeout
        /\ \A b \in ApprovalIds : b # a => approval'[b] = approval[b]
    BY <1>0, <1>6, <2>1 DEF PlanReady
  <2>3. [b \in ApprovalIds |-> approval'[b].session] =
            [[b \in ApprovalIds |-> approval[b].session] EXCEPT ![a] = ctl.session]
    BY <2>2
  <2>4. [b \in ApprovalIds |-> approval'[b].expires] =
            [[b \in ApprovalIds |-> approval[b].expires] EXCEPT ![a] = now + ApprovalTimeout]
    BY <2>2
  <2>5. Promise!Issue(a)
    BY <1>6, <2>1, <2>3, <2>4 DEF Promise!Issue, PlanReady
  <2> QED BY <2>5 DEF Promise!Next
<1>7. CASE UNCHANGED vars
  BY <1>7 DEF vars, Promise!vars
<1> QED BY <1>1, <1>2, <1>3, <1>4, <1>5, <1>6, <1>7, NextCases

(* The controller implements one-time approvals: every signature is made     *)
(* under an approval issued to the current session, open and not expired, or *)
(* is the one offer that follows a split signed under it.                    *)
THEOREM KeepsPromiseHolds == Spec => KeepsPromise
<1>1. Init => Promise!Init
  BY DEF Init, FreshControl, Promise!Init
<1> QED BY <1>1, ApprovalInvariant, RefinesNext, PTL DEF Spec, KeepsPromise, Promise!Spec

-----------------------------------------------------------------------------
(***************************************************************************)
(* An unlocked wallet always has something that will lock it.  The         *)
(* invariant is inductive with the types; the argument is about the queue: *)
(* the work the timer queued is still there until it runs, and when it     *)
(* runs it locks the wallet unless the timer was started again.            *)
(***************************************************************************)

Timed(c) == c.timer = c.lastActivity + c.autoLock

Queued(q) == \E i \in 1..Len(q) : q[i].kind = "expire"

(* d is locked, or it has the session and the delay of c and its timer has   *)
(* just been started, or nothing about the timer changed.                    *)
KeepsTimer(c, d) ==
    \/ d.session = NoSession
    \/ /\ d.session = c.session /\ d.autoLock = c.autoLock
       /\ Timed(d) \/ (d.timer = c.timer /\ d.lastActivity = c.lastActivity)

(* Requests behind the head stay queued, and so do those before a new one.   *)
LEMMA TailKeepsQueued ==
    ASSUME NEW q \in Seq(Request), q # <<>>, Head(q).kind # "expire", Queued(q)
    PROVE  Queued(Tail(q))
<1>1. PICK i \in 1..Len(q) : q[i].kind = "expire"
  BY DEF Queued
<1>2. i # 1
  BY <1>1
<1>3. i - 1 \in 1..Len(Tail(q)) /\ Tail(q)[i - 1] = q[i]
  BY <1>1, <1>2
<1> QED BY <1>1, <1>3 DEF Queued

(* Work appended to the queue leaves the queued expiry in place.             *)
LEMMA AppendKeepsQueued ==
    ASSUME NEW q \in Seq(Request), NEW r \in Request
    PROVE  /\ Queued(q) => Queued(Append(q, r))
           /\ r.kind = "expire" => Queued(Append(q, r))
<1>1. Len(Append(q, r)) = Len(q) + 1 /\ Append(q, r)[Len(q) + 1] = r
      /\ \A i \in 1..Len(q) : i \in 1..(Len(q) + 1) /\ Append(q, r)[i] = q[i]
  OBVIOUS
<1>2. Len(q) + 1 \in 1..(Len(q) + 1)
  OBVIOUS
<1> QED BY <1>1, <1>2 DEF Queued

(* The common case of the induction.                                         *)
LEMMA ArmedKept ==
    ASSUME AutoLockArmed, KeepsTimer(ctl, ctl'), TypeOK, TypeOK', now' >= now,
           stored' = stored, Queued(queue) => Queued(queue')
    PROVE  AutoLockArmed'
<1>0. CASE ctl'.session = NoSession
  BY <1>0 DEF AutoLockArmed
<1>1. CASE /\ ctl'.session # NoSession /\ ctl'.session = ctl.session
           /\ ctl'.autoLock = ctl.autoLock /\ Timed(ctl')
  BY <1>1 DEF AutoLockArmed, Timed
<1>2. CASE /\ ctl'.session # NoSession /\ ctl'.session = ctl.session
           /\ ctl'.timer = ctl.timer /\ ctl'.lastActivity = ctl.lastActivity
           /\ ctl'.autoLock = ctl.autoLock
  <2>1. CASE ctl.timer = ctl.lastActivity + ctl.autoLock
    BY <1>2, <2>1 DEF AutoLockArmed
  <2>2. CASE /\ ctl.timer = NoTimer
             /\ now >= ctl.lastActivity + ctl.autoLock
             /\ Queued(queue)
    <3>1. ctl.lastActivity \in Nat /\ ctl.autoLock \in Nat /\ now \in Nat /\ now' \in Nat
      BY ConstantsAssumption DEF ConstantsAssumption, TypeOK, Control
    <3>2. now' >= ctl'.lastActivity + ctl'.autoLock
      BY <1>2, <2>2, <3>1
    <3> QED BY <1>2, <2>2, <3>2 DEF AutoLockArmed, Queued
  <2> QED BY <1>2, <2>1, <2>2 DEF AutoLockArmed, Queued
<1> QED BY <1>0, <1>1, <1>2 DEF KeepsTimer

-----------------------------------------------------------------------------
(* ExpireIfIdle and Sweep lock or leave the timer alone.                     *)
LEMMA SweepKeepsTimer ==
    ASSUME NEW c \in Control
    PROVE  KeepsTimer(c, ExpireIfIdle(c)) /\ KeepsTimer(c, Sweep(c))
<1>1. ExpireIfIdle(c) \in Control /\ KeepsTimer(c, ExpireIfIdle(c))
  BY ExpireIfIdleFacts, LockFacts DEF KeepsTimer
<1> QED BY <1>1, ExpireApprovalsFacts DEF Sweep, KeepsTimer, Timed

(* Every handler that starts, but the timer's own, keeps the queued work.    *)
LEMMA StartArmed ==
    ASSUME TInv, TInv', AutoLockArmed, Start
    PROVE  AutoLockArmed'
<1> USE DEF storage
<1>0. ctl \in Control /\ TypeOK /\ TypeOK' /\ queue \in Seq(Request) /\ now \in Nat
  BY DEF TInv, TypeOK
<1>s. Sweep(ctl) \in Control /\ KeepsTimer(ctl, Sweep(ctl))
  BY <1>0, SweepFacts, SweepKeepsTimer
<1>d. ASSUME NEW kinds, Dequeue(kinds), "expire" \notin kinds, now' = now
      PROVE  now' >= now /\ (Queued(queue) => Queued(queue'))
  BY <1>0, <1>d, TailKeepsQueued DEF Dequeue
<1>1. CASE WalletTouch
  <2>1. KeepsTimer(ctl, ctl')
    BY <1>0, <1>1, <1>s, TouchIfUnlockedFacts DEF WalletTouch, KeepsTimer, Timed
  <2> QED BY <1>0, <1>d, <1>1, <2>1, ArmedKept DEF WalletTouch
<1>2. CASE WalletLock
  <2>1. KeepsTimer(ctl, ctl')
    BY <1>2, <1>s, LockFacts DEF WalletLock, KeepsTimer
  <2> QED BY <1>0, <1>d, <1>2, <2>1, ArmedKept DEF WalletLock
<1>3. CASE TxReject
  <2>1. KeepsTimer(ctl, ctl')
    BY <1>3, <1>s DEF TxReject, KeepsTimer, Timed, Control
  <2> QED BY <1>0, <1>d, <1>3, <2>1, ArmedKept DEF TxReject
<1>4. CASE ExpireJob
  <2>1. \/ ctl' = Lock(ctl)
        \/ ctl' = ctl /\ (ctl.session = NoSession \/ ~(now >= ctl.lastActivity + ctl.autoLock))
    BY <1>4 DEF ExpireJob, ExpireIfIdle
  <2>3. stored' = stored
    BY <1>4 DEF ExpireJob
  <2>4. ctl'.session = NoSession \/ (ctl' = ctl /\ Timed(ctl))
    BY <1>0, <2>1, LockFacts DEF AutoLockArmed, Timed
  <2> QED BY <2>3, <2>4 DEF AutoLockArmed, Timed
<1>5. CASE StartRead
  <2>1. KeepsTimer(ctl, ctl')
    BY <1>0, <1>5, <1>s, TouchIfUnlockedFacts DEF StartRead, KeepsTimer, Timed
  <2> QED BY <1>0, <1>d, <1>5, <2>1, ArmedKept DEF StartRead
<1>6. CASE StartCreate
  BY <1>0, <1>d, <1>6, <1>s, ArmedKept DEF StartCreate
<1>7. CASE StartUnlock
  BY <1>0, <1>d, <1>7, <1>s, ArmedKept DEF StartUnlock
<1>8. CASE StartSettings
  BY <1>0, <1>d, <1>8, <1>s, ArmedKept DEF StartSettings
<1>9. CASE StartPrepare
  BY <1>0, <1>d, <1>9, <1>s, ArmedKept DEF StartPrepare
<1>10. CASE StartApprove
  <2> DEFINE r == Head(queue)
             c == IF r.via = "page" THEN Sweep(ctl) ELSE ExpireIfIdle(ctl)
             d == Consume(c, r.id)
  <2>1. c \in Control /\ KeepsTimer(ctl, c)
    BY <1>0, <1>s, ExpireIfIdleFacts, SweepKeepsTimer
  <2>2. d \in Control /\ KeepsTimer(ctl, d)
    BY <2>1 DEF Consume, Control, KeepsTimer, Timed
  <2>3. KeepsTimer(ctl, Touch(d))
    BY <1>0, <2>2, TouchFacts DEF KeepsTimer, Timed
  <2>4. KeepsTimer(ctl, ctl')
    BY <1>10, <2>2, <2>3 DEF StartApprove
  <2> QED BY <1>0, <1>d, <1>10, <2>4, ArmedKept DEF StartApprove
<1> QED BY <1>1, <1>2, <1>3, <1>4, <1>5, <1>6, <1>7, <1>8, <1>9, <1>10 DEF Start

(* A handler that resumes keeps the timer, starts it again or locks.  An     *)
(* update of the endpoints sets the delay to the value it had.               *)
LEMMA ContinueArmed ==
    ASSUME TInv, TInv', AutoLockArmed, Continue
    PROVE  AutoLockArmed'
<1> USE DEF storage
<1>0. ctl \in Control /\ TypeOK /\ TypeOK' /\ now \in Nat /\ now >= now
  BY DEF TInv, TypeOK
<1>j. job.req \in Request /\ job.sess \in Sessions \cup {NoSession}
  BY DEF TInv, TypeOK, Job
<1>a. (Timed(ctl') /\ ctl'.autoLock = stored') \/ ctl'.session = NoSession => AutoLockArmed'
  BY DEF AutoLockArmed, Timed
<1>u. ctl' = ctl /\ queue' = queue /\ now' = now /\ stored' = stored => AutoLockArmed'
  BY <1>0, ArmedKept DEF KeepsTimer
<1>1. ASSUME NEW s \in Sessions, CreateOpened(s) PROVE AutoLockArmed'
  <2>1. KeepsTimer(ctl, ctl')
    BY <1>0, <1>1 DEF CreateOpened, KeepsTimer, Timed, Control
  <2> QED BY <1>0, <1>1, <2>1, ArmedKept DEF CreateOpened
<1>2. ASSUME NEW s \in Sessions, UnlockOpened(s) PROVE AutoLockArmed'
  <2> DEFINE c == Lock(ctl)
  <2>1. [c EXCEPT !.live = c.live \cup {s}] \in Control
    BY <1>0, LockFacts DEF Control
  <2>2. Timed(ctl') /\ ctl'.autoLock = stored'
    BY <1>0, <1>2, <2>1, AdoptFacts DEF UnlockOpened, Timed
  <2> QED BY <1>a, <2>2
<1>3. CASE ReadSettled
  <2>1. KeepsTimer(ctl, ctl')
    <3>1. KeepsTimer(ctl, ctl) /\ KeepsTimer(ctl, ExpireIfIdle(ctl))
          /\ KeepsTimer(ctl, TouchIfUnlocked(ctl))
      BY <1>0, SweepKeepsTimer, TouchIfUnlockedFacts DEF KeepsTimer, Timed
    <3> QED BY <1>3, <3>1 DEF ReadSettled
  <2> QED BY <1>0, <1>3, <2>1, ArmedKept DEF ReadSettled
<1>4. CASE OpenOrStoreFailed
  BY <1>4, <1>u DEF OpenOrStoreFailed
<1>5. CASE CreateEncrypted
  <2>1. ctl' = ctl \/ ctl'.session = NoSession
    BY <1>0, <1>5, LockFacts DEF CreateEncrypted
  <2> QED BY <1>5, <1>a, <1>u, <2>1 DEF CreateEncrypted
<1>6. CASE CreateStored
  <2>1. ctl' = ctl \/ (Timed(ctl') /\ ctl'.autoLock = stored')
    BY <1>0, <1>6, <1>j, AdoptFacts DEF CreateStored, Timed
  <2> QED BY <1>6, <1>a, <1>u, <2>1 DEF CreateStored
<1>7. CASE CreateAdopted
  BY <1>0, <1>7, <1>j, <1>a, AdoptFacts DEF CreateAdopted, Timed
<1>8. CASE SettingsStored
  <2> DEFINE d == NewDelay(job.req)
             c == [ctl EXCEPT !.autoLock = d]
  <2>1. stored \in AutoLockChoices /\ d \in AutoLockChoices
    BY <1>0, <1>8, <1>j, RequestFields DEF SettingsStored, TypeOK, TInv, JobShape, NewDelay
  <2>2. c \in Control /\ c.session = ctl.session /\ c.autoLock = d
        /\ c.timer = ctl.timer /\ c.lastActivity = ctl.lastActivity
    BY <1>0, <2>1 DEF Control
  <2>3. stored' = d /\ queue' = queue /\ now' = now
    BY <1>8 DEF SettingsStored
  <2>4. CASE job.req.changed = "timer"
    <3>1. ctl' = TouchIfUnlocked(c)
      BY <1>8, <2>4 DEF SettingsStored
    <3>2. (Timed(ctl') /\ ctl'.autoLock = d) \/ ctl'.session = NoSession
      BY <1>0, <2>2, <3>1, TouchIfUnlockedFacts, ZenonT(60) DEF Timed
    <3> QED BY <1>a, <2>3, <3>2
  <2>5. CASE job.req.changed # "timer"
    <3>1. ctl' = c /\ d = stored
      BY <1>8, <2>5 DEF SettingsStored, NewDelay
    <3>2. ctl.session # NoSession => KeepsTimer(ctl, ctl')
      BY <2>2, <3>1 DEF KeepsTimer, AutoLockArmed
    <3>3. ctl.session = NoSession => ctl'.session = NoSession
      BY <2>2, <3>1
    <3> QED BY <1>0, <1>a, <2>3, <3>1, <3>2, <3>3, ArmedKept
  <2> QED BY <2>4, <2>5
<1>9. CASE SettingsRefused
  BY <1>9, <1>u DEF SettingsRefused
<1>10. CASE TokensCleared
  <2>1. KeepsTimer(ctl, Lock(ctl)) /\ KeepsTimer(ctl, TouchIfUnlocked(ctl))
    BY <1>0, LockFacts, TouchIfUnlockedFacts DEF KeepsTimer, Timed
  <2> QED BY <1>0, <1>10, <2>1, ArmedKept DEF TokensCleared
<1>11. ASSUME NEW a \in ApprovalIds, PlanReady(a) PROVE AutoLockArmed'
  <2>1. [ctl EXCEPT !.pending = (ctl.pending \ ReplacedBy(job.req.origin)) \cup {a}] \in Control
    BY <1>0 DEF Control
  <2>2. KeepsTimer(ctl, ctl')
    BY <1>0, <1>11, <2>1, TouchFacts DEF PlanReady, KeepsTimer, Timed, Control
  <2> QED BY <1>0, <1>11, <2>2, ArmedKept DEF PlanReady
<1>12. CASE PlanFailed
  BY <1>12, <1>u DEF PlanFailed
<1>13. CASE BroadcastDone
  <2>1. KeepsTimer(ctl, ctl')
    BY <1>0, <1>13, TouchFacts DEF BroadcastDone, KeepsTimer, Timed
  <2> QED BY <1>0, <1>13, <2>1, ArmedKept DEF BroadcastDone
<1>14. CASE SplitOfferSigned
  BY <1>14, <1>u DEF SplitOfferSigned
<1>15. CASE ApproveEnds
  BY <1>15, <1>u DEF ApproveEnds
<1>16. CASE ClearFailed
  BY <1>16, <1>u DEF ClearFailed
<1> QED
  BY <1>1, <1>2, <1>3, <1>4, <1>5, <1>6, <1>7, <1>8, <1>9, <1>10, <1>11, <1>12, <1>13,
     <1>14, <1>15, <1>16 DEF Continue

(* Every step leaves an unlocked wallet with something that will lock it.    *)
LEMMA NextArmed ==
    TInv /\ TInv' /\ AutoLockArmed /\ [Next]_vars => AutoLockArmed'
<1> SUFFICES ASSUME TInv, TInv', AutoLockArmed, [Next]_vars PROVE AutoLockArmed'
  OBVIOUS
<1> USE DEF storage
<1>0. ctl \in Control /\ TypeOK /\ TypeOK' /\ queue \in Seq(Request) /\ now \in Nat
      /\ now >= now /\ now + 1 >= now
  BY DEF TInv, TypeOK
<1>k. ASSUME KeepsTimer(ctl, ctl'), stored' = stored, now' >= now,
             Queued(queue) => Queued(queue')
      PROVE  AutoLockArmed'
  BY <1>0, <1>k, ArmedKept
<1>1. CASE UNCHANGED vars
  BY <1>0, <1>1, <1>k DEF vars, KeepsTimer
<1>2. ASSUME NEW r \in Inputs, Submit(r) PROVE AutoLockArmed'
  <2>1. r \in Request
    BY InputsAssumption DEF InputsAssumption
  <2> QED BY <1>0, <1>2, <1>k, <2>1, AppendKeepsQueued DEF Submit, KeepsTimer
<1>3. CASE Start
  BY <1>3, StartArmed
<1>4. CASE Continue
  BY <1>4, ContinueArmed
<1>5. CASE IsUnlocked
  BY <1>0, <1>5, <1>k, SweepKeepsTimer DEF IsUnlocked
<1>6. CASE Snapshot
  BY <1>0, <1>6, <1>k, TouchFacts DEF Snapshot, KeepsTimer, Timed
<1>7. ASSUME NEW a \in ApprovalIds, Reject(a) PROVE AutoLockArmed'
  <2>1. KeepsTimer(ctl, ctl')
    BY <1>0, <1>7 DEF Reject, KeepsTimer, Timed, Control
  <2> QED BY <1>0, <1>7, <1>k, <2>1 DEF Reject
<1>8. CASE TimerFires
  <2>1. [kind |-> "expire"] \in Request
    BY DEF Request
  <2>2. Queued(queue')
    BY <1>0, <1>8, <2>1, AppendKeepsQueued DEF TimerFires
  <2>3. ctl'.timer = NoTimer /\ ctl'.session = ctl.session
        /\ ctl'.lastActivity = ctl.lastActivity /\ ctl'.autoLock = ctl.autoLock
    BY <1>0, <1>8 DEF TimerFires, Control
  <2>4. stored' = stored /\ now' = now /\ ctl.timer # NoTimer /\ now >= ctl.timer
    BY <1>8 DEF TimerFires
  <2> QED BY <2>2, <2>3, <2>4 DEF AutoLockArmed, Queued
<1>9. CASE Tick
  BY <1>0, <1>9, <1>k DEF Tick, KeepsTimer
<1>10. CASE WorkerStopped
  BY <1>10 DEF WorkerStopped, FreshControl, AutoLockArmed
<1> QED BY <1>1, <1>2, <1>3, <1>4, <1>5, <1>6, <1>7, <1>8, <1>9, <1>10 DEF Next

(* While the wallet is unlocked its auto-lock is armed: the timer runs to    *)
(* the stored deadline, or it has fired and its work waits in the queue.     *)
THEOREM AutoLockArmedHolds == Spec => []AutoLockArmed
<1>1. Init => AutoLockArmed
  BY DEF Init, FreshControl, AutoLockArmed
<1>2. Init => TInv /\ AutoLockArmed
  BY <1>1, TypeInit
<1>3. (TInv /\ AutoLockArmed) /\ [Next]_vars => (TInv /\ AutoLockArmed)'
  BY TypeNext, NextArmed
<1> QED BY <1>2, <1>3, PTL DEF Spec
=============================================================================
