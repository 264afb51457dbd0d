-------------------------- MODULE WalletController --------------------------
(***************************************************************************)
(* The background wallet controller (src/src/background/controller.ts) and *)
(* the part of a wallet session it relies on                               *)
(* (src/src/adapters/elementsplus-wasm.ts): the unlocked session, the      *)
(* one-time approvals, the auto-lock timer and the promise queue that      *)
(* serialises the handlers.                                                *)
(*                                                                         *)
(* A handler runs from one await to the next without interruption, so it   *)
(* is one action per such stretch.  The queue keeps two handlers from      *)
(* interleaving with each other, but not with the calls the dApp router    *)
(* makes around it: isUnlocked, snapshot and reject run between any two    *)
(* stretches, and isUnlocked may lock the wallet.                          *)
(*                                                                         *)
(* Time is in abstract ticks.  Tokens and review hashes are abstracted to  *)
(* whether the caller presented the right ones ("good").                   *)
(***************************************************************************)
EXTENDS Naturals, Sequences, FiniteSets

CONSTANTS
    Sessions,         \* WASM sessions the wallet may open in a behaviour
    ApprovalIds,      \* random approval ids, each drawn once
    Origins,          \* callers of prepare: dApp origins and "wallet"
    Inputs,           \* the requests the pages and the router may submit
    AutoLockChoices,  \* settings.ts AUTO_LOCK_CHOICES, in ticks
    DefaultAutoLock,  \* the value before a session has been adopted
    ApprovalTimeout,  \* DEFAULT_APPROVAL_TIMEOUT_MILLISECONDS, in ticks
    MaxPending,       \* MAX_PENDING_APPROVALS
    MaxTime,          \* bound: ticks explored
    MaxQueue,         \* bound: requests waiting in the promise queue
    NoSession, NoTimer

(* How an operation is carried out once approved: one broadcast, a broadcast *)
(* plus bookkeeping, an offer signed directly, or a split transaction that is *)
(* broadcast before the offer is signed.                                      *)
Ops == {"transfer", "issuance", "offer_direct", "offer_split"}

Request ==
         [kind : {"touch", "lock", "expire", "query", "status", "snapshot"}]
    \cup [kind : {"create"}, replace : BOOLEAN, good : BOOLEAN]
    \cup [kind : {"unlock", "reveal"}, good : BOOLEAN]
    \cup [kind : {"settings"}, changed : {"timer"}, autoLock : AutoLockChoices]
    \cup [kind : {"settings"}, changed : {"registry", "explorer"}]
    \cup [kind : {"prepare"}, origin : Origins, op : Ops]
    \cup [kind : {"approve"}, id : ApprovalIds, good : BOOLEAN, via : {"page", "router"}]
    \cup [kind : {"reject"}, id : ApprovalIds]

ASSUME ConstantsAssumption ==
    /\ NoSession \notin Sessions
    /\ AutoLockChoices \subseteq Nat \ {0}
    /\ DefaultAutoLock \in AutoLockChoices
    /\ ApprovalTimeout \in Nat \ {0}
    /\ MaxPending \in Nat \ {0}
    /\ MaxTime \in Nat
    /\ MaxQueue \in Nat
    /\ NoTimer \notin Nat
    /\ "wallet" \in Origins

ASSUME InputsAssumption ==
    /\ Inputs \subseteq Request
    /\ \A r \in Inputs : r.kind # "expire"

VARIABLES
    ctl,       \* the controller object's fields, and the sessions not destroyed
    approval,  \* id -> the frozen PendingApproval created under that id
    issued,    \* ids drawn so far
    opened,    \* sessions opened so far
    job,       \* the handler at the head of the promise queue
    queue,     \* requests waiting behind it
    vault,     \* whether an encrypted vault is stored
    stored,    \* the auto-lock choice in the stored settings
    made,      \* log of the signatures: <<approval id, "tx" or "offer">>
    now

vars == <<ctl, approval, issued, opened, job, queue, vault, stored, made, now>>
storage == <<vault, stored>>
grants == <<approval, issued, made>>

Control == [session : Sessions \cup {NoSession},
            live : SUBSET Sessions,
            pending : SUBSET ApprovalIds,
            lastActivity : Nat,
            autoLock : AutoLockChoices,
            timer : Nat \cup {NoTimer}]

Approval == [session : Sessions \cup {NoSession}, origin : Origins, op : Ops, expires : Nat]

Steps == {"idle", "read", "open", "encrypt", "store", "adopt", "settings", "clear",
          "plan", "broadcast", "split", "issuance"}

Job == [at : Steps, req : Request, sess : Sessions \cup {NoSession}]

IdleJob == [at |-> "idle", req |-> [kind |-> "touch"], sess |-> NoSession]

(* The values every variable may take.                                       *)
TypeOK ==
    /\ ctl \in Control
    /\ approval \in [ApprovalIds -> Approval]
    /\ issued \subseteq ApprovalIds
    /\ opened \subseteq Sessions
    /\ job \in Job
    /\ queue \in Seq(Request)
    /\ vault \in BOOLEAN
    /\ stored \in AutoLockChoices
    /\ made \in Seq(ApprovalIds \X {"tx", "offer"})
    /\ now \in Nat

-----------------------------------------------------------------------------
(* Private methods of the controller, as functions of its fields.            *)

Touch(c) == [c EXCEPT !.lastActivity = now, !.timer = now + c.autoLock]

TouchIfUnlocked(c) == IF c.session # NoSession THEN Touch(c) ELSE c

(* Mutant of Lock: the approvals survive the session.                        *)
LockKeepingApprovals(c) ==
    [c EXCEPT !.session = NoSession, !.live = c.live \ {c.session},
              !.lastActivity = 0, !.timer = NoTimer]

Lock(c) == [c EXCEPT !.session = NoSession, !.live = c.live \ {c.session},
                     !.pending = {}, !.lastActivity = 0, !.timer = NoTimer]

(* Mutant of ExpireIfIdle: the comparison is strict.                         *)
ExpireIfIdleStrictly(c) ==
    IF c.session # NoSession /\ now > c.lastActivity + c.autoLock THEN Lock(c) ELSE c

ExpireIfIdle(c) ==
    IF c.session # NoSession /\ now >= c.lastActivity + c.autoLock THEN Lock(c) ELSE c

ExpireApprovals(c) == [c EXCEPT !.pending = {a \in c.pending : approval[a].expires > now}]

Adopt(c, s) == Touch([c EXCEPT !.session = s, !.autoLock = stored])

(* What every handled message does before its own work.                      *)
Sweep(c) == ExpireApprovals(ExpireIfIdle(c))

(* Mutant of AssertOpen: the check is left out.                              *)
AssertNothing(s) == TRUE

(* The session's own guard: it was not destroyed.                            *)
AssertOpen(s) == s \in ctl.live

-----------------------------------------------------------------------------
(* A worker that has just started: nothing unlocked, nothing pending.        *)
FreshControl == [session |-> NoSession, live |-> {}, pending |-> {},
                 lastActivity |-> 0, autoLock |-> DefaultAutoLock, timer |-> NoTimer]

Init ==
    /\ ctl = FreshControl
    /\ approval = [a \in ApprovalIds |->
                     [session |-> NoSession, origin |-> "wallet", op |-> "transfer", expires |-> 0]]
    /\ issued = {} /\ opened = {} /\ made = <<>>
    /\ job = IdleJob
    /\ queue = <<>>
    /\ vault \in BOOLEAN
    /\ stored \in AutoLockChoices
    /\ now = 0

-----------------------------------------------------------------------------
(* The promise queue: #serial appends, and the next handler starts when the  *)
(* previous one has settled.                                                 *)

Submit(r) ==
    /\ Len(queue) < MaxQueue
    /\ queue' = Append(queue, r)
    /\ UNCHANGED <<ctl, grants, opened, job, storage, now>>

Dequeue(kinds) ==
    /\ job.at = "idle"
    /\ queue # <<>>
    /\ Head(queue).kind \in kinds
    /\ queue' = Tail(queue)

(* The handler of request r waits at step `at`, holding the session s.       *)
Await(at, r, s) == job' = [at |-> at, req |-> r, sess |-> s]
Settle == job' = IdleJob

-----------------------------------------------------------------------------
(* Handlers that change nothing after their last wait: that wait only delays *)
(* the queue.                                                                *)

WalletTouch ==
    /\ Dequeue({"touch"})
    /\ ctl' = TouchIfUnlocked(Sweep(ctl))
    /\ UNCHANGED <<grants, opened, job, storage, now>>

WalletLock ==
    /\ Dequeue({"lock"})
    /\ ctl' = Lock(Sweep(ctl))
    /\ UNCHANGED <<grants, opened, job, storage, now>>

TxReject ==
    /\ Dequeue({"reject"})
    /\ LET c == Sweep(ctl) IN
         ctl' = [c EXCEPT !.pending = c.pending \ {Head(queue).id}]
    /\ UNCHANGED <<grants, opened, job, storage, now>>

(* The work queued by the auto-lock timer.                                   *)
ExpireJob ==
    /\ Dequeue({"expire"})
    /\ ctl' = ExpireIfIdle(ctl)
    /\ UNCHANGED <<grants, opened, job, storage, now>>

(* Requests that read storage or the network.  wallet.snapshot touches       *)
(* first, vault.reveal touches once the password has opened the vault, and   *)
(* wallet.status ends in isUnlocked.                                         *)
StartRead ==
    /\ Dequeue({"query", "status", "snapshot", "reveal"})
    /\ LET r == Head(queue)
           c == Sweep(ctl)
       IN /\ ctl' = IF r.kind = "snapshot" THEN TouchIfUnlocked(c) ELSE c
          /\ IF r.kind = "snapshot" /\ c.session = NoSession
               THEN UNCHANGED job
               ELSE Await("read", r, NoSession)
    /\ UNCHANGED <<grants, opened, storage, now>>

ReadSettled ==
    /\ job.at = "read"
    /\ ctl' = CASE job.req.kind = "status" -> ExpireIfIdle(ctl)
               [] job.req.kind = "reveal" /\ job.req.good /\ vault -> TouchIfUnlocked(ctl)
               [] OTHER -> ctl
    /\ Settle
    /\ UNCHANGED <<grants, opened, queue, storage, now>>

-----------------------------------------------------------------------------
(* vault.create and wallet.unlock.                                           *)

StartCreate ==
    /\ Dequeue({"create"})
    /\ ctl' = Sweep(ctl)
    /\ LET r == Head(queue) IN
         \/ (~vault \/ r.replace) /\ Await("open", r, NoSession)
         \/ UNCHANGED job    \* a wallet exists, or the recovery phrase is not valid
    /\ UNCHANGED <<grants, opened, storage, now>>

(* wallets.open resolved: the WASM session exists, the vault is not yet      *)
(* encrypted.                                                                *)
CreateOpened(s) ==
    /\ job.at = "open" /\ job.req.kind = "create"
    /\ s \notin opened
    /\ opened' = opened \cup {s}
    /\ ctl' = [ctl EXCEPT !.live = ctl.live \cup {s}]
    /\ Await("encrypt", job.req, s)
    /\ UNCHANGED <<grants, queue, storage, now>>

(* encryptVault settled.  A password it refuses makes the handler throw with *)
(* the new session still open.                                               *)
CreateEncrypted ==
    /\ job.at = "encrypt"
    /\ IF job.req.good
         THEN ctl' = Lock(ctl) /\ Await("store", job.req, job.sess)
         ELSE UNCHANGED ctl /\ Settle
    /\ UNCHANGED <<grants, opened, queue, storage, now>>

(* The vault is written.  A restored wallet still waits for the removal of   *)
(* the sites, a new one is adopted at once.                                  *)
CreateStored ==
    /\ job.at = "store"
    /\ vault' = TRUE
    /\ IF job.req.replace
         THEN UNCHANGED ctl /\ Await("adopt", job.req, job.sess)
         ELSE ctl' = Adopt(ctl, job.sess) /\ Settle
    /\ UNCHANGED <<grants, opened, queue, stored, now>>

CreateAdopted ==
    /\ job.at = "adopt"
    /\ ctl' = Adopt(ctl, job.sess)
    /\ Settle
    /\ UNCHANGED <<grants, opened, queue, storage, now>>

StartUnlock ==
    /\ Dequeue({"unlock"})
    /\ ctl' = Sweep(ctl)
    /\ LET r == Head(queue) IN
         IF vault /\ r.good THEN Await("open", r, NoSession) ELSE UNCHANGED job
    /\ UNCHANGED <<grants, opened, storage, now>>

UnlockOpened(s) ==
    /\ job.at = "open" /\ job.req.kind = "unlock"
    /\ s \notin opened
    /\ opened' = opened \cup {s}
    /\ LET c == Lock(ctl) IN ctl' = Adopt([c EXCEPT !.live = c.live \cup {s}], s)
    /\ Settle
    /\ UNCHANGED <<grants, queue, storage, now>>

(* wallets.open rejected (both handlers), the vault could not be written, or  *)
(* it was and the sites could not be removed.                                 *)
OpenOrStoreFailed ==
    /\ job.at \in {"open", "store", "adopt"}
    /\ Settle
    /\ UNCHANGED <<ctl, grants, opened, queue, storage, now>>

-----------------------------------------------------------------------------
(* settings.update.  A page changes the auto-lock time or the endpoints, not  *)
(* both at once.                                                              *)

NewDelay(r) == IF r.changed = "timer" THEN r.autoLock ELSE stored

StartSettings ==
    /\ Dequeue({"settings"})
    /\ ctl' = Sweep(ctl)
    /\ Await("settings", Head(queue), NoSession)
    /\ UNCHANGED <<grants, opened, storage, now>>

(* Mutant of SettingsStored: the timer keeps the old delay.                  *)
SettingsStoredWithoutTouch ==
    /\ job.at = "settings"
    /\ stored' = NewDelay(job.req)
    /\ ctl' = [ctl EXCEPT !.autoLock = NewDelay(job.req)]
    /\ IF job.req.changed = "timer" THEN Settle ELSE Await("clear", job.req, NoSession)
    /\ UNCHANGED <<grants, opened, queue, vault, now>>

SettingsStored ==
    /\ job.at = "settings"
    /\ stored' = NewDelay(job.req)
    /\ LET c == [ctl EXCEPT !.autoLock = NewDelay(job.req)] IN
         IF job.req.changed = "timer"
           THEN ctl' = TouchIfUnlocked(c) /\ Settle
           ELSE ctl' = c /\ Await("clear", job.req, NoSession)
    /\ UNCHANGED <<grants, opened, queue, vault, now>>

(* The patch was refused or could not be stored.                             *)
SettingsRefused ==
    /\ job.at = "settings"
    /\ Settle
    /\ UNCHANGED <<ctl, grants, opened, queue, storage, now>>

(* tokens.clear resolved: a new explorer needs a fresh unlock.               *)
TokensCleared ==
    /\ job.at = "clear"
    /\ ctl' = IF job.req.changed = "explorer" THEN Lock(ctl) ELSE TouchIfUnlocked(ctl)
    /\ Settle
    /\ UNCHANGED <<grants, opened, queue, storage, now>>

(* tokens.clear rejected: the handler ends without locking or touching.      *)
ClearFailed ==
    /\ job.at = "clear"
    /\ Settle
    /\ UNCHANGED <<ctl, grants, opened, queue, storage, now>>

-----------------------------------------------------------------------------
(* tx.prepare and prepare.                                                   *)

(* Mutant of TooManyPending: one too many fits.                              *)
OverfullPending(c) == Cardinality(c.pending) > MaxPending

TooManyPending(c) == Cardinality(c.pending) >= MaxPending

StartPrepare ==
    /\ Dequeue({"prepare"})
    /\ LET c == Sweep(ctl) IN
         /\ ctl' = c
         /\ IF c.session = NoSession \/ TooManyPending(c)
              THEN UNCHANGED job
              ELSE Await("plan", Head(queue), c.session)
    /\ UNCHANGED <<grants, opened, storage, now>>

(* A transfer prepared in the wallet UI replaces the previous one.           *)
ReplacedBy(origin) ==
    IF origin = "wallet" THEN {b \in ctl.pending : approval[b].origin = "wallet"} ELSE {}

(* plan resolved with a review that matches the request.                     *)
PlanReady(a) ==
    /\ job.at = "plan"
    /\ AssertOpen(job.sess)
    /\ a \notin issued
    /\ issued' = issued \cup {a}
    /\ approval' = [approval EXCEPT ![a] =
                     [session |-> job.sess, origin |-> job.req.origin, op |-> job.req.op,
                      expires |-> now + ApprovalTimeout]]
    /\ ctl' = Touch([ctl EXCEPT !.pending = (ctl.pending \ ReplacedBy(job.req.origin)) \cup {a}])
    /\ Settle
    /\ UNCHANGED <<made, opened, queue, storage, now>>

(* plan failed, timed out, met a closed session, or its review was refused.  *)
PlanFailed ==
    /\ job.at = "plan"
    /\ Settle
    /\ UNCHANGED <<ctl, grants, opened, queue, storage, now>>

-----------------------------------------------------------------------------
(* tx.approve and approve.                                                   *)

Acceptable(c, r) ==
    /\ r.id \in c.pending
    /\ c.session # NoSession
    /\ approval[r.id].session = c.session
    /\ approval[r.id].expires > now
    /\ r.good

(* Mutant of Consume: the approval stays usable.                             *)
ConsumeNothing(c, a) == c

(* The approval leaves the map before it is looked at.                       *)
Consume(c, a) == [c EXCEPT !.pending = c.pending \ {a}]

SignUnder(a, what) == made' = Append(made, <<a, what>>)

(* The session signs at once; a direct offer ends here, anything else is     *)
(* broadcast.  The core may still refuse to sign.                            *)
StartApprove ==
    /\ Dequeue({"approve"})
    /\ LET r == Head(queue)
           c == IF r.via = "page" THEN Sweep(ctl) ELSE ExpireIfIdle(ctl)
           direct == approval[r.id].op = "offer_direct"
       IN \/ /\ ctl' = Consume(c, r.id)
             /\ UNCHANGED <<job, made>>
          \/ /\ Acceptable(c, r)
             /\ ctl' = Touch(Consume(c, r.id))
             /\ SignUnder(r.id, IF direct THEN "offer" ELSE "tx")
             /\ IF direct THEN UNCHANGED job ELSE Await("broadcast", r, c.session)
    /\ UNCHANGED <<approval, issued, opened, storage, now>>

(* The explorer acknowledged the transaction.                                *)
BroadcastDone ==
    /\ job.at = "broadcast"
    /\ ctl' = Touch(ctl)
    /\ LET op == approval[job.req.id].op IN
         CASE op = "offer_split" -> Await("split", job.req, job.sess)
           [] op = "issuance" -> Await("issuance", job.req, job.sess)
           [] OTHER -> Settle
    /\ UNCHANGED <<grants, opened, queue, storage, now>>

(* The offer of a split, signed under the approval of the split.             *)
SplitOfferSigned ==
    /\ job.at = "split"
    /\ AssertOpen(job.sess)
    /\ SignUnder(job.req.id, "offer")
    /\ Settle
    /\ UNCHANGED <<ctl, approval, issued, opened, queue, storage, now>>

(* No acknowledgement of the broadcast; the offer after a split could not be *)
(* planned or its review was refused; or findIssuanceVin and rememberIssued  *)
(* settled.                                                                  *)
ApproveEnds ==
    /\ job.at \in {"broadcast", "split", "issuance"}
    /\ Settle
    /\ UNCHANGED <<ctl, grants, opened, queue, storage, now>>

-----------------------------------------------------------------------------
(* Calls of the router that do not go through the queue, the timer, the      *)
(* clock, and the browser stopping the service worker.                       *)

IsUnlocked ==
    /\ ctl' = ExpireIfIdle(ctl)
    /\ UNCHANGED <<grants, opened, job, queue, storage, now>>

Snapshot ==
    /\ ctl.session # NoSession
    /\ ctl' = Touch(ctl)
    /\ UNCHANGED <<grants, opened, job, queue, storage, now>>

Reject(a) ==
    /\ ctl' = [ctl EXCEPT !.pending = ctl.pending \ {a}]
    /\ UNCHANGED <<grants, opened, job, queue, storage, now>>

(* The delay and the idle time are measured by one clock.                    *)
TimerFires ==
    /\ ctl.timer # NoTimer
    /\ now >= ctl.timer
    /\ ctl' = [ctl EXCEPT !.timer = NoTimer]
    /\ queue' = Append(queue, [kind |-> "expire"])
    /\ UNCHANGED <<grants, opened, job, storage, now>>

Tick ==
    /\ now < MaxTime
    /\ now' = now + 1
    /\ UNCHANGED <<ctl, grants, opened, job, queue, storage>>

WorkerStopped ==
    /\ ctl' = FreshControl
    /\ queue' = <<>>
    /\ Settle
    /\ UNCHANGED <<grants, opened, storage, now>>

-----------------------------------------------------------------------------
Start ==
    \/ WalletTouch \/ WalletLock \/ TxReject \/ ExpireJob \/ StartRead
    \/ StartCreate \/ StartUnlock \/ StartSettings \/ StartPrepare \/ StartApprove

Continue ==
    \/ \E s \in Sessions : CreateOpened(s) \/ UnlockOpened(s)
    \/ ReadSettled \/ OpenOrStoreFailed \/ CreateEncrypted \/ CreateStored \/ CreateAdopted
    \/ SettingsStored \/ SettingsRefused \/ TokensCleared \/ ClearFailed
    \/ \E a \in ApprovalIds : PlanReady(a)
    \/ PlanFailed
    \/ BroadcastDone \/ SplitOfferSigned \/ ApproveEnds

Next ==
    \/ \E r \in Inputs : Submit(r)
    \/ Start
    \/ Continue
    \/ IsUnlocked \/ Snapshot
    \/ \E a \in ApprovalIds : Reject(a)
    \/ TimerFires \/ Tick \/ WorkerStopped

Spec == Init /\ [][Next]_vars

(* Awaited work settles (every fetch has a timeout), the queue moves on, and *)
(* a due timer fires.                                                        *)
FairSpec == Spec /\ WF_vars(Start) /\ WF_vars(Continue) /\ WF_vars(TimerFires)

-----------------------------------------------------------------------------
(* An approval never outlives the session it was prepared with: what is      *)
(* pending belongs to the session that is unlocked now, across locking,      *)
(* restoring another wallet, unlocking again and plans that resolve late.    *)
PendingOwned ==
    \A a \in ctl.pending : a \in issued /\ ctl.session # NoSession
                             /\ approval[a].session = ctl.session

(* An approval is spent once: it signs at most one transaction and one offer, *)
(* whichever caller repeats it, and once it has signed it is no longer        *)
(* pending.                                                                   *)
OneShot ==
    /\ \A i, j \in 1..Len(made) : made[i] = made[j] => i = j
    /\ \A i \in 1..Len(made) : made[i][1] \in issued \ ctl.pending

(* The map of pending approvals stays within its limit although the size is  *)
(* checked before the plan is awaited and the entry is added after it.       *)
PendingBounded == Cardinality(ctl.pending) <= MaxPending

(* An unlocked wallet always has something that will lock it after the delay *)
(* the user has stored: the timer runs to that deadline, or it has fired and *)
(* its work is queued.                                                       *)
AutoLockArmed ==
    ctl.session # NoSession =>
        /\ ctl.autoLock = stored
        /\ \/ ctl.timer = ctl.lastActivity + stored
           \/ /\ ctl.timer = NoTimer
              /\ now >= ctl.lastActivity + stored
              /\ \E i \in 1..Len(queue) : queue[i].kind = "expire"

Overdue == ctl.session # NoSession /\ now >= ctl.lastActivity + ctl.autoLock

(* A wallet left alone beyond its auto-lock delay is locked (or used again). *)
OverdueLocks == Overdue ~> ~Overdue

-----------------------------------------------------------------------------
(* The controller implements one-time approvals (module OneTimeApproval).    *)
Promise == INSTANCE OneTimeApproval WITH
    Ids <- ApprovalIds,
    Holders <- Sessions,
    NoHolder <- NoSession,
    Timeout <- ApprovalTimeout,
    current <- ctl.session,
    open <- ctl.pending,
    owner <- [a \in ApprovalIds |-> approval[a].session],
    deadline <- [a \in ApprovalIds |-> approval[a].expires]

(* Every step of the controller is a step of the abstract one-time approvals *)
(* or changes nothing of them.                                               *)
KeepsPromise == Promise!Spec
=============================================================================
