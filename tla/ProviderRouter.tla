--------------------------- MODULE ProviderRouter ---------------------------
(***************************************************************************)
(* The dApp provider router (src/src/background/provider-router.ts) with   *)
(* the connection permissions it keeps in storage (settings.ts,            *)
(* SitePermissions) and, in outline, the controller it calls: which        *)
(* approvals are usable, and the promise queue in which prepare and        *)
(* approve run one at a time (module WalletController has the details).    *)
(*                                                                         *)
(* A provider call asks the user a question in an approval window.  The    *)
(* window, the request timer, a closed window, a decision and the          *)
(* controller's answer race for the same pending entry.  When a queued     *)
(* controller call settles, its continuation in the router runs before any *)
(* other event, so both are one action; and so are two reads of storage    *)
(* that follow each other.                                                 *)
(***************************************************************************)
EXTENDS Naturals, Sequences, FiniteSets

CONSTANTS
    Requests,      \* provider calls
    Origins,
    Scenarios,     \* the provider calls that pages make: request -> origin and method
    ApprovalIds,
    MaxPerOrigin,  \* MAX_PENDING_PER_ORIGIN
    MaxTotal,      \* MAX_PENDING_TOTAL
    MaxCalls,      \* bound: calls waiting in the controller's queue
    MaxStorageOps, \* bound: overlapping grants and revocations
    MaxRestores,   \* bound: wallets restored over the first one
    MaxStops,      \* bound: times the browser stops the worker
    None

AllMethods == {"connect", "disconnect", "address", "balances", "transaction"}

ASSUME RouterAssumption ==
    /\ Scenarios \subseteq [Requests -> [origin : Origins, method : AllMethods]]
    /\ None \notin ApprovalIds /\ None \notin Requests
    /\ MaxPerOrigin \in Nat \ {0} /\ MaxTotal \in Nat \ {0}
    /\ MaxCalls \in Nat /\ MaxStorageOps \in Nat /\ MaxRestores \in Nat /\ MaxStops \in Nat

VARIABLES
    entry,      \* provider call -> its state; "asked" is membership in #pending
    calls,      \* the controller's promise queue: prepare and approve calls
    usable,     \* approvals the controller would still accept
    forReq,     \* approval -> the request whose operation it covers
    made,       \* log of the approvals signatures were made under
    unlocked,
    account,    \* whether the primary address is stored
    sites,      \* origins in SITES_STORAGE_KEY
    ops,        \* read-modify-writes of the sites in flight
    restoring,  \* vault.create(replace) is between its two storage writes
    wallet,     \* how many wallets have been restored over the first
    stops

vars == <<entry, calls, usable, forReq, made, unlocked, account, sites, ops,
          restoring, wallet, stops>>
approvals == <<usable, forReq, made>>
storage == <<sites, ops, restoring, wallet>>

Outcomes == {"none", "ok", "rejected", "unauthorized", "failed"}

Entry == [st : {"new", "check", "asked", "revoke", "sync", "done"},
          origin : Origins,
          method : AllMethods,
          kind : {"connect", "unlock", "transaction"},
          window : {"opening", "open", "gone"},
          approvalId : ApprovalIds \cup {None},
          decision : {"none", "approve"},
          outcome : Outcomes]

(* A prepare draws its approval, and only then waits for the names of the    *)
(* assets; an approve signs, and only then waits for the broadcast.          *)
Call == [op : {"prepare"}, req : Requests, id : ApprovalIds \cup {None}, at : {"queued", "tokens"}]
        \cup [op : {"approve"}, req : Requests, id : ApprovalIds, good : BOOLEAN,
              at : {"queued", "broadcast"}]

(* req is None when the user disconnects a site in the wallet.               *)
SiteOp == [op : {"grant", "revoke"}, req : Requests \cup {None}, origin : Origins,
           at : {"read", "write"}, copy : SUBSET Origins]

(* The values every variable may take.                                       *)
TypeOK ==
    /\ entry \in [Requests -> Entry]
    /\ calls \in Seq(Call)
    /\ usable \subseteq ApprovalIds
    /\ forReq \in [ApprovalIds -> Requests \cup {None}]
    /\ made \in Seq(ApprovalIds)
    /\ unlocked \in BOOLEAN /\ account \in BOOLEAN /\ restoring \in BOOLEAN
    /\ sites \subseteq Origins
    /\ ops \subseteq SiteOp
    /\ wallet \in 0..MaxRestores
    /\ stops \in 0..MaxStops

(* The origin and the method of a call are fixed before it arrives.          *)
Init ==
    /\ \E s \in Scenarios :
         entry = [r \in Requests |->
                    [st |-> "new", origin |-> s[r].origin, method |-> s[r].method, kind |-> "unlock",
                     window |-> "gone", approvalId |-> None, decision |-> "none", outcome |-> "none"]]
    /\ calls = <<>> /\ usable = {} /\ made = <<>>
    /\ forReq = [a \in ApprovalIds |-> None]
    /\ unlocked = FALSE
    /\ account = TRUE
    /\ sites \in SUBSET Origins
    /\ ops = {}
    /\ restoring = FALSE /\ wallet = 0 /\ stops = 0

-----------------------------------------------------------------------------
(* #finish: the entry leaves the map, and a failure rejects the approval it  *)
(* holds.                                                                    *)

Done(e, outcome) == [e EXCEPT !.st = "done", !.outcome = outcome]

(* Mutant of Finish: an entry that is gone is settled again.                 *)
FinishAnyway(r, outcome) ==
    /\ entry' = [entry EXCEPT ![r] = Done(entry[r], outcome)]
    /\ usable' = IF outcome = "ok" THEN usable ELSE usable \ {entry[r].approvalId}

Finish(r, outcome) ==
    IF entry[r].st = "asked"
      THEN /\ entry' = [entry EXCEPT ![r] = Done(entry[r], outcome)]
           /\ usable' = IF outcome = "ok" THEN usable ELSE usable \ {entry[r].approvalId}
      ELSE UNCHANGED <<entry, usable>>

(* The entries of other calls in #pending.                                   *)
Others(r) == {q \in Requests \ {r} : entry[q].st = "asked"}

(* Mutant of Ask: the method is taken for the kind of question.              *)
AskMethod(r, kind) ==
    entry' = [entry EXCEPT ![r] =
        [entry[r] EXCEPT !.st = "asked", !.kind = entry[r].method, !.window = "opening"]]

(* #ask: refused at the limits, otherwise a window is opened.                *)
Ask(r, kind) ==
    entry' = [entry EXCEPT ![r] =
        IF \/ Cardinality({q \in Others(r) : entry[q].origin = entry[r].origin}) >= MaxPerOrigin
           \/ Cardinality(Others(r)) >= MaxTotal
          THEN Done(entry[r], "failed")
          ELSE [entry[r] EXCEPT !.st = "asked", !.kind = kind, !.window = "opening"]]

Answer(r, outcome) == entry' = [entry EXCEPT ![r] = Done(entry[r], outcome)]

AddressKnown == unlocked \/ account

(* A grant or a revocation begins with a read of all sites.                  *)
BeginSiteOp(op, r, origin) ==
    /\ Cardinality(ops) < MaxStorageOps
    /\ ops' = ops \cup {[op |-> op, req |-> r, origin |-> origin, at |-> "read", copy |-> {}]}

-----------------------------------------------------------------------------
(* A provider call up to its question.                                       *)

Arrive(r) ==
    /\ entry[r].st = "new"
    /\ IF entry[r].method = "disconnect"
         THEN entry' = [entry EXCEPT ![r].st = "revoke"] /\ BeginSiteOp("revoke", r, entry[r].origin)
         ELSE entry' = [entry EXCEPT ![r].st = "check"] /\ UNCHANGED ops
    /\ UNCHANGED <<calls, approvals, unlocked, account, sites, restoring, wallet, stops>>

(* permissions.has resolved.                                                 *)
Checked(r) ==
    /\ entry[r].st = "check"
    /\ LET m == entry[r].method
           connected == entry[r].origin \in sites
       IN IF m = "connect"
            THEN IF connected /\ AddressKnown THEN Answer(r, "ok") ELSE Ask(r, "connect")
            ELSE IF ~connected THEN Answer(r, "unauthorized")
            ELSE CASE m = "address" -> IF AddressKnown THEN Answer(r, "ok") ELSE Ask(r, "unlock")
                   [] m = "balances" -> IF unlocked THEN entry' = [entry EXCEPT ![r].st = "sync"]
                                                    ELSE Ask(r, "unlock")
                   [] m = "transaction" -> Ask(r, "transaction")
    /\ UNCHANGED <<calls, approvals, unlocked, account, storage, stops>>

(* The storage could not be read, or the parameters are not valid.           *)
CheckFailed(r) ==
    /\ entry[r].st = "check"
    /\ Answer(r, "failed")
    /\ UNCHANGED <<calls, approvals, unlocked, account, storage, stops>>

(* The snapshot for ep_getBalances settled.                                  *)
Synced(r) ==
    /\ entry[r].st = "sync"
    /\ \E outcome \in {"ok", "failed"} : Answer(r, outcome)
    /\ UNCHANGED <<calls, approvals, unlocked, account, storage, stops>>

-----------------------------------------------------------------------------
(* The approval window.  Its id reaches the entry only when openApproval     *)
(* resolves; a window closed before that is not recognised.                  *)

WindowOpened(r) ==
    /\ entry[r].window = "opening"
    /\ entry' = [entry EXCEPT ![r].window = IF entry[r].st = "asked" THEN "open" ELSE "gone"]
    /\ UNCHANGED <<calls, approvals, unlocked, account, storage, stops>>

WindowClosedEarly(r) ==
    /\ entry[r].window = "opening"
    /\ entry' = [entry EXCEPT ![r].window = "gone"]
    /\ UNCHANGED <<calls, approvals, unlocked, account, storage, stops>>

WindowFailed(r) ==
    /\ entry[r].window = "opening" /\ entry[r].st = "asked"
    /\ Finish(r, "failed")
    /\ UNCHANGED <<calls, forReq, made, unlocked, account, storage, stops>>

WindowClosed(r) ==
    /\ entry[r].window = "open" /\ entry[r].st = "asked"
    /\ Finish(r, "rejected")
    /\ UNCHANGED <<calls, forReq, made, unlocked, account, storage, stops>>

(* Mutant of TimedOut: only requests with a window get a timer.              *)
TimedOutWithWindow(r) ==
    /\ entry[r].st = "asked" /\ entry[r].window = "open"
    /\ Finish(r, "rejected")
    /\ UNCHANGED <<calls, forReq, made, unlocked, account, storage, stops>>

TimedOut(r) ==
    /\ entry[r].st = "asked"
    /\ Finish(r, "rejected")
    /\ UNCHANGED <<calls, forReq, made, unlocked, account, storage, stops>>

-----------------------------------------------------------------------------
(* describe: the window asks what it should show.  A transaction is prepared *)
(* again each time.                                                          *)

Describe(r) ==
    /\ entry[r].st = "asked" /\ entry[r].kind = "transaction"
    /\ unlocked
    /\ Len(calls) < MaxCalls
    /\ calls' = Append(calls, [op |-> "prepare", req |-> r, id |-> None, at |-> "queued"])
    /\ UNCHANGED <<entry, approvals, unlocked, account, storage, stops>>

(* Mutant of Superseded: the approval of an earlier describe is kept.        *)
SupersededNone(r) == {}

Superseded(r) == {entry[r].approvalId}

(* The head of the promise queue is such a call, at such a wait.             *)
HeadIs(op, at) == calls # <<>> /\ Head(calls).op = op /\ Head(calls).at = at

(* The plan is accepted: the controller would take the approval, the router  *)
(* does not know it yet.                                                     *)
Planned(a) ==
    /\ HeadIs("prepare", "queued")
    /\ unlocked
    /\ forReq[a] = None
    /\ forReq' = [forReq EXCEPT ![a] = Head(calls).req]
    /\ usable' = usable \cup {a}
    /\ calls' = [calls EXCEPT ![1].id = a, ![1].at = "tokens"]
    /\ UNCHANGED <<entry, made, unlocked, account, storage, stops>>

(* prepare resolved: the new approval replaces the one of an earlier         *)
(* describe, also when the request was settled meanwhile.                    *)
Prepared ==
    /\ HeadIs("prepare", "tokens")
    /\ calls' = Tail(calls)
    /\ LET r == Head(calls).req IN
         /\ usable' = usable \ Superseded(r)
         /\ entry' = [entry EXCEPT ![r].approvalId = Head(calls).id]
    /\ UNCHANGED <<forReq, made, unlocked, account, storage, stops>>

PrepareFailed ==
    /\ HeadIs("prepare", "queued")
    /\ ~restoring
    /\ calls' = Tail(calls)
    /\ Finish(Head(calls).req, "failed")
    /\ UNCHANGED <<forReq, made, unlocked, account, storage, stops>>

-----------------------------------------------------------------------------
(* resolve: the decision taken in the window.                                *)

Declined(r) ==
    /\ entry[r].st = "asked"
    /\ Finish(r, "rejected")
    /\ UNCHANGED <<calls, forReq, made, unlocked, account, storage, stops>>

(* Connect: the permission is granted after the storage has been read.       *)
ApprovedConnect(r) ==
    /\ entry[r].st = "asked" /\ entry[r].kind = "connect"
    /\ unlocked
    /\ BeginSiteOp("grant", r, entry[r].origin)
    /\ UNCHANGED <<entry, calls, approvals, unlocked, account, sites, restoring, wallet, stops>>

(* Unlock: the call goes on with the unlocked wallet.                        *)
ApprovedUnlock(r) ==
    /\ entry[r].st = "asked" /\ entry[r].kind = "unlock"
    /\ unlocked
    /\ entry' = [entry EXCEPT ![r] = IF entry[r].method = "balances"
                                       THEN [entry[r] EXCEPT !.st = "sync"]
                                       ELSE Done(entry[r], "ok")]
    /\ UNCHANGED <<calls, approvals, unlocked, account, storage, stops>>

(* Mutant of Showing: an earlier approval can be confirmed during a describe. *)
ShowingAnyway(r) == entry[r].approvalId # None

(* A window that waits for a describe shows no approval to decide on.        *)
Showing(r) ==
    /\ entry[r].approvalId # None
    /\ \A i \in 1..Len(calls) : ~(calls[i].op = "prepare" /\ calls[i].req = r)

(* Transaction: the entry gives up its approval id and awaits the            *)
(* controller.  good: the window sent the token and hash of this approval.   *)
ApprovedTransaction(r, good) ==
    /\ entry[r].st = "asked" /\ entry[r].kind = "transaction"
    /\ Showing(r)
    /\ Len(calls) < MaxCalls
    /\ calls' = Append(calls, [op |-> "approve", req |-> r, id |-> entry[r].approvalId,
                               good |-> good, at |-> "queued"])
    /\ entry' = [entry EXCEPT ![r].approvalId = None, ![r].decision = "approve"]
    /\ UNCHANGED <<approvals, unlocked, account, storage, stops>>

(* The controller consumes the approval and signs.                           *)
Signed ==
    /\ HeadIs("approve", "queued")
    /\ Head(calls).id \in usable /\ Head(calls).good
    /\ usable' = usable \ {Head(calls).id}
    /\ made' = Append(made, Head(calls).id)
    /\ calls' = [calls EXCEPT ![1].at = "broadcast"]
    /\ UNCHANGED <<entry, forReq, unlocked, account, storage, stops>>

ApproveDone ==
    /\ HeadIs("approve", "broadcast")
    /\ calls' = Tail(calls)
    /\ Finish(Head(calls).req, "ok")
    /\ UNCHANGED <<forReq, made, unlocked, account, storage, stops>>

(* Mutant of ApproveFailed: the failure is reported as success.              *)
ApproveFailedAsOk ==
    /\ calls # <<>> /\ Head(calls).op = "approve"
    /\ calls' = Tail(calls)
    /\ Finish(Head(calls).req, "ok")
    /\ UNCHANGED <<forReq, made, unlocked, account, storage, stops>>

(* The approval was not accepted, the core refused, or the broadcast failed. *)
ApproveFailed ==
    /\ calls # <<>> /\ Head(calls).op = "approve"
    /\ ~restoring
    /\ calls' = Tail(calls)
    /\ LET r == Head(calls).req
           rest == usable \ {Head(calls).id}
       IN IF entry[r].st = "asked"
            THEN /\ entry' = [entry EXCEPT ![r] = Done(entry[r], "failed")]
                 /\ usable' = rest \ {entry[r].approvalId}
            ELSE usable' = rest /\ UNCHANGED entry
    /\ UNCHANGED <<forReq, made, unlocked, account, storage, stops>>

-----------------------------------------------------------------------------
(* SitePermissions: grant and revoke read all sites, change the copy and     *)
(* write it back; nothing keeps two of them apart.                           *)

(* The user disconnects a site in the wallet.                                *)
RevokeSite(origin) ==
    /\ BeginSiteOp("revoke", None, origin)
    /\ UNCHANGED <<entry, calls, approvals, unlocked, account, sites, restoring, wallet, stops>>

(* ep_disconnect is answered when its revocation has settled.                *)
AnswerRevoked(o, outcome) == IF o.req = None THEN UNCHANGED entry ELSE Answer(o.req, outcome)

SitesRead(o) ==
    /\ o \in ops /\ o.at = "read"
    /\ LET absent == o.op = "revoke" /\ o.origin \notin sites
           copy == IF o.op = "grant" THEN sites \cup {o.origin} ELSE sites \ {o.origin}
       IN /\ ops' = (ops \ {o}) \cup (IF absent THEN {} ELSE {[o EXCEPT !.at = "write", !.copy = copy]})
          /\ IF absent THEN AnswerRevoked(o, "ok") ELSE UNCHANGED entry
    /\ UNCHANGED <<calls, approvals, unlocked, account, sites, restoring, wallet, stops>>

(* A connect whose question is still pending goes on to #address, which may  *)
(* have to ask for the password.                                             *)
SitesWritten(o) ==
    /\ o \in ops /\ o.at = "write"
    /\ sites' = o.copy
    /\ ops' = ops \ {o}
    /\ IF o.op = "revoke" THEN AnswerRevoked(o, "ok")
       ELSE IF entry[o.req].st # "asked" \/ entry[o.req].kind # "connect" THEN UNCHANGED entry
       ELSE IF AddressKnown THEN Answer(o.req, "ok")
       ELSE Ask(o.req, "unlock")
    /\ UNCHANGED <<calls, approvals, unlocked, account, restoring, wallet, stops>>

(* The storage refuses: a question that was being answered stays pending.    *)
SitesFailed(o) ==
    /\ o \in ops
    /\ ops' = ops \ {o}
    /\ IF o.op = "revoke" THEN AnswerRevoked(o, "failed") ELSE UNCHANGED entry
    /\ UNCHANGED <<calls, approvals, unlocked, account, sites, restoring, wallet, stops>>

-----------------------------------------------------------------------------
(* The controller around the router.                                         *)

Unlock ==
    /\ ~restoring
    /\ unlocked' = TRUE /\ account' = TRUE
    /\ usable' = {}
    /\ UNCHANGED <<entry, calls, forReq, made, storage, stops>>

Lock ==
    /\ unlocked
    /\ unlocked' = FALSE
    /\ usable' = {}
    /\ UNCHANGED <<entry, calls, forReq, made, account, storage, stops>>

(* An approval reaches its expiry.                                           *)
Expire(a) ==
    /\ a \in usable
    /\ usable' = usable \ {a}
    /\ UNCHANGED <<entry, calls, forReq, made, unlocked, account, storage, stops>>

(* vault.create(replace): lock and replace the vault, then remove the sites  *)
(* and the account, then adopt the new session.  It holds the queue.         *)
RestoreReplaced ==
    /\ ~restoring /\ wallet < MaxRestores
    /\ \A i \in 1..Len(calls) : calls[i].at = "queued"
    /\ restoring' = TRUE
    /\ wallet' = wallet + 1
    /\ unlocked' = FALSE
    /\ usable' = {}
    /\ UNCHANGED <<entry, calls, forReq, made, account, sites, ops, stops>>

RestoreRemoved ==
    /\ restoring /\ account
    /\ sites' = {}
    /\ account' = FALSE
    /\ UNCHANGED <<entry, calls, approvals, unlocked, ops, restoring, wallet, stops>>

RestoreAdopted ==
    /\ restoring /\ ~account
    /\ restoring' = FALSE
    /\ unlocked' = TRUE /\ account' = TRUE
    /\ UNCHANGED <<entry, calls, approvals, sites, ops, wallet, stops>>

(* The sites could not be removed: the handler ends with the wallet locked.  *)
RestoreFailed ==
    /\ restoring /\ account
    /\ restoring' = FALSE
    /\ UNCHANGED <<entry, calls, approvals, unlocked, account, sites, ops, wallet, stops>>

(* The browser stops the worker: pages see their port close, and everything  *)
(* that is not in storage is gone.                                           *)
WorkerStopped ==
    /\ stops < MaxStops
    /\ stops' = stops + 1
    /\ entry' = [r \in Requests |-> IF entry[r].st \in {"new", "done"} THEN entry[r]
                                    ELSE Done(entry[r], "failed")]
    /\ calls' = <<>> /\ usable' = {} /\ ops' = {}
    /\ unlocked' = FALSE /\ restoring' = FALSE
    /\ UNCHANGED <<forReq, made, account, sites, wallet>>

-----------------------------------------------------------------------------
Progress(r) == Checked(r) \/ CheckFailed(r) \/ Synced(r) \/ TimedOut(r)

StorageStep(r) ==
    \E o \in ops : o.req = r /\ (SitesRead(o) \/ SitesWritten(o) \/ SitesFailed(o))

Next ==
    \/ \E r \in Requests :
         \/ Arrive(r) \/ Progress(r) \/ Describe(r) \/ Declined(r)
         \/ WindowOpened(r) \/ WindowClosedEarly(r) \/ WindowFailed(r) \/ WindowClosed(r)
         \/ ApprovedConnect(r) \/ ApprovedUnlock(r)
         \/ \E good \in BOOLEAN : ApprovedTransaction(r, good)
    \/ \E a \in ApprovalIds : Planned(a) \/ Expire(a)
    \/ Prepared \/ PrepareFailed \/ Signed \/ ApproveDone \/ ApproveFailed
    \/ \E r \in Requests \cup {None} : StorageStep(r)
    \/ \E o \in Origins : RevokeSite(o)
    \/ Unlock \/ Lock \/ WorkerStopped
    \/ RestoreReplaced \/ RestoreRemoved \/ RestoreAdopted \/ RestoreFailed

Spec == Init /\ [][Next]_vars

(* Storage answers each request's reads and writes, the snapshot has a       *)
(* timeout, and the request timer fires.                                     *)
FairSpec == Spec /\ \A r \in Requests : WF_vars(StorageStep(r)) /\ WF_vars(Progress(r))

-----------------------------------------------------------------------------
SignedFor(r) == {i \in 1..Len(made) : forReq[made[i]] = r}

(* It can never move funds without your approval: a signature is made only   *)
(* under an approval prepared for a request the user approved, and a request *)
(* is signed for at most once, whatever races for its entry.                 *)
SignedWithConsent ==
    \A r \in Requests :
        SignedFor(r) # {} => entry[r].decision = "approve" /\ Cardinality(SignedFor(r)) = 1

(* A page that is told its transaction went through has had it signed.       *)
OkMeansSigned ==
    \A r \in Requests :
        entry[r].outcome = "ok" /\ entry[r].method = "transaction" => SignedFor(r) # {}

(* While a request is pending, every approval the controller would accept    *)
(* for it is the one the router holds, which settling it rejects, or belongs *)
(* to a call of prepare or approve that is still running: describing it      *)
(* again leaves none behind.                                                 *)
NoForgottenApproval ==
    \A a \in usable :
        LET r == forReq[a] IN
        entry[r].st = "asked" =>
            \/ entry[r].approvalId = a
            \/ \E i \in 1..Len(calls) : calls[i].id = a

(* The answer a page has received is never followed by another one.          *)
AnswerFinal ==
    [][\A r \in Requests : entry[r].outcome # "none" => entry'[r].outcome = entry[r].outcome]_vars

(* Every provider call is answered, even if its window never appears, is     *)
(* closed before its id is known, or its approval is lost.                   *)
EveryCallAnswered ==
    \A r \in Requests : entry[r].st \notin {"new", "done"} ~> entry[r].st = "done"

(* A page told that the user rejected its transaction can rely on it: no     *)
(* signature was made for it.                                                *)
RejectedUnsigned ==
    \A r \in Requests : entry[r].outcome = "rejected" => SignedFor(r) = {}
=============================================================================
