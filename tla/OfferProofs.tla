----------------------------- MODULE OfferProofs -----------------------------
(***************************************************************************)
(* Proofs about OfferState.  The types hold for any number of processes;   *)
(* the promises of the file are kept for a process that has it to itself   *)
(* (the run offers_two shows what a second one does to them).              *)
(***************************************************************************)
EXTENDS OfferState, TLAPS

(* An offer names a coin that exists or is planned; a cancel, a coin.        *)
Names(b) ==
    /\ b.kind = "offer" => b.coin \in named
    /\ b.kind = "cancel" => b.coin \in Coins

BundlesNamed ==
    /\ \A b \in parked : Names(b)
    /\ \A p \in Procs : /\ Names(proc[p].bundle)
                        /\ proc[p].at = "offer" => proc[p].bundle.kind = "offer"

OfferInv == TypeOK /\ BundlesNamed

(* The larger of two numbers.                                                *)
LEMMA MaxOfTwo ==
    ASSUME NEW a \in Nat, NEW b \in Nat
    PROVE  Max({a, b}) \in Nat /\ Max({a, b}) >= a /\ Max({a, b}) >= b
<1>1. \E x \in {a, b} : \A y \in {a, b} : x >= y
  OBVIOUS
<1>2. Max({a, b}) \in {a, b} /\ \A y \in {a, b} : Max({a, b}) >= y
  BY <1>1 DEF Max
<1> QED BY <1>2

(* Reserving only raises the first free index.                               *)
LEMMA ReserveFacts ==
    ASSUME NEW s \in Local, NEW i \in Nat
    PROVE  /\ Reserve(s, i) \in Local /\ Reserve(s, i).offers = s.offers
           /\ Reserve(s, i).reserved >= s.reserved /\ Reserve(s, i).reserved > i
<1>1. s.reserved \in Nat /\ i + 1 \in Nat
  BY DEF Local
<1>2. PICK m : m = Max({s.reserved, i + 1})
  OBVIOUS
<1>3. m \in Nat /\ m >= s.reserved /\ m >= i + 1
  BY <1>1, <1>2, MaxOfTwo
<1>4. Reserve(s, i) = [s EXCEPT !.reserved = m]
  BY <1>2 DEF Reserve
<1> QED BY <1>1, <1>3, <1>4 DEF Local

-----------------------------------------------------------------------------
(* A process is at a stage, with its copy of the file and a bundle; the      *)
(* others stay as they are.                                                  *)
Stages == {"closed", "ready", "gate", "resume", "execute", "offer", "save"}

Becomes(p, at, mem, b) ==
    /\ proc' \in [Procs -> Process]
    /\ proc'[p].at = at /\ proc'[p].mem = mem /\ proc'[p].bundle = b
    /\ \A q \in Procs : q # p => proc'[q] = proc[q]

(* Whatever form the assignment has, that is what it does.                   *)
LEMMA AssignedWhole ==
    ASSUME TypeOK, NEW p \in Procs, NEW x \in Process, proc' = [proc EXCEPT ![p] = x]
    PROVE  Becomes(p, x.at, x.mem, x.bundle)
<1>1. proc \in [Procs -> Process]
  BY DEF TypeOK
<1> QED BY <1>1 DEF Becomes

(* An assignment of the three parts.                                        *)
LEMMA Assigned ==
    ASSUME TypeOK, NEW p \in Procs, NEW at \in Stages, NEW mem \in Local, NEW b \in Bundle,
           proc' = [proc EXCEPT ![p] = [at |-> at, mem |-> mem, bundle |-> b]]
    PROVE  Becomes(p, at, mem, b)
<1> DEFINE x == [at |-> at, mem |-> mem, bundle |-> b]
<1>1. x \in Process /\ x.at = at /\ x.mem = mem /\ x.bundle = b
  BY DEF Process, Stages
<1>2. proc' = [proc EXCEPT ![p] = x]
  OBVIOUS
<1> HIDE DEF x
<1>3. Becomes(p, x.at, x.mem, x.bundle)
  BY <1>1, <1>2, AssignedWhole
<1> QED BY <1>1, <1>3

(* Assignments of some fields leave the other ones.                          *)
LEMMA AssignedFields ==
    ASSUME TypeOK, NEW p \in Procs
    PROVE  /\ proc[p] \in Process
           /\ \A at \in Stages : Goto(p, at) => Becomes(p, at, proc[p].mem, proc[p].bundle)
           /\ Return(p) => Becomes(p, "ready", proc[p].mem, NoBundle)
           /\ \A b \in Bundle : Prepare(p, b) => Becomes(p, "gate", proc[p].mem, b)
           /\ \A mem \in Local : proc' = [proc EXCEPT ![p].mem = mem] =>
                Becomes(p, proc[p].at, mem, proc[p].bundle)
           /\ \A at \in Stages, b \in Bundle :
                proc' = [proc EXCEPT ![p].at = at, ![p].bundle = b] =>
                    Becomes(p, at, proc[p].mem, b)
           /\ \A at \in Stages, mem \in Local :
                proc' = [proc EXCEPT ![p].at = at, ![p].mem = mem] =>
                    Becomes(p, at, mem, proc[p].bundle)
<1>1. proc[p] \in Process /\ NoBundle \in Bundle /\ proc \in [Procs -> Process]
  BY DEF TypeOK, NoBundle, Bundle
<1>2. ASSUME NEW at \in Stages, NEW b \in Bundle,
             proc' = [proc EXCEPT ![p].at = at, ![p].bundle = b]
      PROVE  Becomes(p, at, proc[p].mem, b)
  <2> DEFINE x == [proc[p] EXCEPT !.at = at, !.bundle = b]
  <2>1. x \in Process /\ x.at = at /\ x.mem = proc[p].mem /\ x.bundle = b
    BY <1>1 DEF Process, Stages
  <2>2. proc' = [proc EXCEPT ![p] = x]
    BY <1>1, <1>2
  <2> HIDE DEF x
  <2>3. Becomes(p, x.at, x.mem, x.bundle)
    BY <2>1, <2>2, AssignedWhole
  <2> QED BY <2>1, <2>3
<1>3. ASSUME NEW at \in Stages, NEW mem \in Local,
             proc' = [proc EXCEPT ![p].at = at, ![p].mem = mem]
      PROVE  Becomes(p, at, mem, proc[p].bundle)
  <2> DEFINE x == [proc[p] EXCEPT !.at = at, !.mem = mem]
  <2>1. x \in Process /\ x.at = at /\ x.mem = mem /\ x.bundle = proc[p].bundle
    BY <1>1 DEF Process, Stages
  <2>2. proc' = [proc EXCEPT ![p] = x]
    BY <1>1, <1>3
  <2> HIDE DEF x
  <2>3. Becomes(p, x.at, x.mem, x.bundle)
    BY <2>1, <2>2, AssignedWhole
  <2> QED BY <2>1, <2>3
<1>4. ASSUME NEW at \in Stages, Goto(p, at)
      PROVE  Becomes(p, at, proc[p].mem, proc[p].bundle)
  <2> DEFINE x == [proc[p] EXCEPT !.at = at]
  <2>1. x \in Process /\ x.at = at /\ x.mem = proc[p].mem /\ x.bundle = proc[p].bundle
    BY <1>1 DEF Process, Stages
  <2>2. proc' = [proc EXCEPT ![p] = x]
    BY <1>1, <1>4 DEF Goto
  <2> HIDE DEF x
  <2>3. Becomes(p, x.at, x.mem, x.bundle)
    BY <2>1, <2>2, AssignedWhole
  <2> QED BY <2>1, <2>3
<1>5. ASSUME NEW mem \in Local, proc' = [proc EXCEPT ![p].mem = mem]
      PROVE  Becomes(p, proc[p].at, mem, proc[p].bundle)
  <2> DEFINE x == [proc[p] EXCEPT !.mem = mem]
  <2>1. x \in Process /\ x.at = proc[p].at /\ x.mem = mem /\ x.bundle = proc[p].bundle
    BY <1>1 DEF Process
  <2>2. proc' = [proc EXCEPT ![p] = x]
    BY <1>1, <1>5
  <2> HIDE DEF x
  <2>3. Becomes(p, x.at, x.mem, x.bundle)
    BY <2>1, <2>2, AssignedWhole
  <2> QED BY <2>1, <2>3
<1>6. "ready" \in Stages /\ "gate" \in Stages
  BY DEF Stages
<1> QED BY <1>1, <1>2, <1>3, <1>4, <1>5, <1>6 DEF Return, Prepare

(* Numbers and bundles the commands compute.                                 *)
LEMMA Indices ==
    ASSUME TypeOK, NEW p \in Procs
    PROVE  /\ ReceiveIndex(p) \in Nat
           /\ ReceiveIndex(p) >= proc[p].mem.reserved
<1>1. next \in Nat /\ proc[p].mem.reserved \in Nat
  BY DEF TypeOK, Process, Local
<1> QED BY <1>1, MaxOfTwo DEF ReceiveIndex

(* The copy of the file that each step leaves.                               *)
LEMMA Copies ==
    ASSUME TypeOK, NEW p \in Procs
    PROVE  /\ Default \in Local /\ proc[p].mem \in Local
           /\ \A b \in Bundle : MarkCancelled(proc[p].mem, b) \in Local
           /\ \A c \in Coins : [proc[p].mem EXCEPT !.offers[c] = "open"] \in Local
<1>1. Default \in Local
  BY DEF Default, Local
<1>2. proc[p].mem \in Local
  BY DEF TypeOK, Process
<1>3. ASSUME NEW b \in Bundle PROVE MarkCancelled(proc[p].mem, b) \in Local
  BY <1>2 DEF MarkCancelled, Local
<1>4. ASSUME NEW c \in Coins PROVE [proc[p].mem EXCEPT !.offers[c] = "open"] \in Local
  BY <1>2 DEF Local
<1> QED BY <1>1, <1>2, <1>3, <1>4

-----------------------------------------------------------------------------
(* What a step of one process does to the bundles: it holds one that names   *)
(* its coin, and parks none but the one it held.                             *)
LEMMA BundlesStay ==
    ASSUME OfferInv, NEW p \in Procs, NEW at, NEW mem, NEW b, Becomes(p, at, mem, b),
           b.kind = "offer" => b.coin \in named', b.kind = "cancel" => b.coin \in Coins,
           at = "offer" => b.kind = "offer",
           named \subseteq named', parked' \subseteq parked \cup {proc[p].bundle}
    PROVE  BundlesNamed'
<1>1. \A c : c \in named => c \in named'
  OBVIOUS
<1>2. \A x \in parked' : Names(x)'
  BY <1>1 DEF OfferInv, BundlesNamed, Names
<1>3. ASSUME NEW q \in Procs
      PROVE  Names(proc[q].bundle)' /\ (proc'[q].at = "offer" => proc'[q].bundle.kind = "offer")
  BY <1>1 DEF OfferInv, BundlesNamed, Names, Becomes
<1> QED BY <1>2, <1>3 DEF BundlesNamed

(* The empty file and no bundle.                                             *)
LEMMA OfferInit == Init => OfferInv
<1> SUFFICES ASSUME Init PROVE OfferInv
  OBVIOUS
<1> DEFINE x == [at |-> "closed", mem |-> Default, bundle |-> NoBundle]
<1>1. Default \in Local /\ NoBundle \in Bundle /\ NoBundle.kind = "spend"
  BY DEF Default, Local, NoBundle, Bundle
<1>2. x \in Process /\ x.bundle = NoBundle
  BY <1>1 DEF Process
<1>3. proc = [p \in Procs |-> x]
  BY DEF Init
<1> HIDE DEF x
<1>4. TypeOK
  <2>1. proc \in [Procs -> Process]
    BY <1>2, <1>3
  <2>2. file \in Local
    BY <1>1 DEF Init
  <2> QED BY <2>1, <2>2, OfferAssumption DEF Init, TypeOK, OfferAssumption
<1>5. BundlesNamed
  BY <1>1, <1>2, <1>3 DEF Init, BundlesNamed, Names
<1> QED BY <1>4, <1>5 DEF OfferInv

(* Every step of every process, and of the world, keeps the types.           *)
LEMMA OfferNext == OfferInv /\ [Next]_vars => OfferInv'
<1> SUFFICES ASSUME OfferInv, [Next]_vars PROVE OfferInv'
  OBVIOUS
<1> USE DEF OfferInv, chain, promises
<1>0. /\ TypeOK /\ \A p \in Procs : proc[p] \in Process /\ proc[p].mem \in Local
                                    /\ proc[p].bundle \in Bundle
      /\ NoBundle \in Bundle /\ NoBundle.kind = "spend" /\ Default \in Local
  BY DEF TypeOK, Process, NoBundle, Bundle, Default, Local
<1> USE DEF Stages
<1>1. ASSUME NEW p \in Procs, Open(p) \/ Exit(p) \/ SaveCopy(p) \/ Address(p) \/ OfferList(p)
      PROVE  OfferInv'
  <2>1. CASE Open(p)
    <3>1. Becomes(p, "ready", file, NoBundle)
      BY <1>0, <2>1, Assigned DEF Open, TypeOK
    <3>2. BundlesNamed'
      BY <1>0, <2>1, <3>1, BundlesStay DEF Open
    <3> QED BY <1>0, <2>1, <3>1, <3>2 DEF Open, Becomes, TypeOK
  <2>2. CASE Exit(p)
    <3>1. Becomes(p, "closed", Default, NoBundle)
      BY <1>0, <2>2, Assigned DEF Exit
    <3>2. BundlesNamed'
      BY <1>0, <2>2, <3>1, BundlesStay DEF Exit
    <3> QED BY <1>0, <2>2, <3>1, <3>2 DEF Exit, Becomes, TypeOK
  <2>3. CASE SaveCopy(p)
    BY <1>0, <2>3 DEF SaveCopy, TypeOK, BundlesNamed, Names
  <2>4. CASE Address(p)
    <3>1. handed' = handed \cup {ReceiveIndex(p)} /\ commands' = commands + 1
          /\ UNCHANGED <<file, proc, parked, chain, named, promises>>
      BY <2>4 DEF Address, Command
    <3>2. ReceiveIndex(p) \in Nat /\ handed \subseteq Nat /\ commands \in Nat
      BY <1>0, Indices DEF TypeOK
    <3>3. handed' \subseteq Nat
      BY <3>1, <3>2
    <3>4. commands' \in Nat
      BY <3>1, <3>2
    <3> QED BY <1>0, <3>1, <3>3, <3>4 DEF TypeOK, BundlesNamed, Names
  <2>5. CASE OfferList(p)
    <3> DEFINE s == proc[p].mem
               gone == OpenOfferOutpoints(s) \ unspent
               mem == [s EXCEPT !.offers =
                        [c \in Coins |-> IF c \in gone THEN "spent" ELSE s.offers[c]]]
    <3>1. mem \in Local
      BY <1>0 DEF Local
    <3>2. proc' = [proc EXCEPT ![p].mem = mem] /\ file' \in {file, mem}
          /\ UNCHANGED <<parked, chain, named, handed, promises, commands>>
      BY <2>5 DEF OfferList
    <3> HIDE DEF mem
    <3>3. Becomes(p, proc[p].at, mem, proc[p].bundle)
      BY <1>0, <3>1, <3>2, AssignedFields
    <3>4. BundlesNamed'
      BY <1>0, <3>2, <3>3, BundlesStay DEF BundlesNamed, Names
    <3> QED BY <1>0, <3>1, <3>2, <3>3, <3>4 DEF Becomes, TypeOK
  <2> QED BY <1>1, <2>1, <2>2, <2>3, <2>4, <2>5
<1>2. ASSUME NEW p \in Procs, NEW b \in Bundle, Command(p), Prepare(p, b), b.kind # "offer",
             b.kind = "cancel" => b.coin \in Coins,
             UNCHANGED <<file, parked, chain, named, handed, promises>>
      PROVE  OfferInv'
  <2>1. Becomes(p, "gate", proc[p].mem, b)
    BY <1>0, <1>2, AssignedFields
  <2>2. BundlesNamed'
    BY <1>2, <2>1, BundlesStay
  <2> QED BY <1>0, <1>2, <2>1, <2>2 DEF Command, Becomes, TypeOK
<1>3. ASSUME NEW p \in Procs, NEW picked \in SUBSET Coins, NEW receives \in BOOLEAN,
             PrepareSpend(p, picked, receives)
      PROVE  OfferInv'
  <2> DEFINE b == [kind |-> "spend", picked |-> picked, coin |-> None, pay |-> 0,
                   seen |-> IF receives THEN ReceiveIndex(p) + 1 ELSE 0]
  <2>1. b \in Bundle /\ b.kind = "spend"
    BY <1>0, Indices DEF Bundle
  <2>2. Command(p) /\ Prepare(p, b) /\ UNCHANGED <<file, parked, chain, named, handed, promises>>
    BY <1>3 DEF PrepareSpend
  <2> HIDE DEF b
  <2> QED BY <1>2, <2>1, <2>2
<1>4. ASSUME NEW p \in Procs, NEW others \in SUBSET Coins, NEW c \in Coins,
             PrepareCancel(p, c, others)
      PROVE  OfferInv'
  <2> DEFINE b == [kind |-> "cancel", picked |-> others, coin |-> c, pay |-> 0, seen |-> 0]
  <2>1. b \in Bundle /\ b.kind = "cancel" /\ b.coin = c
    BY DEF Bundle
  <2>2. Command(p) /\ Prepare(p, b) /\ UNCHANGED <<file, parked, chain, named, handed, promises>>
    BY <1>4 DEF PrepareCancel
  <2> HIDE DEF b
  <2> QED BY <1>2, <2>1, <2>2
<1>5. ASSUME NEW p \in Procs, NEW b \in Bundle, Command(p), ReserveAndGo(p, b), b.kind = "offer",
             b.coin \in named', named \subseteq named', named' \subseteq Coins,
             UNCHANGED <<parked, chain, handed, live, completed>>
      PROVE  OfferInv'
  <2> DEFINE mem == Reserve(proc[p].mem, b.pay)
  <2>1. mem \in Local /\ b.pay \in Nat
    BY <1>0, ReserveFacts DEF Bundle
  <2>2. \/ /\ file' = mem /\ offered' = offered \cup {b.pay}
           /\ proc' = [proc EXCEPT ![p] = [at |-> "gate", mem |-> mem, bundle |-> b]]
        \/ proc' = [proc EXCEPT ![p].mem = mem] /\ UNCHANGED <<file, offered>>
    BY <1>5 DEF ReserveAndGo
  <2> HIDE DEF mem
  <2>3. commands' \in Nat /\ unspent' \subseteq named'
    BY <1>0, <1>5 DEF Command, TypeOK
  <2>4. CASE /\ file' = mem /\ offered' = offered \cup {b.pay}
             /\ proc' = [proc EXCEPT ![p] = [at |-> "gate", mem |-> mem, bundle |-> b]]
    <3>1. Becomes(p, "gate", mem, b)
      BY <1>0, <2>1, <2>4, Assigned
    <3>2. BundlesNamed'
      BY <1>5, <3>1, BundlesStay
    <3> QED BY <1>0, <1>5, <2>1, <2>3, <2>4, <3>1, <3>2 DEF Becomes, TypeOK
  <2>5. CASE proc' = [proc EXCEPT ![p].mem = mem] /\ UNCHANGED <<file, offered>>
    <3>1. Becomes(p, proc[p].at, mem, proc[p].bundle)
      BY <1>0, <2>1, <2>5, AssignedFields
    <3>2. BundlesNamed'
      BY <1>5, <3>1, BundlesStay DEF BundlesNamed, Names
    <3> QED BY <1>0, <1>5, <2>3, <2>5, <3>1, <3>2 DEF Becomes, TypeOK
  <2> QED BY <2>2, <2>4, <2>5
<1>6. ASSUME NEW p \in Procs, NEW c \in Coins, OfferExact(p, c) PROVE OfferInv'
  <2> DEFINE b == [kind |-> "offer", picked |-> {c}, coin |-> c,
                   pay |-> ReceiveIndex(p), seen |-> 0]
  <2>1. b \in Bundle /\ b.kind = "offer" /\ b.coin = c
    BY <1>0, Indices DEF Bundle
  <2>2. Command(p) /\ ReserveAndGo(p, b) /\ c \in unspent
        /\ UNCHANGED <<parked, chain, named, handed, live, completed>>
    BY <1>6 DEF OfferExact, Spendable
  <2> HIDE DEF b
  <2> QED BY <1>0, <1>5, <2>1, <2>2 DEF TypeOK
<1>7. ASSUME NEW p \in Procs, NEW picked \in SUBSET Coins, NEW c \in Coins, OfferSplit(p, picked, c)
      PROVE  OfferInv'
  <2> DEFINE b == [kind |-> "offer", picked |-> picked, coin |-> c,
                   pay |-> ReceiveIndex(p) + 1, seen |-> ReceiveIndex(p) + 1]
  <2>1. b \in Bundle /\ b.kind = "offer" /\ b.coin = c
    BY <1>0, Indices DEF Bundle
  <2>2. Command(p) /\ ReserveAndGo(p, b) /\ named' = named \cup {c}
        /\ UNCHANGED <<parked, chain, handed, live, completed>>
    BY <1>7 DEF OfferSplit
  <2> HIDE DEF b
  <2> QED BY <1>0, <1>5, <2>1, <2>2 DEF TypeOK
<1>8. ASSUME NEW p \in Procs, NEW b \in parked, SignFile(p, b) PROVE OfferInv'
  <2>1. b \in Bundle /\ Names(b)
    BY <1>0 DEF TypeOK, BundlesNamed
  <2>2. Becomes(p, "resume", proc[p].mem, b)
    BY <1>0, <1>8, <2>1, AssignedFields DEF SignFile
  <2>3. BundlesNamed'
    BY <1>8, <2>1, <2>2, BundlesStay DEF SignFile, Names
  <2> QED BY <1>0, <1>8, <2>2, <2>3 DEF SignFile, Command, Becomes, TypeOK
<1>9. ASSUME NEW p \in Procs, GateSigned(p) \/ GateParked(p) \/ Failed(p) PROVE OfferInv'
  <2>1. PICK at \in Stages, b \in {proc[p].bundle, NoBundle} :
          Becomes(p, at, proc[p].mem, b) /\ (at = "offer" => b.kind = "offer")
    BY <1>0, <1>9, AssignedFields DEF GateSigned, GateParked, Failed, HasTx
  <2>2. parked' \subseteq parked \cup {proc[p].bundle} /\ parked' \subseteq Bundle
        /\ UNCHANGED <<file, chain, named, handed, promises, commands>>
    BY <1>0, <1>9 DEF GateSigned, GateParked, Failed, TypeOK
  <2>3. Names(proc[p].bundle) /\ named' = named
    BY <2>2 DEF BundlesNamed
  <2>4. BundlesNamed'
    BY <1>0, <2>1, <2>2, <2>3, BundlesStay DEF Names
  <2> QED BY <1>0, <2>1, <2>2, <2>4 DEF Becomes, TypeOK
<1>10. ASSUME NEW p \in Procs, Broadcast(p) PROVE OfferInv'
  <2> DEFINE b == proc[p].bundle
             at == IF b.kind = "offer" THEN "offer" ELSE "save"
  <2>1. /\ unspent' = (unspent \ Spent(b)) \cup (IF b.kind = "offer" THEN {b.coin} ELSE {})
        /\ next' = Max({next, b.seen})
        /\ \/ proc' = [proc EXCEPT ![p].at = at, ![p].mem = MarkCancelled(proc[p].mem, b)]
           \/ Return(p)
        /\ UNCHANGED <<file, parked, named, handed, promises, commands>>
    BY <1>10 DEF Broadcast
  <2>2. at \in Stages /\ b \in Bundle /\ Names(b)
    BY <1>0 DEF BundlesNamed
  <2>3. \/ Becomes(p, at, MarkCancelled(proc[p].mem, b), b)
        \/ Becomes(p, "ready", proc[p].mem, NoBundle)
    <3>1. MarkCancelled(proc[p].mem, b) \in Local
      BY <1>0, Copies
    <3> QED BY <1>0, <2>1, <2>2, <3>1, AssignedFields
  <2>4. BundlesNamed'
    BY <1>0, <2>1, <2>2, <2>3, BundlesStay DEF Names
  <2>5. next' \in Nat
    BY <1>0, <2>1, <2>2, MaxOfTwo DEF TypeOK, Bundle
  <2>6. unspent' \subseteq named
    BY <1>0, <2>1, <2>2 DEF TypeOK, Names
  <2> QED BY <1>0, <2>1, <2>3, <2>4, <2>5, <2>6 DEF Becomes, TypeOK
<1>11. ASSUME NEW p \in Procs, NEW posted \in BOOLEAN, OfferRecorded(p, posted)
       PROVE  OfferInv'
  <2> DEFINE b == proc[p].bundle
             s == [proc[p].mem EXCEPT !.offers[b.coin] = "open"]
             mem == Reserve(s, b.pay)
  <2>1. b \in Bundle /\ b.kind = "offer" /\ b.coin \in Coins /\ Names(b) /\ b.pay \in Nat
    BY <1>0, <1>11 DEF OfferRecorded, BundlesNamed, Names, TypeOK, Bundle
  <2>2. s \in Local
    BY <1>0, <2>1, Copies
  <2>3. proc' = [proc EXCEPT ![p].at = "save", ![p].mem = mem]
        /\ live' = (IF posted THEN live \cup {SignedOffer(b)} ELSE live)
        /\ UNCHANGED <<file, parked, chain, named, handed, offered, completed, commands>>
    BY <1>11 DEF OfferRecorded
  <2> HIDE DEF s
  <2>4. mem \in Local
    BY <2>1, <2>2, ReserveFacts
  <2> HIDE DEF mem
  <2>5. Becomes(p, "save", mem, b)
    BY <1>0, <2>3, <2>4, AssignedFields
  <2>6. BundlesNamed'
    BY <2>1, <2>3, <2>5, BundlesStay DEF Names
  <2>7. SignedOffer(b) \in [coin : Coins, pay : Nat]
    BY <2>1 DEF SignedOffer
  <2>8. live' \subseteq [coin : Coins, pay : Nat]
    BY <1>0, <2>3, <2>7 DEF TypeOK
  <2> QED BY <1>0, <2>3, <2>5, <2>6, <2>8 DEF Becomes, TypeOK
<1>12. ASSUME NEW p \in Procs, Finish(p) PROVE OfferInv'
  <2> DEFINE b == proc[p].bundle
  <2>1. /\ file' = proc[p].mem /\ Return(p)
        /\ UNCHANGED <<parked, chain, named, handed, offered, commands>>
        /\ \/ /\ b.kind = "offer"
              /\ live' = live \cup {SignedOffer(b)} /\ completed' = completed \cup {b.coin}
           \/ UNCHANGED <<live, completed>>
    BY <1>12 DEF Finish
  <2>2. Becomes(p, "ready", proc[p].mem, NoBundle)
    BY <1>0, <2>1, AssignedFields
  <2>3. BundlesNamed'
    BY <1>0, <2>1, <2>2, BundlesStay
  <2>4. b \in Bundle /\ (b.kind = "offer" => b.coin \in Coins)
    BY <1>0 DEF BundlesNamed, Names, TypeOK
  <2>5. b.kind = "offer" => SignedOffer(b) \in [coin : Coins, pay : Nat]
    BY <2>4 DEF SignedOffer, Bundle
  <2>6. live' \subseteq [coin : Coins, pay : Nat] /\ completed' \subseteq Coins
    BY <1>0, <2>1, <2>4, <2>5 DEF TypeOK
  <2> QED BY <1>0, <2>1, <2>2, <2>3, <2>6 DEF Becomes, TypeOK
<1>13. ASSUME NEW o \in live, Taken(o) PROVE OfferInv'
  <2>1. o.pay + 1 \in Nat
    BY <1>0 DEF TypeOK
  <2>2. next' \in Nat
    BY <1>0, <1>13, <2>1, MaxOfTwo DEF TypeOK, Taken
  <2> QED BY <1>0, <1>13, <2>2 DEF Taken, TypeOK, BundlesNamed, Names
<1>14. ASSUME NEW i \in handed, NEW c \in Coins, Paid(i, c) PROVE OfferInv'
  <2>1. i \in Nat /\ i + 1 \in Nat
    <3>1. i \in Nat
      BY <1>0 DEF TypeOK
    <3> QED BY <3>1
  <2>2. next' \in Nat
    BY <1>0, <1>14, <2>1, MaxOfTwo DEF TypeOK, Paid
  <2>3. named' = named \cup {c} /\ unspent' = unspent \cup {c}
        /\ UNCHANGED <<file, proc, parked, handed, promises, commands>>
    BY <1>14 DEF Paid
  <2>4. BundlesNamed'
    BY <2>3 DEF BundlesNamed, Names
  <2> QED BY <1>0, <2>2, <2>3, <2>4 DEF TypeOK
<1>15. CASE UNCHANGED vars
  BY <1>0, <1>15 DEF vars, TypeOK, BundlesNamed, Names
<1> QED
  BY <1>1, <1>3, <1>4, <1>6, <1>7, <1>8, <1>9, <1>10, <1>11, <1>12, <1>13, <1>14, <1>15 DEF Next

(* Types of every variable, for any number of processes.                     *)
THEOREM TypeCorrect == Spec => []TypeOK
<1>1. OfferInv => TypeOK
  BY DEF OfferInv
<1> QED BY <1>1, OfferInit, OfferNext, PTL DEF Spec

-----------------------------------------------------------------------------
(* The promises of the file.  One process has it to itself.                  *)
Alone == \A p, q \in Procs : p = q

(* The file, and the copy, are ahead of every reserved index.                *)
Ahead ==
    \A i \in offered :
        /\ file.reserved > i
        /\ \A p \in Procs : proc[p].at # "closed" => proc[p].mem.reserved > i

(* What was reported as offered is open in both until its coin is spent.     *)
KeptOpen ==
    /\ completed \subseteq named
    /\ \A c \in completed \cap unspent :
         /\ file.offers[c] = "open"
         /\ \A p \in Procs : proc[p].at # "closed" => proc[p].mem.offers[c] = "open"

(* An offer about to be reported is in the copy about to be saved.           *)
InCopy ==
    \A p \in Procs :
        proc[p].at = "save" /\ proc[p].bundle.kind = "offer" =>
            proc[p].mem.offers[proc[p].bundle.coin] = "open"

(* A split makes the coin that it offers.  It runs once: until then its coin *)
(* does not exist and is not offered otherwise.                              *)
Splits(b) == b.kind = "offer" /\ b.coin \notin b.picked

Unmade(b) == Splits(b) => b.coin \notin unspent /\ b.coin \notin completed

Bundles == parked \cup {proc[p].bundle : p \in Procs}

Planned ==
    /\ \A b \in parked : Unmade(b)
    /\ \A p \in Procs : proc[p].at \in {"gate", "resume", "execute"} => Unmade(proc[p].bundle)
    /\ \A p \in Procs : proc[p].at \in {"execute", "offer", "save"} => proc[p].bundle \notin parked
    /\ \A p \in Procs : proc[p].at = "execute" => HasTx(proc[p].bundle)
    /\ \A b1, b2 \in Bundles :
         Splits(b1) /\ b2.kind = "offer" /\ b1.coin = b2.coin => b1 = b2

PromiseInv == Ahead /\ KeptOpen /\ InCopy /\ Planned

(* A step of the one process, told in terms of what the process becomes.     *)
LEMMA PromiseStep ==
    ASSUME Alone, NEW p \in Procs, NEW at, NEW mem, NEW b, Becomes(p, at, mem, b),
           \A i \in offered' : file'.reserved > i /\ (at # "closed" => mem.reserved > i),
           completed' \subseteq named',
           \A c \in completed' \cap unspent' :
               file'.offers[c] = "open" /\ (at # "closed" => mem.offers[c] = "open"),
           at = "save" /\ b.kind = "offer" => mem.offers[b.coin] = "open",
           \A x \in parked' : Splits(x) => x.coin \notin unspent' /\ x.coin \notin completed',
           at \in {"gate", "resume", "execute"} /\ Splits(b) =>
               b.coin \notin unspent' /\ b.coin \notin completed',
           at \in {"execute", "offer", "save"} => b \notin parked',
           at = "execute" => HasTx(b),
           \A x, y \in parked' \cup {b} :
               Splits(x) /\ y.kind = "offer" /\ x.coin = y.coin => x = y
    PROVE  PromiseInv'
<1>1. \A q \in Procs : q = p
  BY DEF Alone
<1>2. proc'[p].at = at /\ proc'[p].mem = mem /\ proc'[p].bundle = b
  BY DEF Becomes
<1>3. Ahead' /\ KeptOpen' /\ InCopy'
  BY <1>1, <1>2 DEF Ahead, KeptOpen, InCopy
<1>4. Bundles' = parked' \cup {b}
  BY <1>1, <1>2 DEF Bundles
<1>5. Planned'
  BY <1>1, <1>2, <1>4 DEF Planned, Unmade, Splits, HasTx
<1> QED BY <1>3, <1>5 DEF PromiseInv

(* What the invariant says of the process.                                   *)
LEMMA PromiseFacts ==
    ASSUME OfferInv, PromiseInv, NEW p \in Procs
    PROVE  /\ proc[p].mem \in Local /\ file \in Local /\ proc[p].bundle \in Bundle
           /\ \A i \in offered : i \in Nat
           /\ \A i \in offered :
                file.reserved > i /\ (proc[p].at # "closed" => proc[p].mem.reserved > i)
           /\ completed \subseteq named
           /\ \A c \in completed \cap unspent :
                file.offers[c] = "open" /\ (proc[p].at # "closed" => proc[p].mem.offers[c] = "open")
           /\ proc[p].at = "save" /\ proc[p].bundle.kind = "offer" =>
                proc[p].mem.offers[proc[p].bundle.coin] = "open"
           /\ \A x \in parked : Splits(x) => x.coin \notin unspent /\ x.coin \notin completed
           /\ proc[p].at \in {"gate", "resume", "execute"} /\ Splits(proc[p].bundle) =>
                proc[p].bundle.coin \notin unspent /\ proc[p].bundle.coin \notin completed
           /\ proc[p].at \in {"execute", "offer", "save"} => proc[p].bundle \notin parked
           /\ proc[p].at = "execute" => HasTx(proc[p].bundle)
           /\ \A x, y \in parked \cup {proc[p].bundle} :
                Splits(x) /\ y.kind = "offer" /\ x.coin = y.coin => x = y
           /\ \A x \in parked \cup {proc[p].bundle} : x.kind = "offer" => x.coin \in named
<1>1. proc[p].mem \in Local /\ file \in Local /\ proc[p].bundle \in Bundle
      /\ \A i \in offered : i \in Nat
  BY DEF OfferInv, TypeOK, Process
<1>2. parked \cup {proc[p].bundle} \subseteq Bundles
  BY DEF Bundles
<1>3. \A x, y \in parked \cup {proc[p].bundle} :
        Splits(x) /\ y.kind = "offer" /\ x.coin = y.coin => x = y
  BY <1>2 DEF PromiseInv, Planned
<1>4. \A x \in parked \cup {proc[p].bundle} : x.kind = "offer" => x.coin \in named
  BY DEF OfferInv, BundlesNamed, Names
<1> QED
  BY <1>1, <1>3, <1>4 DEF PromiseInv, Ahead, KeptOpen, InCopy, Planned, Unmade

(* At first nothing has been promised.                                       *)
LEMMA PromiseInit == Init => PromiseInv
<1> SUFFICES ASSUME Init PROVE PromiseInv
  OBVIOUS
<1>1. offered = {} /\ completed = {} /\ parked = {}
      /\ \A p \in Procs : proc[p].at = "closed" /\ proc[p].bundle = NoBundle
  BY DEF Init
<1>2. NoBundle.kind = "spend" /\ \A b \in Bundles : b = NoBundle
  BY <1>1 DEF NoBundle, Bundles
<1> QED BY <1>1, <1>2 DEF PromiseInv, Ahead, KeptOpen, InCopy, Planned, Unmade

(* Commands that neither make a coin nor report an offer: the process ends   *)
(* with its old bundle, with none, or with one that was parked.              *)
LEMMA QuietStep ==
    ASSUME Alone, OfferInv, PromiseInv, NEW p \in Procs, NEW at, NEW mem, NEW b,
           Becomes(p, at, mem, b),
           UNCHANGED <<unspent, named, completed, offered>>,
           (mem = Default /\ at = "closed") \/ mem = file
           \/ (mem = proc[p].mem /\ proc[p].at # "closed"),
           file' \in {file, mem}, file' = file \/ at # "closed",
           b \in parked \cup {proc[p].bundle, NoBundle},
           parked' \subseteq parked \cup {b, proc[p].bundle},
           parked' \subseteq parked \/ proc[p].at = "gate",
           at \in {"gate", "resume", "execute"} =>
               b \in parked \/ (b = proc[p].bundle /\ proc[p].at \in {"gate", "resume"}),
           at \in {"execute", "offer", "save"} => b \notin parked',
           at = "execute" => HasTx(b), at = "save" => FALSE
    PROVE  PromiseInv'
<1> USE PromiseFacts
<1>1. NoBundle.kind = "spend"
  BY DEF NoBundle
<1>2. \A x \in parked' \cup {b} : x \in parked \cup {proc[p].bundle} \/ x = NoBundle
  OBVIOUS
<1>3. \A x, y \in parked' \cup {b} : Splits(x) /\ y.kind = "offer" /\ x.coin = y.coin => x = y
  BY <1>1, <1>2 DEF Splits
<1>4. \A i \in offered' : file'.reserved > i /\ (at # "closed" => mem.reserved > i)
  OBVIOUS
<1>5. \A c \in completed' \cap unspent' :
        file'.offers[c] = "open" /\ (at # "closed" => mem.offers[c] = "open")
  OBVIOUS
<1>6. \A x \in parked' : Splits(x) => x.coin \notin unspent' /\ x.coin \notin completed'
  BY <1>1, <1>2 DEF Splits
<1>7. at \in {"gate", "resume", "execute"} /\ Splits(b) =>
        b.coin \notin unspent' /\ b.coin \notin completed'
  OBVIOUS
<1>8. completed' \subseteq named'
  OBVIOUS
<1> QED BY <1>3, <1>4, <1>5, <1>6, <1>7, <1>8, PromiseStep

(* A command that reserves an index for the payment of an offer.             *)
LEMMA ReserveStep ==
    ASSUME Alone, OfferInv, PromiseInv, NEW p \in Procs, NEW b \in Bundle,
           Command(p), ReserveAndGo(p, b), b.kind = "offer", b.coin \in named',
           named \subseteq named', b.coin \in unspent \/ b.coin \notin named,
           Splits(b) => b.coin \notin named,
           UNCHANGED <<parked, unspent, completed>>
    PROVE  PromiseInv'
<1> USE PromiseFacts
<1> DEFINE mem == Reserve(proc[p].mem, b.pay)
<1>0. TypeOK /\ proc[p].mem \in Local /\ b.pay \in Nat /\ proc[p].at = "ready"
  BY DEF OfferInv, Bundle, Command
<1>1. mem \in Local /\ mem.offers = proc[p].mem.offers /\ mem.reserved > b.pay
      /\ mem.reserved >= proc[p].mem.reserved
  BY <1>0, ReserveFacts
<1>2. \/ /\ file' = mem /\ offered' = offered \cup {b.pay}
         /\ proc' = [proc EXCEPT ![p] = [at |-> "gate", mem |-> mem, bundle |-> b]]
      \/ proc' = [proc EXCEPT ![p].mem = mem] /\ UNCHANGED <<file, offered>>
  BY DEF ReserveAndGo
<1>3. mem.reserved \in Nat /\ proc[p].mem.reserved \in Nat
  BY <1>0, <1>1 DEF Local
<1> HIDE DEF mem
<1>4. \A i \in offered : i \in Nat /\ proc[p].mem.reserved > i
  BY <1>0
<1>5. \A i \in offered : mem.reserved > i
  BY <1>1, <1>3, <1>4
<1>6. \A x \in parked : x.kind = "offer" => x.coin \in named
  OBVIOUS
<1>7. \A x \in parked' : Splits(x) => x.coin \notin unspent' /\ x.coin \notin completed'
  OBVIOUS
<1>8. completed' \subseteq named'
  OBVIOUS
<1>9. CASE /\ file' = mem /\ offered' = offered \cup {b.pay}
           /\ proc' = [proc EXCEPT ![p] = [at |-> "gate", mem |-> mem, bundle |-> b]]
  <2>1. Becomes(p, "gate", mem, b)
    <3>1. "gate" \in Stages
      BY DEF Stages
    <3> QED BY <1>0, <1>1, <1>9, <3>1, Assigned
  <2>2. \A i \in offered' : file'.reserved > i /\ ("gate" # "closed" => mem.reserved > i)
    BY <1>1, <1>5, <1>9
  <2>3. \A c \in completed' \cap unspent' :
          file'.offers[c] = "open" /\ ("gate" # "closed" => mem.offers[c] = "open")
    BY <1>0, <1>1, <1>9
  <2>4. \A x, y \in parked' \cup {b} :
          Splits(x) /\ y.kind = "offer" /\ x.coin = y.coin => x = y
    BY <1>6, <1>7 DEF Splits
  <2>5. Splits(b) => b.coin \notin unspent' /\ b.coin \notin completed'
    BY DEF OfferInv, TypeOK
  <2> QED BY <1>7, <1>8, <2>1, <2>2, <2>3, <2>4, <2>5, PromiseStep
<1>10. CASE proc' = [proc EXCEPT ![p].mem = mem] /\ UNCHANGED <<file, offered>>
  <2>1. PICK old : old = proc[p].bundle
    OBVIOUS
  <2>2. Becomes(p, "ready", mem, old)
    BY <1>0, <1>1, <1>10, <2>1, AssignedFields
  <2>3. \A i \in offered' : file'.reserved > i /\ ("ready" # "closed" => mem.reserved > i)
    BY <1>5, <1>10
  <2>4. \A c \in completed' \cap unspent' :
          file'.offers[c] = "open" /\ ("ready" # "closed" => mem.offers[c] = "open")
    BY <1>0, <1>1, <1>10
  <2>5. \A x, y \in parked' \cup {old} :
          Splits(x) /\ y.kind = "offer" /\ x.coin = y.coin => x = y
    BY <2>1
  <2> QED BY <1>7, <1>8, <2>2, <2>3, <2>4, <2>5, PromiseStep
<1> QED BY <1>2, <1>9, <1>10

(* A cancel marks only offers whose coins it spends.                         *)
LEMMA CancelMarks ==
    ASSUME NEW s \in Local, NEW b \in Bundle
    PROVE  /\ MarkCancelled(s, b).reserved = s.reserved
           /\ \A c \in Coins \ Spent(b) : MarkCancelled(s, b).offers[c] = s.offers[c]
BY DEF MarkCancelled, Local

(* Every step of the one process and of the world keeps the promises.        *)
LEMMA PromiseNext == ASSUME Alone PROVE OfferInv /\ PromiseInv /\ [Next]_vars => PromiseInv'
<1> SUFFICES ASSUME OfferInv, PromiseInv, [Next]_vars PROVE PromiseInv'
  OBVIOUS
<1> USE DEF chain, promises, Stages
<1>0. /\ TypeOK /\ \A p \in Procs : proc[p] \in Process /\ proc[p].mem \in Local
                                    /\ proc[p].bundle \in Bundle
      /\ NoBundle \in Bundle /\ NoBundle.kind = "spend" /\ Default \in Local
      /\ completed \subseteq named
  BY DEF OfferInv, PromiseInv, KeptOpen, TypeOK, Process, NoBundle, Bundle, Default, Local
<1>1. ASSUME NEW p \in Procs, Open(p) PROVE PromiseInv'
  <2>1. Becomes(p, "ready", file, NoBundle)
    BY <1>0, <1>1, Assigned DEF Open, TypeOK
  <2> QED BY <1>1, <2>1, QuietStep DEF Open
<1>2. ASSUME NEW p \in Procs, Exit(p) PROVE PromiseInv'
  <2>1. Becomes(p, "closed", Default, NoBundle)
    BY <1>0, <1>2, Assigned DEF Exit
  <2> QED BY <1>2, <2>1, QuietStep DEF Exit
<1>3. ASSUME NEW p \in Procs, SaveCopy(p) PROVE PromiseInv'
  <2>1. PICK mem, b : mem = proc[p].mem /\ b = proc[p].bundle
    OBVIOUS
  <2>2. Becomes(p, "ready", mem, b) /\ file' = mem
    BY <1>0, <1>3, <2>1 DEF SaveCopy, Becomes, TypeOK
  <2> QED BY <1>3, <2>1, <2>2, QuietStep DEF SaveCopy
<1>4. ASSUME NEW p \in Procs, Address(p) PROVE PromiseInv'
  <2>1. PICK mem, b : mem = proc[p].mem /\ b = proc[p].bundle
    OBVIOUS
  <2>2. Becomes(p, "ready", mem, b)
    BY <1>0, <1>4, <2>1 DEF Address, Command, Becomes, TypeOK
  <2> QED BY <1>4, <2>1, <2>2, QuietStep DEF Address, Command
<1>5. ASSUME NEW p \in Procs, NEW b \in Bundle, Command(p), Prepare(p, b), b.kind # "offer",
             UNCHANGED <<file, parked, chain, named, handed, promises>>
      PROVE  PromiseInv'
  <2>1. PICK mem : mem = proc[p].mem
    OBVIOUS
  <2>2. Becomes(p, "gate", mem, b)
    BY <1>0, <1>5, <2>1, AssignedFields
  <2>3. \A x, y \in parked' \cup {b} :
          Splits(x) /\ y.kind = "offer" /\ x.coin = y.coin => x = y
    BY <1>5, PromiseFacts DEF Splits
  <2>4. proc[p].at = "ready"
    BY <1>5 DEF Command
  <2>5. \A i \in offered' : file'.reserved > i /\ ("gate" # "closed" => mem.reserved > i)
    BY <1>5, <2>1, <2>4, PromiseFacts
  <2>6. \A c \in completed' \cap unspent' :
          file'.offers[c] = "open" /\ ("gate" # "closed" => mem.offers[c] = "open")
    BY <1>5, <2>1, <2>4, PromiseFacts
  <2>7. \A x \in parked' : Splits(x) => x.coin \notin unspent' /\ x.coin \notin completed'
    BY <1>5, PromiseFacts
  <2>8. ~Splits(b) /\ completed' \subseteq named'
    BY <1>0, <1>5 DEF Splits
  <2> QED BY <2>2, <2>3, <2>5, <2>6, <2>7, <2>8, PromiseStep
<1>6. ASSUME NEW p \in Procs, NEW picked \in SUBSET Coins, NEW receives \in BOOLEAN,
             PrepareSpend(p, picked, receives)
      PROVE  PromiseInv'
  <2> DEFINE b == [kind |-> "spend", picked |-> picked, coin |-> None, pay |-> 0,
                   seen |-> IF receives THEN ReceiveIndex(p) + 1 ELSE 0]
  <2>1. b \in Bundle /\ b.kind = "spend"
    BY <1>0, Indices DEF Bundle
  <2>2. Command(p) /\ Prepare(p, b) /\ UNCHANGED <<file, parked, chain, named, handed, promises>>
    BY <1>6 DEF PrepareSpend
  <2> HIDE DEF b
  <2> QED BY <1>5, <2>1, <2>2
<1>7. ASSUME NEW p \in Procs, NEW others \in SUBSET Coins, NEW c \in Coins,
             PrepareCancel(p, c, others)
      PROVE  PromiseInv'
  <2> DEFINE b == [kind |-> "cancel", picked |-> others, coin |-> c, pay |-> 0, seen |-> 0]
  <2>1. b \in Bundle /\ b.kind = "cancel"
    BY DEF Bundle
  <2>2. Command(p) /\ Prepare(p, b) /\ UNCHANGED <<file, parked, chain, named, handed, promises>>
    BY <1>7 DEF PrepareCancel
  <2> HIDE DEF b
  <2> QED BY <1>5, <2>1, <2>2
<1>8. ASSUME NEW p \in Procs, NEW c \in Coins, OfferExact(p, c) PROVE PromiseInv'
  <2> DEFINE b == [kind |-> "offer", picked |-> {c}, coin |-> c,
                   pay |-> ReceiveIndex(p), seen |-> 0]
  <2>1. b \in Bundle /\ b.kind = "offer" /\ b.coin = c /\ ~Splits(b)
    BY <1>0, Indices DEF Bundle, Splits
  <2>2. Command(p) /\ ReserveAndGo(p, b) /\ c \in unspent
        /\ UNCHANGED <<parked, chain, named, handed, live, completed>>
    BY <1>8 DEF OfferExact, Spendable
  <2> HIDE DEF b
  <2> QED BY <1>0, <2>1, <2>2, ReserveStep DEF TypeOK
<1>9. ASSUME NEW p \in Procs, NEW picked \in SUBSET Coins, NEW c \in Coins, OfferSplit(p, picked, c)
      PROVE  PromiseInv'
  <2> DEFINE b == [kind |-> "offer", picked |-> picked, coin |-> c,
                   pay |-> ReceiveIndex(p) + 1, seen |-> ReceiveIndex(p) + 1]
  <2>1. b \in Bundle /\ b.kind = "offer" /\ b.coin = c
    BY <1>0, Indices DEF Bundle
  <2>2. Command(p) /\ ReserveAndGo(p, b) /\ named' = named \cup {c} /\ c \notin named
        /\ UNCHANGED <<parked, chain, handed, live, completed>>
    BY <1>9 DEF OfferSplit
  <2> HIDE DEF b
  <2> QED BY <1>0, <2>1, <2>2, ReserveStep
<1>10. ASSUME NEW p \in Procs, NEW b \in parked, SignFile(p, b) PROVE PromiseInv'
  <2>1. PICK mem, x : mem = proc[p].mem /\ x = b /\ x \in Bundle
    BY <1>0 DEF TypeOK
  <2>2. Becomes(p, "resume", mem, x)
    BY <1>0, <1>10, <2>1, AssignedFields DEF SignFile
  <2> QED BY <1>10, <2>1, <2>2, QuietStep DEF SignFile, Command
<1>11. ASSUME NEW p \in Procs, GateSigned(p) PROVE PromiseInv'
  <2>1. PICK mem, b, at : /\ mem = proc[p].mem /\ b = proc[p].bundle
                          /\ at = IF HasTx(b) THEN "execute" ELSE "offer"
    OBVIOUS
  <2>2. Becomes(p, at, mem, b) /\ parked' = parked \ {b} /\ proc[p].at \in {"gate", "resume"}
        /\ UNCHANGED <<file, chain, named, handed, promises, commands>>
    BY <1>0, <1>11, <2>1, AssignedFields DEF GateSigned
  <2> QED BY <2>1, <2>2, QuietStep
<1>12. ASSUME NEW p \in Procs, GateParked(p) \/ Failed(p) PROVE PromiseInv'
  <2>1. PICK mem : mem = proc[p].mem
    OBVIOUS
  <2>2. Becomes(p, "ready", mem, NoBundle)
    BY <1>0, <1>12, <2>1, AssignedFields DEF GateParked, Failed
  <2>3. parked' \subseteq parked \cup {proc[p].bundle}
        /\ (parked' \subseteq parked \/ proc[p].at = "gate")
    BY <1>12 DEF GateParked, Failed
  <2>4. UNCHANGED <<file, chain, named, handed, promises, commands>> /\ proc[p].at # "closed"
    BY <1>12 DEF GateParked, Failed
  <2> QED BY <2>1, <2>2, <2>3, <2>4, QuietStep
<1>13. ASSUME NEW p \in Procs, Broadcast(p) PROVE PromiseInv'
  <2>1. PICK mem, b, at : /\ mem = MarkCancelled(proc[p].mem, b) /\ b = proc[p].bundle
                          /\ at = IF b.kind = "offer" THEN "offer" ELSE "save"
    OBVIOUS
  <2>2. /\ unspent' = (unspent \ Spent(b)) \cup (IF b.kind = "offer" THEN {b.coin} ELSE {})
        /\ \/ proc' = [proc EXCEPT ![p].at = at, ![p].mem = mem]
           \/ Return(p)
        /\ proc[p].at = "execute"
        /\ UNCHANGED <<file, parked, named, handed, promises, commands>>
    BY <1>13, <2>1 DEF Broadcast
  <2>3. b \in Bundle /\ proc[p].mem \in Local /\ mem \in Local
    BY <1>0, <2>1, Copies
  <2>4. mem.reserved = proc[p].mem.reserved
        /\ \A c \in Coins \ Spent(b) : mem.offers[c] = proc[p].mem.offers[c]
    BY <2>1, <2>3, CancelMarks
  <2>5. b.kind = "offer" => Splits(b)
    BY <2>1, <2>2, PromiseFacts DEF HasTx, Splits
  <2>6. b.kind = "offer" => b.coin \notin completed
    BY <2>1, <2>2, <2>5, PromiseFacts
  <2>7. \A c \in completed' \cap unspent' : c \in completed \cap unspent /\ c \in Coins \ Spent(b)
    BY <1>0, <2>2, <2>6 DEF TypeOK
  <2>8. \A c \in completed' \cap unspent' : /\ file'.offers[c] = "open" /\ mem.offers[c] = "open"
                                            /\ proc[p].mem.offers[c] = "open"
    BY <2>2, <2>4, <2>7, PromiseFacts
  <2>9. \A i \in offered' : /\ file'.reserved > i /\ mem.reserved > i
                            /\ proc[p].mem.reserved > i
    BY <2>2, <2>4, PromiseFacts
  <2>10. \A x \in parked' : Splits(x) => x.coin \notin unspent' /\ x.coin \notin completed'
    <3> SUFFICES ASSUME NEW x \in parked, Splits(x)
                 PROVE  x.coin \notin unspent' /\ x.coin \notin completed
      BY <2>2
    <3>1. x.coin \notin unspent /\ x.coin \notin completed /\ b \notin parked
      BY <2>1, <2>2, PromiseFacts
    <3>2. b.kind = "offer" => x.coin # b.coin
      BY <2>1, <3>1, PromiseFacts
    <3> QED BY <2>2, <3>1, <3>2
  <2>11. \A x, y \in parked' \cup {b} : Splits(x) /\ y.kind = "offer" /\ x.coin = y.coin => x = y
    BY <2>1, <2>2, PromiseFacts
  <2>12. \A x, y \in parked' \cup {NoBundle} :
           Splits(x) /\ y.kind = "offer" /\ x.coin = y.coin => x = y
    BY <1>0, <2>2, PromiseFacts DEF Splits
  <2>13. completed' \subseteq named' /\ b \notin parked'
    BY <1>0, <2>1, <2>2, PromiseFacts
  <2>14. CASE Return(p)
    <3>1. PICK old : old = proc[p].mem
      OBVIOUS
    <3>2. Becomes(p, "ready", old, NoBundle)
      BY <1>0, <2>14, <3>1, AssignedFields
    <3> QED BY <2>8, <2>9, <2>10, <2>12, <2>13, <3>1, <3>2, PromiseStep
  <2>15. CASE proc' = [proc EXCEPT ![p].at = at, ![p].mem = mem]
    <3>1. at \in {"offer", "save"} /\ (at = "save" => b.kind # "offer")
      BY <2>1
    <3>2. Becomes(p, at, mem, b)
      BY <1>0, <2>1, <2>3, <2>15, <3>1, AssignedFields
    <3> QED BY <2>8, <2>9, <2>10, <2>11, <2>13, <3>1, <3>2, PromiseStep
  <2> QED BY <2>2, <2>14, <2>15
<1>14. ASSUME NEW p \in Procs, NEW posted \in BOOLEAN, OfferRecorded(p, posted) PROVE PromiseInv'
  <2>1. PICK b, s, mem : /\ b = proc[p].bundle /\ s = [proc[p].mem EXCEPT !.offers[b.coin] = "open"]
                         /\ mem = Reserve(s, b.pay)
    OBVIOUS
  <2>2. /\ proc' = [proc EXCEPT ![p].at = "save", ![p].mem = mem] /\ proc[p].at = "offer"
        /\ UNCHANGED <<file, parked, chain, named, handed, offered, completed, commands>>
    BY <1>14, <2>1 DEF OfferRecorded
  <2>3. b \in Bundle /\ b.kind = "offer" /\ b.coin \in Coins /\ b.pay \in Nat
    BY <1>0, <2>1, <2>2 DEF OfferInv, BundlesNamed, Names, TypeOK, Bundle
  <2>4. s \in Local /\ s.reserved = proc[p].mem.reserved /\ s.offers[b.coin] = "open"
        /\ \A c \in Coins : s.offers[c] \in {"open", proc[p].mem.offers[c]}
    BY <1>0, <2>1, <2>3 DEF Local
  <2>5. mem \in Local /\ mem.offers = s.offers /\ mem.reserved >= s.reserved
    BY <2>1, <2>3, <2>4, ReserveFacts
  <2>6. Becomes(p, "save", mem, b)
    BY <1>0, <2>1, <2>2, <2>5, AssignedFields
  <2>7. \A i \in offered' : file'.reserved > i /\ mem.reserved > i
    <3>1. mem.reserved \in Nat /\ s.reserved \in Nat
      BY <2>4, <2>5 DEF Local
    <3>2. \A i \in offered : i \in Nat /\ file.reserved > i /\ s.reserved > i
      BY <2>2, <2>4, PromiseFacts
    <3> QED BY <2>2, <2>5, <3>1, <3>2
  <2>8. \A c \in completed' \cap unspent' : file'.offers[c] = "open" /\ mem.offers[c] = "open"
    <3>1. completed \subseteq Coins
      BY <1>0 DEF TypeOK
    <3> QED BY <2>2, <2>4, <2>5, <3>1, PromiseFacts
  <2>9. \A x, y \in parked' \cup {b} : Splits(x) /\ y.kind = "offer" /\ x.coin = y.coin => x = y
    BY <2>1, <2>2, PromiseFacts
  <2>10. \A x \in parked' : Splits(x) => x.coin \notin unspent' /\ x.coin \notin completed'
    BY <2>2, PromiseFacts
  <2>11. completed' \subseteq named' /\ b \notin parked'
    BY <1>0, <2>1, <2>2, PromiseFacts
  <2>12. mem.offers[b.coin] = "open"
    BY <2>4, <2>5
  <2> QED BY <2>6, <2>7, <2>8, <2>9, <2>10, <2>11, <2>12, PromiseStep
<1>15. ASSUME NEW p \in Procs, Finish(p) PROVE PromiseInv'
  <2>1. PICK b, mem : b = proc[p].bundle /\ mem = proc[p].mem
    OBVIOUS
  <2>2. /\ file' = mem /\ Return(p) /\ proc[p].at = "save"
        /\ UNCHANGED <<parked, chain, named, handed, offered, commands>>
        /\ \/ b.kind = "offer" /\ completed' = completed \cup {b.coin}
           \/ completed' = completed
    BY <1>15, <2>1 DEF Finish
  <2>3. Becomes(p, "ready", mem, NoBundle)
    BY <1>0, <2>1, <2>2, AssignedFields
  <2>4. \A i \in offered' : file'.reserved > i /\ mem.reserved > i
    BY <2>1, <2>2, PromiseFacts
  <2>5. \A c \in completed' \cap unspent' : file'.offers[c] = "open" /\ mem.offers[c] = "open"
    BY <2>1, <2>2, PromiseFacts
  <2>6. completed' \subseteq named'
    BY <1>0, <2>1, <2>2, PromiseFacts
  <2>7. \A x \in parked' : Splits(x) => x.coin \notin unspent' /\ x.coin \notin completed'
    <3> SUFFICES ASSUME NEW x \in parked, Splits(x)
                 PROVE  x.coin \notin unspent /\ x.coin \notin completed'
      BY <2>2
    <3>1. x.coin \notin unspent /\ x.coin \notin completed /\ b \notin parked
      BY <2>1, <2>2, PromiseFacts
    <3>2. b.kind = "offer" => x.coin # b.coin
      BY <2>1, <3>1, PromiseFacts
    <3> QED BY <2>2, <3>1, <3>2
  <2>8. \A x, y \in parked' \cup {NoBundle} :
           Splits(x) /\ y.kind = "offer" /\ x.coin = y.coin => x = y
    BY <1>0, <2>2, PromiseFacts DEF Splits
  <2> QED BY <2>3, <2>4, <2>5, <2>6, <2>7, <2>8, PromiseStep
<1>16. ASSUME NEW p \in Procs, OfferList(p) PROVE PromiseInv'
  <2>1. PICK s, gone, mem, b, at :
          /\ s = proc[p].mem /\ b = proc[p].bundle /\ at = proc[p].at
          /\ gone = OpenOfferOutpoints(s) \ unspent
          /\ mem = [s EXCEPT !.offers =
                        [c \in Coins |-> IF c \in gone THEN "spent" ELSE s.offers[c]]]
    OBVIOUS
  <2>2. /\ proc' = [proc EXCEPT ![p].mem = mem] /\ file' \in {file, mem} /\ at = "ready"
        /\ UNCHANGED <<parked, chain, named, handed, promises, commands>>
    BY <1>16, <2>1 DEF OfferList
  <2>3. s \in Local
    BY <1>0, <2>1
  <2>4. mem \in Local /\ mem.reserved = s.reserved
        /\ \A c \in Coins : c \in unspent => mem.offers[c] = s.offers[c]
    BY <2>1, <2>3 DEF Local
  <2>5. Becomes(p, "ready", mem, b)
    <3>1. Becomes(p, proc[p].at, mem, proc[p].bundle)
      BY <1>0, <2>2, <2>4, AssignedFields
    <3> QED BY <2>1, <2>2, <3>1
  <2>6. \A i \in offered' : file'.reserved > i /\ mem.reserved > i
    BY <2>1, <2>2, <2>4, PromiseFacts, ZenonT(60)
  <2>7. \A c \in completed' \cap unspent' : file'.offers[c] = "open" /\ mem.offers[c] = "open"
    <3>1. completed \subseteq Coins
      BY <1>0 DEF TypeOK
    <3> QED BY <2>1, <2>2, <2>4, <3>1, PromiseFacts, ZenonT(60)
  <2>8. \A x, y \in parked' \cup {b} : Splits(x) /\ y.kind = "offer" /\ x.coin = y.coin => x = y
    BY <2>1, <2>2, PromiseFacts
  <2>9. \A x \in parked' : Splits(x) => x.coin \notin unspent' /\ x.coin \notin completed'
    BY <2>2, PromiseFacts
  <2>10. completed' \subseteq named'
    BY <1>0, <2>2
  <2> QED BY <2>5, <2>6, <2>7, <2>8, <2>9, <2>10, PromiseStep
<1>17. ASSUME NEW o \in live, Taken(o) PROVE PromiseInv'
  <2>1. unspent' = unspent \ {o.coin}
        /\ UNCHANGED <<file, proc, parked, named, handed, promises, commands>>
    BY <1>17 DEF Taken
  <2> QED BY <2>1 DEF PromiseInv, Ahead, KeptOpen, InCopy, Planned, Unmade, Bundles
<1>18. ASSUME NEW i \in handed, NEW c \in Coins, Paid(i, c) PROVE PromiseInv'
  <2>1. unspent' = unspent \cup {c} /\ c \notin named /\ named \subseteq named'
        /\ UNCHANGED <<file, proc, parked, handed, promises, commands>>
    BY <1>18 DEF Paid
  <2>2. \A b \in Bundles : b.kind = "offer" => b.coin # c
    BY <2>1 DEF OfferInv, BundlesNamed, Names, Bundles
  <2>3. Planned'
    <3>1. Bundles' = Bundles
      BY <2>1 DEF Bundles
    <3>2. \A b \in Bundles : Unmade(b) => Unmade(b)'
      BY <2>1, <2>2 DEF Unmade, Splits
    <3>3. parked \subseteq Bundles /\ \A p \in Procs : proc[p].bundle \in Bundles
      BY DEF Bundles
    <3>4. \A p \in Procs : Unmade(proc[p].bundle) => Unmade(proc[p].bundle)'
      BY <2>1, <2>2, <3>3 DEF Unmade, Splits
    <3> QED BY <2>1, <3>1, <3>2, <3>3, <3>4 DEF PromiseInv, Planned
  <2>4. Ahead' /\ KeptOpen' /\ InCopy'
    BY <1>0, <2>1 DEF PromiseInv, Ahead, KeptOpen, InCopy
  <2> QED BY <2>3, <2>4 DEF PromiseInv
<1>19. CASE UNCHANGED vars
  BY <1>19 DEF vars, PromiseInv, Ahead, KeptOpen, InCopy, Planned, Unmade, Bundles
<1> QED
  BY <1>1, <1>2, <1>3, <1>4, <1>6, <1>7, <1>8, <1>9, <1>10, <1>11, <1>12, <1>13, <1>14, <1>15,
     <1>16, <1>17, <1>18, <1>19 DEF Next

(* An index reserved for an offer is never given out again, by a process     *)
(* that has the file to itself: whatever crashes, fails to save, is parked   *)
(* or is spent.                                                              *)
THEOREM AddressNotReusedHolds == ASSUME Alone PROVE Spec => []AddressNotReused
<1>1. OfferInv /\ PromiseInv => AddressNotReused
  <2> SUFFICES ASSUME OfferInv, PromiseInv, NEW p \in Procs, proc[p].at = "ready", NEW i \in offered
               PROVE  ReceiveIndex(p) > i
    BY DEF AddressNotReused
  <2>1. proc[p].mem.reserved > i /\ i \in Nat /\ proc[p].mem.reserved \in Nat
    BY PromiseFacts DEF Local
  <2>2. ReceiveIndex(p) \in Nat /\ ReceiveIndex(p) >= proc[p].mem.reserved
    BY Indices DEF OfferInv
  <2> QED BY <2>1, <2>2
<1> QED BY <1>1, OfferInit, OfferNext, PromiseInit, PromiseNext, PTL DEF Spec

(* What reaches the gate as a new plan was selected among the spendable      *)
(* coins.                                                                    *)
LEMMA GateTakesSpendable ==
    ASSUME Alone, TypeOK, Next, NEW p \in Procs, proc[p].at = "ready", proc'[p].at = "gate"
    PROVE  proc'[p].bundle.picked \subseteq Spendable(p)
<1> USE DEF Stages
<1>0. proc[p] \in Process /\ proc[p].mem \in Local /\ proc[p].bundle \in Bundle
      /\ NoBundle \in Bundle /\ Default \in Local /\ \A q \in Procs : q = p
  BY DEF Alone, TypeOK, Process, Local, Bundle, NoBundle, Default
<1>1. CASE Open(p) \/ Exit(p) \/ SaveCopy(p) \/ Address(p)
  <2>1. proc'[p].at # "gate"
    BY <1>0, <1>1, Assigned DEF Open, Exit, SaveCopy, Address, Becomes
  <2> QED BY <2>1
<1>2. CASE OfferList(p)
  <2>1. proc'[p].at = proc[p].at
    BY <1>0, <1>2 DEF OfferList, TypeOK, Process
  <2> QED BY <2>1
<1>3. ASSUME NEW b \in Bundle, Prepare(p, b), b.picked \subseteq Spendable(p)
      PROVE  proc'[p].bundle.picked \subseteq Spendable(p)
  <2>1. Becomes(p, "gate", proc[p].mem, b)
    BY <1>3, AssignedFields
  <2> QED BY <1>3, <2>1 DEF Becomes
<1>4. ASSUME NEW b \in Bundle, ReserveAndGo(p, b), b.picked \subseteq Spendable(p)
      PROVE  proc'[p].bundle.picked \subseteq Spendable(p)
  <2> DEFINE mem == Reserve(proc[p].mem, b.pay)
  <2>1. mem \in Local
    BY <1>0, ReserveFacts DEF Bundle
  <2>2. \/ proc' = [proc EXCEPT ![p] = [at |-> "gate", mem |-> mem, bundle |-> b]]
        \/ proc' = [proc EXCEPT ![p].mem = mem]
    BY <1>4 DEF ReserveAndGo
  <2> HIDE DEF mem
  <2>3. CASE proc' = [proc EXCEPT ![p] = [at |-> "gate", mem |-> mem, bundle |-> b]]
    <3>1. Becomes(p, "gate", mem, b)
      BY <2>1, <2>3, Assigned
    <3> QED BY <1>4, <3>1 DEF Becomes
  <2>4. CASE proc' = [proc EXCEPT ![p].mem = mem]
    <3>1. Becomes(p, proc[p].at, mem, proc[p].bundle)
      BY <2>1, <2>4, AssignedFields
    <3> QED BY <3>1 DEF Becomes
  <2> QED BY <2>2, <2>3, <2>4
<1>5. ASSUME NEW picked \in SUBSET Coins, NEW receives \in BOOLEAN,
             PrepareSpend(p, picked, receives)
      PROVE  proc'[p].bundle.picked \subseteq Spendable(p)
  <2> DEFINE b == [kind |-> "spend", picked |-> picked, coin |-> None, pay |-> 0,
                   seen |-> IF receives THEN ReceiveIndex(p) + 1 ELSE 0]
  <2>1. b \in Bundle /\ b.picked = picked
    BY Indices DEF Bundle
  <2>2. Prepare(p, b) /\ picked \subseteq Spendable(p)
    BY <1>5 DEF PrepareSpend
  <2> HIDE DEF b
  <2> QED BY <1>3, <2>1, <2>2
<1>6. ASSUME NEW others \in SUBSET Coins, NEW c \in Coins, PrepareCancel(p, c, others)
      PROVE  proc'[p].bundle.picked \subseteq Spendable(p)
  <2> DEFINE b == [kind |-> "cancel", picked |-> others, coin |-> c, pay |-> 0, seen |-> 0]
  <2>1. b \in Bundle /\ b.picked = others
    BY DEF Bundle
  <2>2. Prepare(p, b) /\ others \subseteq Spendable(p)
    BY <1>6 DEF PrepareCancel
  <2> HIDE DEF b
  <2> QED BY <1>3, <2>1, <2>2
<1>7. ASSUME NEW c \in Coins, OfferExact(p, c) PROVE proc'[p].bundle.picked \subseteq Spendable(p)
  <2> DEFINE b == [kind |-> "offer", picked |-> {c}, coin |-> c,
                   pay |-> ReceiveIndex(p), seen |-> 0]
  <2>1. b \in Bundle /\ b.picked = {c}
    BY Indices DEF Bundle
  <2>2. ReserveAndGo(p, b) /\ c \in Spendable(p)
    BY <1>7 DEF OfferExact
  <2> HIDE DEF b
  <2> QED BY <1>4, <2>1, <2>2
<1>8. ASSUME NEW picked \in SUBSET Coins, NEW c \in Coins, OfferSplit(p, picked, c)
      PROVE  proc'[p].bundle.picked \subseteq Spendable(p)
  <2> DEFINE b == [kind |-> "offer", picked |-> picked, coin |-> c,
                   pay |-> ReceiveIndex(p) + 1, seen |-> ReceiveIndex(p) + 1]
  <2>1. b \in Bundle /\ b.picked = picked
    BY Indices DEF Bundle
  <2>2. ReserveAndGo(p, b) /\ picked \subseteq Spendable(p)
    BY <1>8 DEF OfferSplit
  <2> HIDE DEF b
  <2> QED BY <1>4, <2>1, <2>2
<1>9. ASSUME NEW b \in parked, SignFile(p, b) PROVE FALSE
  <2>1. b \in Bundle
    BY DEF TypeOK
  <2>2. Becomes(p, "resume", proc[p].mem, b)
    BY <1>9, <2>1, AssignedFields DEF SignFile
  <2> QED BY <2>2 DEF Becomes
<1>10. CASE GateSigned(p) \/ GateParked(p) \/ Failed(p) \/ Broadcast(p)
            \/ (\E posted \in BOOLEAN : OfferRecorded(p, posted)) \/ Finish(p)
  BY <1>10 DEF GateSigned, GateParked, Failed, Broadcast, OfferRecorded, Finish
<1>11. CASE (\E o \in live : Taken(o)) \/ (\E i \in handed, c \in Coins : Paid(i, c))
  <2>1. proc' = proc
    BY <1>11 DEF Taken, Paid
  <2> QED BY <2>1
<1> QED
  BY <1>0, <1>1, <1>2, <1>5, <1>6, <1>7, <1>8, <1>9, <1>10, <1>11 DEF Next

(* The coin of an offer that was reported as made is not taken for anything  *)
(* else, by the same process.                                                *)
THEOREM OfferedCoinKeptHolds == ASSUME Alone PROVE Spec => OfferedCoinKept
<1> DEFINE Kept == \A p \in Procs :
                      proc[p].at = "ready" /\ proc'[p].at = "gate" =>
                          proc'[p].bundle.picked \cap completed = {}
<1>1. OfferInv /\ PromiseInv /\ [Next]_vars => [Kept]_vars
  <2> SUFFICES ASSUME OfferInv, PromiseInv, Next, NEW p \in Procs,
                      proc[p].at = "ready", proc'[p].at = "gate"
               PROVE  proc'[p].bundle.picked \cap completed = {}
    OBVIOUS
  <2>1. Spendable(p) \cap completed = {}
    <3>1. completed \subseteq Coins
      BY DEF OfferInv, TypeOK
    <3> QED BY <3>1, PromiseFacts DEF Spendable, OpenOfferOutpoints
  <2>2. proc'[p].bundle.picked \subseteq Spendable(p)
    BY GateTakesSpendable DEF OfferInv
  <2> QED BY <2>1, <2>2
<1> QED BY <1>1, OfferInit, OfferNext, PromiseInit, PromiseNext, PTL DEF Spec, OfferedCoinKept
=============================================================================
