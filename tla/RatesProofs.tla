---------------------------- MODULE RatesProofs ----------------------------
(***************************************************************************)
(* What setting the rates promises: the transactions of SetRates, for any  *)
(* number of calls, other activities and nonces, and the bytes of          *)
(* PricingRates, for any tokens, rates and sizes of a byte.  The inductive *)
(* invariants of SetRates, from the bottom up:                             *)
(*   RatesTyped  the types of the buckets, of the calls and of the round,  *)
(*               and that a key is never given twice: it is counted from   *)
(*               the calls and activities already recorded;                *)
(*   RoundInv    what the round works on is what is stored: nobody else    *)
(*               writes a set_rates activity while it is in the list;      *)
(*   CallsInv    a transaction that is out keeps its nonce, and a pending  *)
(*               set_rates activity has a transaction that is out;         *)
(*   TruthInv    a verdict, told or recorded, is final;                    *)
(*   NoncesInv   every nonce below the mined one was used, and the counter *)
(*               is not below the numbers it gave in the window.           *)
(* That of PricingRates is PricingInv: as long as no calls crossed there   *)
(* is one transaction at most, its nonce is the next one, and its bytes    *)
(* belong to the bases the contract has.                                   *)
(***************************************************************************)
EXTENDS SetRates, PricingRates, ReserveRates, RateData, FoldProofs

RateKinds   == {"set_rates", "deposit", "trade"}
RateRecords == [action : RateKinds, est : ExchangeStatuses, mst : MiningStatuses,
                tx : Requests \cup {ZeroTx, OtherTx}, nonce : Nat \cup {NoNonce}, price : Nat]
CallRecords == [pc : HandlerSteps, mined : Nat, cell : Nat, nonce : Nat \cup {NoNonce},
                price : Nat, old : Nat]
Told        == {"", "mined", "failed"}

Recorded == {r \in Requests : handler[r].pc = "recorded"}

RatesTyped ==
  /\ ChainTypeOK /\ NonceTypeOK /\ minedNonce \in Nat
  /\ IsMap(activityBucket, Keys, RateRecords)
  /\ PendingIsRecorded
  /\ handler \in [Requests -> CallRecords]
  /\ fpc \in {"idle", "start", "ask", "persist"}
  /\ IsMap(list, Keys, RateRecords)
  /\ fmined \in Nat
  /\ IsMap(verdicts, Keys, Told)
  /\ late \subseteq Keys
  /\ DOMAIN activityBucket = 1 .. Cardinality(Recorded) + Cardinality(OtherKeys)
  /\ Cardinality(OtherKeys) <= MaxOthers

RoundInv ==
  /\ fmined <= minedNonce
  /\ \A k \in DOMAIN pendingBucket : IsPending(pendingBucket[k])
  /\ \A k \in DOMAIN list : /\ k \in DOMAIN activityBucket /\ list[k] = activityBucket[k]
                            /\ list[k].action = "set_rates"
                            /\ IsPending(list[k])
  /\ DOMAIN verdicts \subseteq DOMAIN list
  /\ fpc \in {"idle", "start"} => DOMAIN verdicts = {}
  /\ fpc = "persist" => DOMAIN verdicts = DOMAIN list

Unsent == {"new", "asked", "fresh", "nonce", "built"}

CallsInv ==
  /\ \A r \in Requests : handler[r].pc \in Unsent => chain[r] = "none"
  /\ \A k \in DOMAIN activityBucket :
       LET a == activityBucket[k]
       IN  /\ a.action = "set_rates" => a.tx \in Requests \/ a.mst = "failed"
           /\ a.tx \in Requests => /\ a.action = "set_rates"
                                   /\ handler[a.tx].pc = "recorded"
                                   /\ handler[a.tx].nonce = a.nonce

\* The transaction of r will never be mined successfully.
Dead(r) == \/ chain[r] = "reverted"
           \/ chain[r] # "mined" /\ handler[r].nonce < minedNonce

IsTrue(v, k, r) == /\ v = "mined" => chain[r] = "mined"
                   /\ v = "failed" => k \in late \/ Dead(r)

TruthInv ==
  /\ \A k \in DOMAIN activityBucket :
       LET a == activityBucket[k] IN a.tx \in Requests => IsTrue(a.mst, k, a.tx)
  /\ \A k \in DOMAIN verdicts : IsTrue(verdicts[k], k, list[k].tx)

NoncesInv ==
  /\ Len(cells) >= 1
  /\ \A n \in 0 .. minedNonce - 1 : \E q \in Requests : Used(q) /\ handler[q].nonce = n
  /\ \A q \in Requests :
       /\ handler[q].pc \in {"new", "asked", "fresh"} => handler[q].cell = 0
       /\ handler[q].pc \in {"new", "asked", "fresh", "nonce"} => handler[q].nonce = NoNonce
       /\ handler[q].pc = "nonce" => handler[q].cell \in 1 .. Len(cells)
       /\ handler[q].cell <= Len(cells)
       /\ handler[q].cell = Len(cells) => handler[q].nonce <= cells[manualNonce]
------------------------------------------------------------------------------
\* There are fewer transactions than numbers, so the node finds a free one.
LEMMA PendingNonceFound ==
  ASSUME RatesTyped
  PROVE  PendingNonce \in Nat /\ PendingNonce >= minedNonce
<1> DEFINE I == minedNonce .. minedNonce + Cardinality(Requests)
           T == {n \in I : Pooled(n) = {}}
<1>1. IsFiniteSet(Requests) /\ Cardinality(Requests) \in Nat /\ minedNonce \in Nat
  BY RequestsAssumption, FS_CardinalityType DEF RatesTyped
<1>2. IsFiniteSet(I) /\ Cardinality(I) = Cardinality(Requests) + 1
  BY <1>1, FS_Interval
<1>3. T # {}
  <2> SUFFICES ASSUME \A n \in I : Pooled(n) # {} PROVE FALSE
    OBVIOUS
  <2> DEFINE f == [n \in I |-> CHOOSE r \in Requests : r \in Pooled(n)]
  <2>1. \A n \in I : f[n] \in Requests /\ handler[f[n]].nonce = n
    BY DEF Pooled
  <2>2. f \in [I -> Requests]
    BY <2>1
  <2> HIDE DEF f, I
  <2>3. PICK m, n \in I : m # n /\ f[m] = f[n]
    BY <1>1, <1>2, <2>2, FS_PigeonHole
  <2> QED BY <2>1, <2>3
<1>4. I \subseteq Nat
  BY <1>1
<1>5. PICK n \in T : \A m \in T : n <= m
  <2>1. T \subseteq Nat
    BY <1>4
  <2> HIDE DEF T
  <2> QED BY <1>3, <2>1, LeastOf
<1>6. \A m \in minedNonce .. n - 1 : Pooled(m) # {}
  BY <1>1, <1>5
<1>7. n \in I /\ Pooled(n) = {}
  BY <1>5
<1>8. PendingNonce \in I
  BY <1>6, <1>7 DEF PendingNonce
<1> QED BY <1>1, <1>8

\* The oldest pending activity is one of them.
LEMMA OldestFound ==
  ASSUME RatesTyped, DOMAIN pendingBucket # {}
  PROVE  OldestPending \in DOMAIN pendingBucket
<1>1. DOMAIN pendingBucket \subseteq Nat
  BY DEF RatesTyped, PendingIsRecorded, IsMap, Keys
<1>2. \E k \in DOMAIN pendingBucket : \A j \in DOMAIN pendingBucket : k <= j
  BY <1>1, LeastOf
<1> QED BY <1>2 DEF OldestPending

\* A call moves to its next step and no other call does.
LEMMA CallMoved ==
  ASSUME RatesTyped, NEW r \in Requests, NEW pc \in HandlerSteps, NEW f \in CallRecords,
         At(r, pc, f)
  PROVE  /\ handler' \in [Requests -> CallRecords]
         /\ handler'[r] = [f EXCEPT !.pc = pc]
         /\ handler'[r].pc = pc /\ handler'[r].nonce = f.nonce /\ handler'[r].cell = f.cell
         /\ \A q \in Requests : q # r => handler'[q] = handler[q]
BY DEF At, RatesTyped, CallRecords
------------------------------------------------------------------------------
(***************************************************************************)
(* A call on its way changes no bucket; the network may drop what it       *)
(* replaces.                                                               *)
(***************************************************************************)
ChainMoves(q) ==
  /\ Used(q) => chain'[q] = chain[q]
  /\ chain'[q] = "mined" => chain[q] = "mined" \/ handler[q].nonce = minedNonce

Moves(r) ==
  /\ UNCHANGED <<storageVars, restVars>>
  /\ ChainTypeOK' /\ NonceTypeOK'
  /\ handler' \in [Requests -> CallRecords]
  /\ handler[r].pc \in Unsent /\ handler'[r].pc # "recorded"
  /\ handler'[r].pc \in Unsent => chain' = chain
  /\ \A q \in Requests : q # r => /\ handler'[q] = handler[q]
                                  /\ chain[q] = "none" => chain'[q] = "none"
                                  /\ chain'[q] = "mined" => chain[q] = "mined"
  /\ \A q \in Requests : ChainMoves(q)

\* A call that moves without touching the chain.
LEMMA QuietMove ==
  ASSUME RatesTyped, NEW r \in Requests, NEW pc \in HandlerSteps \ {"recorded"},
         NEW f \in CallRecords, handler[r].pc \in Unsent, At(r, pc, f),
         UNCHANGED <<storageVars, restVars, chain>>, NonceTypeOK'
  PROVE  Moves(r)
<1>1. /\ handler' \in [Requests -> CallRecords] /\ handler'[r].pc = pc
      /\ \A q \in Requests : q # r => handler'[q] = handler[q]
  BY CallMoved
<1>2. ChainTypeOK'
  BY DEF RatesTyped, ChainTypeOK
<1> QED BY <1>1, <1>2 DEF Moves, ChainMoves

\* What the pool does when it takes a transaction.
LEMMA Pooling ==
  ASSUME RatesTyped, NEW r \in Requests, Pool(r), ~Used(r)
  PROVE  /\ ChainTypeOK' /\ chain'[r] = "pooled"
         /\ \A q \in Requests : /\ ChainMoves(q)
                                /\ q # r /\ chain[q] = "none" => chain'[q] = "none"
                                /\ chain'[q] = "mined" => chain[q] = "mined"
BY DEF RatesTyped, ChainTypeOK, ChainStates, Pool, Pooled, ChainMoves, Used

LEMMA RefuseMoves ==
  ASSUME RatesTyped, NEW r \in Requests, Refuse(r)
  PROVE  Moves(r)
<1>1. handler[r] \in CallRecords
  BY DEF RatesTyped
<1>2. NonceTypeOK'
  BY DEF RatesTyped, Refuse, NonceTypeOK, nonceVars
<1> QED BY <1>1, <1>2, QuietMove DEF Refuse, Unsent, HandlerSteps

LEMMA MinedNonceMoves ==
  ASSUME RatesTyped, NEW r \in Requests, SetRateMinedNonce(r)
  PROVE  Moves(r)
<1>1. [handler[r] EXCEPT !.mined = minedNonce] \in CallRecords
  BY DEF RatesTyped, CallRecords
<1>2. NonceTypeOK'
  BY DEF RatesTyped, SetRateMinedNonce, NonceTypeOK, nonceVars
<1> QED BY <1>1, <1>2, QuietMove DEF SetRateMinedNonce, Unsent, HandlerSteps

LEMMA InfoMoves ==
  ASSUME RatesTyped, NEW r \in Requests, PendingSetrateInfo(r)
  PROVE  Moves(r) /\ (handler'[r].pc = "built" => handler'[r].cell = handler[r].cell)
<1>0. handler[r] \in CallRecords /\ handler[r].pc = "asked"
  BY DEF RatesTyped, PendingSetrateInfo
<1>1. NonceTypeOK' /\ UNCHANGED <<storageVars, restVars, chain>>
  BY DEF RatesTyped, PendingSetrateInfo, NonceTypeOK, nonceVars
<1>2. CASE ~HasPendingSetrate(handler[r].mined)
  <2> DEFINE f == [handler[r] EXCEPT !.price = FreshPrice]
  <2>1. f \in CallRecords
    BY <1>0 DEF CallRecords, FreshPrice
  <2>2. At(r, "fresh", f)
    BY <1>2 DEF PendingSetrateInfo
  <2> HIDE DEF f
  <2> QED BY <1>0, <1>1, <2>1, <2>2, QuietMove, CallMoved DEF Unsent, HandlerSteps
<1>3. CASE HasPendingSetrate(handler[r].mined)
  <2> DEFINE act == pendingBucket[OldestPending]
             f == [handler[r] EXCEPT !.nonce = act.nonce, !.price = act.price + 1,
                                     !.old = OldestPending]
  <2>1. OldestPending \in DOMAIN pendingBucket
    BY <1>3, OldestFound DEF HasPendingSetrate
  <2>2. act \in RateRecords /\ OldestPending \in Nat
    BY <2>1 DEF RatesTyped, PendingIsRecorded, IsMap, Keys
  <2>3. f \in CallRecords
    <3>1. act.nonce \in Nat \cup {NoNonce} /\ act.price + 1 \in Nat
      <4> HIDE DEF act
      <4> QED BY <2>2 DEF RateRecords
    <3> HIDE DEF act
    <3> QED BY <1>0, <2>2, <3>1 DEF CallRecords
  <2>4. f.cell = handler[r].cell
    BY <1>0 DEF CallRecords
  <2>5. At(r, "panic", handler[r]) \/ At(r, "built", f)
    BY <1>3 DEF PendingSetrateInfo
  <2> HIDE DEF f
  <2> QED BY <1>0, <1>1, <2>3, <2>4, <2>5, QuietMove, CallMoved DEF Unsent, HandlerSteps
<1> QED BY <1>2, <1>3

LEMMA TransactMoves ==
  ASSUME RatesTyped, NoncesInv, NEW r \in Requests, TransactTx(r)
  PROVE  /\ Moves(r)
         /\ handler'[r].pc = "built" /\ handler'[r].cell = handler[r].cell
         /\ handler'[r].nonce = cells[handler[r].cell]
<1> DEFINE f == [handler[r] EXCEPT !.nonce = cells[handler[r].cell]]
<1>0. handler[r] \in CallRecords /\ handler[r].pc = "nonce"
  BY DEF RatesTyped, TransactTx
<1>1. cells[handler[r].cell] \in Nat
  BY <1>0 DEF RatesTyped, NoncesInv, NonceTypeOK
<1>2. f \in CallRecords /\ f.nonce = cells[handler[r].cell] /\ f.cell = handler[r].cell
  BY <1>0, <1>1 DEF CallRecords
<1>3. NonceTypeOK'
  BY DEF RatesTyped, TransactTx, NonceTypeOK, nonceVars
<1>4. At(r, "built", f) /\ UNCHANGED <<storageVars, restVars, chain>>
  BY DEF TransactTx
<1> HIDE DEF f
<1> QED BY <1>0, <1>2, <1>3, <1>4, QuietMove, CallMoved DEF Unsent, HandlerSteps

LEMMA NextNonceMoves ==
  ASSUME RatesTyped, NoncesInv, NEW r \in Requests, NextNonce(r)
  PROVE  /\ Moves(r)
         /\ handler[r].pc = "fresh" /\ handler'[r].pc = "nonce"
         /\ handler'[r].cell = Len(cells') /\ handler'[r].nonce = handler[r].nonce
         /\ \/ /\ recent /\ Len(cells') = Len(cells)
               /\ cells' = [cells EXCEPT ![Len(cells)] = @ + 1]
            \/ /\ ~recent /\ Len(cells') = Len(cells) + 1
               /\ cells' = Append(cells, PendingNonce)
<1> DEFINE f == [handler[r] EXCEPT !.cell = Len(cells')]
<1>0. handler[r] \in CallRecords /\ handler[r].pc = "fresh"
  BY DEF RatesTyped, NextNonce
<1>1. cells \in Seq(Nat) /\ Len(cells) \in Nat /\ Len(cells) >= 1 /\ recent \in BOOLEAN
  BY DEF RatesTyped, NonceTypeOK, NoncesInv
<1>2. recent' = TRUE /\ \/ recent /\ cells' = [cells EXCEPT ![Len(cells)] = @ + 1]
                        \/ ~recent /\ cells' = Append(cells, PendingNonce)
  BY DEF NextNonce, GetNextNonce, manualNonce
<1>3. /\ cells' \in Seq(Nat)
      /\ \/ recent /\ Len(cells') = Len(cells)
         \/ ~recent /\ Len(cells') = Len(cells) + 1
  <2>1. CASE recent
    <3>1. cells' = [cells EXCEPT ![Len(cells)] = @ + 1]
      BY <1>2, <2>1
    <3>2. cells[Len(cells)] \in Nat
      BY <1>1
    <3> QED BY <1>1, <2>1, <3>1, <3>2
  <2>2. CASE ~recent
    BY <1>1, <1>2, <2>2, PendingNonceFound
  <2> QED BY <2>1, <2>2
<1>4. f \in CallRecords /\ f.cell = Len(cells') /\ f.nonce = handler[r].nonce
  BY <1>0, <1>3 DEF CallRecords
<1>5. At(r, "nonce", f) /\ UNCHANGED <<storageVars, restVars, chain>>
  BY DEF NextNonce
<1>6. NonceTypeOK'
  BY <1>2, <1>3 DEF NonceTypeOK
<1> HIDE DEF f
<1>7. Moves(r) /\ handler'[r].pc = "nonce" /\ handler'[r].cell = f.cell /\ handler'[r].nonce = f.nonce
  BY <1>0, <1>4, <1>5, <1>6, QuietMove, CallMoved DEF Unsent, HandlerSteps
<1> QED BY <1>0, <1>2, <1>3, <1>4, <1>7

LEMMA BroadcastMoves ==
  ASSUME RatesTyped, CallsInv, NEW r \in Requests, SignAndBroadcast(r)
  PROVE  /\ Moves(r) /\ UNCHANGED nonceVars
         /\ handler'[r].pc \in {"sent", "failed"}
         /\ handler'[r].nonce = handler[r].nonce /\ handler'[r].cell = handler[r].cell
<1>0. handler[r] \in CallRecords /\ handler[r].pc = "built" /\ chain[r] = "none"
  BY DEF RatesTyped, SignAndBroadcast, CallsInv, Unsent
<1>1. PICK pc \in {"sent", "failed"} : At(r, pc, handler[r]) /\ (Pool(r) \/ UNCHANGED chain)
  BY DEF SignAndBroadcast
<1>2. NonceTypeOK' /\ UNCHANGED <<storageVars, nonceVars, restVars>>
  BY DEF RatesTyped, SignAndBroadcast, NonceTypeOK, nonceVars
<1>3. /\ handler' \in [Requests -> CallRecords] /\ handler'[r].pc = pc
      /\ handler'[r].nonce = handler[r].nonce /\ handler'[r].cell = handler[r].cell
      /\ \A q \in Requests : q # r => handler'[q] = handler[q]
  <2>1. pc \in HandlerSteps /\ At(r, pc, handler[r])
    BY <1>1 DEF HandlerSteps
  <2> QED BY <1>0, <2>1, CallMoved
<1>4. CASE Pool(r)
  BY <1>0, <1>1, <1>2, <1>3, <1>4, Pooling DEF Moves, Used, Unsent
<1>5. CASE UNCHANGED chain
  BY <1>0, <1>1, <1>2, <1>3, <1>5 DEF Moves, ChainMoves, RatesTyped, ChainTypeOK, Unsent
<1> QED BY <1>1, <1>4, <1>5
------------------------------------------------------------------------------
\* An activity the round works on has a transaction that is out.
LEMMA ListedSent ==
  ASSUME RatesTyped, RoundInv, CallsInv, NEW k \in DOMAIN list
  PROVE  /\ list[k] \in RateRecords /\ list[k].tx \in Requests
         /\ handler[list[k].tx].pc = "recorded" /\ handler[list[k].tx].nonce = list[k].nonce
         /\ list[k].mst \in {"", "submitted"}
<1>1. /\ list[k] \in RateRecords /\ k \in DOMAIN activityBucket /\ list[k] = activityBucket[k]
      /\ list[k].action = "set_rates" /\ IsPending(list[k])
  BY DEF RatesTyped, RoundInv, IsMap
<1>2. list[k].mst \in {"", "submitted"}
  BY <1>1 DEF IsPending, MiningWaits
<1> QED BY <1>1, <1>2 DEF CallsInv

\* A verdict stays true while the chain moves on.
LEMMA IsTrueKept ==
  ASSUME RatesTyped, NEW q \in Requests, handler'[q] = handler[q], ChainMoves(q),
         minedNonce' \in Nat, minedNonce' >= minedNonce, late \subseteq late',
         NEW v, NEW k, IsTrue(v, k, q)
  PROVE  IsTrue(v, k, q)'
<1>1. handler[q].nonce \in Nat \cup {NoNonce} /\ minedNonce \in Nat
  BY DEF RatesTyped, CallRecords
<1> QED BY <1>1 DEF IsTrue, Dead, ChainMoves, Used, NoNonce

LEMMA TruthKept ==
  ASSUME RatesTyped, RoundInv, CallsInv, TruthInv, UNCHANGED <<storageVars, list, verdicts>>,
         minedNonce' \in Nat, minedNonce' >= minedNonce, late \subseteq late',
         \A q \in Requests :
           handler[q].pc = "recorded" => handler'[q] = handler[q] /\ ChainMoves(q)
  PROVE  TruthInv'
<1>1. ASSUME NEW q \in Requests, handler[q].pc = "recorded", NEW v, NEW k, IsTrue(v, k, q)
      PROVE  IsTrue(v, k, q)'
  BY <1>1, IsTrueKept
<1>2. UNCHANGED <<activityBucket, list, verdicts>>
  BY DEF storageVars
<1>3. \A k \in DOMAIN activityBucket :
        activityBucket[k].tx \in Requests => handler[activityBucket[k].tx].pc = "recorded"
  BY DEF CallsInv
<1>4. \A k \in DOMAIN verdicts :
        list[k].tx \in Requests /\ handler[list[k].tx].pc = "recorded"
  BY ListedSent DEF RoundInv
<1> QED BY <1>1, <1>2, <1>3, <1>4 DEF TruthInv

\* A call on its way keeps the four first invariants.
LEMMA MovesKeep ==
  ASSUME RatesTyped, RoundInv, CallsInv, NEW r \in Requests, Moves(r)
  PROVE  RatesTyped' /\ RoundInv' /\ CallsInv' /\ (TruthInv => TruthInv')
<1>1. /\ UNCHANGED <<activityBucket, pendingBucket, fpc, list, fmined, verdicts, late, minedNonce>>
      /\ UNCHANGED <<storageVars, list, verdicts, late>>
  BY DEF Moves, storageVars, restVars, fetchVars
<1>2. Recorded' = Recorded
  BY DEF Moves, Recorded, Unsent
<1>3. OtherKeys' = OtherKeys
  BY <1>1 DEF OtherKeys
<1>4. RatesTyped'
  BY <1>1, <1>2, <1>3 DEF RatesTyped, Moves, PendingIsRecorded, IsMap
<1>5. RoundInv'
  BY <1>1 DEF RoundInv
<1>6. CallsInv'
  <2>1. \A q \in Requests : handler'[q].pc \in Unsent => chain'[q] = "none"
    BY DEF Moves, CallsInv
  <2>2. \A q \in Requests : handler[q].pc = "recorded" => handler'[q] = handler[q]
    BY DEF Moves, Unsent
  <2> QED BY <1>1, <2>1, <2>2 DEF CallsInv
<1>7. TruthInv => TruthInv'
  <2>1. minedNonce' \in Nat /\ minedNonce' >= minedNonce
    BY <1>1 DEF RatesTyped
  <2>2. \A q \in Requests :
          handler[q].pc = "recorded" => handler'[q] = handler[q] /\ ChainMoves(q)
    BY DEF Moves, Unsent
  <2> QED BY <1>1, <2>1, <2>2, TruthKept
<1> QED BY <1>4, <1>5, <1>6, <1>7

\* What the network does on its own keeps all of them.
LEMMA NetworkKeeps ==
  ASSUME RatesTyped, RoundInv, CallsInv, NEW r \in Requests, Network(r)
  PROVE  RatesTyped' /\ RoundInv' /\ CallsInv' /\ (TruthInv => TruthInv') /\ (NoncesInv => NoncesInv')
<1>0. minedNonce \in Nat /\ chain \in [Requests -> ChainStates] /\ handler \in [Requests -> CallRecords]
  BY DEF RatesTyped, ChainTypeOK
<1>1. /\ UNCHANGED <<activityBucket, pendingBucket, cells, recent, handler, fpc, list, fmined, verdicts, late>>
      /\ UNCHANGED <<storageVars, list, verdicts, late>>
  BY DEF Network, Mine, Forget, Reannounce, storageVars, nonceVars, fetchVars
<1>2. chain[r] \in {"pooled", "dropped"}
  BY DEF Network, Mine, Forget, Reannounce
<1>3. /\ ChainTypeOK' /\ minedNonce' \in Nat /\ minedNonce' >= minedNonce
      /\ \A q \in Requests : ChainMoves(q) /\ (chain[q] = "none" => chain'[q] = "none")
      /\ \/ minedNonce' = minedNonce
         \/ minedNonce' = minedNonce + 1 /\ Used(r)' /\ handler[r].nonce = minedNonce
  <2>1. CASE Mine(r)
    BY <1>0, <2>1 DEF Mine, ChainTypeOK, ChainStates, ChainMoves, Used
  <2>2. CASE Forget(r)
    BY <1>0, <2>2 DEF Forget, ChainTypeOK, ChainStates, ChainMoves, Used
  <2>3. CASE Reannounce(r)
    BY <1>0, <1>2, <2>3, Pooling DEF Reannounce, Used
  <2> QED BY <2>1, <2>2, <2>3 DEF Network
<1>4. RatesTyped'
  <2>1. Recorded' = Recorded /\ OtherKeys' = OtherKeys
    BY <1>1 DEF Recorded, OtherKeys
  <2> QED BY <1>1, <1>3, <2>1 DEF RatesTyped, PendingIsRecorded, IsMap, NonceTypeOK
<1>5. RoundInv'
  BY <1>0, <1>1, <1>3 DEF RoundInv, RatesTyped
<1>6. CallsInv'
  BY <1>1, <1>3 DEF CallsInv
<1>7. TruthInv => TruthInv'
  BY <1>1, <1>3, TruthKept
<1>8. ASSUME NoncesInv PROVE NoncesInv'
  <2>1. \A q \in Requests : Used(q) => Used(q)'
    BY <1>3 DEF ChainMoves, Used
  <2>2. ASSUME NEW n \in 0 .. minedNonce' - 1
        PROVE  \E q \in Requests : Used(q)' /\ handler'[q].nonce = n
    <3>1. CASE n \in 0 .. minedNonce - 1
      BY <1>1, <1>8, <2>1, <3>1 DEF NoncesInv
    <3>2. CASE n \notin 0 .. minedNonce - 1
      <4>0. minedNonce' = minedNonce \/ minedNonce' = minedNonce + 1
        BY <1>3
      <4>1. minedNonce' # minedNonce /\ n = minedNonce
        BY <1>0, <2>2, <3>2, <4>0
      <4>2. Used(r)' /\ handler[r].nonce = minedNonce
        BY <1>3, <4>1
      <4> QED BY <1>1, <4>1, <4>2
    <3> QED BY <3>1, <3>2
  <2> QED BY <1>1, <1>8, <2>2 DEF NoncesInv, manualNonce
<1> QED BY <1>4, <1>5, <1>6, <1>7, <1>8

\* The nonces while a call moves: nothing changes but the call's own fields.
LEMMA NoncesMove ==
  ASSUME RatesTyped, NoncesInv, NEW r \in Requests, Moves(r), UNCHANGED cells, ~Used(r),
         /\ handler'[r].pc \in {"new", "asked", "fresh"} => handler'[r].cell = 0
         /\ handler'[r].pc \in {"new", "asked", "fresh", "nonce"} => handler'[r].nonce = NoNonce
         /\ handler'[r].pc = "nonce" => handler'[r].cell \in 1 .. Len(cells)
         /\ handler'[r].cell <= Len(cells)
         /\ handler'[r].cell = Len(cells) => handler'[r].nonce <= cells[manualNonce]
  PROVE  NoncesInv'
<1>1. minedNonce' = minedNonce /\ \A q \in Requests : q # r => handler'[q] = handler[q]
  BY DEF Moves, restVars
<1>2. \A q \in Requests : Used(q) => Used(q)'
  BY DEF Moves, ChainMoves, Used
<1>3. \A n \in 0 .. minedNonce' - 1 : \E q \in Requests : Used(q)' /\ handler'[q].nonce = n
  BY <1>1, <1>2 DEF NoncesInv
<1> QED BY <1>1, <1>3 DEF NoncesInv, manualNonce

\* A number of this window is above those it gave, and the node's own is above
\* what is mined.
LEMMA NextNonceUsable ==
  ASSUME RatesTyped, NoncesInv, NEW r \in Requests, NextNonce(r)
  PROVE  LET cell == handler'[r].cell
         IN  cells'[cell] >= minedNonce \/ UsedByOutsider(cells'[cell], cell)
<1>0. cells \in Seq(Nat) /\ Len(cells) \in Nat /\ Len(cells) >= 1 /\ minedNonce \in Nat
  BY DEF RatesTyped, NonceTypeOK, NoncesInv
<1>1. handler'[r].cell = Len(cells')
  BY NextNonceMoves
<1>2. CASE ~recent
  <2>1. cells' = Append(cells, PendingNonce) /\ Len(cells') = Len(cells) + 1
    BY <1>2, NextNonceMoves
  <2>2. cells'[Len(cells')] = PendingNonce
    BY <1>0, <2>1, PendingNonceFound
  <2> QED BY <1>1, <2>2, PendingNonceFound
<1>3. CASE recent
  <2>1. cells' = [cells EXCEPT ![Len(cells)] = @ + 1] /\ Len(cells') = Len(cells)
    BY <1>3, NextNonceMoves
  <2> DEFINE n == cells[Len(cells)] + 1
  <2>2. cells'[Len(cells')] = n /\ cells[Len(cells)] \in Nat
    BY <1>0, <2>1
  <2>3. CASE n < minedNonce
    <3>1. n \in 0 .. minedNonce - 1
      BY <1>0, <2>2, <2>3
    <3> HIDE DEF n
    <3>2. PICK q \in Requests : Used(q) /\ handler[q].nonce = n
      BY <3>1 DEF NoncesInv
    <3>3. handler[q].cell # Len(cells)
      <4> SUFFICES ASSUME handler[q].cell = Len(cells) PROVE FALSE
        OBVIOUS
      <4>1. handler[q].nonce <= cells[Len(cells)]
        BY DEF NoncesInv, manualNonce
      <4> QED BY <2>2, <3>2, <4>1 DEF n
    <3> QED BY <1>1, <2>1, <2>2, <3>2, <3>3 DEF UsedByOutsider
  <2> QED BY <1>0, <1>1, <2>2, <2>3
<1> QED BY <1>2, <1>3

LEMMA NextNonceNonces ==
  ASSUME RatesTyped, NoncesInv, NEW r \in Requests, NextNonce(r)
  PROVE  NoncesInv'
<1>0. cells \in Seq(Nat) /\ Len(cells) \in Nat /\ Len(cells) >= 1 /\ handler \in [Requests -> CallRecords]
  BY DEF RatesTyped, NonceTypeOK, NoncesInv
<1>1. /\ Moves(r) /\ handler[r].pc = "fresh" /\ handler'[r].pc = "nonce"
      /\ handler'[r].cell = Len(cells') /\ handler'[r].nonce = handler[r].nonce
  BY NextNonceMoves
<1>2. /\ UNCHANGED <<chain, minedNonce>>
      /\ \A q \in Requests : q # r => handler'[q] = handler[q]
  BY <1>1 DEF NextNonce, Moves, restVars
<1>3. handler[r].nonce = NoNonce
  BY <1>1 DEF NoncesInv
<1>4. \A n \in 0 .. minedNonce' - 1 : \E q \in Requests : Used(q)' /\ handler'[q].nonce = n
  BY <1>1, <1>2 DEF NoncesInv, Used
<1>5. Len(cells') \in Nat /\ Len(cells') >= Len(cells) /\ cells'[Len(cells')] \in Nat
  <2>1. cells' \in Seq(Nat)
    BY <1>1 DEF Moves, NonceTypeOK
  <2>2. Len(cells') = Len(cells) \/ Len(cells') = Len(cells) + 1
    BY NextNonceMoves
  <2> QED BY <1>0, <2>1, <2>2
<1>6. ASSUME NEW q \in Requests, q # r
      PROVE  handler[q].cell = Len(cells') => handler[q].nonce <= cells'[Len(cells')]
  <2>0. handler[q].cell <= Len(cells) /\ handler[q].cell \in Nat /\ handler[q].nonce \in Int
    BY <1>0 DEF NoncesInv, CallRecords, NoNonce
  <2>1. CASE Len(cells') = Len(cells) + 1
    BY <1>0, <2>0, <2>1
  <2>2. CASE Len(cells') = Len(cells)
    <3>1. cells' = [cells EXCEPT ![Len(cells)] = @ + 1]
      BY <1>0, <2>2, NextNonceMoves
    <3>2. cells'[Len(cells')] = cells[Len(cells)] + 1 /\ cells[Len(cells)] \in Nat
      BY <1>0, <2>2, <3>1
    <3>3. handler[q].cell = Len(cells) => handler[q].nonce <= cells[Len(cells)]
      BY DEF NoncesInv, manualNonce
    <3> QED BY <2>0, <2>2, <3>2, <3>3
  <2> QED BY <2>1, <2>2, NextNonceMoves
<1>7. ASSUME NEW q \in Requests
      PROVE  /\ handler'[q].pc \in {"new", "asked", "fresh"} => handler'[q].cell = 0
             /\ handler'[q].pc \in {"new", "asked", "fresh", "nonce"} => handler'[q].nonce = NoNonce
             /\ handler'[q].pc = "nonce" => handler'[q].cell \in 1 .. Len(cells')
             /\ handler'[q].cell <= Len(cells')
             /\ handler'[q].cell = Len(cells') => handler'[q].nonce <= cells'[Len(cells')]
  <2>1. CASE q = r
    BY <1>0, <1>1, <1>3, <1>5, <2>1 DEF NoNonce
  <2>2. CASE q # r
    <3>1. handler'[q] = handler[q] /\ handler[q].cell \in Nat
      BY <1>0, <1>2, <2>2 DEF CallRecords
    <3>2. /\ handler[q].pc \in {"new", "asked", "fresh"} => handler[q].cell = 0
          /\ handler[q].pc \in {"new", "asked", "fresh", "nonce"} => handler[q].nonce = NoNonce
          /\ handler[q].pc = "nonce" => handler[q].cell \in 1 .. Len(cells)
          /\ handler[q].cell <= Len(cells)
      BY DEF NoncesInv
    <3> QED BY <1>0, <1>5, <1>6, <2>2, <3>1, <3>2
  <2> QED BY <2>1, <2>2
<1> QED BY <1>0, <1>4, <1>5, <1>7 DEF NoncesInv, manualNonce
------------------------------------------------------------------------------
(***************************************************************************)
(* The buckets: how many keys are given, and what Record and               *)
(* UpdateActivity leave.                                                   *)
(***************************************************************************)
LEMMA Counts ==
  ASSUME RatesTyped
  PROVE  /\ IsFiniteSet(Recorded) /\ Cardinality(Recorded) \in Nat
         /\ IsFiniteSet(OtherKeys) /\ Cardinality(OtherKeys) \in Nat
         /\ Cardinality(Requests) \in Nat
         /\ Cardinality(Recorded) <= Cardinality(Requests)
         /\ Recorded # Requests => Cardinality(Recorded) < Cardinality(Requests)
         /\ NextKey = Cardinality(Recorded) + Cardinality(OtherKeys) + 1
         /\ NextKey \notin DOMAIN activityBucket
         /\ DOMAIN activityBucket \cup {NextKey} = 1 .. NextKey
<1>1. IsFiniteSet(Requests) /\ Cardinality(Requests) \in Nat
  BY RequestsAssumption, FS_CardinalityType
<1>2. /\ IsFiniteSet(Recorded) /\ Cardinality(Recorded) <= Cardinality(Requests)
      /\ Cardinality(Requests) = Cardinality(Recorded) => Requests = Recorded
  <2>1. Recorded \in SUBSET Requests
    BY DEF Recorded
  <2> QED BY <1>1, <2>1, FS_Subset
<1>3. Cardinality(Recorded) \in Nat
  BY <1>2, FS_CardinalityType
<1>4. IsFiniteSet(OtherKeys) /\ Cardinality(OtherKeys) \in Nat
  <2>1. Cardinality(Requests) + MaxOthers \in Int
    BY <1>1, OthersAssumption
  <2>2. IsFiniteSet(Keys)
    BY <2>1, FS_Interval DEF Keys
  <2>3. OtherKeys \in SUBSET Keys
    BY DEF RatesTyped, IsMap, OtherKeys
  <2>4. IsFiniteSet(OtherKeys)
    BY <2>2, <2>3, FS_Subset
  <2> QED BY <2>4, FS_CardinalityType
<1> DEFINE n == Cardinality(Recorded) + Cardinality(OtherKeys)
<1>5. n \in Nat /\ DOMAIN activityBucket = 1 .. n
  BY <1>3, <1>4 DEF RatesTyped
<1> HIDE DEF n
<1>6. Cardinality(DOMAIN activityBucket) = n
  BY <1>5, FS_Interval
<1>7. NextKey = n + 1
  BY <1>6 DEF NextKey
<1>8. NextKey \notin DOMAIN activityBucket /\ DOMAIN activityBucket \cup {NextKey} = 1 .. NextKey
  BY <1>5, <1>7
<1>9. Recorded # Requests => Cardinality(Recorded) < Cardinality(Requests)
  BY <1>1, <1>2, <1>3
<1> QED BY <1>1, <1>2, <1>3, <1>4, <1>7, <1>8, <1>9 DEF n

LEMMA Recording ==
  ASSUME RatesTyped, RoundInv, NEW a \in RateRecords, Record(NextKey, a), NextKey \in Keys
  PROVE  /\ IsMap(activityBucket', Keys, RateRecords) /\ PendingIsRecorded'
         /\ DOMAIN activityBucket' = 1 .. NextKey
         /\ DOMAIN activityBucket' = DOMAIN activityBucket \cup {NextKey}
         /\ activityBucket'[NextKey] = a
         /\ \A k \in DOMAIN activityBucket : activityBucket'[k] = activityBucket[k]
         /\ \A k \in DOMAIN pendingBucket' : IsPending(pendingBucket'[k])
         /\ \A k \in DOMAIN list : k \in DOMAIN activityBucket' /\ list[k] = activityBucket'[k]
<1> DEFINE key == NextKey
<1>1. key \notin DOMAIN activityBucket /\ DOMAIN activityBucket \cup {key} = 1 .. key
  BY Counts
<1>2. /\ activityBucket' = Put(activityBucket, key, a)
      /\ pendingBucket' = IF IsPending(a) THEN Put(pendingBucket, key, a) ELSE pendingBucket
      /\ key \in Keys
  BY DEF Record
<1> HIDE DEF key
<1>3. /\ DOMAIN activityBucket' = DOMAIN activityBucket \cup {key}
      /\ activityBucket'[key] = a
      /\ \A k \in DOMAIN activityBucket : activityBucket'[k] = activityBucket[k]
  BY <1>1, <1>2 DEF Put
<1>4. IsMap(activityBucket', Keys, RateRecords)
  BY <1>2 DEF RatesTyped, IsMap, Put
<1>5. PendingIsRecorded' /\ \A k \in DOMAIN pendingBucket' : IsPending(pendingBucket'[k])
  <2>0. /\ DOMAIN pendingBucket \subseteq DOMAIN activityBucket
        /\ \A k \in DOMAIN pendingBucket : /\ pendingBucket[k] = activityBucket[k]
                                           /\ IsPending(pendingBucket[k])
    BY DEF RatesTyped, PendingIsRecorded, RoundInv
  <2>1. CASE IsPending(a)
    <3>1. /\ DOMAIN pendingBucket' = DOMAIN pendingBucket \cup {key}
          /\ pendingBucket'[key] = a
          /\ \A k \in DOMAIN pendingBucket : pendingBucket'[k] = pendingBucket[k]
      BY <1>1, <1>2, <2>0, <2>1 DEF Put
    <3> QED BY <1>3, <2>0, <2>1, <3>1 DEF PendingIsRecorded
  <2>2. CASE ~IsPending(a)
    BY <1>2, <1>3, <2>0, <2>2 DEF PendingIsRecorded
  <2> QED BY <2>1, <2>2
<1> QED BY <1>1, <1>3, <1>4, <1>5 DEF RoundInv, key

LEMMA Updating ==
  ASSUME RatesTyped, RoundInv, NEW k \in DOMAIN activityBucket, NEW a \in RateRecords,
         a.action = activityBucket[k].action, UpdateActivity(k, a)
  PROVE  /\ IsMap(activityBucket', Keys, RateRecords) /\ PendingIsRecorded'
         /\ DOMAIN activityBucket' = DOMAIN activityBucket
         /\ activityBucket'[k] = a
         /\ \A j \in DOMAIN activityBucket : j # k => activityBucket'[j] = activityBucket[j]
         /\ \A j \in DOMAIN pendingBucket' : IsPending(pendingBucket'[j])
         /\ OtherKeys' = OtherKeys
<1>1. /\ activityBucket' = Put(activityBucket, k, a)
      /\ pendingBucket' = IF k \in DOMAIN pendingBucket
                            THEN IF IsPending(a) THEN Put(pendingBucket, k, a)
                                                 ELSE Delete(pendingBucket, k)
                            ELSE pendingBucket
  BY DEF UpdateActivity
<1>2. /\ DOMAIN activityBucket' = DOMAIN activityBucket
      /\ activityBucket'[k] = a
      /\ \A j \in DOMAIN activityBucket : j # k => activityBucket'[j] = activityBucket[j]
  BY <1>1 DEF Put
<1>3. IsMap(activityBucket', Keys, RateRecords)
  BY <1>1 DEF RatesTyped, IsMap, Put
<1>4. PendingIsRecorded' /\ \A j \in DOMAIN pendingBucket' : IsPending(pendingBucket'[j])
  <2>0. /\ DOMAIN pendingBucket \subseteq DOMAIN activityBucket
        /\ \A j \in DOMAIN pendingBucket : /\ pendingBucket[j] = activityBucket[j]
                                           /\ IsPending(pendingBucket[j])
    BY DEF RatesTyped, PendingIsRecorded, RoundInv
  <2>1. CASE k \in DOMAIN pendingBucket /\ IsPending(a)
    <3>1. /\ DOMAIN pendingBucket' = DOMAIN pendingBucket /\ pendingBucket'[k] = a
          /\ \A j \in DOMAIN pendingBucket : j # k => pendingBucket'[j] = pendingBucket[j]
      BY <1>1, <2>1 DEF Put
    <3> QED BY <1>2, <2>0, <2>1, <3>1 DEF PendingIsRecorded
  <2>2. CASE k \notin DOMAIN pendingBucket \/ ~IsPending(a)
    <3>1. /\ DOMAIN pendingBucket' = DOMAIN pendingBucket \ {k}
          /\ \A j \in DOMAIN pendingBucket' : pendingBucket'[j] = pendingBucket[j]
      BY <1>1, <2>2 DEF Delete
    <3> QED BY <1>2, <2>0, <3>1 DEF PendingIsRecorded
  <2> QED BY <2>1, <2>2
<1>5. OtherKeys' = OtherKeys
  BY <1>2 DEF OtherKeys
<1> QED BY <1>2, <1>3, <1>4, <1>5

\* The outcome of a call is recorded under a new key.
LEMMA RecordRatesKeeps ==
  ASSUME RatesTyped, RoundInv, CallsInv, NEW r \in Requests, RecordRates(r)
  PROVE  RatesTyped' /\ RoundInv' /\ CallsInv' /\ (TruthInv => TruthInv') /\ (NoncesInv => NoncesInv')
<1> DEFINE sent == handler[r].pc = "sent"
           a == IF sent
                  THEN Record_("set_rates", "", "submitted", r, handler[r].nonce, handler[r].price)
                  ELSE Record_("set_rates", "", "failed", ZeroTx, 0, 0)
<1>0. handler[r] \in CallRecords /\ handler[r].pc \in {"sent", "failed"}
  BY DEF RatesTyped, RecordRates
<1>1. /\ a \in RateRecords /\ a.action = "set_rates"
      /\ \/ a.tx = r /\ a.nonce = handler[r].nonce /\ a.mst = "submitted"
         \/ a.tx = ZeroTx /\ a.mst = "failed"
  BY <1>0 DEF Record_, RateRecords, RateKinds, ExchangeStatuses, MiningStatuses, CallRecords
<1>2. Record(NextKey, a) /\ At(r, "recorded", handler[r])
  BY DEF RecordRates
<1>3. /\ UNCHANGED <<cells, recent, chain, fpc, list, fmined, verdicts, late, minedNonce>>
  BY DEF RecordRates, nonceVars, restVars, fetchVars
<1> HIDE DEF a, sent
<1>4. /\ handler' \in [Requests -> CallRecords] /\ handler'[r].pc = "recorded"
      /\ handler'[r].nonce = handler[r].nonce /\ handler'[r].cell = handler[r].cell
      /\ \A q \in Requests : q # r => handler'[q] = handler[q]
  BY <1>0, <1>2, CallMoved DEF HandlerSteps
<1>5. r \notin Recorded /\ Recorded' = Recorded \cup {r}
  BY <1>0, <1>4 DEF Recorded
<1>6. /\ Cardinality(Recorded') = Cardinality(Recorded) + 1
      /\ NextKey = Cardinality(Recorded') + Cardinality(OtherKeys)
      /\ NextKey \in Keys
  <2>1. Cardinality(Recorded') = Cardinality(Recorded) + 1
    BY <1>5, Counts, FS_AddElement
  <2>2. Cardinality(Recorded) < Cardinality(Requests)
    BY <1>5, Counts DEF Recorded
  <2> QED BY <2>1, <2>2, Counts, OthersAssumption DEF Keys, RatesTyped
<1>7. /\ IsMap(activityBucket', Keys, RateRecords) /\ PendingIsRecorded'
      /\ DOMAIN activityBucket' = 1 .. NextKey
      /\ DOMAIN activityBucket' = DOMAIN activityBucket \cup {NextKey}
      /\ activityBucket'[NextKey] = a
      /\ \A k \in DOMAIN activityBucket : activityBucket'[k] = activityBucket[k]
      /\ \A k \in DOMAIN pendingBucket' : IsPending(pendingBucket'[k])
      /\ \A k \in DOMAIN list : k \in DOMAIN activityBucket' /\ list[k] = activityBucket'[k]
  BY <1>1, <1>2, <1>6, Recording
<1>8. OtherKeys' = OtherKeys
  BY <1>1, <1>7 DEF OtherKeys
<1>9. RatesTyped'
  BY <1>3, <1>4, <1>6, <1>7, <1>8 DEF RatesTyped, ChainTypeOK, NonceTypeOK, IsMap
<1>10. RoundInv'
  BY <1>3, <1>7 DEF RoundInv
<1>11. CallsInv'
  <2>1. \A q \in Requests : handler'[q].pc \in Unsent => chain'[q] = "none"
    BY <1>3, <1>4 DEF CallsInv, Unsent
  <2>2. ASSUME NEW k \in DOMAIN activityBucket'
        PROVE  /\ activityBucket'[k].action = "set_rates" =>
                    activityBucket'[k].tx \in Requests \/ activityBucket'[k].mst = "failed"
               /\ activityBucket'[k].tx \in Requests =>
                    /\ activityBucket'[k].action = "set_rates"
                    /\ handler'[activityBucket'[k].tx].pc = "recorded"
                    /\ handler'[activityBucket'[k].tx].nonce = activityBucket'[k].nonce
    <3>1. CASE k = NextKey
      BY <1>1, <1>4, <1>7, <3>1, RequestsAssumption
    <3>2. CASE k \in DOMAIN activityBucket
      BY <1>0, <1>4, <1>7, <3>2 DEF CallsInv
    <3> QED BY <1>7, <2>2, <3>1, <3>2
  <2> QED BY <2>1, <2>2 DEF CallsInv
<1>12. ASSUME TruthInv PROVE TruthInv'
  <2>1. ASSUME NEW q \in Requests, handler[q].pc = "recorded", NEW v, NEW k, IsTrue(v, k, q)
        PROVE  IsTrue(v, k, q)'
    <3>1. handler'[q] = handler[q]
      BY <1>0, <1>4, <2>1
    <3> QED BY <1>3, <2>1, <3>1 DEF IsTrue, Dead
  <2>2. ASSUME NEW k \in DOMAIN activityBucket', activityBucket'[k].tx \in Requests
        PROVE  IsTrue(activityBucket[k].mst, k, activityBucket[k].tx)'
    <3>1. CASE k = NextKey
      BY <1>1, <1>7, <2>2, <3>1, RequestsAssumption DEF IsTrue
    <3>2. CASE k \in DOMAIN activityBucket
      BY <1>7, <1>12, <2>1, <2>2, <3>2 DEF CallsInv, TruthInv
    <3> QED BY <1>7, <2>2, <3>1, <3>2
  <2>3. ASSUME NEW k \in DOMAIN verdicts
        PROVE  IsTrue(verdicts[k], k, list[k].tx)'
    BY <1>3, <1>12, <2>1, ListedSent DEF TruthInv, RoundInv
  <2> QED BY <1>3, <2>2, <2>3 DEF TruthInv
<1>13. NoncesInv => NoncesInv'
  <2>1. UNCHANGED <<cells, chain, minedNonce>>
    BY <1>3
  <2>2. \A q \in Requests : handler'[q].nonce = handler[q].nonce /\ handler'[q].cell = handler[q].cell
    BY <1>4
  <2>3. \A q \in Requests : handler'[q].pc = handler[q].pc \/ handler'[q].pc = "recorded"
    BY <1>4
  <2> QED BY <2>1, <2>2, <2>3 DEF NoncesInv, Used, manualNonce
<1> QED BY <1>9, <1>10, <1>11, <1>12, <1>13

\* Another activity is recorded: it has no transaction of the pricing account.
LEMMA RecordOtherKeeps ==
  ASSUME RatesTyped, RoundInv, CallsInv, RecordOther
  PROVE  RatesTyped' /\ RoundInv' /\ CallsInv' /\ (TruthInv => TruthInv') /\ (NoncesInv => NoncesInv')
<1>1. PICK a \in RateRecords : /\ a.action \in {"deposit", "trade"} /\ a.tx = OtherTx
                               /\ Record(NextKey, a)
  <2>1. PICK kind \in Others, n \in DepositNonces :
          Record(NextKey,
                 IF kind = "deposit"
                   THEN Record_("deposit", "", "submitted", OtherTx, n, FreshPrice)
                   ELSE Record_("trade", "submitted", "", OtherTx, NoNonce, 0))
    BY DEF RecordOther
  <2> DEFINE d == Record_("deposit", "", "submitted", OtherTx, n, FreshPrice)
             t == Record_("trade", "submitted", "", OtherTx, NoNonce, 0)
  <2>2. /\ d \in RateRecords /\ d.action = "deposit" /\ d.tx = OtherTx
        /\ t \in RateRecords /\ t.action = "trade" /\ t.tx = OtherTx
    BY OthersAssumption
       DEF Record_, RateRecords, RateKinds, ExchangeStatuses, MiningStatuses, FreshPrice
  <2>3. Record(NextKey, d) \/ Record(NextKey, t)
    BY <2>1
  <2> HIDE DEF d, t
  <2> QED BY <2>2, <2>3
<1>2. UNCHANGED <<cells, recent, chain, handler, fpc, list, fmined, verdicts, late, minedNonce>>
  BY DEF RecordOther, nonceVars, restVars, fetchVars
<1>3. Cardinality(OtherKeys) < MaxOthers
  BY DEF RecordOther
<1>4. NextKey \in Keys
  BY <1>3, Counts, OthersAssumption DEF Keys
<1>5. /\ IsMap(activityBucket', Keys, RateRecords) /\ PendingIsRecorded'
      /\ DOMAIN activityBucket' = 1 .. NextKey
      /\ DOMAIN activityBucket' = DOMAIN activityBucket \cup {NextKey}
      /\ activityBucket'[NextKey] = a
      /\ \A k \in DOMAIN activityBucket : activityBucket'[k] = activityBucket[k]
      /\ \A k \in DOMAIN pendingBucket' : IsPending(pendingBucket'[k])
      /\ \A k \in DOMAIN list : k \in DOMAIN activityBucket' /\ list[k] = activityBucket'[k]
  BY <1>1, <1>4, Recording
<1>6. NextKey \notin OtherKeys /\ OtherKeys' = OtherKeys \cup {NextKey}
  BY <1>1, <1>5, Counts DEF OtherKeys
<1>7. Cardinality(OtherKeys') = Cardinality(OtherKeys) + 1
  BY <1>6, Counts, FS_AddElement
<1>8. Recorded' = Recorded
  BY <1>2 DEF Recorded
<1>9. RatesTyped'
  <2>1. NextKey = Cardinality(Recorded') + Cardinality(OtherKeys')
    BY <1>7, <1>8, Counts
  <2>2. Cardinality(OtherKeys') <= MaxOthers
    BY <1>3, <1>7, Counts, OthersAssumption
  <2> QED BY <1>2, <1>5, <2>1, <2>2 DEF RatesTyped, ChainTypeOK, NonceTypeOK, IsMap
<1>10. RoundInv'
  BY <1>2, <1>5 DEF RoundInv
<1>11. CallsInv'
  <2>1. \A q \in Requests : handler'[q].pc \in Unsent => chain'[q] = "none"
    BY <1>2 DEF CallsInv
  <2>2. ASSUME NEW j \in DOMAIN activityBucket', NEW b, b = activityBucket'[j]
        PROVE  /\ b.action = "set_rates" => b.tx \in Requests \/ b.mst = "failed"
               /\ b.tx \in Requests => /\ b.action = "set_rates"
                                       /\ handler[b.tx].pc = "recorded"
                                       /\ handler[b.tx].nonce = b.nonce
    <3>1. CASE j = NextKey
      BY <1>1, <1>5, <2>2, <3>1, RequestsAssumption
    <3>2. CASE j \in DOMAIN activityBucket
      BY <1>5, <2>2, <3>2 DEF CallsInv
    <3> QED BY <1>5, <2>2, <3>1, <3>2
  <2> QED BY <1>2, <2>1, <2>2 DEF CallsInv
<1>12. ASSUME TruthInv PROVE TruthInv'
  <2>1. \A v, k, q : IsTrue(v, k, q)' <=> IsTrue(v, k, q)
    BY <1>2 DEF IsTrue, Dead
  <2>2. \A k \in DOMAIN activityBucket' : activityBucket'[k].tx \in Requests =>
          k \in DOMAIN activityBucket /\ activityBucket'[k] = activityBucket[k]
    BY <1>1, <1>5, RequestsAssumption
  <2> QED BY <1>2, <1>12, <2>1, <2>2 DEF TruthInv, IsTrue, Dead
<1>13. NoncesInv => NoncesInv'
  BY <1>2 DEF NoncesInv, Used, manualNonce
<1> QED BY <1>9, <1>10, <1>11, <1>12, <1>13

\* An activity is written back: the others keep what they have.
LEMMA UpdateKeeps ==
  ASSUME RatesTyped, RoundInv, CallsInv, NEW k \in DOMAIN activityBucket, NEW a \in RateRecords,
         a.action = activityBucket[k].action, a.tx = activityBucket[k].tx,
         a.nonce = activityBucket[k].nonce, a.action = "set_rates" => a.tx \in Requests,
         UpdateActivity(k, a), UNCHANGED <<nonceVars, chain, minedNonce, handler, fpc, fmined, late>>,
         IsMap(list', Keys, RateRecords), IsMap(verdicts', Keys, Told),
         DOMAIN list' = DOMAIN list \ {k}, \A j \in DOMAIN list' : list'[j] = list[j],
         DOMAIN verdicts' = DOMAIN verdicts \ {k}, \A j \in DOMAIN verdicts' : verdicts'[j] = verdicts[j]
  PROVE  /\ RatesTyped' /\ RoundInv' /\ CallsInv' /\ (NoncesInv => NoncesInv')
         /\ TruthInv /\ (a.tx \in Requests => IsTrue(a.mst, k, a.tx)) => TruthInv'
<1>1. UNCHANGED <<cells, recent, chain, minedNonce, handler, fpc, fmined, late>>
  BY DEF nonceVars
<1>2. /\ IsMap(activityBucket', Keys, RateRecords) /\ PendingIsRecorded'
      /\ DOMAIN activityBucket' = DOMAIN activityBucket
      /\ activityBucket'[k] = a
      /\ \A j \in DOMAIN activityBucket : j # k => activityBucket'[j] = activityBucket[j]
      /\ \A j \in DOMAIN pendingBucket' : IsPending(pendingBucket'[j])
      /\ OtherKeys' = OtherKeys
  BY Updating
<1>3. Recorded' = Recorded
  BY <1>1 DEF Recorded
<1>4. RatesTyped'
  BY <1>1, <1>2, <1>3 DEF RatesTyped, ChainTypeOK, NonceTypeOK
<1>5. RoundInv'
  BY <1>1, <1>2 DEF RoundInv
<1>6. CallsInv'
  <2>1. \A q \in Requests : handler'[q].pc \in Unsent => chain'[q] = "none"
    BY <1>1 DEF CallsInv
  <2>2. ASSUME NEW j \in DOMAIN activityBucket', NEW b, b = activityBucket'[j]
        PROVE  /\ b.action = "set_rates" => b.tx \in Requests \/ b.mst = "failed"
               /\ b.tx \in Requests => /\ b.action = "set_rates"
                                       /\ handler[b.tx].pc = "recorded"
                                       /\ handler[b.tx].nonce = b.nonce
    <3>1. CASE j = k
      BY <1>2, <2>2, <3>1 DEF CallsInv
    <3>2. CASE j # k
      BY <1>2, <2>2, <3>2 DEF CallsInv
    <3> QED BY <3>1, <3>2
  <2> QED BY <1>1, <2>1, <2>2 DEF CallsInv
<1>7. NoncesInv => NoncesInv'
  BY <1>1 DEF NoncesInv, Used, manualNonce
<1>8. ASSUME TruthInv, a.tx \in Requests => IsTrue(a.mst, k, a.tx)
      PROVE  TruthInv'
  <2>1. \A v, j, q : IsTrue(v, j, q)' <=> IsTrue(v, j, q)
    BY <1>1 DEF IsTrue, Dead
  <2>2. ASSUME NEW j \in DOMAIN activityBucket', activityBucket'[j].tx \in Requests
        PROVE  IsTrue(activityBucket'[j].mst, j, activityBucket'[j].tx)
    BY <1>2, <1>8, <2>2 DEF TruthInv
  <2>3. ASSUME NEW j \in DOMAIN verdicts'
        PROVE  IsTrue(verdicts'[j], j, list'[j].tx)
    <3>1. j \in DOMAIN verdicts /\ j \in DOMAIN list' /\ verdicts'[j] = verdicts[j] /\ list'[j] = list[j]
      BY DEF RoundInv
    <3> QED BY <1>8, <3>1 DEF TruthInv
  <2> QED BY <1>1, <2>2, <2>3 DEF TruthInv, IsTrue, Dead
<1> QED BY <1>4, <1>5, <1>6, <1>7, <1>8

LEMMA SettleOtherKeeps ==
  ASSUME RatesTyped, RoundInv, CallsInv, NEW k \in Keys, SettleOther(k)
  PROVE  RatesTyped' /\ RoundInv' /\ CallsInv' /\ (TruthInv => TruthInv') /\ (NoncesInv => NoncesInv')
<1> DEFINE p == pendingBucket[k]
           m == IF p.action = "trade" THEN "" ELSE "mined"
           a == [p EXCEPT !.est = "done", !.mst = m]
<1>1. k \in DOMAIN activityBucket /\ k \in DOMAIN pendingBucket /\ p = activityBucket[k]
  BY DEF SettleOther, OtherKeys, RatesTyped, PendingIsRecorded
<1>2. p \in RateRecords /\ p.action # "set_rates"
  BY <1>1 DEF SettleOther, OtherKeys, RatesTyped, IsMap
<1>3. /\ a \in RateRecords /\ a.action = p.action /\ a.tx = p.tx /\ a.nonce = p.nonce
  <2>1. m \in MiningStatuses
    BY DEF MiningStatuses
  <2> HIDE DEF p, m
  <2> QED BY <1>2, <2>1 DEF RateRecords, ExchangeStatuses
<1>4. UpdateActivity(k, a)
  BY DEF SettleOther
<1>5. UNCHANGED <<nonceVars, chain, minedNonce, handler, fpc, fmined, late, list, verdicts>>
  BY DEF SettleOther, restVars, fetchVars
<1>6. k \notin DOMAIN list /\ k \notin DOMAIN verdicts
  BY <1>1, <1>2 DEF RoundInv
<1>7. a.tx \notin Requests
  BY <1>1, <1>2, <1>3 DEF CallsInv
<1> HIDE DEF a, p, m
<1>8. /\ IsMap(list', Keys, RateRecords) /\ IsMap(verdicts', Keys, Told)
      /\ DOMAIN list' = DOMAIN list \ {k} /\ \A j \in DOMAIN list' : list'[j] = list[j]
      /\ DOMAIN verdicts' = DOMAIN verdicts \ {k} /\ \A j \in DOMAIN verdicts' : verdicts'[j] = verdicts[j]
  BY <1>5, <1>6 DEF RatesTyped
<1> QED BY <1>1, <1>2, <1>3, <1>4, <1>5, <1>7, <1>8, UpdateKeeps

LEMMA PersistRatesKeeps ==
  ASSUME RatesTyped, RoundInv, CallsInv, NEW k \in Keys, PersistRates(k)
  PROVE  RatesTyped' /\ RoundInv' /\ CallsInv' /\ (TruthInv => TruthInv') /\ (NoncesInv => NoncesInv')
<1> DEFINE l == list[k]
           m == IF verdicts[k] # "" /\ IsBlockchainPending(l) THEN verdicts[k] ELSE l.mst
           a == [l EXCEPT !.mst = m]
<1>1. k \in DOMAIN list /\ k \in DOMAIN verdicts /\ verdicts[k] \in Told
  BY DEF PersistRates, RoundInv, RatesTyped, IsMap
<1>2. /\ l \in RateRecords /\ l.tx \in Requests /\ l.mst \in {"", "submitted"}
      /\ k \in DOMAIN activityBucket /\ l = activityBucket[k]
  BY <1>1, ListedSent DEF RoundInv
<1>3. m \in MiningStatuses /\ (m = verdicts[k] \/ m \in {"", "submitted"})
  BY <1>1, <1>2 DEF MiningStatuses, Told
<1>4. UpdateActivity(k, a)
  BY DEF PersistRates
<1> HIDE DEF m
<1>5. a \in RateRecords /\ a.action = l.action /\ a.tx = l.tx /\ a.nonce = l.nonce /\ a.mst = m
  <2> HIDE DEF l
  <2> QED BY <1>2, <1>3 DEF RateRecords
<1>6. /\ UNCHANGED <<nonceVars, chain, minedNonce, handler, fpc, fmined, late>>
      /\ list' = Delete(list, k) /\ verdicts' = Delete(verdicts, k)
  BY DEF PersistRates
<1>7. /\ DOMAIN list' = DOMAIN list \ {k} /\ \A j \in DOMAIN list' : list'[j] = list[j]
      /\ DOMAIN verdicts' = DOMAIN verdicts \ {k} /\ \A j \in DOMAIN verdicts' : verdicts'[j] = verdicts[j]
      /\ IsMap(list', Keys, RateRecords) /\ IsMap(verdicts', Keys, Told)
  BY <1>6 DEF Delete, RatesTyped, IsMap
<1>8. TruthInv => IsTrue(m, k, l.tx)
  BY <1>1, <1>3 DEF TruthInv, IsTrue
<1> HIDE DEF a, l
<1> QED BY <1>2, <1>4, <1>5, <1>6, <1>7, <1>8, UpdateKeeps
------------------------------------------------------------------------------
(***************************************************************************)
(* The round of the fetcher.  A verdict is put together from the mined     *)
(* nonce, which was read first, and the status.                            *)
(***************************************************************************)
\* What the fetcher makes of an answer; without status faults it is true.
LEMMA VerdictIsTrue ==
  ASSUME RatesTyped, RoundInv, CallsInv, NEW k \in DOMAIN list, NEW w \in TxStatus(list[k].tx)
  PROVE  /\ Verdict(k, w) \in Told
         /\ "status" \notin Faults => IsTrue(Verdict(k, w), k, list[k].tx)
<1> DEFINE r == list[k].tx
<1>1. /\ r \in Requests /\ chain[r] \in ChainStates /\ handler[r].nonce = list[k].nonce
      /\ handler[r].nonce \in Int /\ fmined \in Nat /\ minedNonce \in Nat /\ fmined <= minedNonce
  <2>1. r \in Requests /\ handler[r].nonce = list[k].nonce
    BY ListedSent
  <2> HIDE DEF r
  <2>2. handler[r].nonce \in Int
    BY <2>1 DEF RatesTyped, CallRecords, NoNonce
  <2> QED BY <2>1, <2>2 DEF RatesTyped, RoundInv, ChainTypeOK
<1>2. w \in {"", "lost", "mined", "failed"}
  BY <1>1 DEF TxStatus, ChainStates
<1>3. Verdict(k, w) \in Told
  BY <1>2 DEF Verdict, Told
<1>4. ASSUME "status" \notin Faults PROVE IsTrue(Verdict(k, w), k, r)
  <2>1. /\ w = "mined" => chain[r] = "mined"
        /\ w = "failed" => chain[r] = "reverted"
        /\ w = "" => chain[r] = "pooled"
    BY <1>1, <1>4 DEF TxStatus, ChainStates
  <2>2. CASE w = ""
    <3>1. Verdict(k, w) = "" \/ (Verdict(k, w) = "failed" /\ list[k].nonce < fmined)
      BY <2>2 DEF Verdict, IsStale
    <3>2. ASSUME list[k].nonce < fmined PROVE Dead(r)
      <4>1. chain[r] = "pooled"
        BY <2>1, <2>2
      <4> HIDE DEF r
      <4>2. handler[r].nonce < fmined
        BY <1>1, <3>2
      <4>3. handler[r].nonce < minedNonce
        BY <1>1, <4>2
      <4> QED BY <4>1, <4>3 DEF Dead
    <3> QED BY <3>1, <3>2 DEF IsTrue
  <2>3. CASE w = "lost"
    BY <2>3 DEF Verdict, IsTrue
  <2>4. CASE w \in {"mined", "failed"}
    <3>1. Verdict(k, w) = w
      BY <2>4 DEF Verdict
    <3> QED BY <2>1, <2>4, <3>1 DEF IsTrue, Dead
  <2> QED BY <1>2, <2>2, <2>3, <2>4
<1> QED BY <1>3, <1>4

LEMMA FetchTxStatusKeeps ==
  ASSUME RatesTyped, RoundInv, CallsInv, NEW k \in Keys, FetchTxStatus(k)
  PROVE  /\ RatesTyped' /\ RoundInv' /\ CallsInv' /\ (NoncesInv => NoncesInv')
         /\ "status" \notin Faults /\ TruthInv => TruthInv'
<1>1. k \in DOMAIN list /\ k \notin DOMAIN verdicts /\ fpc = "ask"
  BY DEF FetchTxStatus
<1>2. PICK w \in TxStatus(list[k].tx) : verdicts' = Put(verdicts, k, Verdict(k, w))
  BY DEF FetchTxStatus
<1> DEFINE v == Verdict(k, w)
<1>3. v \in Told /\ ("status" \notin Faults => IsTrue(v, k, list[k].tx))
  BY <1>1, VerdictIsTrue
<1>4. verdicts' = Put(verdicts, k, v)
  BY <1>2
<1> HIDE DEF v
<1>5. /\ DOMAIN verdicts' = DOMAIN verdicts \cup {k} /\ verdicts'[k] = v
      /\ \A j \in DOMAIN verdicts : verdicts'[j] = verdicts[j]
      /\ IsMap(verdicts', Keys, Told)
  BY <1>1, <1>3, <1>4 DEF Put, RatesTyped, IsMap
<1>6. UNCHANGED <<activityBucket, pendingBucket, cells, recent, chain, minedNonce, handler, fpc, list,
                  fmined, late>>
  BY DEF FetchTxStatus, storageVars, nonceVars
<1>7. RatesTyped'
  <2>1. Recorded' = Recorded /\ OtherKeys' = OtherKeys
    BY <1>6 DEF Recorded, OtherKeys
  <2> QED BY <1>5, <1>6, <2>1 DEF RatesTyped, ChainTypeOK, NonceTypeOK, PendingIsRecorded, IsMap
<1>8. RoundInv'
  BY <1>1, <1>5, <1>6 DEF RoundInv
<1>9. CallsInv' /\ (NoncesInv => NoncesInv')
  BY <1>6 DEF CallsInv, NoncesInv, Used, manualNonce
<1>10. ASSUME "status" \notin Faults, TruthInv PROVE TruthInv'
  <2>1. \A j \in DOMAIN verdicts' : IsTrue(verdicts'[j], j, list[j].tx)
    BY <1>3, <1>5, <1>10 DEF TruthInv
  <2> QED BY <1>6, <1>10, <2>1 DEF TruthInv, IsTrue, Dead
<1> QED BY <1>7, <1>8, <1>9, <1>10

\* The start of a round, its two other turns and its end.
LEMMA RoundKeeps ==
  ASSUME RatesTyped, RoundInv, CallsInv, FetchStart \/ FetchMinedNonce \/ EndRound \/ EndCycle
  PROVE  RatesTyped' /\ RoundInv' /\ CallsInv' /\ (TruthInv => TruthInv') /\ (NoncesInv => NoncesInv')
<1>1. UNCHANGED <<activityBucket, pendingBucket, cells, recent, chain, minedNonce, handler, verdicts, late>>
  BY DEF FetchStart, FetchMinedNonce, EndRound, EndCycle, storageVars, nonceVars
<1>2. CallsInv' /\ (NoncesInv => NoncesInv')
  BY <1>1 DEF CallsInv, NoncesInv, Used, manualNonce
<1>3. Recorded' = Recorded /\ OtherKeys' = OtherKeys
  BY <1>1 DEF Recorded, OtherKeys
<1>4. /\ IsMap(list', Keys, RateRecords) /\ fmined' \in Nat /\ fmined' <= minedNonce
      /\ fpc' \in {"idle", "start", "ask", "persist"}
      /\ \A k \in DOMAIN list' : /\ k \in DOMAIN activityBucket /\ list'[k] = activityBucket[k]
                                 /\ list'[k].action = "set_rates"
                                 /\ IsPending(list'[k])
      /\ DOMAIN verdicts \subseteq DOMAIN list'
      /\ fpc' \in {"idle", "start"} => DOMAIN verdicts = {}
      /\ fpc' = "persist" => DOMAIN verdicts = DOMAIN list'
      /\ \A k \in DOMAIN verdicts : list'[k] = list[k]
  <2>1. CASE FetchStart
    <3>1. /\ DOMAIN list' = DOMAIN pendingBucket \ OtherKeys
          /\ \A k \in DOMAIN list' : list'[k] = pendingBucket[k]
          /\ list' = [k \in DOMAIN list' |-> list'[k]]
      BY <2>1 DEF FetchStart, GetPendingActivities
    <3>2. \A k \in DOMAIN list' : /\ k \in DOMAIN activityBucket /\ list'[k] = activityBucket[k]
                                  /\ list'[k] \in RateRecords /\ k \in Keys
                                  /\ list'[k].action = "set_rates"
                                  /\ IsPending(list'[k])
      BY <3>1 DEF RatesTyped, RoundInv, PendingIsRecorded, IsMap, OtherKeys
    <3>3. IsMap(list', Keys, RateRecords)
      BY <3>1, <3>2 DEF IsMap
    <3> QED BY <2>1, <3>2, <3>3 DEF FetchStart, RatesTyped, RoundInv
  <2>2. CASE FetchMinedNonce
    BY <2>2 DEF FetchMinedNonce, RatesTyped, RoundInv
  <2>3. CASE EndRound
    BY <2>3 DEF EndRound, RatesTyped, RoundInv
  <2>4. CASE EndCycle
    BY <2>4 DEF EndCycle, RatesTyped, RoundInv
  <2> QED BY <2>1, <2>2, <2>3, <2>4
<1>5. RatesTyped'
  BY <1>1, <1>3, <1>4 DEF RatesTyped, ChainTypeOK, NonceTypeOK, PendingIsRecorded, IsMap
<1>6. RoundInv'
  BY <1>1, <1>4 DEF RoundInv
<1>7. TruthInv => TruthInv'
  BY <1>1, <1>4 DEF TruthInv, IsTrue, Dead
<1> QED BY <1>2, <1>5, <1>6, <1>7

\* Time passes: an activity grows old, the window of the corpus ends.
LEMMA TimeKeeps ==
  ASSUME RatesTyped, RoundInv, CallsInv,
         Elapse \/ (\E k \in Keys : Age(k)) \/ UNCHANGED setRateVars
  PROVE  RatesTyped' /\ RoundInv' /\ CallsInv' /\ (TruthInv => TruthInv') /\ (NoncesInv => NoncesInv')
<1>1. /\ UNCHANGED <<activityBucket, pendingBucket, cells, chain, minedNonce, handler, fpc, list, fmined, verdicts>>
      /\ recent' \in BOOLEAN /\ late \subseteq late' /\ late' \subseteq Keys
  BY DEF Elapse, Age, WindowElapses, storageVars, nonceVars, fetchVars, setRateVars, RatesTyped, NonceTypeOK
<1>2. CallsInv' /\ RoundInv' /\ (NoncesInv => NoncesInv')
  BY <1>1 DEF CallsInv, RoundInv, NoncesInv, Used, manualNonce
<1>3. RatesTyped'
  <2>1. Recorded' = Recorded /\ OtherKeys' = OtherKeys
    BY <1>1 DEF Recorded, OtherKeys
  <2> QED BY <1>1, <2>1 DEF RatesTyped, ChainTypeOK, NonceTypeOK, PendingIsRecorded, IsMap
<1>4. TruthInv => TruthInv'
  BY <1>1 DEF TruthInv, IsTrue, Dead
<1> QED BY <1>2, <1>3, <1>4
------------------------------------------------------------------------------
\* A call takes one of its steps.
LEMMA HandlersKeep ==
  ASSUME RatesTyped, RoundInv, CallsInv, NoncesInv, NEW r \in Requests, Handlers(r)
  PROVE  RatesTyped' /\ RoundInv' /\ CallsInv' /\ NoncesInv' /\ (TruthInv => TruthInv')
<1>0. /\ handler \in [Requests -> CallRecords] /\ cells \in Seq(Nat) /\ Len(cells) \in Nat /\ Len(cells) >= 1
      /\ handler[r].pc \in {"new", "asked", "fresh"} => handler[r].cell = 0
      /\ handler[r].pc \in {"new", "asked", "fresh", "nonce"} => handler[r].nonce = NoNonce
      /\ handler[r].pc = "nonce" => handler[r].cell \in 1 .. Len(cells)
      /\ handler[r].cell <= Len(cells)
      /\ handler[r].cell = Len(cells) => handler[r].nonce <= cells[manualNonce]
      /\ handler[r].pc \in Unsent => ~Used(r)
  BY DEF RatesTyped, NonceTypeOK, NoncesInv, CallsInv, Used
<1>1. CASE Refuse(r)
  <2>1. Moves(r) /\ UNCHANGED cells
    BY <1>1, RefuseMoves DEF Refuse, nonceVars
  <2>2. /\ handler[r].pc \in Unsent /\ handler'[r].pc = "failed"
        /\ handler'[r].cell = handler[r].cell /\ handler'[r].nonce = handler[r].nonce
    BY <1>0, <1>1, CallMoved DEF Refuse, Unsent, HandlerSteps
  <2> QED BY <1>0, <2>1, <2>2, MovesKeep, NoncesMove
<1>2. CASE SetRateMinedNonce(r)
  <2>1. Moves(r) /\ UNCHANGED cells
    BY <1>2, MinedNonceMoves DEF SetRateMinedNonce, nonceVars
  <2>2. /\ handler[r].pc = "new" /\ handler'[r].pc = "asked"
        /\ handler'[r].cell = handler[r].cell /\ handler'[r].nonce = handler[r].nonce
    BY <1>0, <1>2 DEF SetRateMinedNonce, At, CallRecords
  <2> QED BY <1>0, <2>1, <2>2, MovesKeep, NoncesMove DEF Unsent
<1>3. CASE PendingSetrateInfo(r)
  <2>1. Moves(r) /\ UNCHANGED cells /\ handler[r].pc = "asked"
    BY <1>3, InfoMoves DEF PendingSetrateInfo, nonceVars
  <2>2. /\ handler'[r].pc \in {"fresh", "panic", "built"}
        /\ handler'[r].cell = handler[r].cell
        /\ handler'[r].pc # "built" => handler'[r].nonce = handler[r].nonce
    BY <1>0, <1>3 DEF PendingSetrateInfo, At, CallRecords
  <2>3. handler'[r].cell = 0
    BY <1>0, <2>1, <2>2
  <2> QED BY <1>0, <2>1, <2>2, <2>3, MovesKeep, NoncesMove DEF Unsent
<1>4. CASE NextNonce(r)
  BY <1>4, NextNonceMoves, NextNonceNonces, MovesKeep
<1>5. CASE TransactTx(r)
  <2>1. /\ Moves(r) /\ UNCHANGED cells /\ handler[r].pc = "nonce" /\ handler'[r].pc = "built"
        /\ handler'[r].cell = handler[r].cell /\ handler'[r].nonce = cells[handler[r].cell]
    BY <1>5, TransactMoves DEF TransactTx, nonceVars
  <2>2. handler'[r].cell = Len(cells) => handler'[r].nonce <= cells[manualNonce]
    BY <1>0, <2>1 DEF manualNonce
  <2> QED BY <1>0, <2>1, <2>2, MovesKeep, NoncesMove DEF Unsent
<1>6. CASE SignAndBroadcast(r)
  <2>1. /\ Moves(r) /\ UNCHANGED cells /\ handler[r].pc = "built" /\ handler'[r].pc \in {"sent", "failed"}
        /\ handler'[r].cell = handler[r].cell /\ handler'[r].nonce = handler[r].nonce
    BY <1>6, BroadcastMoves DEF SignAndBroadcast, nonceVars
  <2> QED BY <1>0, <2>1, MovesKeep, NoncesMove DEF Unsent
<1>7. CASE RecordRates(r)
  BY <1>7, RecordRatesKeeps
<1> QED BY <1>1, <1>2, <1>3, <1>4, <1>5, <1>6, <1>7 DEF Handlers

SetRatesInv == RatesTyped /\ RoundInv /\ CallsInv /\ NoncesInv

\* The four invariants are inductive, and with them TruthInv where no status
\* call fails.
LEMMA SetRatesStep ==
  ASSUME SetRatesInv, [Next]_setRateVars
  PROVE  SetRatesInv' /\ ("status" \notin Faults /\ TruthInv => TruthInv')
<1>0. RatesTyped /\ RoundInv /\ CallsInv /\ NoncesInv
  BY DEF SetRatesInv
<1> SUFFICES RatesTyped' /\ RoundInv' /\ CallsInv' /\ NoncesInv' /\ ("status" \notin Faults /\ TruthInv => TruthInv')
  BY DEF SetRatesInv
<1>1. CASE \E r \in Requests : Handlers(r)
  BY <1>0, <1>1, HandlersKeep
<1>2. CASE \E r \in Requests : Network(r)
  BY <1>0, <1>2, NetworkKeeps
<1>3. CASE RecordOther
  BY <1>0, <1>3, RecordOtherKeeps
<1>4. CASE \E k \in Keys : SettleOther(k)
  BY <1>0, <1>4, SettleOtherKeeps
<1>5. CASE FetchStart \/ FetchMinedNonce \/ EndRound \/ EndCycle
  BY <1>0, <1>5, RoundKeeps
<1>6. CASE \E k \in Keys : FetchTxStatus(k)
  BY <1>0, <1>6, FetchTxStatusKeeps
<1>7. CASE \E k \in Keys : PersistRates(k)
  BY <1>0, <1>7, PersistRatesKeeps
<1>8. CASE Elapse \/ (\E k \in Keys : Age(k)) \/ UNCHANGED setRateVars
  BY <1>0, <1>8, TimeKeeps
<1> QED BY <1>1, <1>2, <1>3, <1>4, <1>5, <1>6, <1>7, <1>8 DEF Next, Fetching

LEMMA SetRatesInvInit == Init => SetRatesInv /\ TruthInv
<1> SUFFICES ASSUME Init PROVE SetRatesInv /\ TruthInv
  OBVIOUS
<1>1. DOMAIN activityBucket = {} /\ DOMAIN pendingBucket = {}
  BY DEF Init, StorageInit
<1>2. DOMAIN list = {} /\ DOMAIN verdicts = {} /\ fpc = "idle" /\ fmined = 0 /\ minedNonce = 0 /\ late = {}
  BY DEF Init
<1>3. /\ handler \in [Requests -> CallRecords]
      /\ \A r \in Requests : handler[r].pc = "new" /\ handler[r].cell = 0 /\ handler[r].nonce = NoNonce
  BY DEF Init, CallRecords, HandlerSteps
<1>4. Cardinality(Recorded) = 0 /\ Cardinality(OtherKeys) = 0
  <2>1. Recorded = {} /\ OtherKeys = {}
    BY <1>1, <1>3 DEF Recorded, OtherKeys
  <2> QED BY <2>1, FS_EmptySet
<1>5. RatesTyped
  <2>1. /\ IsMap(activityBucket, Keys, RateRecords) /\ IsMap(list, Keys, RateRecords)
        /\ IsMap(verdicts, Keys, Told) /\ PendingIsRecorded
    BY <1>1, <1>2 DEF Init, StorageInit, IsMap, PendingIsRecorded
  <2>2. ChainTypeOK
    BY DEF Init, ChainInit, ChainTypeOK, ChainStates
  <2>3. NonceTypeOK
    <3>1. cells = <<0>> /\ recent = FALSE
      BY DEF Init, NonceInit
    <3>2. <<0>> \in Seq(Nat)
      OBVIOUS
    <3> QED BY <3>1, <3>2, Zenon DEF NonceTypeOK
  <2> QED BY <1>1, <1>2, <1>3, <1>4, <2>1, <2>2, <2>3, OthersAssumption DEF RatesTyped
<1>6. RoundInv /\ TruthInv
  BY <1>1, <1>2 DEF RoundInv, TruthInv
<1>7. CallsInv
  BY <1>1 DEF Init, ChainInit, CallsInv
<1>8. NoncesInv
  BY <1>2, <1>3 DEF Init, NonceInit, NoncesInv
<1> QED BY <1>5, <1>6, <1>7, <1>8 DEF SetRatesInv

\* The invariants hold in every reachable state.
LEMMA SetRatesInvHolds == Spec => []SetRatesInv
BY SetRatesInvInit, SetRatesStep, PTL DEF Spec

(***************************************************************************)
(* Every variable keeps its type: among other things the two buckets of    *)
(* data/storage/bolt.go hold no key that was not given, and the round has  *)
(* a verdict only on activities in its list.                               *)
(***************************************************************************)
THEOREM SetRatesTyped == Spec => []TypeOK
<1>1. SetRatesInv => TypeOK
  <2> SUFFICES ASSUME SetRatesInv PROVE TypeOK
    OBVIOUS
  <2>1. \A k \in DOMAIN activityBucket : /\ activityBucket[k].est \in ExchangeStatuses
                                         /\ activityBucket[k].mst \in MiningStatuses
    BY DEF SetRatesInv, RatesTyped, IsMap, RateRecords
  <2>2. \A r \in Requests : handler[r].pc \in HandlerSteps
    BY DEF SetRatesInv, RatesTyped, CallRecords
  <2> QED BY <2>1, <2>2 DEF SetRatesInv, RatesTyped, RoundInv, PendingIsRecorded, IsMap, TypeOK
<1> QED BY <1>1, SetRatesInvHolds, PTL

(***************************************************************************)
(* Where no status call fails (what happens otherwise is a finding), a     *)
(* set_rates activity recorded as mined was mined and one recorded as      *)
(* failed in time never will be, although FetchStatusFromBlockchain reads  *)
(* the mined nonce before the statuses and PersistSnapshot stores the      *)
(* verdict after the chain has moved on.                                   *)
(***************************************************************************)
THEOREM VerdictsAlwaysTrue ==
  ASSUME "status" \notin Faults
  PROVE  Spec => []VerdictsTrue
<1>1. SetRatesInv /\ TruthInv /\ [Next]_setRateVars => TruthInv'
  BY SetRatesStep
<1>2. TruthInv => VerdictsTrue
  BY DEF TruthInv, IsTrue, Dead, VerdictsTrue
<1> QED BY <1>1, <1>2, SetRatesInvInit, SetRatesInvHolds, PTL DEF Spec

(***************************************************************************)
(* What TimeWindow.GetNextNonce gives was not used by any transaction of   *)
(* its window, and what it takes from the node was not used at all.        *)
(***************************************************************************)
THEOREM NonceAlwaysUsable == Spec => NonceIsUsable
<1> DEFINE Usable == \A r \in Requests :
             handler[r].pc = "fresh" /\ handler'[r].pc = "nonce" =>
               LET cell == handler'[r].cell
               IN  cells'[cell] >= minedNonce \/ UsedByOutsider(cells'[cell], cell)
<1>1. SetRatesInv /\ [Next]_setRateVars => [Usable]_setRateVars
  <2> SUFFICES ASSUME SetRatesInv, [Next]_setRateVars, NEW r \in Requests,
                      handler[r].pc = "fresh", handler'[r].pc = "nonce"
               PROVE  NextNonce(r)
    BY NextNonceUsable DEF SetRatesInv
  <2>0. handler \in [Requests -> CallRecords]
    BY DEF SetRatesInv, RatesTyped
  <2>1. PICK q \in Requests : Handlers(q)
    <3>1. handler' # handler
      OBVIOUS
    <3> QED BY <3>1 DEF Next, setRateVars, restVars, Network, Mine, Forget, Reannounce, RecordOther, SettleOther,
                 Age, Fetching, FetchStart, FetchMinedNonce, EndRound, EndCycle, FetchTxStatus,
                 PersistRates, Elapse
  <2>2. q = r
    <3>1. PICK pc, f : At(q, pc, f)
      BY <2>1 DEF Handlers, Refuse, SetRateMinedNonce, PendingSetrateInfo, NextNonce, TransactTx,
                  SignAndBroadcast, RecordRates
    <3> QED BY <2>0, <3>1 DEF At
  <2>3. ~Refuse(r)
    BY <2>0 DEF Refuse, At, CallRecords
  <2> QED BY <2>1, <2>2, <2>3 DEF Handlers, SetRateMinedNonce, PendingSetrateInfo, TransactTx,
                                  SignAndBroadcast, RecordRates
<1> QED BY <1>1, SetRatesInvHolds, PTL DEF Spec, NonceIsUsable
------------------------------------------------------------------------------
(***************************************************************************)
(* The bytes of PricingRates.                                              *)
(***************************************************************************)
\* c is n / d, to within a half.
Near(n, d, c) == -d <= 2 * (n - d * c) /\ 2 * (n - d * c) <= d

\* Division with a remainder.
LEMMA DivMod ==
  ASSUME NEW n \in Int, NEW d \in Nat \ {0}
  PROVE  n \div d \in Int /\ n % d \in 0 .. d - 1 /\ n = d * (n \div d) + (n % d)
OBVIOUS

\* Rounded is off by half a divisor at most.
LEMMA RoundedNear ==
  ASSUME NEW n \in Int, NEW d \in Nat \ {0}
  PROVE  Rounded(n, d) \in Int /\ Near(n, d, Rounded(n, d))
<1> DEFINE q == n \div d
           m == n % d
<1>1. q \in Int /\ m \in 0 .. d - 1 /\ n = d * q + m
  BY DivMod
<1>2. Rounded(n, d) = IF 2 * m < d \/ (2 * m = d /\ q % 2 = 0) THEN q ELSE q + 1
  BY DEF Rounded
<1> HIDE DEF q, m
<1>3. CASE Rounded(n, d) = q /\ 2 * m <= d
  <2>1. n - d * q = m
    BY <1>1
  <2> QED BY <1>1, <1>3, <2>1 DEF Near
<1>4. CASE Rounded(n, d) = q + 1 /\ 2 * m >= d
  <2>1. d * (q + 1) = d * q + d
    BY <1>1
  <2>2. n - d * (q + 1) = m - d
    BY <1>1, <2>1
  <2> QED BY <1>1, <1>4, <2>2 DEF Near
<1> QED BY <1>1, <1>2, <1>3, <1>4

\* A byte that does not overflow is read back as it was meant.
LEMMA SignedByte ==
  ASSUME NEW c \in Smallest .. Largest
  PROVE  c % ByteSize \in Nat /\ Signed(c % ByteSize) = c
<1> DEFINE h == ByteSize \div 2
<1>1. h \in Nat /\ h >= 1 /\ ByteSize = 2 * h
  BY PricingAssumption
<1>2. c \in -h .. h - 1
  BY DEF Smallest, Largest
<1> HIDE DEF h
<1>3. Largest = h - 1
  BY DEF h, Largest
<1>4. CASE c >= 0
  <2>1. c % (2 * h) = c
    BY <1>1, <1>2, <1>4
  <2> QED BY <1>1, <1>2, <1>3, <1>4, <2>1 DEF Signed
<1>5. CASE c < 0
  <2>1. c % (2 * h) = c + 2 * h
    BY <1>1, <1>2, <1>5
  <2> QED BY <1>1, <1>2, <1>3, <1>5, <2>1 DEF Signed
<1> QED BY <1>1, <1>2, <1>4, <1>5

\* The rate that base and byte stand for is the one asked for, to within half a
\* unit of the base.
Close(rate, base, byte) ==
  LET error == rate * Unit - base * (Unit + Signed(byte))
  IN  -base <= 2 * error /\ 2 * error <= base

LEMMA ZeroByte == Signed(0) = 0 /\ \A rate \in Nat : Close(rate, rate, 0)
<1>1. Signed(0) = 0
  BY PricingAssumption DEF Signed, Largest
<1>2. ASSUME NEW rate \in Nat PROVE Close(rate, rate, 0)
  <2>1. rate * (Unit + 0) = rate * Unit /\ rate * Unit \in Nat
    BY PricingAssumption
  <2> QED BY <1>1, <2>1 DEF Close
<1> QED BY <1>1, <1>2

LEMMA ByteIsClose ==
  ASSUME NEW rate \in Nat, NEW base \in Nat, NEW b \in BigIntToCompactRate(rate, base)
  PROVE  Close(rate, base, b)
<1>0. Unit \in Nat
  BY PricingAssumption
<1>1. CASE base = 0
  BY <1>1, ZeroByte DEF BigIntToCompactRate
<1>2. CASE base # 0
  <2> DEFINE n == (rate - base) * Unit
             c == CompactOf(rate, base)
  <2>1. n \in Int
    BY <1>0
  <2>2. c \in Int /\ Near(n, base, c)
    BY <1>2, <2>1, RoundedNear DEF CompactOf
  <2>3. c \in Smallest .. Largest /\ b = c % ByteSize
    BY <1>2 DEF BigIntToCompactRate
  <2>4. Signed(b) = c
    BY <2>3, SignedByte
  <2> HIDE DEF c
  <2>5. rate * Unit - base * (Unit + c) = n - base * c
    <3>1. base * (Unit + c) = base * Unit + base * c
      BY <1>0, <2>2
    <3>2. n = rate * Unit - base * Unit
      BY <1>0
    <3>3. rate * Unit \in Int /\ base * Unit \in Int /\ base * c \in Int
      BY <1>0, <2>2
    <3> HIDE DEF n
    <3> QED BY <3>1, <3>2, <3>3
  <2> HIDE DEF n
  <2> QED BY <2>2, <2>4, <2>5 DEF Near, Close
<1> QED BY <1>1, <1>2
------------------------------------------------------------------------------
\* A transaction, and one whose bytes are computed.
IsRateTx(x) ==
  /\ DOMAIN x = {"nonce", "target", "base", "bytes"}
  /\ x.nonce \in Nat
  /\ DOMAIN x.target \subseteq PrTokens
  /\ \A t \in DOMAIN x.target : x.target[t] \in Nat \X Nat

IsBuiltTx(x) ==
  /\ IsRateTx(x)
  /\ DOMAIN x.base \subseteq DOMAIN x.target /\ DOMAIN x.target \subseteq DOMAIN x.bytes
  /\ \A t \in DOMAIN x.base : x.base[t] = x.target[t]

\* With x the contract has the rates x asks for.
BaseAfter(x, t) == IF t \in DOMAIN x.base THEN x.base[t] ELSE prBase[t]

Fits(x) == \A t \in DOMAIN x.target : \A side \in {1, 2} :
             Close(x.target[t][side], BaseAfter(x, t)[side], x.bytes[t][side])

\* A call, in any state of its: the nonce it has is mined, or the next.
CallFits(c) ==
  /\ DOMAIN c = {"pc", "tx"} /\ c.pc \in {"idle", "called", "built"}
  /\ c.pc # "idle" => IsRateTx(c.tx) /\ c.tx.nonce <= prNonce
  /\ c.pc = "built" => IsBuiltTx(c.tx) /\ (c.tx.nonce = prNonce => Fits(c.tx))

ContractFits ==
  /\ prBase \in [PrTokens -> Nat \X Nat] /\ prNonce \in Nat /\ DOMAIN asked \subseteq PrTokens
  /\ \A t \in DOMAIN asked : \A side \in {1, 2} :
       Close(asked[t][side], prBase[t][side], prCompact[t][side])

\* One call at a time,
CallsFit ==
  /\ DOMAIN setter = Setters
  /\ \A s \in Setters : CallFits(setter[s])
  /\ \A s, u \in Busy : s = u

\* and one transaction that waits, with the next nonce.
PoolFits ==
  /\ \A x \in prPool : IsBuiltTx(x) /\ x.nonce = prNonce /\ Fits(x)
  /\ \A x, y \in prPool : x = y

Uncrossed == ContractFits /\ CallsFit /\ PoolFits

PricingInv == crossed \in BOOLEAN /\ (~crossed => Uncrossed)

\* A call that is alone gets the next nonce: a fresh one when nothing waits, and
\* else, as nothing crosses, that of the transaction that waits.
LEMMA NextIsTaken ==
  ASSUME Uncrossed, Busy = {}, NEW pending \in SUBSET prPool, NEW n \in NoncesFor(pending),
         \A x \in prPool : x.nonce = n
  PROVE  n = prNonce
<1>0. prNonce \in Nat
  BY DEF Uncrossed, ContractFits
<1>1. CASE prPool # {}
  BY <1>1 DEF Uncrossed, PoolFits
<1>2. CASE prPool = {}
  <2>1. pending = {}
    BY <1>2
  <2>2. Cardinality(prPool) = 0 /\ Cardinality(Busy) = 0
    BY <1>2, FS_EmptySet
  <2>3. prNonce .. prNonce + Cardinality(prPool) = {prNonce}
    BY <1>0, <2>2
  <2>4. \A m \in prNonce .. prNonce - 1 : \E x \in prPool : x.nonce = m
    BY <1>0
  <2>5. FreeNonce = prNonce
    BY <1>2, <2>3, <2>4 DEF FreeNonce
  <2>6. n \in prNonce .. prNonce + 0
    BY <2>1, <2>2, <2>5 DEF NoncesFor
  <2> QED BY <1>0, <2>6
<1> QED BY <1>1, <1>2

LEMMA StartKeeps ==
  ASSUME Uncrossed, NEW s \in Setters, StartSetRates(s), ~crossed'
  PROVE  Uncrossed'
<1>1. Busy = {} /\ UNCHANGED <<prBase, prCompact, prNonce, prPool, asked>>
  BY DEF StartSetRates
<1>0. PICK pending \in SUBSET prPool : \E n \in NoncesFor(pending) :
        /\ \E T \in (SUBSET PrTokens) \ {{}} : \E target \in [T -> Targets] :
             setter' = [setter EXCEPT ![s] = [pc |-> "called",
                                              tx |-> [NoRateTx EXCEPT !.nonce = n, !.target = target]]]
        /\ \A x \in prPool : x.nonce = n
  BY DEF StartSetRates
<1>2. PICK n \in NoncesFor(pending) :
        /\ \E T \in (SUBSET PrTokens) \ {{}} : \E target \in [T -> Targets] :
             setter' = [setter EXCEPT ![s] = [pc |-> "called",
                                              tx |-> [NoRateTx EXCEPT !.nonce = n, !.target = target]]]
        /\ \A x \in prPool : x.nonce = n
  BY <1>0
<1>3. PICK T \in (SUBSET PrTokens) \ {{}} : \E target \in [T -> Targets] :
        setter' = [setter EXCEPT ![s] = [pc |-> "called",
                                         tx |-> [NoRateTx EXCEPT !.nonce = n, !.target = target]]]
  BY <1>2
<1>4. PICK target \in [T -> Targets] :
        setter' = [setter EXCEPT ![s] = [pc |-> "called",
                                         tx |-> [NoRateTx EXCEPT !.nonce = n, !.target = target]]]
  BY <1>3
<1> DEFINE x == [NoRateTx EXCEPT !.nonce = n, !.target = target]
<1>5. n = prNonce /\ prNonce \in Nat
  BY <1>1, <1>2, NextIsTaken DEF Uncrossed, ContractFits
<1>6. /\ DOMAIN x = {"nonce", "target", "base", "bytes"}
      /\ x.nonce = n /\ x.target = target
  BY DEF NoRateTx
<1>7. IsRateTx(x) /\ x.nonce = prNonce
  <2>1. \A t \in DOMAIN target : target[t] \in Nat \X Nat
    BY PricingAssumption
  <2>2. DOMAIN target \subseteq PrTokens
    OBVIOUS
  <2> HIDE DEF x
  <2> QED BY <1>5, <1>6, <2>1, <2>2 DEF IsRateTx
<1>8. setter' = [setter EXCEPT ![s] = [pc |-> "called", tx |-> x]]
  BY <1>4
<1> HIDE DEF x
<1>9. /\ DOMAIN setter' = Setters /\ setter'[s] = [pc |-> "called", tx |-> x]
      /\ \A u \in Setters : u # s => setter'[u] = setter[u]
  BY <1>8 DEF Uncrossed, CallsFit
<1>10. Busy' = {s}
  BY <1>1, <1>9 DEF Busy
<1>11. UNCHANGED <<ContractFits, PoolFits>>
  BY <1>1 DEF ContractFits, PoolFits, Fits, BaseAfter
<1>12. ASSUME NEW u \in Setters PROVE CallFits(setter[u])'
  BY <1>1, <1>5, <1>7, <1>9 DEF Uncrossed, CallsFit, CallFits, Fits, BaseAfter
<1>13. CallsFit'
  BY <1>9, <1>10, <1>12 DEF CallsFit
<1> QED BY <1>11, <1>13 DEF Uncrossed

\* A call that ends,
LEMMA EndKeeps ==
  ASSUME CallsFit, NEW s \in Setters, setter' = [setter EXCEPT ![s] = NoSetter],
         UNCHANGED <<prBase, prNonce>>
  PROVE  CallsFit'
<1>1. /\ DOMAIN setter' = Setters /\ setter'[s] = NoSetter
      /\ \A u \in Setters : u # s => setter'[u] = setter[u]
  BY DEF CallsFit
<1>2. DOMAIN NoSetter = {"pc", "tx"} /\ NoSetter.pc = "idle"
  BY DEF NoSetter
<1>3. \A u, v \in Busy' : u = v
  BY <1>1, <1>2 DEF Busy, CallsFit
<1>4. ASSUME NEW u \in Setters PROVE CallFits(setter[u])'
  <2>1. CASE u = s
    BY <1>1, <1>2, <2>1 DEF CallFits
  <2>2. CASE u # s
    BY <1>1, <2>2 DEF CallsFit, CallFits, Fits, BaseAfter
  <2> QED BY <2>1, <2>2
<1> QED BY <1>1, <1>3, <1>4 DEF CallsFit

\* the bytes it computes,
LEMMA BytesFit ==
  ASSUME NEW target \in Nat \X Nat, NEW base \in Nat \X Nat, NEW side \in {1, 2}
  PROVE  Close(target[side], (IF Overflows(target, base) THEN target ELSE base)[side],
               BytesOf(target, base)[side])
<1>1. target[side] \in Nat /\ base[side] \in Nat
  OBVIOUS
<1>2. CASE Overflows(target, base)
  <2>1. BytesOf(target, base)[side] = 0
    BY <1>2 DEF BytesOf
  <2> QED BY <1>1, <1>2, <2>1, ZeroByte
<1>3. CASE ~Overflows(target, base)
  <2>1. BytesOf(target, base)[side] \in BigIntToCompactRate(target[side], base[side])
    BY <1>3 DEF BytesOf, Overflows
  <2> QED BY <1>1, <1>3, <2>1, ByteIsClose
<1> QED BY <1>2, <1>3

\* and the transaction it builds.
LEMMA BuildKeeps ==
  ASSUME Uncrossed, NEW s \in Setters, BuildRatesTx(s)
  PROVE  Uncrossed'
<1> DEFINE target == setter[s].tx.target
           over   == {t \in DOMAIN target : Overflows(target[t], prBase[t])}
           bases  == [t \in over |-> target[t]]
           own    == [t \in DOMAIN target |-> BytesOf(target[t], prBase[t])]
           bytes  == BuildCompactBulk(own)
           x      == [setter[s].tx EXCEPT !.base = bases, !.bytes = bytes]
<1>1. UNCHANGED <<prBase, prCompact, prNonce, prPool, asked, crossed>> /\ setter[s].pc = "called"
  BY DEF BuildRatesTx
<1>2. UNCHANGED <<ContractFits, PoolFits>>
  BY <1>1 DEF ContractFits, PoolFits, Fits, BaseAfter
<1>3. CASE setter' = [setter EXCEPT ![s] = NoSetter]
  BY <1>1, <1>2, <1>3, EndKeeps DEF Uncrossed
<1>4. CASE setter' = [setter EXCEPT ![s].pc = "built", ![s].tx.base = bases, ![s].tx.bytes = bytes]
  <2>1. IsRateTx(setter[s].tx) /\ setter[s].tx.nonce <= prNonce /\ DOMAIN setter = Setters
    BY <1>1 DEF Uncrossed, CallsFit, CallFits
  <2>2. \A t \in DOMAIN target : t \in PrTokens /\ target[t] \in Nat \X Nat /\ prBase[t] \in Nat \X Nat
    BY <2>1 DEF IsRateTx, Uncrossed, ContractFits
  <2>3. DOMAIN target \subseteq DOMAIN bytes /\ \A t \in DOMAIN target : bytes[t] = own[t]
    BY <2>2 DEF BuildCompactBulk
  <2>4. DOMAIN bases = over /\ \A t \in over : bases[t] = target[t]
    OBVIOUS
  <2>5. over \subseteq DOMAIN target
    OBVIOUS
  <2>6. \A t \in DOMAIN target : t \in over <=> Overflows(target[t], prBase[t])
    OBVIOUS
  <2>7. \A t \in DOMAIN target : own[t] = BytesOf(target[t], prBase[t])
    OBVIOUS
  <2> HIDE DEF bases, own, bytes, over
  <2>8. /\ x.base = bases /\ x.bytes = bytes /\ x.target = target /\ x.nonce = setter[s].tx.nonce
        /\ DOMAIN x = DOMAIN setter[s].tx
    BY <2>1 DEF IsRateTx
  <2>9. /\ DOMAIN setter' = Setters /\ setter'[s].pc = "built" /\ setter'[s].tx = x
        /\ DOMAIN setter'[s] = {"pc", "tx"}
        /\ \A u \in Setters : u # s => setter'[u] = setter[u]
    BY <1>4, <2>1 DEF Uncrossed, CallsFit, CallFits
  <2> HIDE DEF x, target
  <2>10. IsBuiltTx(x)
    BY <2>1, <2>2, <2>3, <2>4, <2>5, <2>8 DEF IsBuiltTx, IsRateTx, target
  <2>11. Fits(x)
    <3> SUFFICES ASSUME NEW t \in DOMAIN target, NEW side \in {1, 2}
                 PROVE  Close(target[t][side], BaseAfter(x, t)[side], bytes[t][side])
      BY <2>8 DEF Fits
    <3>1. BaseAfter(x, t) = IF Overflows(target[t], prBase[t]) THEN target[t] ELSE prBase[t]
      BY <2>4, <2>6, <2>8 DEF BaseAfter
    <3> QED BY <2>2, <2>3, <2>7, <3>1, BytesFit
  <2>12. \A u, v \in Busy' : u = v
    BY <1>1, <2>9 DEF Busy, Uncrossed, CallsFit
  <2>13. ASSUME NEW u \in Setters PROVE CallFits(setter[u])'
    <3>1. CASE u = s
      BY <1>1, <2>1, <2>8, <2>9, <2>10, <2>11, <3>1 DEF CallFits, Fits, BaseAfter, IsBuiltTx
    <3>2. CASE u # s
      BY <1>1, <2>9, <3>2 DEF Uncrossed, CallsFit, CallFits, Fits, BaseAfter
    <3> QED BY <3>1, <3>2
  <2> QED BY <1>2, <2>9, <2>12, <2>13 DEF Uncrossed, CallsFit
<1> QED BY <1>3, <1>4 DEF BuildRatesTx

\* A broadcast with the next nonce replaces what waits; one with a nonce that is
\* used by now is not accepted.
LEMMA BroadcastKeeps ==
  ASSUME Uncrossed, NEW s \in Setters, BroadcastRates(s)
  PROVE  Uncrossed'
<1> DEFINE tx == setter[s].tx
<1>1. /\ tx.nonce >= prNonce /\ setter[s].pc = "built"
      /\ setter' = [setter EXCEPT ![s] = NoSetter]
      /\ UNCHANGED <<prBase, prCompact, prNonce, asked>>
  BY DEF BroadcastRates
<1>2. prPool' = OtherNonces(tx.nonce) \cup {tx}
  BY DEF BroadcastRates
<1>3. IsBuiltTx(tx) /\ tx.nonce <= prNonce /\ (tx.nonce = prNonce => Fits(tx))
  BY <1>1 DEF Uncrossed, CallsFit, CallFits
<1>4. tx.nonce = prNonce
  <2>1. tx.nonce \in Nat /\ prNonce \in Nat
    BY <1>3 DEF Uncrossed, ContractFits, IsBuiltTx, IsRateTx
  <2> HIDE DEF tx
  <2> QED BY <1>1, <1>3, <2>1
<1>5. OtherNonces(tx.nonce) = {}
  BY <1>4 DEF OtherNonces, Uncrossed, PoolFits
<1> HIDE DEF tx
<1>8. PoolFits'
  BY <1>1, <1>2, <1>3, <1>4, <1>5 DEF PoolFits, Fits, BaseAfter
<1>9. CallsFit'
  BY <1>1, EndKeeps DEF Uncrossed
<1>10. ContractFits'
  BY <1>1 DEF Uncrossed, ContractFits
<1> QED BY <1>8, <1>9, <1>10 DEF Uncrossed

\* A mined transaction leaves the rates it asks for, and the calls with a nonce
\* that is used by now.
LEMMA MineKeeps ==
  ASSUME Uncrossed, MineRatesTx
  PROVE  Uncrossed'
<1>1. PICK x \in prPool :
        /\ x.nonce = prNonce
        /\ prBase' = [t \in PrTokens |-> IF t \in DOMAIN x.base THEN x.base[t] ELSE prBase[t]]
        /\ prCompact' = [t \in PrTokens |-> IF t \in DOMAIN x.bytes THEN x.bytes[t] ELSE prCompact[t]]
        /\ asked' = [t \in (DOMAIN asked \ DOMAIN x.bytes) \cup DOMAIN x.target |->
                       IF t \in DOMAIN x.target THEN x.target[t] ELSE asked[t]]
        /\ prPool' = prPool \ {x}
  BY DEF MineRatesTx
<1>2. prNonce' = prNonce + 1 /\ setter' = setter /\ prNonce \in Nat
  BY DEF MineRatesTx, Uncrossed, ContractFits
<1>3. IsBuiltTx(x) /\ Fits(x)
  BY DEF Uncrossed, PoolFits
<1>4. PoolFits'
  BY <1>1 DEF Uncrossed, PoolFits
<1>5. CallsFit'
  <2>1. ASSUME NEW u \in Setters PROVE CallFits(setter[u])'
    <3>1. CASE setter[u].pc = "idle"
      BY <1>2, <3>1 DEF Uncrossed, CallsFit, CallFits
    <3>2. CASE setter[u].pc # "idle"
      <4>1. CallFits(setter[u]) /\ setter[u].tx.nonce \in Nat /\ setter[u].tx.nonce <= prNonce
        BY <3>2 DEF Uncrossed, CallsFit, CallFits, IsRateTx
      <4>2. setter[u].tx.nonce <= prNonce + 1 /\ setter[u].tx.nonce # prNonce + 1
        BY <1>2, <4>1
      <4> QED BY <1>2, <4>1, <4>2 DEF CallFits
    <3> QED BY <3>1, <3>2
  <2> QED BY <1>2, <2>1 DEF Uncrossed, CallsFit, Busy
<1>6. ContractFits'
  <2>1. \A t \in DOMAIN x.target : t \in PrTokens /\ x.target[t] \in Nat \X Nat
    BY <1>3 DEF IsBuiltTx, IsRateTx
  <2>2. prBase' \in [PrTokens -> Nat \X Nat]
    <3>1. ASSUME NEW t \in PrTokens PROVE prBase'[t] \in Nat \X Nat
      BY <1>1, <1>3, <2>1 DEF IsBuiltTx, Uncrossed, ContractFits
    <3> QED BY <1>1, <3>1
  <2>3. DOMAIN asked' = (DOMAIN asked \ DOMAIN x.bytes) \cup DOMAIN x.target
    BY <1>1
  <2>4. DOMAIN asked' \subseteq PrTokens
    BY <2>1, <2>3 DEF Uncrossed, ContractFits
  <2>5. ASSUME NEW t \in DOMAIN asked', NEW side \in {1, 2}
        PROVE  Close(asked'[t][side], prBase'[t][side], prCompact'[t][side])
    <3>0. t \in PrTokens
      BY <2>4
    <3>1. CASE t \in DOMAIN x.target
      <4>1. asked'[t] = x.target[t]
        BY <1>1, <3>1, <2>3
      <4>2. prBase'[t] = BaseAfter(x, t)
        BY <1>1, <3>0 DEF BaseAfter
      <4>3. prCompact'[t] = x.bytes[t]
        BY <1>1, <1>3, <3>0, <3>1 DEF IsBuiltTx
      <4> QED BY <1>3, <3>1, <4>1, <4>2, <4>3 DEF Fits
    <3>2. CASE t \notin DOMAIN x.target
      <4>1. t \in DOMAIN asked /\ t \notin DOMAIN x.bytes /\ asked'[t] = asked[t]
        BY <1>1, <2>3, <3>2
      <4>2. prBase'[t] = prBase[t] /\ prCompact'[t] = prCompact[t]
        BY <1>1, <1>3, <3>0, <3>2, <4>1 DEF IsBuiltTx
      <4> QED BY <4>1, <4>2 DEF Uncrossed, ContractFits
    <3> QED BY <3>1, <3>2
  <2> QED BY <1>2, <2>2, <2>4, <2>5 DEF ContractFits, Close, Signed, Largest
<1> QED BY <1>4, <1>5, <1>6 DEF Uncrossed

LEMMA PricingStep == PricingInv /\ [PricingNext]_pricingVars => PricingInv'
<1> SUFFICES ASSUME PricingInv, [PricingNext]_pricingVars
             PROVE  PricingInv'
  OBVIOUS
<1>1. ASSUME NEW s \in Setters, StartSetRates(s) PROVE PricingInv'
  BY <1>1, StartKeeps DEF PricingInv, StartSetRates
<1>2. ASSUME NEW s \in Setters, BuildRatesTx(s) PROVE PricingInv'
  BY <1>2, BuildKeeps DEF PricingInv, BuildRatesTx
<1>3. ASSUME NEW s \in Setters, BroadcastRates(s) PROVE PricingInv'
  BY <1>3, BroadcastKeeps DEF PricingInv, BroadcastRates
<1>4. ASSUME NEW s \in Setters, RefuseRates(s) PROVE PricingInv'
  <2>1. Uncrossed => Uncrossed'
    BY <1>4, EndKeeps DEF RefuseRates, Uncrossed, ContractFits, PoolFits, Fits, BaseAfter
  <2> QED BY <1>4, <2>1 DEF PricingInv, RefuseRates
<1>5. ASSUME MineRatesTx PROVE PricingInv'
  BY <1>5, MineKeeps DEF PricingInv, MineRatesTx
<1>6. ASSUME UNCHANGED pricingVars PROVE PricingInv'
  BY <1>6 DEF PricingInv, pricingVars, Uncrossed, ContractFits, CallsFit, CallFits, Busy,
              PoolFits, Fits, BaseAfter
<1> QED BY <1>1, <1>2, <1>3, <1>4, <1>5, <1>6 DEF PricingNext

LEMMA PricingStart == PricingInit => PricingInv
<1> SUFFICES ASSUME PricingInit PROVE Uncrossed /\ crossed \in BOOLEAN
  BY DEF PricingInv
<1>1. ContractFits
  <2>1. FirstBases \subseteq Nat \X Nat
    BY PricingAssumption
  <2>2. DOMAIN asked = {}
    BY DEF PricingInit, NoRate
  <2> QED BY <2>1, <2>2 DEF PricingInit, ContractFits
<1>2. CallsFit
  <2>1. DOMAIN NoSetter = {"pc", "tx"} /\ NoSetter.pc = "idle"
    BY DEF NoSetter
  <2> QED BY <2>1 DEF PricingInit, CallsFit, CallFits, Busy
<1>3. PoolFits
  BY DEF PricingInit, PoolFits
<1> QED BY <1>1, <1>2, <1>3 DEF Uncrossed, PricingInit

(***************************************************************************)
(* RatesAlwaysAsAsked: for all tokens, rates, bases, units and byte sizes, *)
(* what SetRates of blockchain/blockchain.go leaves in the contract is     *)
(* what was asked for, to within half a unit of the base.                  *)
(***************************************************************************)
THEOREM RatesAlwaysAsAsked == PricingSpec => []RatesAsAsked
<1>1. PricingInv => RatesAsAsked
  BY DEF PricingInv, Uncrossed, ContractFits, RatesAsAsked, Close
<1> QED BY <1>1, PricingStart, PricingStep, PTL DEF PricingSpec

------------------------------------------------------------------------------
(***************************************************************************)
(* Proofs about the histories of rates.                                    *)
(***************************************************************************)

\* The records of a reserve, and what the loop of GetReserveRates carries.
RateRecord == [block : Nat, to : Nat, data : Rates]
RateAnswer == [result : Seq(RateRecord), latest : RateRecord]
FirstAnswer == [result |-> <<>>, latest |-> FailedRates]

\* One turn of the loop of GetReserveRates stays inside the type.
LEMMA ExtendTyped ==
  ASSUME NEW a \in RateAnswer, NEW e \in RateRecord
  PROVE  Extend(a, e) \in RateAnswer
<1> DEFINE n == Len(a.result)
           x == [a.result EXCEPT ![n].to = e.block]
<1>1. a.result \in Seq(RateRecord) /\ n \in Nat
  BY DEF RateAnswer
<1>2. n > 0 => x \in Seq(RateRecord)
  <2> SUFFICES ASSUME n > 0 PROVE x \in Seq(RateRecord)
    OBVIOUS
  <2>1. a.result[n] \in RateRecord
    BY <1>1
  <2>2. [a.result[n] EXCEPT !.to = e.block] \in RateRecord
    BY <2>1 DEF RateRecord
  <2>3. x = [a.result EXCEPT ![n] = [a.result[n] EXCEPT !.to = e.block]]
    OBVIOUS
  <2> QED BY <1>1, <2>2, <2>3
<1>3. Append(a.result, e) \in Seq(RateRecord)
  BY <1>1
<1> QED BY <1>1, <1>2, <1>3 DEF Extend, RateAnswer

\* The fold of GetReserveRates, turn by turn.
LEMMA ExtendFold ==
  ASSUME NEW s \in Seq(RateRecord), NEW base \in RateAnswer
  PROVE  \E h \in [0 .. Len(s) -> RateAnswer] :
           /\ h[0] = base
           /\ \A i \in 1 .. Len(s) : h[i] = Extend(h[i - 1], s[i])
           /\ FoldLeft(Extend, base, s) = h[Len(s)]
<1> DEFINE F == [p \in RateAnswer \X RateRecord |-> Extend(p[1], p[2])]
           Iter(g) == g = [q \in SUBSET DOMAIN s |->
                             IF q = {} THEN base ELSE Extend(g[q \ {Max(q)}], s[Max(q)])]
<1>1. F \in [RateAnswer \X RateRecord -> RateAnswer]
  BY ExtendTyped
<1>2. PICK G : IsFoldTable(G, RateAnswer, F, base, s)
  <2> HIDE DEF F
  <2> QED BY <1>1, FoldTable
<1>3. DOMAIN s = 1 .. Len(s) /\ Len(s) \in Nat
  OBVIOUS
<1>4. ASSUME NEW q \in SUBSET DOMAIN s, q # {}
      PROVE  F[<<G[q \ {Max(q)}], s[Max(q)]>>] = Extend(G[q \ {Max(q)}], s[Max(q)])
  <2>1. Max(q) \in q
    BY <1>3, <1>4, MaxOf
  <2>2. G[q \ {Max(q)}] \in RateAnswer /\ s[Max(q)] \in RateRecord
    BY <2>1, <1>2, <1>3 DEF IsFoldTable
  <2> QED BY <2>2
<1>5. Iter(G)
  <2> HIDE DEF F
  <2> QED BY <1>2, <1>3, <1>4 DEF IsFoldTable
<1> DEFINE it == CHOOSE g : Iter(g)
<1>6. Iter(it)
  <2> HIDE DEF Iter
  <2> QED BY <1>5, Zenon
<1>7. FoldLeft(Extend, base, s) = it[DOMAIN s]
  BY Zenon DEF FoldLeft, MapThenFoldSet
<1> DEFINE h == [i \in 0 .. Len(s) |-> it[1 .. i]]
<1>8. \A q \in SUBSET (1 .. Len(s)) :
        it[q] = IF q = {} THEN base ELSE Extend(it[q \ {Max(q)}], s[Max(q)])
  <2> HIDE DEF it
  <2> QED BY <1>3, <1>6
<1>9. h[0] = base
  <2>1. 1 .. 0 = {} /\ 1 .. 0 \in SUBSET (1 .. Len(s)) /\ 0 \in 0 .. Len(s)
    BY <1>3
  <2>2. h[0] = it[1 .. 0]
    BY <2>1
  <2> HIDE DEF it, h
  <2> QED BY <2>1, <2>2, <1>8
<1>10. ASSUME NEW i \in 1 .. Len(s)
       PROVE  h[i] = Extend(h[i - 1], s[i])
  <2>1. 1 .. i \in SUBSET (1 .. Len(s)) /\ 1 .. i # {} /\ Max(1 .. i) = i /\ (1 .. i) \ {i} = 1 .. (i - 1)
    BY <1>3, MaxOfStretch
  <2>2. i \in 0 .. Len(s) /\ i - 1 \in 0 .. Len(s)
    BY <1>3
  <2>3. h[i] = it[1 .. i] /\ h[i - 1] = it[1 .. (i - 1)]
    BY <2>2
  <2>4. it[1 .. i] = Extend(it[(1 .. i) \ {Max(1 .. i)}], s[Max(1 .. i)])
    <3> HIDE DEF it
    <3> QED BY <2>1, <1>8, Zenon
  <2> HIDE DEF h, it
  <2> QED BY <2>1, <2>3, <2>4
<1>11. h[Len(s)] = FoldLeft(Extend, base, s)
  <2> HIDE DEF it
  <2> QED BY <1>7, <1>3
<1>12. h \in [0 .. Len(s) -> RateAnswer]
  <2> DEFINE T == {n \in Nat : n <= Len(s) => h[n] \in RateAnswer}
  <2> HIDE DEF h
  <2>1. 0 \in T
    BY <1>9
  <2>2. ASSUME NEW n \in Nat, n \in T PROVE n + 1 \in T
    <3> SUFFICES ASSUME n + 1 <= Len(s) PROVE h[n + 1] \in RateAnswer
      OBVIOUS
    <3>1. n + 1 \in 1 .. Len(s) /\ (n + 1) - 1 = n /\ n <= Len(s)
      BY <1>3
    <3>2. h[n] \in RateAnswer /\ s[n + 1] \in RateRecord
      BY <2>2, <3>1
    <3>3. h[n + 1] = Extend(h[n], s[n + 1])
      BY <3>1, <1>10
    <3> QED BY <3>2, <3>3, ExtendTyped
  <2>3. Nat \subseteq T
    <3> HIDE DEF T
    <3> QED BY <2>1, <2>2, InductionOn
  <2>4. \A n \in 0 .. Len(s) : h[n] \in RateAnswer
    BY <2>3
  <2> QED BY <2>4 DEF h
<1> HIDE DEF h
<1> QED BY <1>9, <1>10, <1>11, <1>12

\* Records of one reserve in the order of blocks, each valid for one block.
Ordered(s) ==
  /\ \A i \in 1 .. Len(s) : s[i].to = s[i].block + 1
  /\ \A i, j \in 1 .. Len(s) : i < j => s[i].block < s[j].block

\* The range i of an answer has the record e.
InRangeOf(answer, i, e) == answer[i].data = e.data /\ e.block \in answer[i].block .. answer[i].to

\* What holds of the loop of GetReserveRates after k records of s.
Extended(s, k, a) ==
  LET ans == a.result
      n   == Len(ans)
  IN  /\ \A i \in 1 .. n - 1 : ans[i].block < ans[i + 1].block /\ ans[i].to <= ans[i + 1].block
      /\ IF k = 0 THEN a = FirstAnswer ELSE a.latest = s[k]
      /\ n > 0 => /\ k > 0
                  /\ ans[n].to <= s[k].block + 1
                  /\ InRangeOf(ans, n, s[k])
      /\ n = 0 => /\ a.latest.data = NoRates
                  /\ \A j \in 1 .. k : s[j].data = NoRates
      /\ \A m \in 1 .. k : \/ \E i \in 1 .. n : InRangeOf(ans, i, s[m])
                           \/ \A j \in 1 .. m : s[j].data = NoRates

\* One more record keeps it.
LEMMA ExtendStep ==
  ASSUME NEW s \in Seq(RateRecord), Ordered(s), NEW k \in Nat, k < Len(s),
         NEW a \in RateAnswer, Extended(s, k, a)
  PROVE  Extended(s, k + 1, Extend(a, s[k + 1]))
<1> DEFINE e   == s[k + 1]
           ans == a.result
           n   == Len(ans)
           b   == Extend(a, e)
<1>1. /\ ans \in Seq(RateRecord) /\ n \in Nat /\ a.latest \in RateRecord
      /\ e \in RateRecord /\ e.block \in Nat /\ e.to = e.block + 1
      /\ k > 0 => s[k] \in RateRecord /\ s[k].block < e.block /\ s[k].block \in Nat
      /\ \A m \in 1 .. k : s[m] \in RateRecord /\ s[m].block \in Nat /\ s[m].block < e.block
  <2>1. ans \in Seq(RateRecord) /\ a.latest \in RateRecord
    BY DEF RateAnswer
  <2>2. \A m \in 1 .. k + 1 : m \in 1 .. Len(s) /\ s[m] \in RateRecord
    OBVIOUS
  <2>3. \A m \in 1 .. k + 1 : s[m].block \in Nat
    BY <2>2 DEF RateRecord
  <2>4. k + 1 \in 1 .. k + 1 /\ (k > 0 => k \in 1 .. k)
    OBVIOUS
  <2>5. \A m \in 1 .. k : s[m].block < e.block
    BY <2>2, <2>4 DEF Ordered
  <2>6. e.to = e.block + 1
    BY <2>2, <2>4 DEF Ordered
  <2> HIDE DEF ans
  <2> QED BY <2>1, <2>2, <2>3, <2>4, <2>5, <2>6
<1>2. \A i \in 1 .. n : ans[i] \in RateRecord /\ ans[i].block \in Nat /\ ans[i].to \in Nat
  <2>1. \A i \in 1 .. n : ans[i] \in RateRecord
    BY <1>1
  <2> HIDE DEF ans
  <2> QED BY <2>1 DEF RateRecord
<1>3. b.latest = e /\ k + 1 # 0
  BY DEF Extend
<1>4. CASE e.data # a.latest.data
  <2>1. b.result = Append(ans, e)
    BY <1>4 DEF Extend, IsDuplicate
  <2> DEFINE new == b.result
  <2>2. /\ Len(new) = n + 1 /\ new[n + 1] = e
        /\ \A i \in 1 .. n : new[i] = ans[i]
    BY <2>1, <1>1
  <2> HIDE DEF e, ans, b
  <2>3. ASSUME NEW i \in 1 .. n
        PROVE  new[i].block < new[i + 1].block /\ new[i].to <= new[i + 1].block
    <3>1. CASE i < n
      <4>1. new[i] = ans[i] /\ new[i + 1] = ans[i + 1] /\ i \in 1 .. n - 1
        BY <3>1, <2>2, <1>1
      <4> QED BY <4>1 DEF Extended, ans
    <3>2. CASE i = n
      <4>1. new[i] = ans[n] /\ new[i + 1] = e /\ n > 0
        BY <3>2, <2>2, <1>1
      <4>2. ans[n].to <= s[k].block + 1 /\ s[k].block \in ans[n].block .. ans[n].to /\ k > 0
        BY <4>1 DEF Extended, InRangeOf, ans
      <4> QED BY <4>1, <4>2, <1>1, <1>2
    <3> QED BY <3>1, <3>2, <1>1
  <2>4. InRangeOf(new, n + 1, e)
    BY <2>2, <1>1 DEF InRangeOf
  <2>5. ASSUME NEW m \in 1 .. k + 1
        PROVE  \/ \E i \in 1 .. n + 1 : InRangeOf(new, i, s[m])
               \/ \A j \in 1 .. m : s[j].data = NoRates
    <3>1. CASE m = k + 1
      BY <3>1, <2>4, <1>1 DEF e
    <3>2. CASE m # k + 1
      <4>1. m \in 1 .. k
        BY <3>2
      <4>2. ASSUME NEW i \in 1 .. n, InRangeOf(ans, i, s[m])
            PROVE  i \in 1 .. n + 1 /\ InRangeOf(new, i, s[m])
        BY <4>2, <2>2, <1>1 DEF InRangeOf
      <4>3. \/ \E i \in 1 .. n : InRangeOf(ans, i, s[m])
            \/ \A j \in 1 .. m : s[j].data = NoRates
        BY <4>1 DEF Extended, ans
      <4> QED BY <4>2, <4>3
    <3> QED BY <3>1, <3>2
  <2> QED BY <1>1, <1>3, <2>2, <2>3, <2>4, <2>5 DEF Extended, e, b
<1>5. CASE e.data = a.latest.data /\ n > 0
  <2>1. b.result = [ans EXCEPT ![n].to = e.block]
    BY <1>5 DEF Extend, IsDuplicate
  <2> DEFINE new == b.result
  <2>2. /\ Len(new) = n
        /\ \A i \in 1 .. n : new[i].block = ans[i].block /\ new[i].data = ans[i].data
        /\ \A i \in 1 .. n : i # n => new[i] = ans[i]
        /\ new[n].to = e.block
    <3>1. n \in 1 .. n /\ ans[n] \in RateRecord
      BY <1>5, <1>1, <1>2
    <3> DEFINE x == [ans[n] EXCEPT !.to = e.block]
    <3>2. x.block = ans[n].block /\ x.data = ans[n].data /\ x.to = e.block
      BY <3>1 DEF RateRecord
    <3>3. new = [ans EXCEPT ![n] = x]
      BY <2>1
    <3> HIDE DEF x, new
    <3>4. DOMAIN ans = 1 .. n
      BY <1>1
    <3>5. new[n] = x /\ (\A i \in 1 .. n : i # n => new[i] = ans[i]) /\ DOMAIN new = 1 .. n
      BY <3>1, <3>3, <3>4
    <3>6. Len(new) = n
      BY <3>3, <3>4, <1>1
    <3> QED BY <3>2, <3>5, <3>6
  <2>3. /\ ans[n].to <= s[k].block + 1 /\ InRangeOf(ans, n, s[k]) /\ k > 0
        /\ a.latest = s[k]
    BY <1>5 DEF Extended
  <2> HIDE DEF e, ans, b
  <2>4. /\ ans[n].data = e.data /\ ans[n].block <= e.block /\ ans[n].to <= e.block
    BY <2>3, <1>5, <1>1, <1>2 DEF InRangeOf
  <2>5. ASSUME NEW i \in 1 .. n - 1
        PROVE  new[i].block < new[i + 1].block /\ new[i].to <= new[i + 1].block
    <3>1. i \in 1 .. n /\ i # n /\ i + 1 \in 1 .. n
      BY <1>1
    <3>2. new[i] = ans[i] /\ new[i + 1].block = ans[i + 1].block
      BY <2>2, <3>1
    <3> QED BY <3>2 DEF Extended, ans
  <2>6. InRangeOf(new, n, e)
    BY <2>2, <2>4, <1>1, <1>5, <1>2 DEF InRangeOf
  <2>7. ASSUME NEW m \in 1 .. k + 1
        PROVE  \/ \E i \in 1 .. n : InRangeOf(new, i, s[m])
               \/ \A j \in 1 .. m : s[j].data = NoRates
    <3>1. CASE m = k + 1
      BY <3>1, <2>6, <1>1, <1>5 DEF e
    <3>2. CASE m # k + 1
      <4>1. m \in 1 .. k
        BY <3>2
      <4>2. ASSUME NEW i \in 1 .. n, InRangeOf(ans, i, s[m])
            PROVE  InRangeOf(new, i, s[m])
        <5>1. CASE i # n
          BY <5>1, <4>2, <2>2 DEF InRangeOf
        <5>2. CASE i = n
          BY <5>2, <4>2, <2>2, <2>4, <1>1, <1>2, <4>1 DEF InRangeOf
        <5> QED BY <5>1, <5>2
      <4> QED BY <4>1, <4>2 DEF Extended, ans
    <3> QED BY <3>1, <3>2
  <2> QED BY <1>1, <1>3, <1>5, <2>2, <2>5, <2>6, <2>7 DEF Extended, e, b
<1>6. CASE e.data = a.latest.data /\ ~(n > 0)
  <2>1. b.result = ans /\ n = 0
    BY <1>6, <1>1 DEF Extend, IsDuplicate
  <2>2. a.latest.data = NoRates /\ \A j \in 1 .. k : s[j].data = NoRates
    BY <2>1 DEF Extended
  <2>3. \A j \in 1 .. k + 1 : s[j].data = NoRates
    BY <2>2, <1>6
  <2> HIDE DEF e, ans, b
  <2>4. \A m \in 1 .. k + 1 : \A j \in 1 .. m : s[j].data = NoRates
    BY <2>3
  <2> QED BY <1>1, <1>3, <1>6, <2>1, <2>3, <2>4 DEF Extended, e, b, ans
<1> QED BY <1>4, <1>5, <1>6

\* What GetReserveRates answers for the records s.
LEMMA ExtendCovers ==
  ASSUME NEW s \in Seq(RateRecord), Ordered(s)
  PROVE  \E a \in RateAnswer : FoldLeft(Extend, FirstAnswer, s) = a /\ Extended(s, Len(s), a)
<1>1. FirstAnswer \in RateAnswer
  BY ReserveRatesAssumption DEF FirstAnswer, FailedRates, RateAnswer, RateRecord
<1>2. PICK h \in [0 .. Len(s) -> RateAnswer] :
        /\ h[0] = FirstAnswer
        /\ \A i \in 1 .. Len(s) : h[i] = Extend(h[i - 1], s[i])
        /\ FoldLeft(Extend, FirstAnswer, s) = h[Len(s)]
  BY <1>1, ExtendFold
<1> DEFINE T == {n \in Nat : n <= Len(s) => Extended(s, n, h[n])}
<1>3. 0 \in T
  BY <1>2 DEF Extended, FirstAnswer, FailedRates
<1>4. ASSUME NEW n \in Nat, n \in T PROVE n + 1 \in T
  <2> SUFFICES ASSUME n + 1 <= Len(s) PROVE Extended(s, n + 1, h[n + 1])
    OBVIOUS
  <2>1. n < Len(s) /\ n \in 0 .. Len(s) /\ n + 1 \in 1 .. Len(s) /\ (n + 1) - 1 = n
    OBVIOUS
  <2>2. h[n] \in RateAnswer /\ Extended(s, n, h[n]) /\ h[n + 1] = Extend(h[n], s[n + 1])
    BY <2>1, <1>2, <1>4
  <2> QED BY <2>1, <2>2, ExtendStep
<1>5. Nat \subseteq T
  <2> HIDE DEF T
  <2> QED BY <1>3, <1>4, InductionOn
<1>6. Len(s) \in T /\ Len(s) \in 0 .. Len(s)
  <2> HIDE DEF T
  <2> QED BY <1>5
<1> QED BY <1>2, <1>6

\* The state of the rate fetcher of the statistics: the chain, the job and, for
\* every reserve, records in the order of blocks.
RateHistoryInv ==
  /\ rateChain \in Seq([Reserves -> Rates])
  /\ rateBlock \in Nat
  /\ rateJob.block \in Nat /\ rateJob.todo \subseteq Reserves
  /\ DOMAIN rateJob = {"block", "todo"}
  /\ rateDb \in [Reserves -> Seq(RateRecord)]
  /\ \A r \in Reserves : Ordered(rateDb[r])

\* Appending a newer record keeps a bucket in order.
LEMMA StoreKeepsOrder ==
  ASSUME NEW s \in Seq(RateRecord), Ordered(s), NEW e \in RateRecord, e.block > 0 => e.to = e.block + 1
  PROVE  StoreReserveRates(s, e) \in Seq(RateRecord) /\ Ordered(StoreReserveRates(s, e))
<1> DEFINE last == IF s = <<>> THEN 0 ELSE Last(s).block
           t == Append(s, e)
<1>1. e.block \in Nat
  BY DEF RateRecord
<1>2. last \in Nat
  <2>1. s # <<>> => s[Len(s)] \in RateRecord
    OBVIOUS
  <2>2. s # <<>> => s[Len(s)].block \in Nat
    BY <2>1 DEF RateRecord
  <2> QED BY <2>2 DEF Last
<1>3. CASE ~(last < e.block)
  BY <1>3 DEF StoreReserveRates
<1>4. CASE last < e.block
  <2>1. StoreReserveRates(s, e) = t
    BY <1>4 DEF StoreReserveRates
  <2>2. t \in Seq(RateRecord) /\ Len(t) = Len(s) + 1 /\ t[Len(s) + 1] = e
        /\ \A i \in 1 .. Len(s) : t[i] = s[i]
    OBVIOUS
  <2>3. e.to = e.block + 1
    BY <1>1, <1>2, <1>4
  <2>4. \A i \in 1 .. Len(s) : s[i].block < e.block
    <3> SUFFICES ASSUME NEW i \in 1 .. Len(s) PROVE s[i].block < e.block
      OBVIOUS
    <3>1. s # <<>> /\ Len(s) \in 1 .. Len(s) /\ s[i] \in RateRecord /\ s[Len(s)] \in RateRecord
      OBVIOUS
    <3>2. s[Len(s)].block < e.block
      BY <3>1, <1>4 DEF Last
    <3>3. i = Len(s) \/ s[i].block < s[Len(s)].block
      BY <3>1 DEF Ordered
    <3>4. s[i].block \in Nat /\ s[Len(s)].block \in Nat
      BY <3>1 DEF RateRecord
    <3> QED BY <1>1, <3>2, <3>3, <3>4
  <2> HIDE DEF t, last
  <2>5. ASSUME NEW i \in 1 .. Len(t) PROVE t[i].to = t[i].block + 1
    BY <2>2, <2>3 DEF Ordered
  <2>6. ASSUME NEW i \in 1 .. Len(t), NEW j \in 1 .. Len(t), i < j PROVE t[i].block < t[j].block
    <3>1. i \in 1 .. Len(s)
      BY <2>2, <2>6
    <3>2. CASE j = Len(s) + 1
      BY <3>1, <3>2, <2>2, <2>4
    <3>3. CASE j # Len(s) + 1
      <4>1. j \in 1 .. Len(s)
        BY <2>2, <3>3
      <4> QED BY <3>1, <4>1, <2>2, <2>6 DEF Ordered
    <3> QED BY <3>2, <3>3
  <2> QED BY <2>1, <2>2, <2>5, <2>6 DEF Ordered
<1> QED BY <1>3, <1>4

\* Every step of the fetcher keeps the histories in order, also when the newest
\* block goes back, a call fails or the process starts again.
LEMMA RateHistoryStep ==
  ASSUME RateHistoryInv, [ReserveRatesNext]_rateVars
  PROVE  RateHistoryInv'
<1> USE DEF RateHistoryInv
<1>1. CASE MineRates
  BY <1>1 DEF MineRates
<1>2. CASE FetchRateBlock
  BY <1>2 DEF FetchRateBlock
<1>3. CASE StartReserveRates
  BY <1>3 DEF StartReserveRates
<1>4. CASE StoreFetchedRates
  <2>0. PICK r \in rateJob.todo :
          /\ \E e \in RatesAt(r, rateJob.block) : rateDb' = [rateDb EXCEPT ![r] = StoreReserveRates(@, e)]
          /\ rateJob' = [rateJob EXCEPT !.todo = @ \ {r}]
    BY <1>4 DEF StoreFetchedRates
  <2>1. PICK e \in RatesAt(r, rateJob.block) : rateDb' = [rateDb EXCEPT ![r] = StoreReserveRates(@, e)]
    BY <2>0
  <2>2. r \in Reserves
    OBVIOUS
  <2>3. e \in RateRecord /\ (e.block > 0 => e.to = e.block + 1)
    <3>1. CASE e = FailedRates
      BY <3>1, ReserveRatesAssumption DEF FailedRates, RateRecord
    <3>2. CASE e # FailedRates
      <4>1. /\ rateJob.block - 1 \in 1 .. Len(rateChain)
            /\ e = [block |-> rateJob.block - 1, to |-> rateJob.block, data |-> rateChain[rateJob.block - 1][r]]
        BY <3>2 DEF RatesAt
      <4>2. rateChain[rateJob.block - 1][r] \in Rates
        BY <4>1, <2>2
      <4> QED BY <4>1, <4>2 DEF RateRecord
    <3> QED BY <3>1, <3>2
  <2>4. rateDb[r] \in Seq(RateRecord) /\ Ordered(rateDb[r])
    BY <2>2
  <2>5. StoreReserveRates(rateDb[r], e) \in Seq(RateRecord) /\ Ordered(StoreReserveRates(rateDb[r], e))
    BY <2>3, <2>4, StoreKeepsOrder
  <2>6. /\ rateDb' \in [Reserves -> Seq(RateRecord)]
        /\ rateDb'[r] = StoreReserveRates(rateDb[r], e)
        /\ \A v \in Reserves \ {r} : rateDb'[v] = rateDb[v]
    BY <2>1, <2>2, <2>5
  <2>7. \A v \in Reserves : Ordered(rateDb'[v])
    BY <2>5, <2>6
  <2>8. rateJob'.block \in Nat /\ rateJob'.todo \subseteq Reserves /\ DOMAIN rateJob' = {"block", "todo"}
    BY <2>0
  <2>9. UNCHANGED <<rateChain, rateBlock>>
    BY <1>4 DEF StoreFetchedRates
  <2> QED BY <2>6, <2>7, <2>8, <2>9 DEF Ordered
<1>5. CASE RestartReserveRates
  BY <1>5 DEF RestartReserveRates
<1>6. CASE UNCHANGED rateVars
  BY <1>6 DEF rateVars, Ordered
<1> QED BY <1>1, <1>2, <1>3, <1>4, <1>5, <1>6 DEF ReserveRatesNext

\* Records in order are covered by the answer for every window of them.
LEMMA OrderedIsCovered ==
  ASSUME RateHistoryInv
  PROVE  ReserveRatesCovered
<1> SUFFICES ASSUME NEW r \in Reserves, NEW from \in DOMAIN rateDb[r], NEW to \in DOMAIN rateDb[r]
             PROVE  LET answer == GetReserveRates(r, from, to)
                    IN /\ \A i \in 1 .. Len(answer) - 1 : answer[i].block < answer[i + 1].block
                                          /\ answer[i].to <= answer[i + 1].block
                       /\ \A k \in from .. to :
                            \/ \E i \in DOMAIN answer :
                                 /\ answer[i].data = rateDb[r][k].data
                                 /\ rateDb[r][k].block \in answer[i].block .. answer[i].to
                            \/ \A j \in from .. k : rateDb[r][j].data = NoRates
  BY DEF ReserveRatesCovered, GetReserveRate
<1> DEFINE db == rateDb[r]
           s  == SubSeq(db, from, to)
<1>1. db \in Seq(RateRecord) /\ Ordered(db) /\ DOMAIN db = 1 .. Len(db) /\ Len(db) \in Nat
  BY DEF RateHistoryInv
<1>2. /\ s \in Seq(RateRecord)
      /\ Len(s) = IF from <= to THEN to - from + 1 ELSE 0
      /\ \A i \in 1 .. Len(s) : s[i] = db[from + i - 1] /\ from + i - 1 \in 1 .. Len(db)
  BY <1>1
<1> HIDE DEF db, s
<1>3. Ordered(s)
  <2>1. \A i \in 1 .. Len(s) : s[i].to = s[i].block + 1
    BY <1>1, <1>2 DEF Ordered
  <2>2. ASSUME NEW i \in 1 .. Len(s), NEW j \in 1 .. Len(s), i < j PROVE s[i].block < s[j].block
    <3>1. from + i - 1 < from + j - 1
      BY <2>2, <1>1 DEF db
    <3> QED BY <3>1, <1>1, <1>2 DEF Ordered
  <2> QED BY <2>1, <2>2 DEF Ordered
<1>4. PICK a \in RateAnswer : FoldLeft(Extend, FirstAnswer, s) = a /\ Extended(s, Len(s), a)
  BY <1>2, <1>3, ExtendCovers
<1>5. GetReserveRates(r, from, to) = a.result
  BY <1>4, Zenon DEF GetReserveRates, StoredReserveRates, FirstAnswer, s, db
<1>6. a.result \in Seq(RateRecord)
  BY DEF RateAnswer
<1>7. ASSUME NEW k \in from .. to
      PROVE  \/ \E i \in DOMAIN a.result :
                   /\ a.result[i].data = db[k].data
                   /\ db[k].block \in a.result[i].block .. a.result[i].to
             \/ \A j \in from .. k : db[j].data = NoRates
  <2>1. from \in Nat /\ to \in Nat
    BY <1>1 DEF db
  <2>2. k - from + 1 \in 1 .. Len(s) /\ s[k - from + 1] = db[k]
    <3>1. k \in Nat /\ k - from + 1 \in 1 .. Len(s) /\ from + (k - from + 1) - 1 = k
      BY <2>1, <1>2
    <3>2. s[k - from + 1] = db[from + (k - from + 1) - 1]
      BY <3>1, <1>2
    <3> QED BY <3>1, <3>2
  <2>3. CASE \E i \in 1 .. Len(a.result) : InRangeOf(a.result, i, s[k - from + 1])
    BY <2>2, <2>3, <1>6 DEF InRangeOf
  <2>4. CASE \A j \in 1 .. (k - from + 1) : s[j].data = NoRates
    <3>1. ASSUME NEW j \in from .. k PROVE db[j].data = NoRates
      <4>1. j - from + 1 \in 1 .. (k - from + 1) /\ j - from + 1 \in 1 .. Len(s)
        BY <2>1, <2>2
      <4>2. s[j - from + 1] = db[j]
        BY <4>1, <1>2, <2>1
      <4> QED BY <4>1, <4>2, <2>4
    <3> QED BY <3>1
  <2> QED BY <2>2, <2>3, <2>4, <1>4 DEF Extended
<1>8. \A i \in 1 .. Len(a.result) - 1 : a.result[i].block < a.result[i + 1].block
                                          /\ a.result[i].to <= a.result[i + 1].block
  BY <1>4 DEF Extended
<1> QED BY <1>5, <1>7, <1>8 DEF db

\* ReserveRatesCovered, for any reserves, rates and number of blocks.
THEOREM ReserveRatesAlwaysCovered == ReserveRatesSpec => []ReserveRatesCovered
<1>1. ReserveRatesInit => RateHistoryInv
  BY DEF ReserveRatesInit, RateHistoryInv, Ordered
<1>2. RateHistoryInv /\ [ReserveRatesNext]_rateVars => RateHistoryInv'
  BY RateHistoryStep
<1>3. RateHistoryInv => ReserveRatesCovered
  BY OrderedIsCovered
<1> QED BY <1>1, <1>2, <1>3, PTL DEF ReserveRatesSpec

------------------------------------------------------------------------------
\* The records of RATE_BUCKET, and what the loop of GetRates carries.
RdRecord == [time : Nat, block : Nat, data : TokenRates \cup {NoData}]
RdRange  == [block : Nat, to : Nat, data : TokenRates \cup {NoData}]
RangeAnswer == [result : Seq(RdRange), current : TokenRates \cup {NoData}]
NoRange     == [result |-> <<>>, current |-> NoData]

\* One turn of the loop of GetRates stays inside the type.
LEMMA MergeTyped ==
  ASSUME NEW a \in RangeAnswer, NEW e \in RdRecord
  PROVE  MergeRate(a, e) \in RangeAnswer
<1> DEFINE n == Len(a.result)
           x == [a.result EXCEPT ![n].to = e.block]
           y == [block |-> e.block, to |-> e.block, data |-> e.data]
<1>1. a.result \in Seq(RdRange) /\ n \in Nat /\ a.current \in TokenRates \cup {NoData}
  BY DEF RangeAnswer
<1>2. n # 0 => x \in Seq(RdRange)
  <2> SUFFICES ASSUME n # 0 PROVE x \in Seq(RdRange)
    OBVIOUS
  <2>1. a.result[n] \in RdRange
    BY <1>1
  <2>2. [a.result[n] EXCEPT !.to = e.block] \in RdRange
    BY <2>1 DEF RdRange, RdRecord
  <2>3. x = [a.result EXCEPT ![n] = [a.result[n] EXCEPT !.to = e.block]]
    OBVIOUS
  <2> QED BY <1>1, <2>2, <2>3
<1>3. y \in RdRange /\ e.data \in TokenRates \cup {NoData}
  BY DEF RdRange, RdRecord
<1>4. Append(a.result, y) \in Seq(RdRange)
  BY <1>1, <1>3
<1>5. CASE ~isDuplicated(e.data, a.current)
  <2>1. MergeRate(a, e) = [result |-> Append(a.result, y), current |-> e.data]
    BY <1>5 DEF MergeRate
  <2> HIDE DEF y
  <2> QED BY <2>1, <1>3, <1>4 DEF RangeAnswer
<1>6. CASE isDuplicated(e.data, a.current)
  <2>1. MergeRate(a, e) = [a EXCEPT !.result = IF n = 0 THEN @ ELSE x]
    BY <1>6 DEF MergeRate
  <2> HIDE DEF x
  <2> QED BY <2>1, <1>1, <1>2 DEF RangeAnswer
<1> QED BY <1>5, <1>6

\* The fold of GetRates, turn by turn.
LEMMA MergeFold ==
  ASSUME NEW s \in Seq(RdRecord), NEW base \in RangeAnswer
  PROVE  \E h \in [0 .. Len(s) -> RangeAnswer] :
           /\ h[0] = base
           /\ \A i \in 1 .. Len(s) : h[i] = MergeRate(h[i - 1], s[i])
           /\ FoldLeft(MergeRate, base, s) = h[Len(s)]
<1> DEFINE F == [p \in RangeAnswer \X RdRecord |-> MergeRate(p[1], p[2])]
           Iter(g) == g = [q \in SUBSET DOMAIN s |->
                             IF q = {} THEN base ELSE MergeRate(g[q \ {Max(q)}], s[Max(q)])]
<1>1. F \in [RangeAnswer \X RdRecord -> RangeAnswer]
  BY MergeTyped
<1>2. PICK G : IsFoldTable(G, RangeAnswer, F, base, s)
  <2> HIDE DEF F
  <2> QED BY <1>1, FoldTable
<1>3. DOMAIN s = 1 .. Len(s) /\ Len(s) \in Nat
  OBVIOUS
<1>4. ASSUME NEW q \in SUBSET DOMAIN s, q # {}
      PROVE  F[<<G[q \ {Max(q)}], s[Max(q)]>>] = MergeRate(G[q \ {Max(q)}], s[Max(q)])
  <2>1. Max(q) \in q
    BY <1>3, <1>4, MaxOf
  <2>2. G[q \ {Max(q)}] \in RangeAnswer /\ s[Max(q)] \in RdRecord
    BY <2>1, <1>2, <1>3 DEF IsFoldTable
  <2> QED BY <2>2
<1>5. Iter(G)
  <2> HIDE DEF F
  <2> QED BY <1>2, <1>3, <1>4 DEF IsFoldTable
<1> DEFINE it == CHOOSE g : Iter(g)
<1>6. Iter(it)
  <2> HIDE DEF Iter
  <2> QED BY <1>5, Zenon
<1>7. FoldLeft(MergeRate, base, s) = it[DOMAIN s]
  BY Zenon DEF FoldLeft, MapThenFoldSet
<1> DEFINE h == [i \in 0 .. Len(s) |-> it[1 .. i]]
<1>8. \A q \in SUBSET (1 .. Len(s)) :
        it[q] = IF q = {} THEN base ELSE MergeRate(it[q \ {Max(q)}], s[Max(q)])
  <2> HIDE DEF it
  <2> QED BY <1>3, <1>6
<1>9. h[0] = base
  <2>1. 1 .. 0 = {} /\ 1 .. 0 \in SUBSET (1 .. Len(s)) /\ 0 \in 0 .. Len(s)
    BY <1>3
  <2>2. h[0] = it[1 .. 0]
    BY <2>1
  <2> HIDE DEF it, h
  <2> QED BY <2>1, <2>2, <1>8
<1>10. ASSUME NEW i \in 1 .. Len(s)
       PROVE  h[i] = MergeRate(h[i - 1], s[i])
  <2>1. 1 .. i \in SUBSET (1 .. Len(s)) /\ 1 .. i # {} /\ Max(1 .. i) = i /\ (1 .. i) \ {i} = 1 .. (i - 1)
    BY <1>3, MaxOfStretch
  <2>2. i \in 0 .. Len(s) /\ i - 1 \in 0 .. Len(s)
    BY <1>3
  <2>3. h[i] = it[1 .. i] /\ h[i - 1] = it[1 .. (i - 1)]
    BY <2>2
  <2>4. it[1 .. i] = MergeRate(it[(1 .. i) \ {Max(1 .. i)}], s[Max(1 .. i)])
    <3> HIDE DEF it
    <3> QED BY <2>1, <1>8, Zenon
  <2> HIDE DEF h, it
  <2> QED BY <2>1, <2>3, <2>4
<1>11. h[Len(s)] = FoldLeft(MergeRate, base, s)
  <2> HIDE DEF it
  <2> QED BY <1>7, <1>3
<1>12. h \in [0 .. Len(s) -> RangeAnswer]
  <2> DEFINE T == {n \in Nat : n <= Len(s) => h[n] \in RangeAnswer}
  <2> HIDE DEF h
  <2>1. 0 \in T
    BY <1>9
  <2>2. ASSUME NEW n \in Nat, n \in T PROVE n + 1 \in T
    <3> SUFFICES ASSUME n + 1 <= Len(s) PROVE h[n + 1] \in RangeAnswer
      OBVIOUS
    <3>1. n + 1 \in 1 .. Len(s) /\ (n + 1) - 1 = n /\ n <= Len(s)
      BY <1>3
    <3>2. h[n] \in RangeAnswer /\ s[n + 1] \in RdRecord
      BY <2>2, <3>1
    <3>3. h[n + 1] = MergeRate(h[n], s[n + 1])
      BY <3>1, <1>10
    <3> QED BY <3>2, <3>3, MergeTyped
  <2>3. Nat \subseteq T
    <3> HIDE DEF T
    <3> QED BY <2>1, <2>2, InductionOn
  <2>4. \A n \in 0 .. Len(s) : h[n] \in RangeAnswer
    BY <2>3
  <2> QED BY <2>4 DEF h
<1> HIDE DEF h
<1> QED BY <1>9, <1>10, <1>11, <1>12


\* Records from the newest block to the oldest.
Descending(s) == \A i, j \in 1 .. Len(s) : i < j => s[j].block < s[i].block

\* The range i of an answer has the record e.
InMerged(answer, i, e) == answer[i].data = e.data /\ e.block \in answer[i].to .. answer[i].block

\* What holds of the loop of GetRates after k records of s.
Merged(s, k, a) ==
  LET ans == a.result
      n   == Len(ans)
  IN  /\ \A i \in 1 .. n : ans[i].to <= ans[i].block
      /\ \A i \in 1 .. n - 1 : ans[i].to > ans[i + 1].block
      /\ n > 0 => k > 0 /\ ans[n].to = s[k].block /\ ans[n].data = a.current
      /\ n = 0 => a.current = NoData
      /\ \A m \in 1 .. k : s[m].data # NoData => \E i \in 1 .. n : InMerged(ans, i, s[m])

\* One more record keeps it.
LEMMA MergeStep ==
  ASSUME NEW s \in Seq(RdRecord), Descending(s), NEW k \in Nat, k < Len(s),
         NEW a \in RangeAnswer, Merged(s, k, a)
  PROVE  Merged(s, k + 1, MergeRate(a, s[k + 1]))
<1> DEFINE e   == s[k + 1]
           ans == a.result
           n   == Len(ans)
           b   == MergeRate(a, e)
           y   == [block |-> e.block, to |-> e.block, data |-> e.data]
<1>1. /\ ans \in Seq(RdRange) /\ n \in Nat
      /\ e \in RdRecord /\ e.block \in Nat
      /\ \A m \in 1 .. k : s[m] \in RdRecord /\ s[m].block \in Nat /\ e.block < s[m].block
  <2>1. ans \in Seq(RdRange)
    BY DEF RangeAnswer
  <2>2. \A m \in 1 .. k + 1 : m \in 1 .. Len(s) /\ s[m] \in RdRecord
    OBVIOUS
  <2>3. \A m \in 1 .. k + 1 : s[m].block \in Nat
    BY <2>2 DEF RdRecord
  <2>4. k + 1 \in 1 .. k + 1
    OBVIOUS
  <2>5. \A m \in 1 .. k : e.block < s[m].block
    BY <2>2, <2>4 DEF Descending
  <2> HIDE DEF ans
  <2> QED BY <2>1, <2>2, <2>3, <2>4, <2>5
<1>2. \A i \in 1 .. n : ans[i] \in RdRange /\ ans[i].block \in Nat /\ ans[i].to \in Nat
  <2>1. \A i \in 1 .. n : ans[i] \in RdRange
    BY <1>1
  <2> HIDE DEF ans
  <2> QED BY <2>1 DEF RdRange
<1>3. n > 0 => k > 0 /\ ans[n].to = s[k].block /\ ans[n].data = a.current /\ e.block < ans[n].to
  BY <1>1 DEF Merged
<1>4. CASE ~isDuplicated(e.data, a.current)
  <2>1. b = [result |-> Append(ans, y), current |-> e.data]
    BY <1>4 DEF MergeRate
  <2> DEFINE new == b.result
  <2>2. /\ Len(new) = n + 1 /\ new[n + 1] = y /\ b.current = e.data
        /\ \A i \in 1 .. n : new[i] = ans[i]
    BY <2>1, <1>1
  <2>3. y.block = e.block /\ y.to = e.block /\ y.data = e.data
    OBVIOUS
  <2> HIDE DEF e, ans, b, y
  <2>4. ASSUME NEW i \in 1 .. n + 1 PROVE new[i].to <= new[i].block
    <3>1. CASE i = n + 1
      BY <3>1, <2>2, <2>3, <1>1
    <3>2. CASE i # n + 1
      <4>1. i \in 1 .. n
        BY <3>2, <1>1
      <4> QED BY <4>1, <2>2 DEF Merged, ans
    <3> QED BY <3>1, <3>2
  <2>5. ASSUME NEW i \in 1 .. n PROVE new[i].to > new[i + 1].block
    <3>1. CASE i < n
      <4>0. i \in 1 .. n - 1 /\ i + 1 \in 1 .. n
        BY <3>1, <1>1
      <4>1. new[i] = ans[i] /\ new[i + 1] = ans[i + 1] /\ i \in 1 .. n - 1
        BY <4>0, <2>2
      <4> QED BY <4>1 DEF Merged, ans
    <3>2. CASE i = n
      <4>1. new[i] = ans[n] /\ new[i + 1].block = e.block /\ n > 0
        BY <3>2, <2>2, <2>3, <1>1
      <4> QED BY <4>1, <1>3, <1>1, <1>2
    <3> QED BY <3>1, <3>2, <1>1
  <2>6. InMerged(new, n + 1, e)
    BY <2>2, <2>3, <1>1 DEF InMerged
  <2>7. ASSUME NEW m \in 1 .. k + 1, s[m].data # NoData
        PROVE  \E i \in 1 .. n + 1 : InMerged(new, i, s[m])
    <3>1. CASE m = k + 1
      BY <3>1, <2>6, <1>1 DEF e
    <3>2. CASE m # k + 1
      <4>1. m \in 1 .. k
        BY <3>2
      <4>2. PICK i \in 1 .. n : InMerged(ans, i, s[m])
        BY <4>1, <2>7 DEF Merged, ans
      <4>3. i \in 1 .. n + 1 /\ InMerged(new, i, s[m])
        BY <4>2, <2>2, <1>1 DEF InMerged
      <4> QED BY <4>3
    <3> QED BY <3>1, <3>2
  <2> QED BY <1>1, <2>2, <2>3, <2>4, <2>5, <2>7 DEF Merged, e, b
<1>5. CASE isDuplicated(e.data, a.current) /\ n # 0
  <2>1. b = [a EXCEPT !.result = [ans EXCEPT ![n].to = e.block]]
    BY <1>5 DEF MergeRate
  <2> DEFINE new == b.result
  <2>2. /\ Len(new) = n
        /\ \A i \in 1 .. n : new[i].block = ans[i].block /\ new[i].data = ans[i].data
        /\ \A i \in 1 .. n : i # n => new[i] = ans[i]
        /\ new[n].to = e.block /\ b.current = a.current
    <3>1. n \in 1 .. n /\ ans[n] \in RdRange
      BY <1>5, <1>1, <1>2
    <3> DEFINE x == [ans[n] EXCEPT !.to = e.block]
    <3>2. x.block = ans[n].block /\ x.data = ans[n].data /\ x.to = e.block
      BY <3>1 DEF RdRange
    <3>3. new = [ans EXCEPT ![n] = x] /\ b.current = a.current
      BY <2>1 DEF RangeAnswer
    <3> HIDE DEF x, new
    <3>4. DOMAIN ans = 1 .. n
      BY <1>1
    <3>5. new[n] = x /\ (\A i \in 1 .. n : i # n => new[i] = ans[i]) /\ DOMAIN new = 1 .. n
      BY <3>1, <3>3, <3>4
    <3>6. Len(new) = n
      BY <3>3, <3>4, <1>1
    <3> QED BY <3>2, <3>3, <3>5, <3>6
  <2>3. n > 0 /\ k > 0 /\ ans[n].data = a.current /\ e.block < ans[n].to /\ ans[n].to <= ans[n].block
    BY <1>1, <1>3, <1>5 DEF Merged
  <2>4. e.data # NoData => e.data = ans[n].data
    BY <1>5, <2>3 DEF isDuplicated
  <2> HIDE DEF e, ans, b
  <2>5. ASSUME NEW i \in 1 .. n PROVE new[i].to <= new[i].block
    <3>1. CASE i = n
      BY <3>1, <2>2, <2>3, <1>1, <1>2
    <3>2. CASE i # n
      BY <3>2, <2>2 DEF Merged, ans
    <3> QED BY <3>1, <3>2
  <2>6. ASSUME NEW i \in 1 .. n - 1 PROVE new[i].to > new[i + 1].block
    <3>1. i \in 1 .. n /\ i # n /\ i + 1 \in 1 .. n
      BY <1>1
    <3>2. new[i] = ans[i] /\ new[i + 1].block = ans[i + 1].block
      BY <2>2, <3>1
    <3> QED BY <3>2 DEF Merged, ans
  <2>7. ASSUME NEW m \in 1 .. k + 1, s[m].data # NoData
        PROVE  \E i \in 1 .. n : InMerged(new, i, s[m])
    <3>1. CASE m = k + 1
      <4>1. s[m] = e /\ n \in 1 .. n
        BY <3>1, <1>1, <2>3 DEF e
      <4>2. InMerged(new, n, e)
        BY <4>1, <2>2, <2>3, <2>4, <2>7, <1>1, <1>2 DEF InMerged
      <4> QED BY <4>1, <4>2
    <3>2. CASE m # k + 1
      <4>1. m \in 1 .. k
        BY <3>2
      <4>2. PICK i \in 1 .. n : InMerged(ans, i, s[m])
        BY <4>1, <2>7 DEF Merged, ans
      <4>3. CASE i # n
        BY <4>3, <4>2, <2>2 DEF InMerged
      <4>4. CASE i = n
        <5>1. s[m].block \in e.block .. ans[n].block
          BY <4>1, <4>2, <4>4, <1>1, <1>2, <2>3 DEF InMerged
        <5>2. InMerged(new, i, s[m])
          BY <4>2, <4>4, <5>1, <2>2 DEF InMerged
        <5> QED BY <5>2
      <4> QED BY <4>3, <4>4
    <3> QED BY <3>1, <3>2
  <2> QED BY <1>1, <2>2, <2>3, <2>5, <2>6, <2>7 DEF Merged, e, b
<1>6. CASE isDuplicated(e.data, a.current) /\ n = 0
  <2>1. b = [a EXCEPT !.result = @]
    BY <1>6 DEF MergeRate
  <2>2. b.result = ans /\ b.current = a.current /\ a.current = NoData
    BY <2>1, <1>6 DEF RangeAnswer, Merged
  <2>3. e.data = NoData
    BY <2>2, <1>6 DEF isDuplicated
  <2>4. \A m \in 1 .. k + 1 : s[m].data = NoData
    BY <2>3, <1>6 DEF Merged
  <2> HIDE DEF e, ans, b
  <2> QED BY <1>6, <2>2, <2>4 DEF Merged, e, b, ans
<1> QED BY <1>4, <1>5, <1>6

\* What GetRates answers for the records s.
LEMMA MergeCovers ==
  ASSUME NEW s \in Seq(RdRecord), Descending(s)
  PROVE  \E a \in RangeAnswer : FoldLeft(MergeRate, NoRange, s) = a /\ Merged(s, Len(s), a)
<1>1. NoRange \in RangeAnswer
  BY DEF NoRange, RangeAnswer
<1>2. PICK h \in [0 .. Len(s) -> RangeAnswer] :
        /\ h[0] = NoRange
        /\ \A i \in 1 .. Len(s) : h[i] = MergeRate(h[i - 1], s[i])
        /\ FoldLeft(MergeRate, NoRange, s) = h[Len(s)]
  BY <1>1, MergeFold
<1> DEFINE T == {n \in Nat : n <= Len(s) => Merged(s, n, h[n])}
<1>3. 0 \in T
  BY <1>2 DEF Merged, NoRange
<1>4. ASSUME NEW n \in Nat, n \in T PROVE n + 1 \in T
  <2> SUFFICES ASSUME n + 1 <= Len(s) PROVE Merged(s, n + 1, h[n + 1])
    OBVIOUS
  <2>1. n < Len(s) /\ n \in 0 .. Len(s) /\ n + 1 \in 1 .. Len(s) /\ (n + 1) - 1 = n
    OBVIOUS
  <2>2. h[n] \in RangeAnswer /\ Merged(s, n, h[n]) /\ h[n + 1] = MergeRate(h[n], s[n + 1])
    BY <2>1, <1>2, <1>4
  <2> QED BY <2>1, <2>2, MergeStep
<1>5. Nat \subseteq T
  <2> HIDE DEF T
  <2> QED BY <1>3, <1>4, InductionOn
<1>6. Len(s) \in T /\ Len(s) \in 0 .. Len(s)
  <2> HIDE DEF T
  <2> QED BY <1>5
<1> QED BY <1>2, <1>6

\* The state of the two fetchers of the rates: the records are in the order of
\* time and of blocks, and a job that will store one has a later time.
RdHistoryInv ==
  /\ rdTime \in Nat
  /\ contract \in Seq(TokenRates)
  /\ curBlock \in Nat /\ curTime \in Nat /\ newBlock \in Nat
  /\ rdJob.time \in Nat
  /\ rateBucket \in Seq(RdRecord)
  /\ \A i, j \in 1 .. Len(rateBucket) :
       i < j => rateBucket[i].time < rateBucket[j].time /\ rateBucket[i].block < rateBucket[j].block
  /\ rdJob.pc = "read" => \A i \in 1 .. Len(rateBucket) : rateBucket[i].time < rdJob.time

\* Every step of the two fetchers keeps it, wherever the block changes between
\* the two reads of FetchRate and whichever call fails.
LEMMA RdHistoryStep ==
  ASSUME RdHistoryInv, [RateDataNext]_rdVars
  PROVE  RdHistoryInv'
<1>1. CASE RateClock
  <2>1. rdTime \in Nat /\ rdTime' = rdTime + 1
    BY <1>1 DEF RateClock, RdHistoryInv
  <2>2. rdTime' \in Nat
    BY <2>1
  <2>3. UNCHANGED <<contract, curBlock, curTime, newBlock, rdJob, rateBucket>>
    BY <1>1 DEF RateClock
  <2> QED BY <2>2, <2>3 DEF RdHistoryInv
<1>2. CASE MineBlock
  BY <1>2 DEF MineBlock, RdHistoryInv
<1>3. CASE FetchBlock
  BY <1>3 DEF FetchBlock, RdHistoryInv
<1>4. CASE SetBlock
  BY <1>4 DEF SetBlock, RdHistoryInv
<1>5. ASSUME NEW t \in 1 .. MaxRateTime, FetchRate(t) PROVE RdHistoryInv'
  <2>1. MaxRateTime \in Nat
    BY RateDataAssumption
  <2>2. rdJob'.time = t /\ t \in Nat /\ rateBucket' = rateBucket
    BY <1>5, <2>1 DEF FetchRate
  <2>3. \A i \in 1 .. Len(rateBucket) : rateBucket[i].time < t
    BY <1>5 DEF FetchRate, RdHistoryInv
  <2>4. UNCHANGED <<rdTime, contract, curBlock, curTime, newBlock>>
    BY <1>5 DEF FetchRate
  <2> QED BY <2>2, <2>3, <2>4 DEF RdHistoryInv
<1>6. CASE FinishRate
  <2>1. PICK e \in FetchRates(rdJob.at, curBlock) : StoreRate(e)
    BY <1>6 DEF FinishRate
  <2>2. e \in RdRecord /\ e.time = rdJob.time
    <3>1. rdJob.time \in Nat /\ curBlock \in Nat /\ contract \in Seq(TokenRates)
      BY DEF RdHistoryInv
    <3>2. CASE e = [time |-> rdJob.time, block |-> curBlock, data |-> NoData]
      BY <3>1, <3>2 DEF RdRecord
    <3>3. CASE \E b \in {rdJob.at} \cap DOMAIN contract :
                 e = [time |-> rdJob.time, block |-> curBlock, data |-> contract[b]]
      BY <3>1, <3>3 DEF RdRecord
    <3> QED BY <3>2, <3>3 DEF FetchRates
  <2>3. UNCHANGED <<rdTime, contract, curBlock, curTime, newBlock>> /\ rdJob' = NoRateJob /\ rdJob.pc = "read"
    BY <1>6 DEF FinishRate
  <2>4. rdJob'.pc # "read" /\ rdJob'.time \in Nat
    BY <2>3 DEF NoRateJob
  <2> DEFINE s == rateBucket
             last == IF s = <<>> THEN 0 ELSE Last(s).block
             t == Append(s, e)
  <2>5. /\ s \in Seq(RdRecord)
        /\ \A i, j \in 1 .. Len(s) : i < j => s[i].time < s[j].time /\ s[i].block < s[j].block
        /\ \A i \in 1 .. Len(s) : s[i].time < e.time
    BY <2>2, <2>3 DEF RdHistoryInv
  <2>6. CASE ~(last < e.block)
    <3>1. rateBucket' = rateBucket
      BY <2>1, <2>6 DEF StoreRate
    <3> QED BY <3>1, <2>3, <2>4 DEF RdHistoryInv
  <2>7. CASE last < e.block
    <3>1. rateBucket' = t
      BY <2>1, <2>7 DEF StoreRate
    <3>2. t \in Seq(RdRecord) /\ Len(t) = Len(s) + 1 /\ t[Len(s) + 1] = e
          /\ \A i \in 1 .. Len(s) : t[i] = s[i]
      BY <2>2, <2>5
    <3>3. \A i \in 1 .. Len(s) : s[i].block < e.block
      <4> SUFFICES ASSUME NEW i \in 1 .. Len(s) PROVE s[i].block < e.block
        OBVIOUS
      <4>1. s # <<>> /\ Len(s) \in 1 .. Len(s) /\ s[i] \in RdRecord /\ s[Len(s)] \in RdRecord
        BY <2>5
      <4>2. s[Len(s)].block < e.block
        BY <4>1, <2>7 DEF Last
      <4>3. i = Len(s) \/ s[i].block < s[Len(s)].block
        BY <4>1, <2>5
      <4>4. s[i].block \in Nat /\ s[Len(s)].block \in Nat /\ e.block \in Nat
        BY <4>1, <2>2 DEF RdRecord
      <4> QED BY <4>2, <4>3, <4>4
    <3> HIDE DEF t, last, s
    <3>4. ASSUME NEW i \in 1 .. Len(t), NEW j \in 1 .. Len(t), i < j
          PROVE  t[i].time < t[j].time /\ t[i].block < t[j].block
      <4>1. i \in 1 .. Len(s)
        BY <3>2, <3>4, <2>5
      <4>2. CASE j = Len(s) + 1
        BY <4>1, <4>2, <3>2, <3>3, <2>5
      <4>3. CASE j # Len(s) + 1
        <5>1. j \in 1 .. Len(s)
          BY <3>2, <4>3, <2>5
        <5> QED BY <4>1, <5>1, <3>2, <3>4, <2>5
      <4> QED BY <4>2, <4>3
    <3> QED BY <3>1, <3>2, <3>4, <2>3, <2>4 DEF RdHistoryInv
  <2> QED BY <2>6, <2>7
<1>7. CASE UNCHANGED rdVars
  BY <1>7 DEF rdVars, RdHistoryInv
<1> QED BY <1>1, <1>2, <1>3, <1>4, <1>5, <1>6, <1>7 DEF RateDataNext

\* Seek finds the first record that is not before t.
LEMMA SeekFinds ==
  ASSUME RdHistoryInv, NEW t \in Nat
  PROVE  /\ Seek(t) \in 1 .. Len(rateBucket) + 1
         /\ \A j \in 1 .. Len(rateBucket) : rateBucket[j].time < t <=> j < Seek(t)
<1> DEFINE s == rateBucket
           P(i) == i \in 1 .. Len(s) + 1 /\ \A j \in DOMAIN s : s[j].time < t <=> j < i
           T == {i \in Nat : i > 0 /\ (i > Len(s) \/ ~(s[i].time < t))}
<1>1. /\ s \in Seq(RdRecord) /\ DOMAIN s = 1 .. Len(s) /\ Len(s) \in Nat
      /\ \A i, j \in 1 .. Len(s) : i < j => s[i].time < s[j].time
  BY DEF RdHistoryInv
<1>2. \A j \in 1 .. Len(s) : s[j].time \in Nat
  <2>1. \A j \in 1 .. Len(s) : s[j] \in RdRecord
    BY <1>1
  <2> QED BY <2>1 DEF RdRecord
<1> HIDE DEF s
<1>3. Len(s) + 1 \in T
  BY <1>1
<1>4. PICK i \in T : \A j \in T : i <= j
  BY <1>3, LeastOf
<1>5. i \in 1 .. Len(s) + 1
  BY <1>3, <1>4, <1>1
<1>6. ASSUME NEW j \in 1 .. Len(s) PROVE s[j].time < t <=> j < i
  <2>1. CASE j < i
    <3>1. j \notin T
      BY <2>1, <1>4, <1>1
    <3> QED BY <2>1, <3>1, <1>1
  <2>2. CASE ~(j < i)
    <3>1. i \in 1 .. Len(s) /\ ~(s[i].time < t) /\ (i = j \/ i < j)
      BY <2>2, <1>1, <1>5
    <3>2. i = j \/ s[i].time < s[j].time
      BY <3>1, <1>1
    <3> QED BY <2>2, <3>1, <3>2, <1>2
  <2> QED BY <2>1, <2>2
<1>7. P(i)
  BY <1>1, <1>5, <1>6
<1>8. Seek(t) = CHOOSE x : P(x)
  BY Zenon DEF Seek, s
<1>9. P(Seek(t))
  <2> HIDE DEF P
  <2> QED BY <1>7, <1>8, Zenon
<1> QED BY <1>1, <1>9 DEF s

\* Records in order are covered by the answers for every window of time.
LEMMA BucketIsCovered ==
  ASSUME RdHistoryInv
  PROVE  RatesCovered
<1> DEFINE db == rateBucket
<1>1. /\ db \in Seq(RdRecord) /\ DOMAIN db = 1 .. Len(db) /\ Len(db) \in Nat
      /\ \A i, j \in 1 .. Len(db) : i < j => db[i].time < db[j].time /\ db[i].block < db[j].block
  BY DEF RdHistoryInv
<1>2. \A j \in 1 .. Len(db) : db[j].time \in Nat /\ db[j].block \in Nat
  <2>1. \A j \in 1 .. Len(db) : db[j] \in RdRecord
    BY <1>1
  <2> QED BY <2>1 DEF RdRecord
<1>3. MaxRateTime \in Nat /\ Word \in Nat /\ Word - 1 \in Nat
  BY RateDataAssumption
<1> SUFFICES ASSUME NEW from \in 0 .. MaxRateTime, NEW to \in 0 .. MaxRateTime
             PROVE  /\ \A e \in GetRate(to) : \A i \in DOMAIN db : db[i].time <= to => db[i].block <= e.block
                    /\ \A answer \in GetRatesHandler(from, to) :
                         /\ \A i \in DOMAIN answer : answer[i].to <= answer[i].block
                         /\ \A i \in 1 .. Len(answer) - 1 : answer[i].to > answer[i + 1].block
                         /\ \A k \in DOMAIN db :
                              db[k].data # NoData /\ db[k].time \in from .. to =>
                                \E i \in DOMAIN answer : InMerged(answer, i, db[k])
  BY DEF RatesCovered, InMerged
<1>4. ASSUME NEW e \in GetRate(to), NEW i \in DOMAIN db, db[i].time <= to PROVE db[i].block <= e.block
  <2>1. PICK k \in CurrentRateVersion(to) : e = db[k]
    BY DEF GetRate
  <2>2. k \in DOMAIN db /\ i <= k
    BY <1>4 DEF CurrentRateVersion
  <2> QED BY <2>1, <2>2, <1>1, <1>2
<1>5. ASSUME NEW answer \in GetRatesHandler(from, to)
      PROVE  /\ \A i \in DOMAIN answer : answer[i].to <= answer[i].block
             /\ \A i \in 1 .. Len(answer) - 1 : answer[i].to > answer[i + 1].block
             /\ \A k \in DOMAIN db :
                  db[k].data # NoData /\ db[k].time \in from .. to =>
                    \E i \in DOMAIN answer : InMerged(answer, i, db[k])
  <2> DEFINE end == IF to = 0 THEN Word - 1 ELSE to
             lo  == Seek(from)
             hi  == Seek(end + 1) - 1
             s   == SubSeq(db, lo, hi)
             v   == Reverse(s)
  <2>1. end \in Nat /\ end + 1 \in Nat /\ from \in Nat /\ to \in Nat /\ to <= end
    BY <1>3
  <2>2. answer = FoldLeft(MergeRate, NoRange, v).result
    <3>1. answer \in GetRates(from, end)
      BY DEF GetRatesHandler
    <3>2. PICK rates \in StoredRates(from, end) : answer = FoldLeft(MergeRate, NoRange, rates).result
      BY <3>1, Zenon DEF GetRates, NoRange
    <3>3. rates = v
      BY <3>2 DEF StoredRates
    <3> QED BY <3>2, <3>3
  <2>3. /\ lo \in 1 .. Len(db) + 1 /\ hi \in 0 .. Len(db)
        /\ \A j \in 1 .. Len(db) : db[j].time < from <=> j < lo
        /\ \A j \in 1 .. Len(db) : db[j].time < end + 1 <=> j < hi + 1
    <3>1. Seek(end + 1) \in 1 .. Len(db) + 1 /\ \A j \in 1 .. Len(db) : db[j].time < end + 1 <=> j < Seek(end + 1)
      BY <2>1, SeekFinds
    <3>2. lo \in 1 .. Len(db) + 1 /\ \A j \in 1 .. Len(db) : db[j].time < from <=> j < lo
      BY <2>1, SeekFinds
    <3> HIDE DEF db
    <3> QED BY <3>1, <3>2, <1>1
  <2> HIDE DEF db, lo, hi, end
  <2>4. /\ s \in Seq(RdRecord)
        /\ Len(s) = IF lo <= hi THEN hi - lo + 1 ELSE 0
        /\ \A i \in 1 .. Len(s) : s[i] = db[lo + i - 1] /\ lo + i - 1 \in 1 .. Len(db)
    BY <1>1, <2>3
  <2> HIDE DEF s
  <2>5. /\ v \in Seq(RdRecord) /\ Len(v) = Len(s)
        /\ \A i \in 1 .. Len(s) : v[i] = s[(Len(s) - i) + 1]
    <3>1. Len(s) \in Nat /\ \A i \in 1 .. Len(s) : (Len(s) - i) + 1 \in 1 .. Len(s)
      BY <2>4
    <3>2. \A i \in 1 .. Len(s) : s[(Len(s) - i) + 1] \in RdRecord
      BY <3>1, <2>4
    <3>3. v = [i \in 1 .. Len(s) |-> s[(Len(s) - i) + 1]]
      BY DEF Reverse
    <3> HIDE DEF v
    <3>4. v \in [1 .. Len(s) -> RdRecord]
      BY <3>2, <3>3
    <3> QED BY <3>1, <3>3, <3>4
  <2> HIDE DEF v
  <2>6. Descending(v)
    <3> SUFFICES ASSUME NEW i \in 1 .. Len(v), NEW j \in 1 .. Len(v), i < j PROVE v[j].block < v[i].block
      BY DEF Descending
    <3> DEFINE p == (Len(s) - i) + 1
               q == (Len(s) - j) + 1
    <3>1. p \in 1 .. Len(s) /\ q \in 1 .. Len(s) /\ q < p /\ v[i] = s[p] /\ v[j] = s[q]
      <4>1. Len(s) \in Nat /\ Len(v) = Len(s)
        BY <2>4, <2>5
      <4>2. p \in 1 .. Len(s) /\ q \in 1 .. Len(s) /\ q < p
        BY <4>1
      <4> QED BY <4>1, <4>2, <2>5
    <3> HIDE DEF p, q
    <3>2. s[p] = db[lo + p - 1] /\ s[q] = db[lo + q - 1] /\ lo + q - 1 < lo + p - 1
      <4>1. s[p] = db[lo + p - 1]
        BY <3>1, <2>4
      <4>2. s[q] = db[lo + q - 1]
        BY <3>1, <2>4
      <4>3. lo \in Nat /\ p \in Nat /\ q \in Nat /\ q < p
        BY <3>1, <2>4, <2>3
      <4> QED BY <4>1, <4>2, <4>3
    <3> QED BY <3>1, <3>2, <2>4, <1>1
  <2>7. PICK a \in RangeAnswer : FoldLeft(MergeRate, NoRange, v) = a /\ Merged(v, Len(v), a)
    BY <2>5, <2>6, MergeCovers
  <2>8. answer = a.result /\ answer \in Seq(RdRange) /\ DOMAIN answer = 1 .. Len(answer)
    BY <2>2, <2>7 DEF RangeAnswer
  <2>9. ASSUME NEW k \in DOMAIN db, db[k].data # NoData, db[k].time \in from .. to
        PROVE  \E i \in DOMAIN answer : InMerged(answer, i, db[k])
    <3>1. k \in 1 .. Len(db) /\ lo <= k /\ k <= hi
      BY <2>9, <2>1, <2>3, <1>1, <1>2
    <3> DEFINE p == (k - lo) + 1
               m == (Len(s) - p) + 1
    <3>2. p \in 1 .. Len(s) /\ s[p] = db[k]
      <4>1. p \in 1 .. Len(s) /\ lo + p - 1 = k
        BY <3>1, <2>3, <2>4
      <4> HIDE DEF p
      <4>2. s[p] = db[lo + p - 1]
        BY <4>1, <2>4
      <4> QED BY <4>1, <4>2
    <3>3. m \in 1 .. Len(v) /\ v[m] = s[p]
      <4>1. Len(s) \in Nat /\ Len(v) = Len(s) /\ p \in 1 .. Len(s)
        BY <3>2, <2>5, <2>4
      <4> HIDE DEF p
      <4>2. m \in 1 .. Len(s) /\ (Len(s) - m) + 1 = p
        BY <4>1
      <4> HIDE DEF m
      <4>3. v[m] = s[(Len(s) - m) + 1]
        BY <4>2, <2>5
      <4> QED BY <4>1, <4>2, <4>3
    <3> HIDE DEF p, m
    <3>4. \E i \in 1 .. Len(answer) : InMerged(answer, i, v[m])
      BY <3>2, <3>3, <2>7, <2>8, <2>9 DEF Merged
    <3> QED BY <3>2, <3>3, <3>4, <2>8
  <2> QED BY <2>7, <2>8, <2>9 DEF Merged
<1> QED BY <1>4, <1>5

\* RatesCovered, for any rates, delays and bounds.
THEOREM RatesAlwaysCovered == RateDataSpec => []RatesCovered
<1>1. RateDataInit => RdHistoryInv
  BY DEF RateDataInit, RdHistoryInv, NoRateJob
<1>2. RdHistoryInv /\ [RateDataNext]_rdVars => RdHistoryInv'
  BY RdHistoryStep
<1>3. RdHistoryInv => RatesCovered
  BY BucketIsCovered
<1> QED BY <1>1, <1>2, <1>3, PTL DEF RateDataSpec
=============================================================================
