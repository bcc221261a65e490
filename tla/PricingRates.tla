---------------------------- MODULE PricingRates ----------------------------
(***************************************************************************)
(* SetRates of blockchain/blockchain.go with compact_rate.go: a rate is    *)
(* sent as a base and a signed byte, rate = base * (1 + compact / Unit).   *)
(* A call reads the bases of the contract, computes the bytes, and         *)
(* broadcasts; meanwhile transactions are mined.  The nonce was taken      *)
(* before (core/reserve_core.go, see SetRates): a fresh one when no        *)
(* set_rates activity is pending, or else that of the oldest pending       *)
(* activity of any kind, which may be a deposit.                           *)
(*                                                                         *)
(* The contract is external.  Floating point is exact here: quotients are  *)
(* compared as fractions.                                                  *)
(***************************************************************************)
EXTENDS Integers, FiniteSets

CONSTANTS PrTokens,   \* the tokens of the pricing contract
          BulkOf,     \* tokenIndices: the bulk of every token
          Targets,    \* the rates asked for: pairs of a buy and a sell rate
          FirstBases, \* the bases the contract may have at first
          Setters,    \* concurrent calls of SetRates
          Unit,       \* 1000
          ByteSize,   \* 256
          MaxNonce    \* bound: transactions mined, and nonces of other accounts

ASSUME PricingAssumption ==
  /\ BulkOf \in [PrTokens -> Nat]
  /\ Targets \cup FirstBases \subseteq Nat \X Nat
  /\ {Unit, ByteSize} \subseteq Nat \ {0} /\ ByteSize % 2 = 0
  /\ MaxNonce \in Nat

VARIABLES prBase,     \* prBase[t]: the base rates, buy and sell
          prCompact,  \* prCompact[t]: the bytes
          prNonce,    \* transactions mined so far
          prPool,     \* the transactions that wait to be mined
          setter,     \* setter[s]: how far a call is
          asked,      \* asked[t]: what the last transaction about t or its bulk asked for
          crossed     \* history: two calls overlapped, or a call was not given the nonce
                      \* of the transaction that waited

pricingVars == <<prBase, prCompact, prNonce, prPool, setter, asked, crossed>>

NoRate   == [t \in {} |-> t]
NoRateTx == [nonce |-> 0, target |-> NoRate, base |-> NoRate, bytes |-> NoRate]
NoSetter == [pc |-> "idle", tx |-> NoRateTx]

PricingInit ==
  /\ prBase \in [PrTokens -> FirstBases]
  /\ prCompact = [t \in PrTokens |-> <<0, 0>>]
  /\ prNonce = 0
  /\ prPool = {}
  /\ setter = [s \in Setters |-> NoSetter]
  /\ asked = NoRate
  /\ crossed = FALSE

------------------------------------------------------------------------------
Smallest == -(ByteSize \div 2)
Largest  == ByteSize \div 2 - 1

\* The contract reads a byte as a signed number.
Signed(b) == IF b > Largest THEN b - ByteSize ELSE b

\* n / d to the nearest whole number, ties to the even one.
Rounded(n, d) ==
  LET q == n \div d
      r == 2 * (n % d)
  IN  IF r < d \/ (r = d /\ q % 2 = 0) THEN q ELSE q + 1

\* (rate / base - 1) * Unit
CompactOf(rate, base) == Rounded((rate - base) * Unit, base)

\* BigIntToCompactRate: the byte, or an overflow, as a set.
BigIntToCompactRate(rate, base) ==
  IF base = 0 THEN (IF rate = 0 THEN {0} ELSE {})
  ELSE {c % ByteSize : c \in {CompactOf(rate, base)} \cap Smallest .. Largest}

\* An overflow on either side gives both sides a new base.
Overflows(target, base) ==
  \E side \in {1, 2} : BigIntToCompactRate(target[side], base[side]) = {}

BytesOf(target, base) ==
  IF Overflows(target, base) THEN <<0, 0>>
  ELSE [side \in {1, 2} |-> CHOOSE b \in BigIntToCompactRate(target[side], base[side]) : TRUE]

\* BuildCompactBulk: all bytes of the bulks that have a token of the call; the
\* other tokens of these bulks get 0.
BuildCompactBulk(bytes) ==
  LET bulks == {BulkOf[t] : t \in DOMAIN bytes}
  IN  [t \in {u \in PrTokens : BulkOf[u] \in bulks} |-> IF t \in DOMAIN bytes THEN bytes[t] ELSE <<0, 0>>]

------------------------------------------------------------------------------
Busy == {s \in Setters : setter[s].pc # "idle"}

\* The first nonce that is neither mined nor waiting.
FreeNonce ==
  CHOOSE n \in prNonce .. prNonce + Cardinality(prPool) :
    /\ \A tx \in prPool : tx.nonce # n
    /\ \A m \in prNonce .. n - 1 : \E tx \in prPool : tx.nonce = m

\* getLastPendingSetrate answers when a set_rates activity is pending, but what
\* it answers is the oldest pending activity: a set_rates, or a deposit with a
\* nonce of another account.  (Without a nonce the handler panics: no call.)  A
\* fresh nonce may be one further for every other call that has one.
NoncesFor(pending) ==
  IF pending # {} THEN {tx.nonce : tx \in pending} \cup (0 .. MaxNonce)
  ELSE FreeNonce .. FreeNonce + Cardinality(Busy)

\* reserve_core.go has the nonce and calls SetRates.  The activity of a waiting
\* transaction may not be pending: its answer was lost, or it was declared failed.
StartSetRates(s) ==
  /\ setter[s].pc = "idle"
  /\ \E pending \in SUBSET prPool : \E n \in NoncesFor(pending) :
       /\ \E T \in (SUBSET PrTokens) \ {{}} : \E target \in [T -> Targets] :
            setter' = [setter EXCEPT ![s] = [pc |-> "called",
                                             tx |-> [NoRateTx EXCEPT !.nonce = n, !.target = target]]]
       /\ crossed' = (crossed \/ Busy # {} \/ \E tx \in prPool : tx.nonce # n)
  /\ UNCHANGED <<prBase, prCompact, prNonce, prPool, asked>>

\* GeneratedGetTokenRates and what is computed from it; the call may fail.
BuildRatesTx(s) ==
  LET target == setter[s].tx.target
      over   == {t \in DOMAIN target : Overflows(target[t], prBase[t])}
  IN  /\ setter[s].pc = "called"
      /\ \/ setter' = [setter EXCEPT
              ![s].pc = "built",
              ![s].tx.base = [t \in over |-> target[t]],
              ![s].tx.bytes = BuildCompactBulk([t \in DOMAIN target |-> BytesOf(target[t], prBase[t])])]
         \/ setter' = [setter EXCEPT ![s] = NoSetter]
      /\ UNCHANGED <<prBase, prCompact, prNonce, prPool, asked, crossed>>

OtherNonces(nonce) == {q \in prPool : q.nonce # nonce}

\* Mutant of BroadcastRates: a nonce that is used by now is replaced by the next.
BroadcastFresh(s) ==
  LET tx == [setter[s].tx EXCEPT !.nonce = IF @ < prNonce THEN prNonce ELSE @]
  IN  /\ setter[s].pc = "built"
      /\ prPool' = OtherNonces(tx.nonce) \cup {tx}
      /\ setter' = [setter EXCEPT ![s] = NoSetter]
      /\ UNCHANGED <<prBase, prCompact, prNonce, asked, crossed>>

\* SignAndBroadcast: accepted, which a used nonce never is, or refused.
BroadcastRates(s) ==
  LET tx == setter[s].tx
  IN  /\ tx.nonce >= prNonce
      /\ setter[s].pc = "built"
      /\ prPool' = OtherNonces(tx.nonce) \cup {tx}
      /\ setter' = [setter EXCEPT ![s] = NoSetter]
      /\ UNCHANGED <<prBase, prCompact, prNonce, asked, crossed>>

RefuseRates(s) ==
  /\ setter[s].pc = "built"
  /\ setter' = [setter EXCEPT ![s] = NoSetter]
  /\ UNCHANGED <<prBase, prCompact, prNonce, prPool, asked, crossed>>

\* setBaseRate or setCompactData of the contract.
MineRatesTx ==
  /\ prNonce < MaxNonce
  /\ \E tx \in prPool :
       /\ tx.nonce = prNonce
       /\ prBase' = [t \in PrTokens |-> IF t \in DOMAIN tx.base THEN tx.base[t] ELSE prBase[t]]
       /\ prCompact' = [t \in PrTokens |-> IF t \in DOMAIN tx.bytes THEN tx.bytes[t] ELSE prCompact[t]]
       /\ asked' = [t \in (DOMAIN asked \ DOMAIN tx.bytes) \cup DOMAIN tx.target |->
                      IF t \in DOMAIN tx.target THEN tx.target[t] ELSE asked[t]]
       /\ prPool' = prPool \ {tx}
  /\ prNonce' = prNonce + 1
  /\ UNCHANGED <<setter, crossed>>

PricingNext ==
  \/ \E s \in Setters : StartSetRates(s) \/ BuildRatesTx(s) \/ BroadcastRates(s) \/ RefuseRates(s)
  \/ MineRatesTx

PricingSpec == PricingInit /\ [][PricingNext]_pricingVars

------------------------------------------------------------------------------
(***************************************************************************)
(* RatesAsAsked: a token's rate in the contract is the one that was asked  *)
(* for last, to within half a unit of its base, although the byte belongs  *)
(* to a base read before the transaction it replaces may have been mined.  *)
(* (A token that was left out of the last call to its bulk is back at its  *)
(* base.)  Two cases are left out, in which bytes belong to a base that    *)
(* another transaction changes first: calls that overlap, and a call that  *)
(* was given another nonce than that of the transaction that waits (an     *)
(* older activity's, see ReplacesPendingSetrate, or a fresh one because    *)
(* the activity is not pending).                                           *)
(***************************************************************************)
RatesAsAsked ==
  ~crossed => \A t \in DOMAIN asked : \A side \in {1, 2} :
    LET base  == prBase[t][side]
        error == asked[t][side] * Unit - base * (Unit + Signed(prCompact[t][side]))
    IN  -base <= 2 * error /\ 2 * error <= base
=============================================================================
