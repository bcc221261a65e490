--------------------------- MODULE ServicesProofs ---------------------------
(***************************************************************************)
(* What the services behind the HTTP server promise, for any requests,     *)
(* values, exchanges and bounds.  They share nothing, so each has an       *)
(* inductive invariant of its own:                                         *)
(*   KeysInv    who signed what is pending, compared and in force;         *)
(*   RecordsInv which file the export job works on and what the archive    *)
(*              has of it;                                                 *)
(*   BooksInv   the versions ever stored, and how many came after one that *)
(*              was pruned;                                                *)
(*   FlagsInv   the flag buckets have at most one entry;                   *)
(*   StatusInv  what a change of an exchange's status has read and will    *)
(*              write back.                                                *)
(***************************************************************************)
EXTENDS HttpServer, FiniteSetTheorems, WellFoundedInduction, TLAPS

------------------------------------------------------------------------------
(***************************************************************************)
(* The target quantities and the PWI equation implement Proposal, for any  *)
(* number of concurrent calls, any values and any faults.                  *)
(***************************************************************************)

(***************************************************************************)
(* The record update of Advance, spelled out.                              *)
(***************************************************************************)
LEMMA AdvanceIsUpdate ==
  ASSUME TypeOK, NEW c \in Calls, NEW pc \in {"new", "compared", "stored", "done"},
         Advance(c, pc)
  PROVE  /\ call' \in [Calls -> [pc : {"new", "compared", "stored", "done"}, data : Values]]
         /\ call'[c].pc = pc
         /\ \A d \in Calls : d # c => call'[d] = call[d]
  BY DEF TypeOK, Advance

(***************************************************************************)
(* What each transaction does to the two buckets, in terms of sets with at *)
(* most one entry.                                                         *)
(***************************************************************************)
LEMMA RemoveEmpties ==
  ASSUME TypeOK, NEW c \in Calls, RemovePending(c)
  PROVE  pending' = {} /\ confirmed' = confirmed
  <1>1. SUFFICES ASSUME NEW p \in pending, NEW q \in pending, q.id > p.id PROVE FALSE
    BY <1>1 DEF RemovePending
  <1>2. p = q /\ p.id \in Nat
    BY DEF TypeOK, Proposals
  <1> QED BY <1>1, <1>2

LEMMA StoreAdds ==
  ASSUME TypeOK, NEW c \in Calls, StorePending(c)
  PROVE  /\ confirmed' = confirmed
         /\ \/ pending' = pending
            \/ pending = {} /\ \E p \in Proposals : pending' = {p}
  <1>1. Id \in 1 .. MaxClock
    BY SettingsAssumption DEF Id, TypeOK
  <1>2. [id |-> Id, data |-> call[c].data] \in Proposals
    BY <1>1 DEF TypeOK, Proposals
  <1> QED BY <1>2 DEF StorePending

(***************************************************************************)
(* Every step is one of five kinds as far as the buckets go.  Only a step   *)
(* of the stable token parameters stores what is not pending.              *)
(***************************************************************************)
Adds    == pending = {} /\ confirmed' = confirmed /\ \E p \in Proposals : pending' = {p}
Removes == pending' = {} /\ confirmed' = confirmed
Stores  == pending # {} /\ pending' = pending /\ confirmed' = pending
Puts    == ~Keeps /\ pending' = pending /\ \E p \in Proposals : confirmed' = {p}
Leaves  == pending' = pending /\ confirmed' = confirmed

BucketStep == Adds \/ Removes \/ Stores \/ Puts \/ Leaves

(***************************************************************************)
(* The first transaction of a confirm call stores the pending entry.       *)
(***************************************************************************)
LEMMA ConfirmStores ==
  ASSUME TypeOK, NEW c \in Calls, NEW match, match \subseteq pending, Confirm(c, match)
  PROVE  BucketStep
  <1>1. CASE match = {}
    BY <1>1 DEF Confirm, BucketStep, Leaves
  <1>2. CASE match # {}
    <2>1. match = pending
      BY <1>2 DEF TypeOK
    <2> QED BY <1>2, <2>1 DEF Confirm, BucketStep, Stores
  <1> QED BY <1>1, <1>2

(***************************************************************************)
(* Every step of the system is one of the five.                            *)
(***************************************************************************)
LEMMA StepsAreBucketSteps ==
  ASSUME SettingsInv, [Next]_vars
  PROVE  BucketStep /\ kind' = kind
  <1> USE DEF SettingsInv
  <1>1. CASE UNCHANGED vars
    BY <1>1 DEF vars, BucketStep, Leaves
  <1>2. CASE Tick \/ Crash
    BY <1>2 DEF Tick, Crash, BucketStep, Leaves
  <1>3. ASSUME NEW c \in Calls, Handler(c)
        PROVE  BucketStep /\ kind' = kind
    <2>1. StorePending(c) => BucketStep
      BY StoreAdds DEF BucketStep, Adds, Leaves
    <2>2. RemovePending(c) => BucketStep
      BY RemoveEmpties DEF BucketStep, Removes
    <2>3. CASE SetTargetQty(c) \/ SetPWIEquation(c) \/ SetStableTokenParams(c)
      BY <2>1, <2>3 DEF SetTargetQty, SetPWIEquation, SetStableTokenParams,
                        Transaction, BucketStep, Leaves
    <2>4. CASE CancelTargetQty(c) \/ RejectPWIEquation(c) \/ RejectStableTokenParams(c)
               \/ FinishConfirm(c)
      BY <2>2, <2>4 DEF CancelTargetQty, RejectPWIEquation, RejectStableTokenParams,
                        FinishConfirm, Transaction, BucketStep, Leaves
    <2>5. CASE ConfirmTargetQty(c)
      <3>1. PICK id \in 1 .. MaxClock :
              Transaction(c, "new", Confirm(c, pending \cap {[id |-> id, data |-> call[c].data]}))
        BY <2>5 DEF ConfirmTargetQty
      <3> DEFINE match == pending \cap {[id |-> id, data |-> call[c].data]}
      <3>2. match \subseteq pending
        OBVIOUS
      <3> HIDE DEF match
      <3>3. Confirm(c, match) => BucketStep
        BY <3>2, ConfirmStores
      <3>4. Transaction(c, "new", Confirm(c, match))
        BY <3>1 DEF match
      <3> QED BY <3>3, <3>4 DEF Transaction, BucketStep, Leaves
    <2>6. CASE ConfirmPWIEquation(c)
      <3> DEFINE match == {p \in pending : p.data = call[c].data}
      <3>1. match \subseteq pending
        OBVIOUS
      <3>2. Transaction(c, "new", Confirm(c, match))
        BY <2>6 DEF ConfirmPWIEquation
      <3> HIDE DEF match
      <3>3. Confirm(c, match) => BucketStep
        BY <3>1, ConfirmStores
      <3> QED BY <3>2, <3>3 DEF Transaction, BucketStep, Leaves
    <2>7. CASE CompareParams(c)
      BY <2>7 DEF CompareParams, BucketStep, Leaves
    <2>8. CASE PutParams(c)
      <3>1. ~Keeps
        BY <2>8 DEF PutParams, Transaction
      <3>2. Id \in 1 .. MaxClock
        BY SettingsAssumption DEF Id, TypeOK
      <3>3. [id |-> Id, data |-> call[c].data] \in Proposals
        BY <3>2 DEF TypeOK, Proposals
      <3>4. ASSUME confirmed' = {[id |-> Id, data |-> call[c].data]}, pending' = pending
            PROVE  BucketStep
        BY <3>1, <3>3, <3>4 DEF BucketStep, Puts
      <3> QED BY <2>8, <3>4 DEF PutParams, Transaction, BucketStep, Leaves
    <2> QED BY <1>3, <2>3, <2>4, <2>5, <2>6, <2>7, <2>8 DEF Handler
  <1> QED BY <1>1, <1>2, <1>3 DEF Next

(***************************************************************************)
(* A handler moves its own call, and only a handler of the stable token    *)
(* parameters stops between comparing and storing.                         *)
(***************************************************************************)
LEMMA HandlersAdvance ==
  ASSUME NEW c \in Calls, Handler(c)
  PROVE  /\ clock' = clock
         /\ \/ Advance(c, "done") \/ Advance(c, "stored")
            \/ Advance(c, "compared") /\ kind = "stable"
  <1>1. CASE SetTargetQty(c) \/ SetPWIEquation(c) \/ SetStableTokenParams(c)
    BY <1>1 DEF SetTargetQty, SetPWIEquation, SetStableTokenParams, Transaction, StorePending
  <1>2. CASE CancelTargetQty(c) \/ RejectPWIEquation(c) \/ RejectStableTokenParams(c)
             \/ FinishConfirm(c)
    BY <1>2 DEF CancelTargetQty, RejectPWIEquation, RejectStableTokenParams,
                FinishConfirm, Transaction, RemovePending
  <1>3. CASE ConfirmTargetQty(c) \/ ConfirmPWIEquation(c)
    BY <1>3 DEF ConfirmTargetQty, ConfirmPWIEquation, Transaction, Confirm
  <1>4. CASE CompareParams(c)
    BY <1>4 DEF CompareParams
  <1>5. CASE PutParams(c)
    BY <1>5 DEF PutParams, Transaction
  <1> QED BY Handler(c), <1>1, <1>2, <1>3, <1>4, <1>5 DEF Handler

(***************************************************************************)
(* The invariant is preserved by every step.                               *)
(***************************************************************************)
LEMMA SettingsInvInductive ==
  ASSUME SettingsInv, [Next]_vars
  PROVE  SettingsInv'
  <1> DEFINE Records == [pc : {"new", "compared", "stored", "done"}, data : Values]
  <1>1. /\ kind' \in Kinds
        /\ pending' \subseteq Proposals
        /\ \A p, q \in pending' : p = q
        /\ confirmed' \subseteq Proposals
        /\ \A p, q \in confirmed' : p = q
    <2>1. TypeOK /\ kind' = kind /\ BucketStep
      BY StepsAreBucketSteps DEF SettingsInv
    <2>2. CASE Adds
      BY <2>1, <2>2 DEF TypeOK, Adds
    <2>3. CASE Removes
      BY <2>1, <2>3 DEF TypeOK, Removes
    <2>4. CASE Stores
      BY <2>1, <2>4 DEF TypeOK, Stores
    <2>5. CASE Puts
      BY <2>1, <2>5 DEF TypeOK, Puts
    <2>6. CASE Leaves
      BY <2>1, <2>6 DEF TypeOK, Leaves
    <2> QED BY <2>1, <2>2, <2>3, <2>4, <2>5, <2>6 DEF BucketStep
  <1>2. Keeps' <=> Keeps
    BY StepsAreBucketSteps DEF Keeps
  <1>3. /\ clock' \in 1 .. MaxClock
        /\ call' \in [Calls -> Records]
        /\ \A d \in Calls : call'[d].pc = "compared" => call[d].pc = "compared" \/ ~Keeps
    <2>1. CASE UNCHANGED vars
      BY <2>1 DEF vars, SettingsInv, TypeOK
    <2>2. CASE Tick
      BY <2>2, SettingsAssumption DEF Tick, SettingsInv, TypeOK
    <2>3. CASE Crash
      BY <2>3 DEF Crash, SettingsInv, TypeOK
    <2>4. ASSUME NEW c \in Calls, Handler(c)
          PROVE  <1>3!1 /\ <1>3!2 /\ <1>3!3
      <3>1. TypeOK
        BY DEF SettingsInv
      <3>2. clock' = clock
        BY <2>4, HandlersAdvance
      <3>3. CASE Advance(c, "done")
        BY <3>1, <3>2, <3>3, AdvanceIsUpdate DEF TypeOK
      <3>4. CASE Advance(c, "stored")
        BY <3>1, <3>2, <3>4, AdvanceIsUpdate DEF TypeOK
      <3>5. CASE Advance(c, "compared") /\ kind = "stable"
        BY <3>1, <3>2, <3>5, AdvanceIsUpdate DEF TypeOK, Keeps
      <3> QED BY <2>4, <3>3, <3>4, <3>5, HandlersAdvance
    <2> QED BY <2>1, <2>2, <2>3, <2>4 DEF Next
  <1> QED BY <1>1, <1>2, <1>3 DEF SettingsInv, TypeOK

(***************************************************************************)
(* The invariant holds: in particular at most one entry is pending, and    *)
(* the types are right.                                                    *)
(***************************************************************************)
THEOREM SettingsInvHolds == Spec => []SettingsInv
  <1>1. Init => SettingsInv
    BY SettingsAssumption DEF Init, SettingsInv, TypeOK
  <1> QED BY <1>1, SettingsInvInductive, PTL DEF Spec

(***************************************************************************)
(* A step of the storage is a step of Proposal, or leaves both sides of    *)
(* the mapping alone.                                                      *)
(***************************************************************************)
LEMMA StepsRefine ==
  ASSUME SettingsInv, [Next]_vars
  PROVE  [P!Next]_<<Proposed, InForce>>
  <1>1. BucketStep /\ kind' = kind
    BY StepsAreBucketSteps
  <1>2. CASE ~Keeps
    BY <1>1, <1>2 DEF Keeps, Proposed, InForce
  <1>3. CASE Keeps
    <2>1. /\ Proposed = pending \ confirmed /\ Proposed' = pending' \ confirmed'
          /\ InForce = confirmed /\ InForce' = confirmed'
      BY <1>1, <1>3 DEF Keeps, Proposed, InForce
    <2>2. TypeOK
      BY DEF SettingsInv
    <2>3. CASE Adds
      <3>1. PICK p \in Proposals : pending' = {p}
        BY <2>3 DEF Adds
      <3>2. CASE p \in confirmed
        BY <2>1, <2>3, <3>1, <3>2 DEF Adds
      <3>3. CASE p \notin confirmed
        <4>1. Proposed = {} /\ Proposed' = {p} /\ InForce' = InForce
          BY <2>1, <2>3, <3>1, <3>3 DEF Adds
        <4> QED BY <4>1 DEF P!Next, P!Propose
      <3> QED BY <3>2, <3>3
    <2>4. CASE Removes
      <3>1. Proposed' = {} /\ InForce' = InForce
        BY <2>1, <2>4 DEF Removes
      <3> QED BY <3>1 DEF P!Next, P!Withdraw
    <2>5. CASE Stores
      <3>1. Proposed' = {} /\ InForce' = pending
        BY <2>1, <2>5 DEF Stores
      <3>2. CASE Proposed = {}
        <4>1. pending = confirmed
          BY <2>1, <2>2, <2>5, <3>2 DEF Stores, TypeOK
        <4> QED BY <2>1, <3>1, <3>2, <4>1
      <3>3. CASE Proposed # {}
        <4>1. Proposed = pending
          BY <2>1, <2>2, <3>3 DEF TypeOK
        <4> QED BY <3>1, <3>3, <4>1 DEF P!Next, P!Confirm
      <3> QED BY <3>2, <3>3
    <2>6. CASE Puts
      BY <1>3, <2>6 DEF Puts
    <2>7. CASE Leaves
      BY <2>1, <2>7 DEF Leaves
    <2> QED BY <1>1, <2>3, <2>4, <2>5, <2>6, <2>7 DEF BucketStep
  <1> QED BY <1>2, <1>3

(***************************************************************************)
(* The target quantities and the PWI equation implement Proposal.          *)
(***************************************************************************)
THEOREM SettingsImplementProposal == Spec => ImplementsProposal
  <1>1. Init => P!Init
    BY DEF Init, P!Init, Proposed, InForce
  <1> QED BY <1>1, SettingsInvHolds, StepsRefine, PTL DEF Spec, ImplementsProposal, P!Spec
------------------------------------------------------------------------------
(***************************************************************************)
(* The indexes of stat/storage/user_bolt.go agree, and the list of pending *)
(* addresses holds no address with the KYC category, for any addresses,    *)
(* users and categories and any order of the two calls that write them.    *)
(*                                                                         *)
(* UsersIndexed alone is not inductive: an address the chain announces     *)
(* becomes its own user, and must not have a registration time by then.    *)
(* Only registration stores times, so TimesRegistered closes the gap.      *)
(***************************************************************************)

TimesRegistered == DOMAIN timeOf \subseteq DOMAIN userOf

UsersInv == UsersTypeOK /\ TimesRegistered /\ UsersIndexed /\ PendingNotKyced

------------------------------------------------------------------------------
\* A stored key keeps the types of a bucket.
LEMMA PutIsMap ==
  ASSUME NEW S, NEW T, NEW f, IsMap(f, S, T), NEW k \in S, NEW v \in T
  PROVE  IsMap(Put(f, k, v), S, T)
BY DEF IsMap, Put

\* An empty table satisfies the invariant.
LEMMA InvInit == UsersInit => UsersInv
BY DEF UsersInit, UsersInv, UsersTypeOK, TimesRegistered, UsersIndexed, PendingNotKyced,
       NoEntries, IsMap

\* A category announced by the chain keeps the invariant.
LEMMA InvCategory ==
  ASSUME UsersInv, NEW a \in Addresses, NEW cat \in Categories, UpdateAddressCategory(a, cat)
  PROVE  UsersInv'
<1> DEFINE user == IF a \in DOMAIN userOf THEN userOf[a] ELSE a
           mine == AddressesOf(user) \cup {a}
<1>1. /\ category' = Put(category, a, cat)
      /\ addressesOf' = Put(addressesOf, user, mine)
      /\ userOf' = Put(userOf, a, user)
      /\ pendingAddrs' = pendingAddrs \ {a}
      /\ timeOf' = timeOf
  BY DEF UpdateAddressCategory
<1>2. user \in Identities /\ mine \in SUBSET Addresses
  BY DEF UsersInv, UsersTypeOK, IsMap, Identities, AddressesOf
<1>3. /\ DOMAIN userOf' = DOMAIN userOf \cup {a}
      /\ userOf'[a] = user
      /\ \A b \in DOMAIN userOf : b # a => userOf'[b] = userOf[b]
  <2> HIDE DEF user
  <2> QED BY <1>1 DEF Put
<1>4. \A b \in DOMAIN userOf : userOf'[b] = userOf[b]
  BY <1>3
<1>5. /\ DOMAIN addressesOf' = DOMAIN addressesOf \cup {user}
      /\ addressesOf'[user] = mine
      /\ \A u \in DOMAIN addressesOf : u # user => addressesOf'[u] = addressesOf[u]
  <2> HIDE DEF user, mine
  <2> QED BY <1>1 DEF Put
<1>6. UsersTypeOK'
  <2>1. IsMap(category', Addresses, Categories)
    BY <1>1, PutIsMap DEF UsersInv, UsersTypeOK
  <2>2. IsMap(userOf', Addresses, Identities)
    <3> HIDE DEF user
    <3> QED BY <1>1, <1>2, PutIsMap DEF UsersInv, UsersTypeOK
  <2>3. IsMap(addressesOf', Identities, SUBSET Addresses)
    <3> HIDE DEF user, mine
    <3> QED BY <1>1, <1>2, PutIsMap DEF UsersInv, UsersTypeOK
  <2> QED BY <1>1, <2>1, <2>2, <2>3 DEF UsersInv, UsersTypeOK
<1>7. TimesRegistered'
  BY <1>1, <1>3 DEF UsersInv, TimesRegistered
<1>8. UsersIndexed'
  <2>1. ASSUME NEW u \in DOMAIN addressesOf, NEW b \in addressesOf[u]
        PROVE  b \in DOMAIN userOf /\ userOf[b] = u
    BY UsersAssumption DEF UsersInv, UsersTypeOK, IsMap, UsersIndexed, UserOf, Identities
  <2>2. ASSUME NEW u \in DOMAIN addressesOf', NEW b \in addressesOf'[u]
        PROVE  b \in DOMAIN userOf' /\ userOf'[b] = u
    <3>1. CASE u = user /\ b = a
      BY <3>1, <1>3
    <3>2. CASE u = user /\ b # a
      <4>1. b \in AddressesOf(user)
        BY <3>2, <1>5
      <4>2. user \in DOMAIN addressesOf /\ b \in addressesOf[user]
        BY <4>1 DEF AddressesOf
      <4> QED BY <4>2, <2>1, <1>3, <1>4, <3>2
    <3>3. CASE u # user
      <4>1. u \in DOMAIN addressesOf /\ b \in addressesOf[u]
        BY <3>3, <1>5
      <4> QED BY <4>1, <2>1, <1>3, <1>4
    <3> QED BY <3>1, <3>2, <3>3
  <2>3. ASSUME NEW b \in DOMAIN userOf'
        PROVE  userOf'[b] # b <=> b \in DOMAIN timeOf'
    <3>1. CASE b \in DOMAIN userOf
      BY <3>1, <1>1, <1>4 DEF UsersInv, UsersIndexed
    <3>2. CASE b \notin DOMAIN userOf
      BY <3>2, <1>1, <1>3 DEF UsersInv, TimesRegistered
    <3> QED BY <3>1, <3>2
  <2> QED BY <2>2, <2>3 DEF UsersIndexed, UserOf
<1>9. PendingNotKyced'
  <2> SUFFICES ASSUME NEW b \in pendingAddrs \ {a}
               PROVE  IsKyced(b)' = FALSE /\ b \in DOMAIN userOf' /\ userOf'[b] # b
    BY <1>1 DEF PendingNotKyced, KycUsers, IsKyced
  <2>1. ~IsKyced(b) /\ b \in DOMAIN userOf /\ userOf[b] # b
    BY DEF UsersInv, PendingNotKyced, KycUsers
  <2>2. ~IsKyced(b)'
    <3>1. /\ DOMAIN category' = DOMAIN category \cup {a}
          /\ \A j \in DOMAIN category : j # a => category'[j] = category[j]
      BY <1>1 DEF Put
    <3> QED BY <2>1, <3>1 DEF IsKyced
  <2> QED BY <2>1, <2>2, <1>3, <1>4 DEF IsKyced
<1> QED BY <1>6, <1>7, <1>8, <1>9 DEF UsersInv

\* The addresses of a user, stored by an operator, keep the invariant.
LEMMA InvRegistered ==
  ASSUME UsersInv, NEW user \in UserIds, NEW A \in SUBSET Addresses, NEW again \in BOOLEAN,
         NEW given \in [A -> Times], Registered(user, given, again), category' = category
  PROVE  UsersInv'
<1> DEFINE old  == OldIds(user, A, again)
           kept == [u \in DOMAIN addressesOf \ old |-> addressesOf[u]]
           mine == IF user \in DOMAIN kept THEN kept[user] ELSE {}
<1>0. DOMAIN given = A
  OBVIOUS
<1>1. /\ userOf' = [a \in DOMAIN userOf \cup A |-> IF a \in A THEN user ELSE userOf[a]]
      /\ addressesOf' = Put(kept, user, mine \cup A)
      /\ timeOf' = [a \in DOMAIN timeOf \cup A |-> IF a \in A THEN given[a] ELSE timeOf[a]]
      /\ pendingAddrs' = (pendingAddrs \ AddressesOf(user)) \cup {a \in A : ~IsKyced(a)}
  BY <1>0 DEF Registered
<1>2. /\ DOMAIN kept = DOMAIN addressesOf \ old
      /\ \A u \in DOMAIN kept : kept[u] = addressesOf[u]
  OBVIOUS
<1>3. IsMap(kept, Identities, SUBSET Addresses)
  BY DEF UsersInv, UsersTypeOK, IsMap
<1>4. mine \cup A \in SUBSET Addresses /\ user \in Identities
  BY <1>3 DEF IsMap, Identities
<1>5. /\ DOMAIN addressesOf' = DOMAIN kept \cup {user}
      /\ addressesOf'[user] = mine \cup A
      /\ \A u \in DOMAIN kept : u # user => addressesOf'[u] = kept[u]
  <2> DEFINE all == mine \cup A
  <2>1. addressesOf' = Put(kept, user, all)
    BY <1>1
  <2> HIDE DEF kept, all
  <2>2. /\ DOMAIN addressesOf' = DOMAIN kept \cup {user}
        /\ addressesOf'[user] = all
        /\ \A u \in DOMAIN kept : u # user => addressesOf'[u] = kept[u]
    BY <2>1 DEF Put
  <2> QED BY <2>2 DEF all
<1>6. UsersTypeOK'
  <2>1. IsMap(userOf', Addresses, Identities)
    BY <1>1, <1>4 DEF UsersInv, UsersTypeOK, IsMap
  <2>2. IsMap(addressesOf', Identities, SUBSET Addresses)
    <3> HIDE DEF kept, mine
    <3> QED BY <1>1, <1>3, <1>4, PutIsMap
  <2>3. IsMap(timeOf', Addresses, Times)
    BY <1>1 DEF UsersInv, UsersTypeOK, IsMap
  <2>4. pendingAddrs' \subseteq Addresses
    BY <1>1 DEF UsersInv, UsersTypeOK
  <2> QED BY <2>1, <2>2, <2>3, <2>4 DEF UsersInv, UsersTypeOK
<1>7. TimesRegistered'
  BY <1>1 DEF UsersInv, TimesRegistered
<1>8. UsersIndexed'
  <2>1. ASSUME NEW u \in DOMAIN addressesOf, NEW b \in addressesOf[u]
        PROVE  b \in DOMAIN userOf /\ userOf[b] = u
    BY UsersAssumption DEF UsersInv, UsersTypeOK, IsMap, UsersIndexed, UserOf, Identities
  <2>2. ASSUME NEW u \in DOMAIN kept, NEW b \in kept[u]
        PROVE  b \in DOMAIN userOf' /\ userOf'[b] = u
    <3>1. b \in DOMAIN userOf /\ userOf[b] = u
      BY <1>2, <2>1
    <3>2. b \notin A
      BY <1>2, <3>1 DEF OldIds
    <3> QED BY <3>1, <3>2, <1>1
  <2>3. ASSUME NEW u \in DOMAIN addressesOf', NEW b \in addressesOf'[u]
        PROVE  b \in DOMAIN userOf' /\ userOf'[b] = u
    <3>1. CASE u = user /\ b \in A
      BY <3>1, <1>1
    <3>2. CASE u = user /\ b \notin A
      <4>1. user \in DOMAIN kept /\ b \in kept[user]
        BY <3>2, <1>5
      <4> HIDE DEF kept
      <4> QED BY <4>1, <2>2, <3>2
    <3>3. CASE u # user
      <4>1. u \in DOMAIN kept /\ b \in kept[u]
        <5> HIDE DEF kept, mine
        <5> QED BY <3>3, <1>5
      <4> HIDE DEF kept
      <4> QED BY <4>1, <2>2
    <3> QED BY <3>1, <3>2, <3>3
  <2>4. ASSUME NEW b \in DOMAIN userOf'
        PROVE  userOf'[b] # b <=> b \in DOMAIN timeOf'
    <3>1. CASE b \in A
      <4>1. userOf'[b] = user /\ user # b
        BY <3>1, <1>1, UsersAssumption
      <4> QED BY <4>1, <3>1, <1>1
    <3>2. CASE b \notin A
      BY <3>2, <1>1 DEF UsersInv, UsersIndexed
    <3> QED BY <3>1, <3>2
  <2> QED BY <2>3, <2>4 DEF UsersIndexed, UserOf
<1>9. PendingNotKyced'
  <2> SUFFICES ASSUME NEW b \in pendingAddrs'
               PROVE  ~IsKyced(b)' /\ b \in DOMAIN userOf' /\ userOf'[b] # b
    BY DEF PendingNotKyced, KycUsers, IsKyced
  <2>1. ~IsKyced(b)' <=> ~IsKyced(b)
    BY DEF IsKyced
  <2>2. CASE b \in A
    <3>1. ~IsKyced(b)
      BY <2>2, <1>1 DEF UsersInv, PendingNotKyced
    <3>2. userOf'[b] = user /\ user # b
      BY <2>2, <1>1, UsersAssumption
    <3> QED BY <2>1, <2>2, <3>1, <3>2, <1>1
  <2>3. CASE b \notin A
    <3>1. b \in pendingAddrs
      BY <2>3, <1>1
    <3>2. ~IsKyced(b) /\ b \in DOMAIN userOf /\ userOf[b] # b
      BY <3>1 DEF UsersInv, PendingNotKyced, KycUsers
    <3> QED BY <2>1, <2>3, <3>2, <1>1
  <2> QED BY <2>2, <2>3
<1> QED BY <1>6, <1>7, <1>8, <1>9 DEF UsersInv

\* Steps that leave the buckets alone keep the invariant.
LEMMA InvUnchanged == UsersInv /\ UNCHANGED usersVars => UsersInv'
BY DEF UsersInv, UsersTypeOK, TimesRegistered, UsersIndexed, PendingNotKyced, IsKyced,
       KycUsers, UserOf, usersVars

------------------------------------------------------------------------------
\* UsersInvHolds: the tables keep their invariant through every sequence of
\* UpdateAddressCategory and UpdateUserAddresses.
THEOREM UsersInvHolds == UsersSpec => []UsersInv
<1>1. UsersInv /\ [UsersNext]_usersVars => UsersInv'
  <2> SUFFICES ASSUME UsersInv, [UsersNext]_usersVars
               PROVE  UsersInv'
    OBVIOUS
  <2>1. CASE \E a \in Addresses, cat \in Categories : UpdateAddressCategory(a, cat)
    BY <2>1, InvCategory
  <2>2. ASSUME NEW user \in UserIds, NEW A \in (SUBSET Addresses) \ {{}}, NEW again \in BOOLEAN,
               NEW given \in [A -> Times], UpdateUserAddresses(user, given, again)
        PROVE  UsersInv'
    <3>1. CASE DeleteFails(user, DOMAIN given, again)
      BY <2>2, <3>1, InvUnchanged DEF UpdateUserAddresses, usersVars
    <3>2. CASE ~DeleteFails(user, DOMAIN given, again)
      BY <2>2, <3>2, InvRegistered DEF UpdateUserAddresses
    <3> QED BY <3>1, <3>2
  <2>3. CASE UNCHANGED usersVars
    BY <2>3, InvUnchanged
  <2> QED BY <2>1, <2>2, <2>3 DEF UsersNext
<1> QED BY <1>1, InvInit, PTL DEF UsersSpec

\* UsersAlwaysIndexed: the index by user and the index by address of
\* user_bolt.go never disagree.
THEOREM UsersAlwaysIndexed == UsersSpec => []UsersIndexed
<1>1. UsersInv => UsersIndexed
  BY DEF UsersInv
<1> QED BY <1>1, UsersInvHolds, PTL

\* PendingNeverKyced: GetPendingAddresses never lists an address that has the
\* KYC category or that nobody registered.
THEOREM PendingNeverKyced == UsersSpec => []PendingNotKyced
<1>1. UsersInv => PendingNotKyced
  BY DEF UsersInv
<1> QED BY <1>1, UsersInvHolds, PTL
------------------------------------------------------------------------------

\* A call c that may configure and another one that may confirm sent the data.
TwoCalls(data) ==
  \E c \in SentWith(data, "Configure"), d \in SentWith(data, "ConfirmConf") : c # d

KeysInv ==
  /\ signer \in [Calls -> SUBSET Permissions]
  /\ \A c \in Calls : call[c].pc = "new" => signer[c] = {}
  /\ AuthEnabled =>
       /\ \A p \in pending : SentWith(p.data, "Configure") # {}
       /\ \A p \in confirmed : (kind = "stable" /\ p.data = EmptyValue) \/ TwoCalls(p.data)
       /\ \A c \in Calls : call[c].pc = "compared" =>
            call[c].data = EmptyValue \/ TwoCalls(call[c].data)

RecordsInv ==
  /\ AnalyticsTypeOK
  /\ \A r, s \in records : r.time = s.time => r = s
  /\ IsFiniteSet(records)
  /\ \A f \in DOMAIN files : IsFiniteSet(files[f])
  /\ export.pc # "wait" => export.file \in DOMAIN files
  /\ export.pc = "backup" => export.file \notin DOMAIN archived
  /\ export.pc = "check" => /\ export.file \in DOMAIN archived
                            /\ archived[export.file] \subseteq files[export.file]

Rounds  == [on : BOOLEAN, time : Nat, todo : SUBSET Exchanges, got : SUBSET Exchanges]
Readers == [pc : {"idle", "asked", "answered", "empty", "failed"}, one : BOOLEAN, version : Nat,
            data : SUBSET Exchanges, had : SUBSET Nat]

\* Enough later prices were stored to prune v.
Outdated(v) == /\ source = "price"
               /\ Cardinality({t \in DOMAIN written : t > v}) >= MaxVersions

BooksTyped ==
  /\ PriceTypeOK
  /\ IsMap(written, 1 .. MaxTick, SUBSET Exchanges)
  /\ book \in Rounds /\ reader \in Readers

\* The version a reader works on is the newest it might have found, or 0 when
\* none of them is kept; what it is told.
ReaderInv ==
  /\ reader.had \subseteq DOMAIN written
  /\ reader.version # 0 => /\ reader.version \in reader.had
                           /\ \A v \in reader.had : v <= reader.version
  /\ reader.version = 0 => reader.had \cap DOMAIN versions = {}
  /\ reader.pc = "answered" => reader.version # 0 /\ reader.data = written[reader.version]
  /\ reader.pc = "empty" => reader.had \cap DOMAIN versions = {}
  /\ reader.pc = "failed" => \/ reader.had \cap DOMAIN versions = {}
                             \/ reader.version # 0 /\ written[reader.version] = {}

BooksInv ==
  /\ BooksTyped
  /\ \A w \in DOMAIN written : w <= present
  /\ book.on => /\ source = "price"
                /\ book.time \in 1 .. present
                /\ \A w \in DOMAIN written : w < book.time
  /\ \A v \in DOMAIN versions : versions[v] = written[v]
  /\ \A v \in DOMAIN written \ DOMAIN versions : Outdated(v)
  /\ \A v \in DOMAIN written \ DOMAIN versions, u \in DOMAIN versions : v < u
  /\ ReaderInv

FlagsInv ==
  /\ moment \in 1 .. MaxMoment
  /\ IsMap(flags, 1 .. MaxMoment, BOOLEAN)
  /\ \A t, u \in DOMAIN flags : t = u
  /\ \A t \in DOMAIN flags : flags[t] = lastFlag
  /\ DOMAIN flags = {} => lastFlag = FALSE

ReportsInv ==
  /\ \A t \in DOMAIN history : IsMap(history[t], Venues, Reports)
  /\ IsMap(metrics, 0 .. MaxMoment, Reports)
  /\ IsMap(notices, Venues, Reports)

Known(names) == \A e \in Venues \ adding : <<e, TRUE>> \in names
Reading(u)   == update[u].pc = "read"

StatusInv ==
  /\ IsMap(status, Names, BOOLEAN) /\ IsMap(wanted, Names, BOOLEAN)
  /\ overlap \in BOOLEAN /\ adding \subseteq Venues
  /\ Known(DOMAIN status)
  /\ DOMAIN update = Updates
  /\ \A u \in Updates : Reading(u) =>
       /\ IsMap(update[u].read, Names, BOOLEAN)
       /\ update[u].name \in Names /\ update[u].up \in BOOLEAN
       /\ adding = {} /\ Known(DOMAIN update[u].read)
       /\ ~overlap => update[u].read = status /\ \A v \in Updates : Reading(v) => v = u
  /\ ~overlap => \A n \in DOMAIN wanted : n \in DOMAIN status /\ status[n] = wanted[n]

ControlInv == FlagsInv /\ ReportsInv /\ StatusInv
------------------------------------------------------------------------------
\* The first entry of a flag bucket is the only one.
LEMMA OneFlag ==
  ASSUME FlagsInv
  PROVE  FirstKey(flags) = DOMAIN flags
<1>1. \A t \in DOMAIN flags : t \in Nat
  BY DEF FlagsInv, IsMap
<1>2. \A t, u \in DOMAIN flags : t = u
  BY DEF FlagsInv
<1>3. \A t, u \in DOMAIN flags : t <= u
  BY <1>1, <1>2
<1> QED BY <1>3 DEF FirstKey

\* The writer replaces the only entry, whatever its key.
LEMMA FlagStored ==
  ASSUME FlagsInv, NEW up \in BOOLEAN, StoreControl(up), moment' = moment
  PROVE  FlagsInv'
<1> DEFINE rest == [t \in DOMAIN flags \ FirstKey(flags) |-> flags[t]]
<1>1. FirstKey(flags) = DOMAIN flags
  BY OneFlag
<1>2. DOMAIN rest = {}
  BY <1>1
<1>3. flags' = Put(rest, moment, up) /\ lastFlag' = up
  BY DEF StoreControl
<1> HIDE DEF rest
<1>4. DOMAIN flags' = {moment} /\ flags'[moment] = up /\ flags' \in [{moment} -> BOOLEAN]
  BY <1>2, <1>3 DEF Put
<1> QED BY <1>3, <1>4 DEF FlagsInv, IsMap

\* A table that is not written keeps its invariant.
LEMMA FlagsKept == FlagsInv /\ UNCHANGED <<flagVars, moment>> => FlagsInv'
BY DEF FlagsInv, flagVars, IsMap

LEMMA ReportsKept == ReportsInv /\ UNCHANGED reportVars => ReportsInv'
BY DEF ReportsInv, reportVars, IsMap

LEMMA StatusUntouched ==
  ASSUME StatusInv, UNCHANGED <<statusVars, update>>
  PROVE  StatusInv'
<1>1. UNCHANGED <<status, wanted, overlap, adding, update>>
  BY DEF statusVars
<1>2. /\ Known(DOMAIN status)' = Known(DOMAIN status)
      /\ \A u \in Updates : /\ Reading(u)' = Reading(u)
                            /\ Known(DOMAIN update[u].read)' = Known(DOMAIN update[u].read)
  BY <1>1 DEF Known, Reading
<1> QED BY <1>1, <1>2 DEF StatusInv, IsMap

\* A request moves on without reading or writing the statuses.
LEMMA StatusBypassed ==
  ASSUME StatusInv, UNCHANGED statusVars, NEW u \in Updates, ~Reading(u),
         DOMAIN update' = Updates, ~Reading(u)',
         \A v \in Updates : v # u => update'[v] = update[v]
  PROVE  StatusInv'
BY DEF StatusInv, Known, Reading, statusVars, IsMap

\* While the program starts, an exchange without a status is added; nobody is
\* changing one at that time.
LEMMA StatusAdded ==
  ASSUME StatusInv, NEW e \in Venues, AddExchange(e)
  PROVE  StatusInv'
<1>1. /\ e \in adding /\ adding' = adding \ {e} /\ UNCHANGED <<wanted, overlap, update>>
      /\ \/ <<e, TRUE>> \in DOMAIN status /\ status' = status
         \/ <<e, TRUE>> \notin DOMAIN status /\ status' = Put(status, <<e, TRUE>>, TRUE)
  BY DEF AddExchange
<1>2. \A u \in Updates : ~Reading(u) /\ ~Reading(u)'
  BY <1>1 DEF StatusInv, Reading
<1>3. <<e, TRUE>> \in Names
  BY DEF Names
<1>4. /\ IsMap(status', Names, BOOLEAN)
      /\ DOMAIN status' = DOMAIN status \cup {<<e, TRUE>>}
      /\ \A n \in DOMAIN status : status'[n] = status[n]
  <2> DEFINE key == <<e, TRUE>>
  <2>1. /\ key \in Names
        /\ \/ key \in DOMAIN status /\ status' = status
           \/ key \notin DOMAIN status /\ status' = Put(status, key, TRUE)
    BY <1>1, <1>3
  <2> HIDE DEF key
  <2>2. IsMap(status', Names, BOOLEAN)
    <3>1. IsMap(status, Names, BOOLEAN)
      BY DEF StatusInv
    <3>2. IsMap(Put(status, key, TRUE), Names, BOOLEAN)
      BY <2>1, <3>1, PutIsMap
    <3> QED BY <2>1, <3>1, <3>2
  <2>3. /\ DOMAIN status' = DOMAIN status \cup {key}
        /\ \A n \in DOMAIN status : status'[n] = status[n]
    BY <2>1 DEF Put
  <2> QED BY <2>2, <2>3 DEF key
<1>5. Known(DOMAIN status)'
  BY <1>1, <1>4 DEF StatusInv, Known
<1> QED BY <1>1, <1>2, <1>4, <1>5 DEF StatusInv

\* A change reads the statuses; if another has read them too they overlap.
LEMMA StatusRead ==
  ASSUME StatusInv, NEW u \in Updates, NEW name \in Names, NEW up \in BOOLEAN,
         ReadStatus(u, name, up)
  PROVE  StatusInv'
<1> DEFINE mine == [pc |-> "read", read |-> status, name |-> name, up |-> up]
<1>1. /\ adding = {} /\ ~Reading(u)
      /\ update' = [update EXCEPT ![u] = mine]
      /\ overlap' = (overlap \/ \E v \in Updates : Reading(v))
      /\ UNCHANGED <<status, wanted, adding>>
  BY DEF ReadStatus, Reading
<1>2. mine.pc = "read" /\ mine.read = status /\ mine.name = name /\ mine.up = up
  OBVIOUS
<1> HIDE DEF mine
<1>3. /\ DOMAIN update' = Updates /\ update'[u] = mine
      /\ \A v \in Updates : v # u => update'[v] = update[v]
  BY <1>1 DEF StatusInv
<1>4. ~overlap' => ~overlap /\ \A v \in Updates : Reading(v)' => v = u
  BY <1>1, <1>3 DEF Reading
<1>5. overlap' \in BOOLEAN
  BY <1>1
<1>6. Known(DOMAIN status)'
  BY <1>1 DEF StatusInv, Known
<1>7. ASSUME NEW v \in Updates, Reading(v)'
      PROVE  /\ IsMap(update'[v].read, Names, BOOLEAN)
             /\ update'[v].name \in Names /\ update'[v].up \in BOOLEAN
             /\ adding' = {} /\ Known(DOMAIN update[v].read)'
             /\ ~overlap' => update'[v].read = status'
                             /\ \A w \in Updates : Reading(w)' => w = v
  <2>1. CASE v = u
    BY <2>1, <1>1, <1>2, <1>3, <1>4 DEF StatusInv, Known, IsMap
  <2>2. CASE v # u
    BY <2>2, <1>1, <1>3, <1>4, <1>7 DEF StatusInv, Known, Reading, IsMap
  <2> QED BY <2>1, <2>2
<1> QED BY <1>1, <1>3, <1>4, <1>5, <1>6, <1>7 DEF StatusInv, IsMap

\* A change writes back what it read, with its own status in it.
LEMMA StatusWritten ==
  ASSUME StatusInv, NEW u \in Updates, WriteStatus(u)
  PROVE  StatusInv'
<1> DEFINE read == update[u].read
           name == update[u].name
           up   == update[u].up
<1>1. /\ Reading(u) /\ status' = Put(read, name, up) /\ wanted' = Put(wanted, name, up)
      /\ update' = [update EXCEPT ![u] = NoUpdate]
      /\ UNCHANGED <<overlap, adding>>
  BY DEF WriteStatus, Reading
<1>2. /\ IsMap(read, Names, BOOLEAN) /\ name \in Names /\ up \in BOOLEAN
      /\ adding = {} /\ Known(DOMAIN read)
      /\ ~overlap => read = status /\ \A v \in Updates : Reading(v) => v = u
  BY <1>1 DEF StatusInv
<1> HIDE DEF read, name, up
<1>3. /\ DOMAIN update' = Updates /\ ~Reading(u)'
      /\ \A v \in Updates : v # u => update'[v] = update[v]
  BY <1>1 DEF StatusInv, Reading, NoUpdate
<1>4. IsMap(status', Names, BOOLEAN) /\ IsMap(wanted', Names, BOOLEAN)
  BY <1>1, <1>2, PutIsMap DEF StatusInv
<1>5. /\ DOMAIN status' = DOMAIN read \cup {name} /\ status'[name] = up
      /\ DOMAIN wanted' = DOMAIN wanted \cup {name} /\ wanted'[name] = up
      /\ \A n \in DOMAIN read : n # name => status'[n] = read[n]
      /\ \A n \in DOMAIN wanted : n # name => wanted'[n] = wanted[n]
  BY <1>1 DEF Put
<1>6. Known(DOMAIN status)'
  BY <1>1, <1>2, <1>5 DEF Known
<1>7. ~overlap' => \A n \in DOMAIN wanted' : n \in DOMAIN status' /\ status'[n] = wanted'[n]
  BY <1>1, <1>2, <1>5 DEF StatusInv
<1>8. ASSUME NEW v \in Updates, Reading(v)'
      PROVE  /\ IsMap(update'[v].read, Names, BOOLEAN)
             /\ update'[v].name \in Names /\ update'[v].up \in BOOLEAN
             /\ adding' = {} /\ Known(DOMAIN update[v].read)'
             /\ overlap'
  BY <1>1, <1>2, <1>3, <1>8 DEF StatusInv, Known, Reading, IsMap
<1> QED BY <1>1, <1>3, <1>4, <1>6, <1>7, <1>8 DEF StatusInv
\* The process starts again: no change is in progress.
LEMMA StatusRestarted ==
  ASSUME StatusInv, RestartStatus
  PROVE  StatusInv'
<1>1. /\ adding' = Venues /\ update' = [u \in Updates |-> NoUpdate]
      /\ UNCHANGED <<status, wanted, overlap>>
  BY DEF RestartStatus
<1>2. DOMAIN update' = Updates /\ \A u \in Updates : ~Reading(u)'
  BY <1>1 DEF Reading, NoUpdate
<1>3. Known(DOMAIN status)'
  BY <1>1 DEF Known
<1> QED BY <1>1, <1>2, <1>3 DEF StatusInv, IsMap

\* The new entry of the trade history merges the first one and the answers.
LEMMA HistoryStored ==
  ASSUME ReportsInv, FetchAllTradeHistory
  PROVE  ReportsInv'
<1>1. PICK answered \in SUBSET Venues : \E data \in [answered -> Reports] : StoreTradeHistory(data)
  BY DEF FetchAllTradeHistory
<1>2. PICK data \in [answered -> Reports] : StoreTradeHistory(data)
  BY <1>1
<1> DEFINE old    == UNION {{history[t]} : t \in FirstKey(history)}
           first  == CHOOSE h \in old : TRUE
           merged == IF old = {} THEN data
                     ELSE [e \in DOMAIN first \cup DOMAIN data |->
                             IF e \in DOMAIN data THEN data[e] ELSE first[e]]
<1>3. history' = Put(history, moment, merged)
  BY <1>2 DEF StoreTradeHistory
<1>4. old # {} => IsMap(first, Venues, Reports)
  <2>1. \A h \in old : IsMap(h, Venues, Reports)
    BY DEF ReportsInv, FirstKey
  <2> QED BY <2>1
<1>5. IsMap(merged, Venues, Reports)
  <2> HIDE DEF old, first
  <2> QED BY <1>4 DEF IsMap
<1>6. \A t \in DOMAIN history' : IsMap(history'[t], Venues, Reports)
  <2> HIDE DEF merged
  <2> QED BY <1>3, <1>5 DEF Put, ReportsInv
<1> QED BY <1>6 DEF ReportsInv, FetchAllTradeHistory, IsMap

\* One of the report tables is written.
LEMMA ReportStored ==
  ASSUME ReportsInv, history' = history,
         \/ /\ \E t \in 0 .. MaxMoment, data \in Reports : metrics' = Put(metrics, t, data)
            /\ notices' = notices
         \/ /\ \E e \in Venues, data \in Reports : notices' = Put(notices, e, data)
            /\ metrics' = metrics
  PROVE  ReportsInv'
<1>1. \A t \in DOMAIN history' : IsMap(history'[t], Venues, Reports)
  BY DEF ReportsInv
<1>2. IsMap(metrics', 0 .. MaxMoment, Reports)
  BY PutIsMap DEF ReportsInv
<1>3. IsMap(notices', Venues, Reports)
  BY PutIsMap DEF ReportsInv
<1> QED BY <1>1, <1>2, <1>3 DEF ReportsInv

\* Every step of the control tables keeps their invariants.
LEMMA ControlStep ==
  ASSUME ControlInv, [ControlNext]_controlVars
  PROVE  ControlInv'
<1>0. FlagsInv /\ ReportsInv /\ StatusInv
  BY DEF ControlInv
<1>1. CASE UNCHANGED controlVars
  BY <1>0, <1>1, FlagsKept, ReportsKept, StatusUntouched DEF ControlInv, controlVars
<1>2. CASE ControlTick
  <2>1. moment' \in 1 .. MaxMoment /\ UNCHANGED <<flagVars, statusVars, update, reportVars>>
    BY <1>0, <1>2, ControlAssumption DEF ControlTick, FlagsInv
  <2>2. FlagsInv'
    BY <1>0, <2>1 DEF FlagsInv, flagVars, IsMap
  <2> QED BY <1>0, <2>1, <2>2, ReportsKept, StatusUntouched DEF ControlInv
<1>3. ASSUME NEW up \in BOOLEAN, NEW flag, SetFlag(flag, up)
      PROVE  ControlInv'
  <2>1. /\ StoreControl(up) /\ UNCHANGED moment
        /\ UNCHANGED <<statusVars, update>> /\ UNCHANGED reportVars
    BY <1>3 DEF SetFlag
  <2> QED BY <1>0, <2>1, FlagStored, ReportsKept, StatusUntouched DEF ControlInv
<1>4. ASSUME NEW u \in Updates, NEW flag, GetControl(u, flag)
      PROVE  ControlInv'
  <2>1. /\ update[u].pc = "idle" /\ update' = [update EXCEPT ![u].pc = "default"]
        /\ UNCHANGED statusVars /\ UNCHANGED <<flagVars, moment>> /\ UNCHANGED reportVars
    BY <1>4 DEF GetControl
  <2>2. /\ DOMAIN update' = Updates /\ ~Reading(u) /\ ~Reading(u)'
        /\ \A v \in Updates : v # u => update'[v] = update[v]
    BY <1>0, <2>1 DEF StatusInv, Reading
  <2> QED BY <1>0, <2>1, <2>2, FlagsKept, ReportsKept, StatusBypassed DEF ControlInv
<1>5. ASSUME NEW u \in Updates, StoreDefault(u)
      PROVE  ControlInv'
  <2>1. /\ update[u].pc = "default" /\ update' = [update EXCEPT ![u] = NoUpdate]
        /\ StoreControl(FALSE) /\ UNCHANGED statusVars /\ UNCHANGED moment
        /\ UNCHANGED reportVars
    BY <1>5 DEF StoreDefault
  <2>2. /\ DOMAIN update' = Updates /\ ~Reading(u) /\ ~Reading(u)'
        /\ \A v \in Updates : v # u => update'[v] = update[v]
    BY <1>0, <2>1 DEF StatusInv, Reading, NoUpdate
  <2> QED BY <1>0, <2>1, <2>2, FlagStored, ReportsKept, StatusBypassed DEF ControlInv
<1>6. ASSUME StatusInv', UNCHANGED <<flagVars, moment>>, UNCHANGED reportVars
      PROVE  ControlInv'
  BY <1>0, <1>6, FlagsKept, ReportsKept DEF ControlInv
<1>7. ASSUME NEW u \in Updates, NEW name \in Names, NEW up \in BOOLEAN, ReadStatus(u, name, up)
      PROVE  ControlInv'
  BY <1>0, <1>6, <1>7, StatusRead DEF ReadStatus
<1>8. ASSUME NEW u \in Updates, WriteStatus(u)
      PROVE  ControlInv'
  BY <1>0, <1>6, <1>8, StatusWritten DEF WriteStatus
<1>9. ASSUME NEW e \in Venues, AddExchange(e)
      PROVE  ControlInv'
  BY <1>0, <1>6, <1>9, StatusAdded DEF AddExchange
<1>10. CASE RestartStatus
  BY <1>0, <1>6, <1>10, StatusRestarted DEF RestartStatus
<1>11. ASSUME ReportsInv', UNCHANGED <<flagVars, moment>>, UNCHANGED <<statusVars, update>>
       PROVE  ControlInv'
  BY <1>0, <1>11, FlagsKept, StatusUntouched DEF ControlInv
<1>12. CASE FetchAllTradeHistory
  BY <1>0, <1>11, <1>12, HistoryStored DEF FetchAllTradeHistory
<1>13. ASSUME NEW r \in Requests, NEW t \in 0 .. MaxMoment, NEW data \in Reports,
              StoreMetrics(r, t, data)
       PROVE  ControlInv'
  BY <1>0, <1>11, <1>13, ReportStored DEF StoreMetrics
<1>14. ASSUME NEW r \in Requests, NEW e \in Venues, NEW data \in Reports,
              ExchangeNotification(r, e, data)
       PROVE  ControlInv'
  BY <1>0, <1>11, <1>14, ReportStored DEF ExchangeNotification, UpdateExchangeNotification
<1>15. CASE ControlNext
  BY <1>2, <1>3, <1>4, <1>5, <1>7, <1>8, <1>9, <1>10, <1>12, <1>13, <1>14, <1>15
     DEF ControlNext, HoldRebalance, EnableRebalance, HoldSetrate, EnableSetrate,
         GetRebalanceStatus, GetSetrateStatus, UpdateExchangeStatus
<1> QED BY <1>1, <1>15

\* The tables are empty at first.
LEMMA ControlInvInit == ControlInit => ControlInv
<1> SUFFICES ASSUME ControlInit PROVE ControlInv
  OBVIOUS
<1>1. FlagsInv
  BY ControlAssumption DEF ControlInit, FlagsInv, IsMap
<1>2. ReportsInv
  BY DEF ControlInit, ReportsInv, IsMap
<1>3. /\ DOMAIN status = {} /\ DOMAIN wanted = {} /\ overlap = FALSE /\ adding = Venues
      /\ DOMAIN update = Updates /\ \A u \in Updates : ~Reading(u)
      /\ IsMap(status, Names, BOOLEAN) /\ IsMap(wanted, Names, BOOLEAN)
  BY DEF ControlInit, Reading, NoUpdate, IsMap
<1>4. StatusInv
  BY <1>3 DEF StatusInv, Known
<1> QED BY <1>1, <1>2, <1>4 DEF ControlInv

\* What the invariant says of the answers.
LEMMA ControlInvImplies == ControlInv => ControlTypeOK /\ FlagIsLastStored /\ StatusKept
<1> SUFFICES ASSUME ControlInv PROVE ControlTypeOK /\ FlagIsLastStored /\ StatusKept
  OBVIOUS
<1>1. FirstKey(flags) = DOMAIN flags
  BY OneFlag DEF ControlInv
<1>2. FlagIsLastStored
  BY <1>1 DEF ControlInv, FlagsInv, FlagIsLastStored, FlagServed, Answer
<1>3. StatusKept
  BY DEF ControlInv, StatusInv, Known, StatusKept, GetExchangesStatus
<1>4. \A r \in Requests : \A h \in GetTradeHistory(r) : IsMap(h, Venues, Reports)
  BY DEF ControlInv, ReportsInv, GetTradeHistory, Answer, FirstKey
<1> QED BY <1>2, <1>3, <1>4 DEF ControlInv, FlagsInv, StatusInv, ReportsInv, ControlTypeOK
------------------------------------------------------------------------------
\* A record that can be read is served as soon as any request is.
ServedReadable ==
  Served = {r \in records : r.json /\ \E q \in Requests : Authenticated(q, Permissions)}

LEMMA ServedIsReadable == RecordsInv => ServedReadable
<1> SUFFICES ASSUME RecordsInv, NEW r \in records, NEW q \in Requests
             PROVE  r \in GetPriceAnalyticDataHandler(q, r.time, r.time)
                      <=> r.json /\ Authenticated(q, Permissions)
  BY DEF Served, ServedReadable
<1> DEFINE t == r.time
<1>1. t \in Nat /\ t # 0 /\ r.json \in BOOLEAN /\ ~(t < t) /\ t - t = 0
  BY DEF RecordsInv, AnalyticsTypeOK, AnaRecords
<1>2. {s \in records : s.time \in t .. t} = {r}
  BY <1>1 DEF RecordsInv, AnalyticsTypeOK, AnaRecords
<1>3. ~(t - t > MaxPeriod)
  BY <1>1, AnalyticsAssumption
<1> HIDE DEF t
<1>4. GetPriceAnalyticData(t, t) = IF r.json THEN {r} ELSE {}
  <2>1. (\E s \in {r} : ~s.json) <=> ~r.json
    OBVIOUS
  <2> QED BY <1>1, <1>2, <1>3, <2>1 DEF GetPriceAnalyticData
<1> QED BY <1>1, <1>4 DEF GetPriceAnalyticDataHandler, Answer, t

\* What leaves the bucket is in a file, and what leaves the files is in the archive.
NothingLost ==
  /\ \A r \in records : r \in records' \/ \E f \in DOMAIN files' : r \in files'[f]
  /\ \A f \in DOMAIN files : \/ f \in DOMAIN files' /\ files'[f] = files[f]
                             \/ \E g \in DOMAIN archived' : files[f] \subseteq archived'[g]
  /\ \A f \in DOMAIN archived : f \in DOMAIN archived' /\ archived'[f] = archived[f]

\* Then every record that was held still is.
LEMMA NothingLostHeld ==
  ASSUME ServedReadable, ServedReadable', NothingLost
  PROVE  Held \subseteq Held'
<1> SUFFICES ASSUME NEW r \in Held PROVE r \in Held'
  OBVIOUS
<1>1. \/ r \in Served
      \/ r \in records /\ ~r.json
      \/ \E f \in DOMAIN files : r \in files[f]
      \/ \E f \in DOMAIN archived : r \in archived[f]
  BY DEF Held
<1>2. /\ r \in Served' => r \in Held'
      /\ r \in records' /\ ~r.json => r \in Held'
      /\ (\E f \in DOMAIN files' : r \in files'[f]) => r \in Held'
      /\ (\E f \in DOMAIN archived' : r \in archived'[f]) => r \in Held'
  BY DEF Held
<1>3. CASE r \in Served
  <2>1. r \in records /\ r.json /\ \E q \in Requests : Authenticated(q, Permissions)
    BY <1>3 DEF ServedReadable
  <2>2. CASE r \in records'
    BY <1>2, <2>1, <2>2 DEF ServedReadable
  <2>3. CASE r \notin records'
    BY <1>2, <2>1, <2>3 DEF NothingLost
  <2> QED BY <2>2, <2>3
<1>4. CASE r \in records /\ ~r.json
  BY <1>2, <1>4 DEF NothingLost
<1>5. CASE \E f \in DOMAIN files : r \in files[f]
  BY <1>2, <1>5 DEF NothingLost
<1>6. CASE \E f \in DOMAIN archived : r \in archived[f]
  BY <1>2, <1>6 DEF NothingLost
<1> QED BY <1>1, <1>3, <1>4, <1>5, <1>6

\* A record is added at most at the end, so times stay different.
LEMMA RecordAdded ==
  ASSUME RecordsInv, NEW r \in AnaRecords, UpdatePriceAnalyticData(r)
  PROVE  RecordsInv' /\ NothingLost
<1>1. UNCHANGED <<anaTime, files, archived, export>>
  BY DEF UpdatePriceAnalyticData
<1>2. CASE records' = records
  BY <1>1, <1>2 DEF RecordsInv, AnalyticsTypeOK, IsMap, NothingLost
<1>3. CASE records' = records \cup {r} /\ ~ \E s \in records : s.time >= r.time
  <2>1. IsFiniteSet(records')
    BY <1>3, FS_AddElement DEF RecordsInv
  <2>2. records' \subseteq AnaRecords
    BY <1>3 DEF RecordsInv, AnalyticsTypeOK
  <2>3. \A s \in records : s.time # r.time
    BY <1>3 DEF RecordsInv, AnalyticsTypeOK, AnaRecords
  <2>4. \A s, t \in records' : s.time = t.time => s = t
    BY <1>3, <2>3 DEF RecordsInv
  <2>5. RecordsInv'
    BY <1>1, <2>1, <2>2, <2>4 DEF RecordsInv, AnalyticsTypeOK, IsMap
  <2> QED BY <1>1, <1>3, <2>5 DEF NothingLost
<1> QED BY <1>2, <1>3 DEF UpdatePriceAnalyticData

\* A file of records under a name that is not in use.
LEMMA FileMade ==
  ASSUME RecordsInv, NEW part \in SUBSET records, anaTime \notin DOMAIN files,
         files' = Put(files, anaTime, part)
  PROVE  /\ IsMap(files', 1 .. MaxTime, SUBSET AnaRecords)
         /\ DOMAIN files' = DOMAIN files \cup {anaTime}
         /\ files'[anaTime] = part
         /\ \A f \in DOMAIN files : files'[f] = files[f]
         /\ \A f \in DOMAIN files' : IsFiniteSet(files'[f])
<1>1. IsFiniteSet(part)
  BY FS_Subset DEF RecordsInv
<1>2. /\ DOMAIN files' = DOMAIN files \cup {anaTime}
      /\ files'[anaTime] = part
      /\ \A f \in DOMAIN files : files'[f] = files[f]
  BY DEF Put
<1>3. IsMap(files', 1 .. MaxTime, SUBSET AnaRecords)
  BY PutIsMap DEF RecordsInv, AnalyticsTypeOK
<1> QED BY <1>1, <1>2, <1>3 DEF RecordsInv

\* The expired records move to the file, or stay.
LEMMA RecordsExported ==
  ASSUME RecordsInv, ExportPruneExpired
  PROVE  RecordsInv' /\ NothingLost
<1>1. /\ export.pc = "wait" /\ anaTime \notin DOMAIN files /\ anaTime \notin DOMAIN archived
      /\ UNCHANGED <<anaTime, archived>>
  BY DEF ExportPruneExpired
<1>2. Readable \subseteq records /\ Expired \subseteq records
  BY DEF Readable, Expired
<1>3. CASE Expired = {}
  <2>1. records' = records /\ UNCHANGED <<files, export>>
    BY <1>3 DEF ExportPruneExpired
  <2> QED BY <1>1, <2>1 DEF RecordsInv, AnalyticsTypeOK, IsMap, NothingLost
<1>4. CASE Expired # {}
  <2>0. files' = Put(files, anaTime, Readable)
    BY <1>4 DEF ExportPruneExpired
  <2>1. /\ IsMap(files', 1 .. MaxTime, SUBSET AnaRecords)
        /\ DOMAIN files' = DOMAIN files \cup {anaTime}
        /\ files'[anaTime] = Readable
        /\ \A f \in DOMAIN files : files'[f] = files[f]
        /\ \A f \in DOMAIN files' : IsFiniteSet(files'[f])
    BY <1>1, <1>2, <2>0, FileMade
  <2>2. CASE Readable = Expired
    <3>1. records' = records \ Expired /\ export' = [pc |-> "backup", file |-> anaTime]
      BY <1>4, <2>2 DEF ExportPruneExpired
    <3>2. IsFiniteSet(records') /\ records' \subseteq records
      BY <3>1, FS_Subset DEF RecordsInv
    <3>3. RecordsInv'
      BY <1>1, <2>1, <3>1, <3>2 DEF RecordsInv, AnalyticsTypeOK, IsMap
    <3>4. NothingLost
      BY <1>1, <2>1, <2>2, <3>1 DEF NothingLost
    <3> QED BY <3>3, <3>4
  <2>3. CASE Readable # Expired
    <3>1. records' = records /\ export' = export
      BY <1>4, <2>3 DEF ExportPruneExpired
    <3>2. RecordsInv'
      BY <1>1, <2>1, <3>1 DEF RecordsInv, AnalyticsTypeOK, IsMap
    <3> QED BY <1>1, <2>1, <3>1, <3>2 DEF NothingLost
  <2> QED BY <2>2, <2>3
<1> QED BY <1>3, <1>4

\* A part of the file, or all of it, arrives under a name new to the archive.
LEMMA FileUploaded ==
  ASSUME RecordsInv, UploadFile
  PROVE  RecordsInv' /\ NothingLost
<1>1. export.pc = "backup" /\ UNCHANGED <<anaTime, records, files>>
  BY DEF UploadFile
<1>2. export.file \in DOMAIN files /\ export.file \notin DOMAIN archived
  BY <1>1 DEF RecordsInv
<1>3. CASE export' = [export EXCEPT !.pc = "wait"] /\ UNCHANGED archived
  <2>1. RecordsInv'
    BY <1>1, <1>3 DEF RecordsInv, AnalyticsTypeOK, IsMap
  <2> QED BY <1>1, <1>3, <2>1 DEF NothingLost
<1>4. CASE \E part \in SUBSET files[export.file] :
             /\ archived' = Put(archived, export.file, part)
             /\ export' = [export EXCEPT !.pc = "check"]
  <2> DEFINE f == export.file
  <2>1. PICK part \in SUBSET files[f] : archived' = Put(archived, f, part)
    BY <1>4
  <2>2. f \in 1 .. MaxTime /\ part \in SUBSET AnaRecords
    BY <1>2 DEF RecordsInv, AnalyticsTypeOK, IsMap
  <2>3. export'.pc = "check" /\ export'.file = f
        /\ export' \in [pc : {"wait", "backup", "check"}, file : 1 .. MaxTime]
    BY <1>4 DEF RecordsInv, AnalyticsTypeOK
  <2>4. f \in DOMAIN files /\ f \notin DOMAIN archived
    BY <1>2
  <2> HIDE DEF f
  <2>5. IsMap(archived', 1 .. MaxTime, SUBSET AnaRecords)
    BY <2>1, <2>2, PutIsMap DEF RecordsInv, AnalyticsTypeOK
  <2>6. /\ DOMAIN archived' = DOMAIN archived \cup {f} /\ archived'[f] = part
        /\ \A g \in DOMAIN archived : archived'[g] = archived[g]
    BY <2>1, <2>4 DEF Put
  <2>7. RecordsInv'
    BY <1>1, <2>3, <2>4, <2>5, <2>6 DEF RecordsInv, AnalyticsTypeOK, IsMap
  <2> QED BY <1>1, <2>6, <2>7 DEF NothingLost
<1> QED BY <1>3, <1>4 DEF UploadFile

\* Part of a file with as many records as the file is the file.
LEMMA FileRemoved ==
  ASSUME RecordsInv, RemoveBackedUp
  PROVE  RecordsInv' /\ NothingLost
<1> DEFINE f == export.file
<1>1. /\ export.pc = "check" /\ UNCHANGED <<anaTime, records, archived>>
      /\ export' = [export EXCEPT !.pc = "wait"]
      /\ files' = files \/ (CheckFileIntergrity(f) /\ files' = Delete(files, f))
  BY DEF RemoveBackedUp
<1>2. export'.pc = "wait" /\ export' \in [pc : {"wait", "backup", "check"}, file : 1 .. MaxTime]
  BY <1>1 DEF RecordsInv, AnalyticsTypeOK
<1>3. f \in DOMAIN files /\ f \in DOMAIN archived /\ archived[f] \subseteq files[f]
  BY <1>1 DEF RecordsInv
<1> HIDE DEF f
<1>4. CheckFileIntergrity(f) => archived[f] = files[f]
  BY <1>3, FS_Subset DEF CheckFileIntergrity, RecordsInv
<1>5. /\ IsMap(files', 1 .. MaxTime, SUBSET AnaRecords)
      /\ DOMAIN files' \subseteq DOMAIN files
      /\ \A g \in DOMAIN files' : files'[g] = files[g]
      /\ \A g \in DOMAIN files : g \in DOMAIN files' \/ (g = f /\ archived[f] = files[f])
  BY <1>1, <1>4 DEF RecordsInv, AnalyticsTypeOK, IsMap, Delete
<1>6. RecordsInv'
  BY <1>1, <1>2, <1>5 DEF RecordsInv, AnalyticsTypeOK, IsMap
<1> QED BY <1>1, <1>3, <1>5, <1>6 DEF NothingLost

\* The process dies during an export or after it.
LEMMA ExportCut ==
  ASSUME RecordsInv, AnalyticsCrash
  PROVE  RecordsInv' /\ NothingLost
<1>1. /\ UNCHANGED <<anaTime, records, archived>>
      /\ export' = [export EXCEPT !.pc = "wait"]
  BY DEF AnalyticsCrash
<1>2. export'.pc = "wait" /\ export' \in [pc : {"wait", "backup", "check"}, file : 1 .. MaxTime]
  BY <1>1 DEF RecordsInv, AnalyticsTypeOK
<1>3. CASE UNCHANGED files
  <2>1. RecordsInv'
    BY <1>1, <1>2, <1>3 DEF RecordsInv, AnalyticsTypeOK, IsMap
  <2> QED BY <1>1, <1>3, <2>1 DEF NothingLost
<1>4. CASE /\ anaTime \notin DOMAIN files
           /\ \E part \in SUBSET Readable : files' = Put(files, anaTime, part)
  <2>1. Readable \subseteq records
    BY DEF Readable, Expired
  <2>2. /\ IsMap(files', 1 .. MaxTime, SUBSET AnaRecords)
        /\ DOMAIN files \subseteq DOMAIN files'
        /\ \A f \in DOMAIN files : files'[f] = files[f]
        /\ \A f \in DOMAIN files' : IsFiniteSet(files'[f])
    BY <1>4, <2>1, FileMade
  <2>3. RecordsInv'
    BY <1>1, <1>2, <2>2 DEF RecordsInv, AnalyticsTypeOK, IsMap
  <2> QED BY <1>1, <2>2, <2>3 DEF NothingLost
<1> QED BY <1>3, <1>4 DEF AnalyticsCrash

\* Every step of the analytic data keeps the invariant and loses nothing.
LEMMA RecordsStep ==
  ASSUME RecordsInv, [AnalyticsNext]_anaVars
  PROVE  RecordsInv' /\ NothingLost
<1>1. CASE UNCHANGED anaVars
  BY <1>1 DEF anaVars, RecordsInv, AnalyticsTypeOK, IsMap, NothingLost
<1>2. CASE AnalyticsTick
  <2>1. anaTime' \in 1 .. MaxTime
    BY <1>2, AnalyticsAssumption DEF AnalyticsTick, RecordsInv, AnalyticsTypeOK
  <2> QED BY <1>2, <2>1 DEF AnalyticsTick, RecordsInv, AnalyticsTypeOK, IsMap, NothingLost
<1>3. CASE \E q \in Requests, r \in AnaRecords : UpdatePriceAnalyticDataHandler(q, r)
  BY <1>3, RecordAdded DEF UpdatePriceAnalyticDataHandler
<1>4. CASE ExportPruneExpired
  BY <1>4, RecordsExported
<1>5. CASE UploadFile
  BY <1>5, FileUploaded
<1>6. CASE RemoveBackedUp
  BY <1>6, FileRemoved
<1>7. CASE AnalyticsCrash
  BY <1>7, ExportCut
<1> QED BY <1>1, <1>2, <1>3, <1>4, <1>5, <1>6, <1>7 DEF AnalyticsNext

\* Nothing is stored at first.
LEMMA RecordsInvInit == AnalyticsInit => RecordsInv
BY FS_EmptySet, AnalyticsAssumption DEF AnalyticsInit, RecordsInv, AnalyticsTypeOK, IsMap
------------------------------------------------------------------------------
Later(bucket, v) == {t \in DOMAIN bucket : t > v}

\* The versions are finitely many.
LEMMA LaterFinite ==
  ASSUME NEW m, DOMAIN m \subseteq 1 .. MaxTick, NEW v
  PROVE  IsFiniteSet(Later(m, v)) /\ Cardinality(Later(m, v)) \in Nat
<1>1. IsFiniteSet(1 .. MaxTick)
  BY FS_Interval, PriceDataAssumption
<1>2. Later(m, v) \in SUBSET (1 .. MaxTick)
  BY DEF Later
<1>3. IsFiniteSet(Later(m, v))
  BY <1>1, <1>2, FS_Subset
<1> QED BY <1>3, FS_CardinalityType

\* A bucket is pruned of versions that have enough later ones.
LEMMA PruneKeeps ==
  ASSUME DOMAIN versions \subseteq 1 .. MaxTick, NEW b, b = PruneOutdatedData(versions)
  PROVE  /\ DOMAIN b \subseteq DOMAIN versions
         /\ \A t \in DOMAIN b : b[t] = versions[t]
         /\ \A t \in DOMAIN versions \ DOMAIN b :
              Cardinality(Later(versions, t)) >= MaxVersions - 1
         /\ \A t \in DOMAIN versions \ DOMAIN b, u \in DOMAIN b : t < u
<1> DEFINE kept == {t \in DOMAIN versions : Cardinality(Later(versions, t)) < MaxVersions - 1}
<1>1. b = versions \/ b = [t \in kept |-> versions[t]]
  BY DEF PruneOutdatedData, Later
<1>2. \A t \in DOMAIN versions : t \in kept \/ Cardinality(Later(versions, t)) >= MaxVersions - 1
  BY LaterFinite, PriceDataAssumption
<1>3. ASSUME NEW t \in DOMAIN versions, NEW u \in DOMAIN versions, t \notin kept, u \in kept
      PROVE  t < u
  <2>0. t \in Nat /\ u \in Nat
    BY PriceDataAssumption
  <2> SUFFICES ASSUME u <= t PROVE FALSE
    BY <2>0
  <2>1. Later(versions, t) \in SUBSET Later(versions, u)
    <3>1. \A w \in DOMAIN versions : w \in Nat
      BY PriceDataAssumption
    <3> QED BY <2>0, <3>1 DEF Later
  <2>2. /\ IsFiniteSet(Later(versions, u)) /\ Cardinality(Later(versions, u)) \in Nat
        /\ Cardinality(Later(versions, t)) \in Nat
    BY LaterFinite
  <2>3. Cardinality(Later(versions, t)) <= Cardinality(Later(versions, u))
    BY <2>1, <2>2, FS_Subset
  <2>4. Cardinality(Later(versions, u)) < MaxVersions - 1
    BY <1>3
  <2>5. ~(Cardinality(Later(versions, t)) < MaxVersions - 1)
    BY <1>3
  <2> HIDE DEF kept
  <2> QED BY <2>2, <2>3, <2>4, <2>5, PriceDataAssumption
<1>4. \A t \in DOMAIN versions \ DOMAIN b, u \in DOMAIN b :
        t \in DOMAIN versions /\ u \in DOMAIN versions /\ t \notin kept /\ u \in kept
  BY <1>1
<1>5. \A t \in DOMAIN versions \ DOMAIN b, u \in DOMAIN b : t < u
  BY <1>3, <1>4
<1> QED BY <1>1, <1>2, <1>5

\* A version is stored under a time later than all others.
LEMMA VersionStored ==
  ASSUME BooksInv, NEW b, DOMAIN b \subseteq DOMAIN versions,
         \A t \in DOMAIN b : b[t] = versions[t],
         NEW n \in 1 .. present, \A w \in DOMAIN written : w < n,
         NEW data \in SUBSET Exchanges, UNCHANGED <<source, present, reader>>,
         versions' = Put(b, n, data), written' = Put(written, n, data),
         source = "price" \/ b = versions,
         \A t \in DOMAIN versions \ DOMAIN b :
            Cardinality(Later(versions, t)) >= MaxVersions - 1,
         \A t \in DOMAIN versions \ DOMAIN b, u \in DOMAIN b : t < u
  PROVE  /\ IsMap(versions', 1 .. MaxTick, SUBSET Exchanges)
         /\ IsMap(written', 1 .. MaxTick, SUBSET Exchanges)
         /\ DOMAIN versions' \subseteq DOMAIN written'
         /\ \A w \in DOMAIN written' : w <= present
         /\ \A v \in DOMAIN versions' : versions'[v] = written'[v]
         /\ \A v \in DOMAIN written' \ DOMAIN versions' : Outdated(v)'
         /\ \A v \in DOMAIN written' \ DOMAIN versions', u \in DOMAIN versions' : v < u
         /\ ReaderInv'
<1>1. /\ IsMap(versions, 1 .. MaxTick, SUBSET Exchanges)
      /\ IsMap(written, 1 .. MaxTick, SUBSET Exchanges)
      /\ DOMAIN versions \subseteq DOMAIN written
      /\ present \in 1 .. MaxTick
  BY DEF BooksInv, BooksTyped, PriceTypeOK
<1>2. n \in 1 .. MaxTick /\ n \notin DOMAIN written /\ n \in Nat
  BY <1>1, PriceDataAssumption DEF IsMap
<1>3. /\ DOMAIN versions' = DOMAIN b \cup {n} /\ versions'[n] = data
      /\ DOMAIN written' = DOMAIN written \cup {n} /\ written'[n] = data
      /\ \A v \in DOMAIN b : v # n => versions'[v] = b[v]
      /\ \A v \in DOMAIN written : v # n => written'[v] = written[v]
  BY DEF Put
<1>4. \A t \in DOMAIN b : b[t] \in SUBSET Exchanges /\ t \in 1 .. MaxTick
  BY <1>1 DEF IsMap
<1>5. IsMap(versions', 1 .. MaxTick, SUBSET Exchanges)
  BY <1>2, <1>4 DEF Put, IsMap
<1>6. IsMap(written', 1 .. MaxTick, SUBSET Exchanges)
  BY <1>1, <1>2, PutIsMap
<1>7. \A w \in DOMAIN written' : w <= present
  BY <1>3 DEF BooksInv
<1>8. \A v \in DOMAIN versions' : versions'[v] = written'[v]
  BY <1>1, <1>2, <1>3 DEF BooksInv
<1>9. ASSUME NEW v \in DOMAIN written' \ DOMAIN versions'
      PROVE  Outdated(v)'
  <2>0. v \in DOMAIN written /\ v \notin DOMAIN b /\ v \in Nat /\ v < n
    BY <1>1, <1>3 DEF IsMap
  <2>1. /\ IsFiniteSet(Later(written, v)) /\ Cardinality(Later(written, v)) \in Nat
        /\ IsFiniteSet(Later(versions, v)) /\ Cardinality(Later(versions, v)) \in Nat
        /\ IsFiniteSet(Later(written', v)) /\ Cardinality(Later(written', v)) \in Nat
    BY <1>1, <1>6, LaterFinite DEF IsMap
  <2>2. source = "price" /\ Cardinality(Later(written', v)) >= MaxVersions
    <3>1. CASE v \in DOMAIN versions
      <4>1. Cardinality(Later(versions, v)) >= MaxVersions - 1 /\ source = "price"
        BY <2>0, <3>1
      <4>2. n \notin Later(versions, v)
        BY <1>1, <1>2 DEF Later
      <4>3. /\ IsFiniteSet(Later(versions, v) \cup {n})
            /\ Cardinality(Later(versions, v) \cup {n}) = Cardinality(Later(versions, v)) + 1
        BY <2>1, <4>2, FS_AddElement
      <4>4. Later(versions, v) \cup {n} \in SUBSET Later(written', v)
        BY <1>1, <1>2, <1>3, <2>0 DEF Later
      <4>5. Cardinality(Later(versions, v) \cup {n}) <= Cardinality(Later(written', v))
        BY <2>1, <4>4, FS_Subset
      <4> QED BY <2>1, <4>1, <4>3, <4>5, PriceDataAssumption
    <3>2. CASE v \notin DOMAIN versions
      <4>1. source = "price" /\ Cardinality(Later(written, v)) >= MaxVersions
        BY <2>0, <3>2 DEF BooksInv, Outdated, Later
      <4>2. Later(written, v) \in SUBSET Later(written', v)
        BY <1>3 DEF Later
      <4>3. Cardinality(Later(written, v)) <= Cardinality(Later(written', v))
        BY <2>1, <4>2, FS_Subset
      <4> QED BY <2>1, <4>1, <4>3, PriceDataAssumption
    <3> QED BY <3>1, <3>2
  <2> QED BY <2>2 DEF Outdated, Later
<1>10. \A v \in DOMAIN written' \ DOMAIN versions', u \in DOMAIN versions' : v < u
  <2> SUFFICES ASSUME NEW v \in DOMAIN written' \ DOMAIN versions', NEW u \in DOMAIN versions'
               PROVE  v < u
    OBVIOUS
  <2>1. v \in DOMAIN written /\ v < n /\ (u = n \/ u \in DOMAIN b)
    BY <1>3
  <2>2. CASE u = n
    BY <2>1, <2>2
  <2>3. CASE u \in DOMAIN b /\ v \in DOMAIN versions
    BY <1>3, <2>1, <2>3
  <2>4. CASE u \in DOMAIN b /\ v \notin DOMAIN versions
    BY <2>1, <2>4 DEF BooksInv
  <2> QED BY <2>1, <2>2, <2>3, <2>4
<1>11. ReaderInv'
  <2>1. /\ reader.had \subseteq DOMAIN written /\ n \notin reader.had
        /\ reader.had \cap DOMAIN versions' \subseteq reader.had \cap DOMAIN versions
    BY <1>2, <1>3 DEF BooksInv, ReaderInv
  <2>2. reader.version # 0 => /\ reader.version \in DOMAIN written
                              /\ written'[reader.version] = written[reader.version]
    BY <1>2, <1>3, <2>1 DEF BooksInv, ReaderInv
  <2> QED BY <1>3, <2>1, <2>2 DEF BooksInv, ReaderInv
<1> QED BY <1>1, <1>3, <1>5, <1>6, <1>7, <1>8, <1>9, <1>10, <1>11

\* A store that fails.
LEMMA StoreFailed ==
  ASSUME BooksInv, UNCHANGED <<versions, written, source, present, reader>>
  PROVE  /\ IsMap(versions', 1 .. MaxTick, SUBSET Exchanges)
         /\ IsMap(written', 1 .. MaxTick, SUBSET Exchanges)
         /\ DOMAIN versions' \subseteq DOMAIN written'
         /\ \A w \in DOMAIN written' : w <= present
         /\ \A v \in DOMAIN versions' : versions'[v] = written'[v]
         /\ \A v \in DOMAIN written' \ DOMAIN versions' : Outdated(v)'
         /\ \A v \in DOMAIN written' \ DOMAIN versions', u \in DOMAIN versions' : v < u
         /\ ReaderInv'
BY DEF BooksInv, BooksTyped, PriceTypeOK, IsMap, Outdated, ReaderInv

\* A round of FetchOrderbook ends: only it has stored since it started.
LEMMA BooksFinish ==
  ASSUME BooksInv, FinishOrderbook
  PROVE  BooksInv'
<1> DEFINE b == PruneOutdatedData(versions)
           n == book.time
           data == book.got
<1>1. /\ book.on /\ Store(b, n, data) /\ book' = NoBook
      /\ UNCHANGED <<source, running, present, reader>>
  BY DEF FinishOrderbook, StorePrice
<1>2. source = "price" /\ n \in 1 .. present /\ \A w \in DOMAIN written : w < n
  BY <1>1 DEF BooksInv
<1>3. data \in SUBSET Exchanges
  BY DEF BooksInv, BooksTyped, Rounds
<1>4. DOMAIN versions \subseteq 1 .. MaxTick
  BY DEF BooksInv, BooksTyped, PriceTypeOK, IsMap
<1>5. /\ DOMAIN b \subseteq DOMAIN versions
      /\ \A t \in DOMAIN b : b[t] = versions[t]
      /\ \A t \in DOMAIN versions \ DOMAIN b :
           Cardinality(Later(versions, t)) >= MaxVersions - 1
      /\ \A t \in DOMAIN versions \ DOMAIN b, u \in DOMAIN b : t < u
  BY <1>4, PruneKeeps
<1> HIDE DEF b, n, data
<1>6. /\ IsMap(versions', 1 .. MaxTick, SUBSET Exchanges)
      /\ IsMap(written', 1 .. MaxTick, SUBSET Exchanges)
      /\ DOMAIN versions' \subseteq DOMAIN written'
      /\ \A w \in DOMAIN written' : w <= present
      /\ \A v \in DOMAIN versions' : versions'[v] = written'[v]
      /\ \A v \in DOMAIN written' \ DOMAIN versions' : Outdated(v)'
      /\ \A v \in DOMAIN written' \ DOMAIN versions', u \in DOMAIN versions' : v < u
      /\ ReaderInv'
  <2>1. CASE UNCHANGED <<versions, written>>
    BY <1>1, <2>1, StoreFailed
  <2>2. CASE versions' = Put(b, n, data) /\ written' = Put(written, n, data)
    BY <1>1, <1>2, <1>3, <1>5, <2>2, VersionStored
  <2> QED BY <1>1, <2>1, <2>2 DEF Store
<1>7. book' \in Rounds /\ ~book'.on /\ book'.todo \cap book'.got = {}
  BY <1>1 DEF NoBook, Rounds
<1>8. BooksTyped'
  BY <1>1, <1>6, <1>7 DEF BooksInv, BooksTyped, PriceTypeOK
<1> QED BY <1>1, <1>6, <1>7, <1>8 DEF BooksInv

\* A snapshot or the gold prices are stored at the present time.
LEMMA BooksSnapshot ==
  ASSUME BooksInv, FetchAuthSnapshot \/ FetchGlobalData
  PROVE  BooksInv'
<1>1. /\ source # "price" /\ present \notin DOMAIN written /\ Store(versions, present, {})
      /\ UNCHANGED <<source, running, present, book, reader>>
  BY DEF FetchAuthSnapshot, FetchGlobalData, StoreAuthSnapshot, StoreGoldInfo
<1>2. present \in 1 .. present /\ \A w \in DOMAIN written : w < present
  BY <1>1 DEF BooksInv, BooksTyped, PriceTypeOK, IsMap
<1>3. ~book.on /\ {} \in SUBSET Exchanges
  BY <1>1 DEF BooksInv
<1>6. /\ IsMap(versions', 1 .. MaxTick, SUBSET Exchanges)
      /\ IsMap(written', 1 .. MaxTick, SUBSET Exchanges)
      /\ DOMAIN versions' \subseteq DOMAIN written'
      /\ \A w \in DOMAIN written' : w <= present
      /\ \A v \in DOMAIN versions' : versions'[v] = written'[v]
      /\ \A v \in DOMAIN written' \ DOMAIN versions' : Outdated(v)'
      /\ \A v \in DOMAIN written' \ DOMAIN versions', u \in DOMAIN versions' : v < u
      /\ ReaderInv'
  <2>1. CASE UNCHANGED <<versions, written>>
    BY <1>1, <2>1, StoreFailed
  <2>2. CASE versions' = Put(versions, present, {}) /\ written' = Put(written, present, {})
    <3>1. DOMAIN versions \ DOMAIN versions = {}
      OBVIOUS
    <3> QED BY <1>1, <1>2, <1>3, <2>2, <3>1, VersionStored
  <2> QED BY <1>1, <2>1, <2>2 DEF Store
<1>8. BooksTyped'
  BY <1>1, <1>6 DEF BooksInv, BooksTyped, PriceTypeOK
<1> QED BY <1>1, <1>3, <1>6, <1>8 DEF BooksInv

\* Versions are stored under times.
LEMMA VersionTimes ==
  ASSUME BooksInv, NEW v \in DOMAIN versions
  PROVE  v \in Nat /\ v \in DOMAIN written
BY PriceDataAssumption DEF BooksInv, BooksTyped, PriceTypeOK, IsMap

\* Of the versions up to a time that are kept there is a newest one.
LEMMA NewestKept ==
  ASSUME NEW t \in Nat, DOMAIN versions \subseteq Nat, NEW w \in DOMAIN versions, w <= t
  PROVE  \E u \in {x \in DOMAIN versions : x <= t} : \A x \in DOMAIN versions : x <= t => x <= u
<1> DEFINE S == {x \in DOMAIN versions : x <= t}
           ends == {t - x : x \in S}
<1>1. ends \subseteq Nat /\ ends # {}
  <2>1. \A x \in S : t - x \in Nat
    OBVIOUS
  <2>2. w \in S
    OBVIOUS
  <2> QED BY <2>1, <2>2
<1>2. PICK n \in ends : \A m \in ends : n <= m
  <2>1. PICK n \in ends : \A m \in ends : ~ (<<m, n>> \in OpToRel(<, Nat))
    <3>1. IsWellFoundedOn(OpToRel(<, Nat), Nat)
      BY NatLessThanWellFounded
    <3> HIDE DEF ends
    <3> QED BY <1>1, <3>1, WFMin
  <2>2. \A m \in ends : n \in Nat /\ m \in Nat /\ ~ (m < n)
    BY <1>1, <2>1 DEF OpToRel
  <2> QED BY <2>2
<1>3. PICK u \in S : n = t - u
  OBVIOUS
<1>4. \A x \in S : t - u <= t - x
  BY <1>2, <1>3
<1>5. \A x \in S : x <= u
  BY <1>4
<1> QED BY <1>5

\* A reader finds the newest of the versions it might find, or none is kept.
LEMMA BooksAsk ==
  ASSUME BooksInv, UNCHANGED <<source, running, present, book, versions, written>>, NEW t \in Nat,
         NEW one \in BOOLEAN, NEW v \in IF reverseSeek(t, versions) = {} THEN {0} ELSE reverseSeek(t, versions),
         reader' = [NoReader EXCEPT !.pc = "asked", !.one = one, !.version = v,
                                    !.had = {w \in DOMAIN written : w <= t}]
  PROVE  BooksInv'
<1> DEFINE had == {w \in DOMAIN written : w <= t}
<1>0. /\ \A w \in DOMAIN written : w \in Nat /\ w # 0
      /\ DOMAIN versions \subseteq DOMAIN written
      /\ \A w \in DOMAIN written \ DOMAIN versions, u \in DOMAIN versions : w < u
  BY PriceDataAssumption DEF BooksInv, BooksTyped, PriceTypeOK, IsMap
<1>1. v \in Nat /\ had \in SUBSET Nat
  BY <1>0 DEF reverseSeek
<1>2. v # 0 => v \in had /\ \A w \in had : w <= v
  <2> SUFFICES ASSUME v # 0, NEW w \in had PROVE v \in had /\ w <= v
    BY <1>0 DEF reverseSeek
  <2>1. v \in DOMAIN versions /\ v <= t /\ \A u \in DOMAIN versions : u <= t => u <= v
    BY DEF reverseSeek
  <2>2. v \in had
    BY <1>0, <2>1
  <2>3. CASE w \in DOMAIN versions
    BY <2>1, <2>2, <2>3
  <2>4. CASE w \notin DOMAIN versions
    BY <1>0, <2>1, <2>4
  <2> QED BY <2>2, <2>3, <2>4
<1>3. v = 0 => had \cap DOMAIN versions = {}
  <2> SUFFICES ASSUME v = 0, NEW w \in had \cap DOMAIN versions PROVE FALSE
    OBVIOUS
  <2>1. reverseSeek(t, versions) = {}
    BY <1>0 DEF reverseSeek
  <2>2. {u \in DOMAIN versions : u <= t} \in SUBSET (0 .. t)
    BY <1>0
  <2>3. PICK u \in {x \in DOMAIN versions : x <= t} : \A x \in DOMAIN versions : x <= t => x <= u
    BY <1>0, NewestKept
  <2> QED BY <2>1, <2>3 DEF reverseSeek
<1>4. /\ reader' \in Readers /\ reader'.pc = "asked" /\ reader'.version = v /\ reader'.had = had
  BY <1>1 DEF NoReader, Readers
<1> HIDE DEF had
<1>5. BooksTyped'
  BY <1>4 DEF BooksInv, BooksTyped, PriceTypeOK, IsMap
<1>6. had \subseteq DOMAIN written
  BY DEF had
<1>7. ReaderInv'
  BY <1>2, <1>3, <1>4, <1>6 DEF ReaderInv
<1> QED BY <1>5, <1>7 DEF BooksInv, Outdated

\* A reader reads what is stored under its version if it is there.
LEMMA BooksRead ==
  ASSUME BooksInv, ReadVersion
  PROVE  BooksInv'
<1> DEFINE found == reader.version \in DOMAIN versions
           data  == IF found THEN versions[reader.version] ELSE {}
           pc    == IF reader.one /\ data = {} THEN "failed" ELSE IF found THEN "answered" ELSE "empty"
<1>1. /\ reader.pc = "asked" /\ UNCHANGED <<source, running, present, book, versions, written>>
      /\ reader' = [reader EXCEPT !.data = data, !.pc = pc]
  BY DEF ReadVersion
<1>2. /\ reader \in Readers /\ IsMap(versions, 1 .. MaxTick, SUBSET Exchanges) /\ ReaderInv
      /\ DOMAIN versions \subseteq DOMAIN written
      /\ \A w \in DOMAIN written : w \in Nat /\ w # 0
      /\ \A w \in DOMAIN written \ DOMAIN versions, u \in DOMAIN versions : w < u
      /\ \A u \in DOMAIN versions : versions[u] = written[u]
  BY PriceDataAssumption DEF BooksInv, BooksTyped, PriceTypeOK, IsMap
<1>3. found => /\ data = written[reader.version] /\ reader.version # 0
  BY <1>2
<1>4. ~found => reader.had \cap DOMAIN versions = {}
  <2> SUFFICES ASSUME ~found, NEW u \in reader.had \cap DOMAIN versions PROVE FALSE
    OBVIOUS
  <2>1. reader.version # 0 /\ reader.version \in reader.had /\ u <= reader.version
    BY <1>2 DEF ReaderInv
  <2>2. reader.version < u
    BY <1>2, <2>1 DEF ReaderInv
  <2> QED BY <1>2, <2>1, <2>2 DEF ReaderInv
<1>5. data \in SUBSET Exchanges
  BY <1>2 DEF IsMap
<1>6. /\ pc \in {"answered", "empty", "failed"} /\ (pc = "answered" => found)
      /\ (pc = "empty" => ~found) /\ (pc = "failed" => data = {})
  OBVIOUS
<1> HIDE DEF found, data, pc
<1>7. /\ reader' \in Readers /\ reader'.pc = pc /\ reader'.data = data
      /\ reader'.version = reader.version /\ reader'.had = reader.had
  BY <1>1, <1>2, <1>5, <1>6 DEF Readers
<1>8. BooksTyped'
  BY <1>1, <1>6, <1>7 DEF BooksInv, BooksTyped, PriceTypeOK, IsMap
<1>9. ReaderInv'
  BY <1>1, <1>2, <1>3, <1>4, <1>6, <1>7 DEF ReaderInv
<1> QED BY <1>1, <1>8, <1>9 DEF BooksInv, Outdated

\* A round starts or goes on.
LEMMA BooksRound ==
  ASSUME BooksInv, FetchOrderbook \/ \E e \in Exchanges : fetchPriceFromExchange(e)
  PROVE  BooksInv'
<1>1. UNCHANGED <<source, running, present, versions, written, reader>>
  BY DEF FetchOrderbook, fetchPriceFromExchange
<1>2. book' \in Rounds /\ book'.todo \cap book'.got = {}
  <2>1. CASE FetchOrderbook
    BY <2>1 DEF FetchOrderbook, Rounds, BooksInv, BooksTyped, PriceTypeOK
  <2>2. CASE \E e \in Exchanges : fetchPriceFromExchange(e)
    <3>0. PICK e \in Exchanges : fetchPriceFromExchange(e)
      BY <2>2
    <3>1. PICK answered \in {{}, {e}} :
            /\ e \in book.todo
            /\ book' = [book EXCEPT !.todo = @ \ {e}, !.got = @ \cup answered]
      BY <3>0 DEF fetchPriceFromExchange
    <3>2. book \in Rounds /\ book.todo \cap book.got = {}
      BY DEF BooksInv, BooksTyped, PriceTypeOK
    <3>3. book'.todo = book.todo \ {e} /\ book'.got = book.got \cup answered /\ book' \in Rounds
      BY <3>1, <3>2 DEF Rounds
    <3> QED BY <3>1, <3>2, <3>3
  <2> QED BY <2>1, <2>2
<1>3. book'.on => /\ source = "price" /\ book'.time \in 1 .. present
                  /\ \A w \in DOMAIN written : w < book'.time
  <2>1. CASE FetchOrderbook
    <3>1. source = "price" /\ present \notin DOMAIN written /\ book'.time = present
      BY <2>1 DEF FetchOrderbook
    <3> QED BY <3>1 DEF BooksInv, BooksTyped, PriceTypeOK, IsMap
  <2>2. CASE \E e \in Exchanges : fetchPriceFromExchange(e)
    <3>1. book'.on = book.on /\ book'.time = book.time
      BY <2>2 DEF fetchPriceFromExchange, BooksInv, BooksTyped, Rounds
    <3> QED BY <3>1 DEF BooksInv
  <2> QED BY <2>1, <2>2
<1>4. BooksTyped'
  BY <1>1, <1>2 DEF BooksInv, BooksTyped, PriceTypeOK, IsMap
<1> QED BY <1>1, <1>3, <1>4 DEF BooksInv, Outdated, ReaderInv

\* Every step of the versioned data keeps the invariant.
LEMMA BooksStep ==
  ASSUME BooksInv, [PriceNext]_priceVars
  PROVE  BooksInv'
<1>1. CASE UNCHANGED priceVars
  BY <1>1 DEF priceVars, BooksInv, BooksTyped, PriceTypeOK, IsMap, Outdated, ReaderInv
<1>2. CASE PriceTick
  <2>1. present' \in 1 .. MaxTick /\ present' = present + 1 /\ present \in Nat
        /\ UNCHANGED <<source, running, book, versions, written, reader>>
    BY <1>2, PriceDataAssumption DEF PriceTick, BooksInv, BooksTyped, PriceTypeOK
  <2>2. BooksTyped'
    BY <2>1 DEF BooksInv, BooksTyped, PriceTypeOK, IsMap
  <2>3. \A w \in DOMAIN written' : w <= present'
    BY <2>1 DEF BooksInv, BooksTyped, IsMap
  <2>4. book'.on => /\ source' = "price" /\ book'.time \in 1 .. present'
                    /\ \A w \in DOMAIN written' : w < book'.time
    BY <2>1 DEF BooksInv
  <2> QED BY <2>1, <2>2, <2>3, <2>4 DEF BooksInv, Outdated, ReaderInv
<1>3. CASE StopFetcher
  BY <1>3 DEF StopFetcher, BooksInv, BooksTyped, PriceTypeOK, IsMap, Outdated, ReaderInv
<1>4. CASE FetchOrderbook \/ \E e \in Exchanges : fetchPriceFromExchange(e)
  BY <1>4, BooksRound
<1>5. CASE FinishOrderbook
  BY <1>5, BooksFinish
<1>6. CASE FetchAuthSnapshot \/ FetchGlobalData
  BY <1>6, BooksSnapshot
<1>7. CASE \E t \in 1 .. MaxTick \cup {NoTime} :
             AllPrices(t) \/ Price(t) \/ AuthData(t) \/ GetGoldData(t)
  <2>1. PICK s \in 1 .. MaxTick \cup {NoTime} :
          AllPrices(s) \/ Price(s) \/ AuthData(s) \/ GetGoldData(s)
    BY <1>7
  <2> DEFINE t == getTimePoint(s)
  <2>2. t \in Nat
    BY PriceDataAssumption DEF getTimePoint
  <2>3. \E k \in {"price", "auth", "gold"}, one \in BOOLEAN : Ask(k, t, reverseSeek(t, versions), one)
    BY <2>1 DEF AllPrices, Price, AuthData, GetGoldData, CurrentPriceVersion,
                CurrentAuthDataVersion, CurrentGoldInfoVersion
  <2> HIDE DEF t
  <2>4. PICK k \in {"price", "auth", "gold"}, one \in BOOLEAN : Ask(k, t, reverseSeek(t, versions), one)
    BY <2>3
  <2>5. UNCHANGED <<source, running, present, book, versions, written>>
    BY <2>4 DEF Ask
  <2>6. PICK v \in IF reverseSeek(t, versions) = {} THEN {0} ELSE reverseSeek(t, versions) :
          reader' = [NoReader EXCEPT !.pc = "asked", !.one = one, !.version = v,
                                     !.had = {w \in DOMAIN written : w <= t}]
    BY <2>4 DEF Ask
  <2> QED BY <2>2, <2>5, <2>6, BooksAsk
<1>8. CASE ReadVersion
  BY <1>8, BooksRead
<1> QED BY <1>1, <1>2, <1>3, <1>4, <1>5, <1>6, <1>7, <1>8 DEF PriceNext

\* No version is stored at first.
LEMMA BooksInvInit == PriceInit => BooksInv
BY PriceDataAssumption DEF PriceInit, BooksInv, BooksTyped, ReaderInv, PriceTypeOK, IsMap, NoBook, NoReader,
   Rounds, Readers

\* What the invariant says of the readers.
LEMMA BooksInvImplies == BooksInv => PriceTypeOK /\ VersionsReadable
<1> SUFFICES ASSUME BooksInv PROVE VersionsReadable
  BY DEF BooksInv, BooksTyped
<1>1. ReaderInv /\ \A v \in DOMAIN written \ DOMAIN versions : Outdated(v)
  BY DEF BooksInv
<1>2. reader.had \cap DOMAIN versions = {} => \A v \in reader.had : Outdated(v)
  BY <1>1 DEF ReaderInv
<1> QED BY <1>1, <1>2 DEF ReaderInv, Outdated, VersionsReadable
------------------------------------------------------------------------------
\* Calls keep what they sent, and signatures are only added.
Signed ==
  /\ \A d \in Calls : call'[d].data = call[d].data /\ signer[d] \subseteq signer'[d]

\* Then whoever has sent a value still has.
LEMMA SentGrows ==
  ASSUME Signed, NEW data
  PROVE  /\ SentWith(data, "Configure") \subseteq SentWith(data, "Configure")'
         /\ SentWith(data, "ConfirmConf") \subseteq SentWith(data, "ConfirmConf")'
         /\ TwoCalls(data) => TwoCalls(data)'
<1>1. /\ SentWith(data, "Configure") \subseteq SentWith(data, "Configure")'
      /\ SentWith(data, "ConfirmConf") \subseteq SentWith(data, "ConfirmConf")'
  BY DEF Signed, SentWith
<1> QED BY <1>1 DEF TwoCalls

\* The first transaction of a call, signed with the key of r.
LEMMA FirstSigned ==
  ASSUME TypeOK, KeysInv, NEW c \in Calls, NEW r \in Requests, call[c].pc = "new",
         NEW pc \in {"compared", "stored", "done"}, Advance(c, pc), Sign(c, r)
  PROVE  /\ Signed
         /\ signer' \in [Calls -> SUBSET Permissions]
         /\ \A d \in Calls : call'[d].pc = "new" => signer'[d] = {}
         /\ signer[c] = {} /\ signer'[c] = GetPermission(r.key)
         /\ call'[c].data = call[c].data /\ call'[c].pc = pc
         /\ \A d \in Calls : d # c => call'[d] = call[d]
<1>1. /\ call' \in [Calls -> [pc : {"new", "compared", "stored", "done"}, data : Values]]
      /\ call'[c].pc = pc
      /\ \A d \in Calls : d # c => call'[d] = call[d]
  BY AdvanceIsUpdate
<1>2. call'[c].data = call[c].data
  BY DEF TypeOK, Advance
<1>3. GetPermission(r.key) \in SUBSET Permissions
  BY DEF GetPermission
<1>4. /\ signer' \in [Calls -> SUBSET Permissions]
      /\ signer[c] = {} /\ signer'[c] = GetPermission(r.key)
      /\ \A d \in Calls : d # c => signer'[d] = signer[d]
  BY <1>3 DEF KeysInv, Sign
<1> QED BY <1>1, <1>2, <1>4 DEF KeysInv, Signed

\* What has to be shown of such a step when the server asks for signatures.
LEMMA KeysAfter ==
  ASSUME KeysInv, Signed, kind' = kind, signer' \in [Calls -> SUBSET Permissions],
         \A d \in Calls : call'[d].pc = "new" => signer'[d] = {},
         AuthEnabled =>
           /\ \A p \in pending' : p \in pending \/ SentWith(p.data, "Configure")' # {}
           /\ \A p \in confirmed' : \/ p \in confirmed
                                    \/ kind = "stable" /\ p.data = EmptyValue
                                    \/ TwoCalls(p.data)'
           /\ \A d \in Calls : call'[d].pc = "compared" =>
                \/ call[d].pc = "compared"
                \/ call'[d].data = EmptyValue
                \/ TwoCalls(call[d].data)'
  PROVE  KeysInv'
<1> SUFFICES ASSUME AuthEnabled
             PROVE  /\ \A p \in pending' : SentWith(p.data, "Configure")' # {}
                    /\ \A p \in confirmed' : \/ kind' = "stable" /\ p.data = EmptyValue
                                             \/ TwoCalls(p.data)'
                    /\ \A c \in Calls : call'[c].pc = "compared" =>
                         call'[c].data = EmptyValue \/ TwoCalls(call[c].data)'
  BY DEF KeysInv
<1>1. \A p \in pending' : SentWith(p.data, "Configure")' # {}
  BY SentGrows DEF KeysInv
<1>2. ASSUME NEW p \in confirmed'
      PROVE  (kind' = "stable" /\ p.data = EmptyValue) \/ TwoCalls(p.data)'
  BY SentGrows DEF KeysInv
<1>3. ASSUME NEW c \in Calls, call'[c].pc = "compared"
      PROVE  call'[c].data = EmptyValue \/ TwoCalls(call[c].data)'
  BY <1>3, SentGrows DEF KeysInv, Signed
<1> QED BY <1>1, <1>2, <1>3
\* A transaction that fails ends its call and stores nothing.
LEMMA KeysFailed ==
  ASSUME TypeOK, KeysInv, NEW c \in Calls, NEW r \in Requests, call[c].pc = "new",
         Advance(c, "done"), Sign(c, r), UNCHANGED kind,
         pending' \subseteq pending, confirmed' \subseteq confirmed
  PROVE  KeysInv'
<1>1. /\ Signed
      /\ signer' \in [Calls -> SUBSET Permissions]
      /\ \A d \in Calls : call'[d].pc = "new" => signer'[d] = {}
      /\ call'[c].pc = "done" /\ \A d \in Calls : d # c => call'[d] = call[d]
  BY FirstSigned
<1>2. \A d \in Calls : call'[d].pc = "compared" => call[d].pc = "compared"
  BY <1>1
<1> QED BY <1>1, <1>2, KeysAfter

\* A key that may configure proposes.
LEMMA KeysPropose ==
  ASSUME TypeOK, KeysInv, NEW c \in Calls, NEW r \in Requests, Authenticated(r, {"Configure"}),
         Transaction(c, "new", StorePending(c)), Sign(c, r)
  PROVE  KeysInv'
<1>1. call[c].pc = "new" /\ Advance(c, "done") /\ UNCHANGED <<kind, confirmed>>
  BY DEF Transaction, StorePending
<1>2. CASE pending' = pending
  BY <1>1, <1>2, KeysFailed
<1>3. CASE pending' = {[id |-> Id, data |-> call[c].data]}
  <2>1. /\ Signed
        /\ signer' \in [Calls -> SUBSET Permissions]
        /\ \A d \in Calls : call'[d].pc = "new" => signer'[d] = {}
        /\ signer'[c] = GetPermission(r.key) /\ call'[c].data = call[c].data
        /\ call'[c].pc = "done" /\ \A d \in Calls : d # c => call'[d] = call[d]
    BY <1>1, FirstSigned
  <2>2. \A d \in Calls : call'[d].pc = "compared" => call[d].pc = "compared"
    BY <2>1
  <2>3. AuthEnabled => c \in SentWith(call[c].data, "Configure")'
    BY <2>1 DEF Authenticated, eligible, SentWith
  <2>4. AuthEnabled => \A p \in pending' : SentWith(p.data, "Configure")' # {}
    <3> SUFFICES ASSUME AuthEnabled, NEW p \in pending'
                 PROVE  SentWith(p.data, "Configure")' # {}
      OBVIOUS
    <3>1. p.data = call'[c].data
      BY <1>3, <2>1
    <3> QED BY <2>1, <2>3, <3>1 DEF SentWith
  <2> QED BY <1>1, <2>1, <2>2, <2>4, KeysAfter
<1> QED BY <1>2, <1>3 DEF Transaction, StorePending

\* A key that may confirm rejects.
LEMMA KeysReject ==
  ASSUME TypeOK, KeysInv, NEW c \in Calls, NEW r \in Requests,
         Transaction(c, "new", RemovePending(c)), Sign(c, r)
  PROVE  KeysInv'
<1>1. /\ call[c].pc = "new" /\ Advance(c, "done") /\ UNCHANGED <<kind, confirmed>>
      /\ pending' \subseteq pending
  BY DEF Transaction, RemovePending
<1> QED BY <1>1, KeysFailed

\* The call c has just been signed with a key that may confirm, and somebody
\* who may configure sent the same data before.
LEMMA SecondKey ==
  ASSUME TypeOK, KeysInv, AuthEnabled, NEW c \in Calls, NEW r \in Requests, call[c].pc = "new",
         Authenticated(r, {"ConfirmConf"}), NEW pc \in {"compared", "stored", "done"},
         Advance(c, pc), Sign(c, r), NEW p \in pending, p.data = call[c].data
  PROVE  TwoCalls(p.data)'
<1>1. /\ Signed /\ signer[c] = {} /\ signer'[c] = GetPermission(r.key)
      /\ call'[c].data = call[c].data
  BY FirstSigned
<1>2. PICK d \in SentWith(p.data, "Configure") : TRUE
  BY DEF KeysInv
<1>3. d # c /\ d \in SentWith(p.data, "Configure")'
  BY <1>1, <1>2, SentGrows DEF SentWith
<1>4. c \in SentWith(p.data, "ConfirmConf")'
  BY <1>1 DEF Authenticated, eligible, SentWith
<1> QED BY <1>3, <1>4 DEF TwoCalls

\* The target quantity and the equation are stored when they match.
LEMMA KeysConfirm ==
  ASSUME TypeOK, KeysInv, NEW c \in Calls, NEW r \in Requests, Authenticated(r, {"ConfirmConf"}),
         NEW match, \A p \in match : p \in pending /\ p.data = call[c].data,
         Transaction(c, "new", Confirm(c, match)), Sign(c, r)
  PROVE  KeysInv'
<1>1. call[c].pc = "new" /\ UNCHANGED <<kind, pending>>
  BY DEF Transaction, Confirm
<1>2. CASE Advance(c, "done") /\ UNCHANGED confirmed
  BY <1>1, <1>2, KeysFailed
<1>3. CASE Advance(c, "stored") /\ confirmed' = match
  <2>1. /\ Signed
        /\ signer' \in [Calls -> SUBSET Permissions]
        /\ \A d \in Calls : call'[d].pc = "new" => signer'[d] = {}
        /\ call'[c].pc = "stored" /\ \A d \in Calls : d # c => call'[d] = call[d]
    BY <1>1, <1>3, FirstSigned
  <2>2. \A d \in Calls : call'[d].pc = "compared" => call[d].pc = "compared"
    BY <2>1
  <2>3. AuthEnabled => \A p \in confirmed' : TwoCalls(p.data)'
    BY <1>1, <1>3, SecondKey
  <2> QED BY <1>1, <2>1, <2>2, <2>3, KeysAfter
<1> QED BY <1>2, <1>3 DEF Transaction, Confirm

\* The stable token parameters are compared, with the empty map if none are
\* pending.
LEMMA KeysCompare ==
  ASSUME TypeOK, KeysInv, NEW c \in Calls, NEW r \in Requests, Authenticated(r, {"ConfirmConf"}),
         CompareParams(c), Sign(c, r)
  PROVE  KeysInv'
<1>1. call[c].pc = "new" /\ UNCHANGED <<kind, pending, confirmed>>
  BY DEF CompareParams
<1>2. CASE Advance(c, "done")
  BY <1>1, <1>2, KeysFailed
<1>3. CASE Advance(c, "compared") /\ PendingParams = {call[c].data}
  <2>1. /\ Signed
        /\ signer' \in [Calls -> SUBSET Permissions]
        /\ \A d \in Calls : call'[d].pc = "new" => signer'[d] = {}
        /\ call'[c].data = call[c].data
        /\ \A d \in Calls : d # c => call'[d] = call[d]
    BY <1>1, <1>3, FirstSigned
  <2>2. ASSUME AuthEnabled
        PROVE  call'[c].data = EmptyValue \/ TwoCalls(call[c].data)'
    <3>1. CASE pending = {}
      BY <1>3, <2>1, <3>1 DEF PendingParams
    <3>2. CASE pending # {}
      <4>1. PICK p \in pending : p.data = call[c].data
        BY <1>3, <3>2 DEF PendingParams
      <4>2. TwoCalls(p.data)'
        BY <1>1, <1>3, <2>2, <4>1, SecondKey
      <4> QED BY <2>1, <4>1, <4>2
    <3> QED BY <3>1, <3>2
  <2>3. AuthEnabled => \A d \in Calls : call'[d].pc = "compared" =>
          \/ call[d].pc = "compared" \/ call'[d].data = EmptyValue \/ TwoCalls(call[d].data)'
    BY <2>1, <2>2
  <2> QED BY <1>1, <2>1, <2>3, KeysAfter
<1> QED BY <1>2, <1>3 DEF CompareParams

\* The later transactions of a call, and what needs no call: no signature is
\* added, and only compared parameters are put in force.
LEMMA KeysLater ==
  ASSUME SettingsInv, KeysInv, UNCHANGED signer,
         \/ \E c \in Calls : PutParams(c) \/ FinishConfirm(c)
         \/ Tick \/ Crash \/ UNCHANGED vars
  PROVE  KeysInv'
<1>0. TypeOK
  BY DEF SettingsInv
<1>1. ASSUME \A d \in Calls : /\ call'[d].data = call[d].data
                              /\ call'[d].pc = "new" => call[d].pc = "new"
                              /\ call'[d].pc = "compared" => call[d].pc = "compared",
             kind' = kind, pending' \subseteq pending,
             \A p \in confirmed' : \/ p \in confirmed
                                   \/ /\ kind = "stable"
                                      /\ \E c \in Calls : call[c].pc = "compared"
                                                          /\ p.data = call[c].data
      PROVE  KeysInv'
  <2>1. /\ Signed /\ signer' \in [Calls -> SUBSET Permissions]
        /\ \A d \in Calls : call'[d].pc = "new" => signer'[d] = {}
    BY <1>1 DEF KeysInv, Signed
  <2>2. AuthEnabled => \A p \in confirmed' : \/ p \in confirmed
                                             \/ kind = "stable" /\ p.data = EmptyValue
                                             \/ TwoCalls(p.data)'
    <3> SUFFICES ASSUME AuthEnabled, NEW p \in confirmed', p \notin confirmed,
                        p.data # EmptyValue
                 PROVE  TwoCalls(p.data)'
      BY <1>1
    <3>1. TwoCalls(p.data)
      BY <1>1 DEF KeysInv
    <3> QED BY <2>1, <3>1, SentGrows
  <2> QED BY <1>1, <2>1, <2>2, KeysAfter
<1>2. CASE Tick
  BY <1>1, <1>2 DEF Tick
<1>3. CASE UNCHANGED vars
  BY <1>1, <1>3 DEF vars
<1>4. CASE Crash
  <2>1. /\ UNCHANGED <<kind, pending, confirmed>>
        /\ call' = [c \in Calls |-> IF call[c].pc = "new" THEN call[c]
                                                         ELSE [call[c] EXCEPT !.pc = "done"]]
    BY <1>4 DEF Crash
  <2>2. \A d \in Calls : /\ call'[d].data = call[d].data
                         /\ call'[d].pc = "new" => call[d].pc = "new"
                         /\ call'[d].pc = "compared" => call[d].pc = "compared"
    BY <1>0, <2>1 DEF TypeOK
  <2> QED BY <1>1, <2>1, <2>2
<1>5. ASSUME NEW c \in Calls, PutParams(c) \/ FinishConfirm(c)
      PROVE  KeysInv'
  <2>1. PICK pc \in {"stored", "done"} : Advance(c, pc)
    BY <1>5 DEF PutParams, FinishConfirm, Transaction, RemovePending
  <2>2. /\ call'[c].pc = pc /\ \A d \in Calls : d # c => call'[d] = call[d]
        /\ call'[c].data = call[c].data
    BY <1>0, <2>1, AdvanceIsUpdate DEF TypeOK, Advance
  <2>3. \A d \in Calls : /\ call'[d].data = call[d].data
                         /\ call'[d].pc = "new" => call[d].pc = "new"
                         /\ call'[d].pc = "compared" => call[d].pc = "compared"
    BY <2>2
  <2>4. kind' = kind /\ pending' \subseteq pending
    BY <1>5 DEF PutParams, FinishConfirm, Transaction, RemovePending
  <2>5. \A p \in confirmed' : \/ p \in confirmed
                              \/ /\ kind = "stable"
                                 /\ call[c].pc = "compared" /\ p.data = call[c].data
    BY <1>5 DEF PutParams, FinishConfirm, Transaction, RemovePending, SettingsInv, Keeps
  <2> QED BY <1>1, <2>3, <2>4, <2>5
<1> QED BY <1>2, <1>3, <1>4, <1>5

\* Every step of the settings keeps the invariant.
LEMMA KeysStep ==
  ASSUME SettingsInv, KeysInv, [SettingsNext]_settingsVars
  PROVE  KeysInv'
<1>0. TypeOK
  BY DEF SettingsInv
<1>1. ASSUME NEW c \in Calls, NEW r \in Requests,
             \/ SetTargetQtyHandler(c, r) \/ SetPWIEquationHandler(c, r)
             \/ SetStableTokenParamsHandler(c, r)
      PROVE  KeysInv'
  BY <1>0, <1>1, KeysPropose DEF SetTargetQtyHandler, SetPWIEquationHandler,
     SetStableTokenParamsHandler, Propose, SetTargetQty, SetPWIEquation, SetStableTokenParams
<1>2. ASSUME NEW c \in Calls, NEW r \in Requests,
             \/ CancelTargetQtyHandler(c, r) \/ RejectPWIEquationHandler(c, r)
             \/ RejectStableTokenParamsHandler(c, r)
      PROVE  KeysInv'
  BY <1>0, <1>2, KeysReject DEF CancelTargetQtyHandler, RejectPWIEquationHandler,
     RejectStableTokenParamsHandler, Decide, CancelTargetQty, RejectPWIEquation,
     RejectStableTokenParams
<1>3. ASSUME NEW c \in Calls, NEW r \in Requests, ConfirmTargetQtyHandler(c, r)
      PROVE  KeysInv'
  <2>1. PICK id \in 1 .. MaxClock :
          Transaction(c, "new", Confirm(c, pending \cap {[id |-> id, data |-> call[c].data]}))
    BY <1>3 DEF ConfirmTargetQtyHandler, Decide, ConfirmTargetQty
  <2>2. Authenticated(r, {"ConfirmConf"}) /\ Sign(c, r)
    BY <1>3 DEF ConfirmTargetQtyHandler, Decide
  <2> DEFINE match == pending \cap {[id |-> id, data |-> call[c].data]}
  <2>3. \A p \in match : p \in pending /\ p.data = call[c].data
    OBVIOUS
  <2>4. Transaction(c, "new", Confirm(c, match))
    BY <2>1
  <2> HIDE DEF match
  <2> QED BY <1>0, <2>2, <2>3, <2>4, KeysConfirm
<1>4. ASSUME NEW c \in Calls, NEW r \in Requests, ConfirmPWIEquationHandler(c, r)
      PROVE  KeysInv'
  <2> DEFINE match == {p \in pending : p.data = call[c].data}
  <2>1. /\ Authenticated(r, {"ConfirmConf"}) /\ Sign(c, r)
        /\ Transaction(c, "new", Confirm(c, match))
    BY <1>4 DEF ConfirmPWIEquationHandler, Decide, ConfirmPWIEquation
  <2>2. \A p \in match : p \in pending /\ p.data = call[c].data
    OBVIOUS
  <2> HIDE DEF match
  <2> QED BY <1>0, <2>1, <2>2, KeysConfirm
<1>5. ASSUME NEW c \in Calls, NEW r \in Requests, ConfirmStableTokenParamsHandler(c, r)
      PROVE  KeysInv'
  BY <1>0, <1>5, KeysCompare DEF ConfirmStableTokenParamsHandler, Decide
<1>6. CASE \/ \E c \in Calls : (PutParams(c) \/ FinishConfirm(c)) /\ UNCHANGED signer
           \/ (Tick \/ Crash) /\ UNCHANGED signer
           \/ UNCHANGED settingsVars
  BY <1>6, KeysLater DEF settingsVars
<1> QED BY <1>1, <1>2, <1>3, <1>4, <1>5, <1>6 DEF SettingsNext

\* Nothing is signed, pending or in force at first.
LEMMA KeysInvInit == Init /\ signer = Unsigned => KeysInv
BY DEF Init, Unsigned, KeysInv

\* What the invariant says of the answers.
LEMMA KeysInvImplies == KeysInv => TwoKeys
<1> SUFFICES ASSUME KeysInv, AuthEnabled, NEW r \in Requests
             PROVE  /\ \A data \in GetPWIEquation(r)
                                     \cup ((GetTargetQty(r) \cup GetStableTokenParams(r)) \ {EmptyValue}) :
                         TwoCalls(data)
                    /\ \A data \in GetPendingPWIEquation(r)
                                     \cup ((GetPendingTargetQty(r) \cup GetPendingStableTokenParams(r)) \ {EmptyValue}) :
                         SentWith(data, "Configure") # {}
  BY DEF TwoKeys, TwoCalls
<1>1. ASSUME NEW data \in GetPWIEquation(r)
                            \cup ((GetTargetQty(r) \cup GetStableTokenParams(r)) \ {EmptyValue})
      PROVE  TwoCalls(data)
  <2>1. \E p \in confirmed : p.data = data /\ (kind # "stable" \/ data # EmptyValue)
    BY <1>1 DEF GetTargetQty, GetPWIEquation, GetStableTokenParams, DataOf, DataOrEmptyOf, Answer
  <2> QED BY <2>1 DEF KeysInv
<1>2. ASSUME NEW data \in GetPendingPWIEquation(r)
                            \cup ((GetPendingTargetQty(r) \cup GetPendingStableTokenParams(r)) \ {EmptyValue})
      PROVE  SentWith(data, "Configure") # {}
  <2>1. \E p \in pending : p.data = data
    BY <1>2 DEF GetPendingTargetQty, GetPendingPWIEquation, GetPendingStableTokenParams,
                DataOf, DataOrEmptyOf, Answer
  <2> QED BY <2>1 DEF KeysInv
<1> QED BY <1>1, <1>2
------------------------------------------------------------------------------
(***************************************************************************)
(* The services together: a step of one leaves the variables of the others *)
(* alone, and a handler adds to a step of Settings or Users only who may   *)
(* ask for it.                                                             *)
(***************************************************************************)
LEMMA PartsStep ==
  ASSUME [ServicesNext]_servicesVars
  PROVE  /\ [SettingsNext]_settingsVars /\ [UsersStep]_usersVars
         /\ [AnalyticsNext]_anaVars /\ [PriceNext]_priceVars /\ [ControlNext]_controlVars
BY DEF ServicesNext, servicesVars, SettingsPart, UsersPart, AnalyticsPart, PricePart, ControlPart

LEMMA SettingsPartStep == [SettingsNext]_settingsVars => [Next]_vars
BY DEF SettingsNext, settingsVars, Next, Handler, Propose, Decide, SetTargetQtyHandler,
       ConfirmTargetQtyHandler, CancelTargetQtyHandler, SetPWIEquationHandler,
       ConfirmPWIEquationHandler, RejectPWIEquationHandler, SetStableTokenParamsHandler,
       ConfirmStableTokenParamsHandler, RejectStableTokenParamsHandler

LEMMA UsersPartStep == [UsersStep]_usersVars => [UsersNext]_usersVars
BY DEF UsersStep, UsersNext, UpdateUserAddressesHandler

\* Behind the server the settings behave as their own specification says, so
\* what SettingsProofs proves of it holds here.
THEOREM ServicesRunSettings == ServicesSpec => Spec
<1>1. [ServicesNext]_servicesVars => [Next]_vars
  BY PartsStep, SettingsPartStep
<1>2. ServicesInit => Init
  BY DEF ServicesInit
<1> QED BY <1>1, <1>2, PTL DEF ServicesSpec, Spec

\* And so do the users and their categories, of which UsersProofs speaks.
THEOREM ServicesRunUsers == ServicesSpec => UsersSpec
<1>1. [ServicesNext]_servicesVars => [UsersNext]_usersVars
  BY PartsStep, UsersPartStep
<1>2. ServicesInit => UsersInit
  BY DEF ServicesInit
<1> QED BY <1>1, <1>2, PTL DEF ServicesSpec, UsersSpec

\* The invariants of the parts hold in every reachable state.
LEMMA ServicesInvHolds ==
  ServicesSpec => [](SettingsInv /\ UsersInv /\ KeysInv /\ RecordsInv /\ BooksInv /\ ControlInv)
<1>1. ServicesInit => KeysInv /\ RecordsInv /\ BooksInv /\ ControlInv
  BY KeysInvInit, RecordsInvInit, BooksInvInit, ControlInvInit DEF ServicesInit
<1>2. SettingsInv /\ KeysInv /\ [ServicesNext]_servicesVars => KeysInv'
  BY PartsStep, KeysStep
<1>3. RecordsInv /\ [ServicesNext]_servicesVars => RecordsInv'
  BY PartsStep, RecordsStep
<1>4. BooksInv /\ [ServicesNext]_servicesVars => BooksInv'
  BY PartsStep, BooksStep
<1>5. ControlInv /\ [ServicesNext]_servicesVars => ControlInv'
  BY PartsStep, ControlStep
<1> QED BY <1>1, <1>2, <1>3, <1>4, <1>5, ServicesRunSettings, ServicesRunUsers,
           SettingsInvHolds, UsersInvHolds, PTL DEF ServicesSpec

(***************************************************************************)
(* Every variable of the services keeps its type, whatever is requested.   *)
(***************************************************************************)
THEOREM ServicesTyped == ServicesSpec => []ServicesTypeOK
<1>1. SettingsInv /\ UsersInv /\ RecordsInv /\ BooksInv /\ ControlInv => ServicesTypeOK
  BY BooksInvImplies, ControlInvImplies DEF SettingsInv, UsersInv, RecordsInv, ServicesTypeOK
<1> QED BY <1>1, ServicesInvHolds, PTL

(***************************************************************************)
(* A setting that is served as in force took a key that may configure and  *)
(* another call with one that may confirm; the calls' steps (the stable    *)
(* token parameters are compared in one transaction and stored in another) *)
(* may overlap and be cut off.                                             *)
(***************************************************************************)
THEOREM SettingsTakeTwoKeys == ServicesSpec => []TwoKeys
BY KeysInvImplies, ServicesInvHolds, PTL

(***************************************************************************)
(* No step of the analytic storage or of its export job loses a record,    *)
(* wherever the process dies between the file, the upload, its check and   *)
(* the removal.                                                            *)
(***************************************************************************)
THEOREM RecordsNeverLost == ServicesSpec => NoRecordLost
<1>1. ASSUME RecordsInv, RecordsInv', [ServicesNext]_servicesVars
      PROVE  [Held \subseteq Held']_anaVars
  <2>1. NothingLost
    BY <1>1, PartsStep, RecordsStep
  <2>2. ServedReadable
    BY <1>1, ServedIsReadable
  <2>3. ServedReadable'
    BY <1>1, ServedIsReadable, PTL
  <2> QED BY <2>1, <2>2, <2>3, NothingLostHeld
<1> QED BY <1>1, ServicesInvHolds, PTL DEF ServicesSpec, NoRecordLost

(***************************************************************************)
(* A version that CurrentPriceVersion or CurrentRateVersion answered can   *)
(* be read as it was stored, or enough newer ones have pruned it.          *)
(***************************************************************************)
THEOREM VersionsAlwaysReadable == ServicesSpec => []VersionsReadable
BY BooksInvImplies, ServicesInvHolds, PTL

(***************************************************************************)
(* The rebalance and set-rates switches say what was stored last.          *)
(***************************************************************************)
THEOREM FlagAlwaysLastStored == ServicesSpec => []FlagIsLastStored
BY ControlInvImplies, ServicesInvHolds, PTL

(***************************************************************************)
(* Until two changes of the exchanges' statuses overlap, a status stays as *)
(* it was last set, through restarts; and a started program knows the      *)
(* status of every exchange, even when changes overlap.                    *)
(***************************************************************************)
THEOREM StatusAlwaysKept == ServicesSpec => []StatusKept
BY ControlInvImplies, ServicesInvHolds, PTL
=============================================================================
