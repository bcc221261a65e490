------------------------------ MODULE Settings ------------------------------
(***************************************************************************)
(* The settings that one key proposes and another confirms: the target     *)
(* quantities, the PWI equation and the stable token parameters of         *)
(* data/storage/bolt.go, with the HTTP handlers that call them.  Handlers  *)
(* run concurrently and every bolt transaction is one step.  A confirm     *)
(* call takes several: the value is stored in one, and the pending entry   *)
(* is removed in another, which takes the last entry, whichever it is.     *)
(*                                                                         *)
(* kind is the setting this behaviour is about; the three do not interact. *)
(* An entry carries the millisecond at which it was proposed; the stable   *)
(* token parameters live under the fixed key 1 and have no such id.        *)
(***************************************************************************)
EXTENDS Naturals, FiniteSets

CONSTANTS Kinds,       \* the settings, of "target", "pwi", "stable"
          Calls,       \* the HTTP requests
          Values,      \* the values clients send
          EmptyValue,  \* the empty map, what a missing record is read as
          MaxClock,    \* bound: milliseconds
          Faults       \* of "disk", "crash"

ASSUME SettingsAssumption ==
  /\ Kinds \subseteq {"target", "pwi", "stable"}
  /\ Faults \subseteq {"disk", "crash"}
  /\ MaxClock \in Nat \ {0}

VARIABLES kind,        \* the setting
          clock,       \* the present millisecond
          pending,     \* the pending bucket, a set of entries
          confirmed,   \* the newest entry of the confirmed bucket, if any
          call         \* call[c]: how far request c is, and the value it sent

vars == <<kind, clock, pending, confirmed, call>>

Proposals == [id : 1 .. MaxClock, data : Values]

TypeOK ==
  /\ kind \in Kinds
  /\ clock \in 1 .. MaxClock
  /\ pending \subseteq Proposals
  /\ \A p, q \in pending : p = q
  /\ confirmed \subseteq Proposals
  /\ \A p, q \in confirmed : p = q
  /\ call \in [Calls -> [pc : {"new", "compared", "stored", "done"}, data : Values]]

Init ==
  /\ kind \in Kinds
  /\ clock = 1
  /\ pending = {}
  /\ confirmed = {}
  /\ call \in [Calls -> [pc : {"new"}, data : Values]]

Tick ==
  /\ clock < MaxClock
  /\ clock' = clock + 1
  /\ UNCHANGED <<kind, pending, confirmed, call>>

------------------------------------------------------------------------------
Advance(c, pc) == call' = [call EXCEPT ![c].pc = pc]

\* The key under which a call of this millisecond stores.
Id == IF kind = "stable" THEN 1 ELSE clock

\* Mutant of StorePending: no test for another pending entry.
StoreAnotherPending(c) ==
  /\ Advance(c, "done")
  /\ pending' = pending \cup {[id |-> Id, data |-> call[c].data]}
  /\ UNCHANGED confirmed

\* StorePendingTargetQty, StorePendingPWIEquation, SetStableTokenParams: test
\* and put in one transaction.
StorePending(c) ==
  /\ Advance(c, "done")
  /\ pending' = IF pending = {} THEN {[id |-> Id, data |-> call[c].data]} ELSE pending
  /\ UNCHANGED confirmed

\* The last entry is deleted; an error when there is none.
RemovePending(c) ==
  /\ Advance(c, "done")
  /\ pending' = {p \in pending : \E q \in pending : q.id > p.id}
  /\ UNCHANGED confirmed

\* Mutant of Confirm: the comparison and the put are separate transactions.
ConfirmLater(c, match) ==
  /\ IF match # {} THEN Advance(c, "compared") ELSE Advance(c, "done")
  /\ UNCHANGED <<pending, confirmed>>

\* The first transaction of StoreTokenTargetQty and StorePWIEquation: the
\* pending entry that matches the request is put into the confirmed bucket.
Confirm(c, match) ==
  /\ IF match # {} THEN Advance(c, "stored") /\ confirmed' = match
                   ELSE Advance(c, "done") /\ UNCHANGED confirmed
  /\ UNCHANGED pending

\* A transaction of request c, which may fail and then ends the request.
Transaction(c, pc, step) ==
  /\ call[c].pc = pc
  /\ \/ step
     \/ /\ "disk" \in Faults
        /\ Advance(c, "done")
        /\ UNCHANGED <<pending, confirmed>>
  /\ UNCHANGED <<kind, clock>>

------------------------------------------------------------------------------
SetTargetQty(c)    == kind = "target" /\ Transaction(c, "new", StorePending(c))
CancelTargetQty(c) == kind = "target" /\ Transaction(c, "new", RemovePending(c))

\* The target quantity is compared by id and data.
ConfirmTargetQty(c) ==
  /\ kind = "target"
  /\ \E id \in 1 .. MaxClock :
       Transaction(c, "new", Confirm(c, pending \cap {[id |-> id, data |-> call[c].data]}))

SetPWIEquation(c)    == kind = "pwi" /\ Transaction(c, "new", StorePending(c))
RejectPWIEquation(c) == kind = "pwi" /\ Transaction(c, "new", RemovePending(c))

\* The equation is compared by data only.
ConfirmPWIEquation(c) ==
  /\ kind = "pwi"
  /\ Transaction(c, "new", Confirm(c, {p \in pending : p.data = call[c].data}))

SetStableTokenParams(c)    == kind = "stable" /\ Transaction(c, "new", StorePending(c))
RejectStableTokenParams(c) == kind = "stable" /\ Transaction(c, "new", RemovePending(c))

\* GetPendingStableTokenParams reads a missing record as the empty map.
PendingParams == IF pending = {} THEN {EmptyValue} ELSE {p.data : p \in pending}

\* ConfirmStableTokenParams: read and compare, then put what was sent.
CompareParams(c) ==
  /\ kind = "stable"
  /\ call[c].pc = "new"
  /\ Advance(c, IF PendingParams = {call[c].data} THEN "compared" ELSE "done")
  /\ UNCHANGED <<kind, clock, pending, confirmed>>

PutParams(c) ==
  Transaction(c, "compared",
              /\ Advance(c, "stored")
              /\ confirmed' = {[id |-> Id, data |-> call[c].data]}
              /\ UNCHANGED pending)

\* The last transaction of every confirm call.
FinishConfirm(c) == Transaction(c, "stored", RemovePending(c))

\* The process dies; the buckets remain.
Crash ==
  /\ "crash" \in Faults
  /\ \E c \in Calls : call[c].pc \in {"compared", "stored"}
  /\ call' = [c \in Calls |-> IF call[c].pc = "new" THEN call[c]
                                                   ELSE [call[c] EXCEPT !.pc = "done"]]
  /\ UNCHANGED <<kind, clock, pending, confirmed>>

Handler(c) ==
  \/ SetTargetQty(c) \/ CancelTargetQty(c) \/ ConfirmTargetQty(c)
  \/ SetPWIEquation(c) \/ RejectPWIEquation(c) \/ ConfirmPWIEquation(c)
  \/ SetStableTokenParams(c) \/ RejectStableTokenParams(c) \/ CompareParams(c)
  \/ PutParams(c) \/ FinishConfirm(c)

Next == Tick \/ Crash \/ \E c \in Calls : Handler(c)

Spec == Init /\ [][Next]_vars

------------------------------------------------------------------------------
(***************************************************************************)
(* ImplementsProposal: the target quantities and the PWI equation keep the *)
(* promise of Proposal, however calls overlap and wherever they are cut    *)
(* off.  An entry that is in force already and only waits to be removed    *)
(* does not count as proposed.  (The stable token parameters do not keep   *)
(* it, see ConfirmsPending; they are left out of the mapping.)             *)
(***************************************************************************)
Keeps    == kind # "stable"
Proposed == IF Keeps THEN pending \ confirmed ELSE {}
InForce  == IF Keeps THEN confirmed ELSE {}

P == INSTANCE Proposal WITH proposed <- Proposed, inForce <- InForce

ImplementsProposal == P!Spec

(***************************************************************************)
(* The inductive invariant behind it: only the stable token parameters are *)
(* compared in one transaction and stored in another.                      *)
(***************************************************************************)
SettingsInv ==
  /\ TypeOK
  /\ \A c \in Calls : call[c].pc = "compared" => ~Keeps

(***************************************************************************)
(* ConfirmsPending: what a confirm call puts in force is pending at that   *)
(* moment ("must be equal to current pending", README.md).                 *)
(***************************************************************************)
ConfirmsPending == [][confirmed' # confirmed => confirmed' \subseteq pending]_vars
=============================================================================
