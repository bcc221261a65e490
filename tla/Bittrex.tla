------------------------------ MODULE Bittrex -------------------------------
(***************************************************************************)
(* exchange/bittrex.go, DepositStatus.  Bittrex does not say which         *)
(* transaction a deposit came with, so an entry of its history is matched  *)
(* to an activity by amount and time, and registered for the activity in   *)
(* the exchange's own database (exchange/bittrex/bolt.go) so that no other *)
(* takes it.  The order of the history is not known to the code: it takes  *)
(* the first entry that matches.                                           *)
(***************************************************************************)
EXTENDS DepositCycle, FiniteSets

CONSTANTS AmountOf,    \* the amounts of the deposits
          MaxCredits,  \* bound: entries of the history
          MaxHour      \* bound: time points

ASSUME BittrexAssumption ==
  /\ AmountOf \in [Deposits -> Nat]
  /\ MaxCredits \in Nat /\ MaxHour \in Nat \ {0}

VARIABLES hour,        \* the present time
          made,        \* when an activity was recorded, the Timepoint of its id
          credits,     \* the deposit history: id -> amount and time
          creditOf,    \* the activity an entry is for, or a deposit made by hand
          registered,  \* BITTREX_DEPOSIT_HISTORY: id -> activity
          seen         \* the history as the call in progress received it

bittrexVars == <<hour, made, credits, creditOf, registered, seen>>

ByHand == "by hand"

BittrexTypeOK ==
  /\ IsMap(made, Deposits, 1 .. MaxHour)
  /\ IsMap(credits, 1 .. MaxCredits, [amount : Nat, time : 1 .. MaxHour])
  /\ IsMap(registered, DOMAIN credits, Deposits)
  /\ seen \subseteq DOMAIN credits

BittrexInit ==
  /\ hour = 1
  /\ made = Empty /\ credits = Empty /\ creditOf = Empty /\ registered = Empty
  /\ seen = {}

------------------------------------------------------------------------------
\* Deposit of the core; "race": although another deposit is pending.
MakeDeposit(d) ==
  /\ exchange = "bittrex"
  /\ est[d] = "none"
  /\ Waiting = {} \/ "race" \in faults
  /\ est' = [est EXCEPT ![d] = ""]
  /\ made' = Put(made, d, hour)
  /\ UNCHANGED <<exchange, faults, roundVars, call, hour, credits, creditOf, registered, seen>>

\* Bittrex credits a deposit, some time after it was made.
Credit(d) ==
  LET id == Cardinality(DOMAIN credits) + 1
  IN  /\ d \in DOMAIN made /\ made[d] < hour
      /\ \A i \in DOMAIN creditOf : creditOf[i] # d
      /\ id <= MaxCredits
      /\ credits' = Put(credits, id, [amount |-> AmountOf[d], time |-> hour])
      /\ creditOf' = Put(creditOf, id, d)
      /\ UNCHANGED <<cycleVars, hour, made, registered, seen>>

\* Somebody else pays into the account.
CreditByHand ==
  LET id == Cardinality(DOMAIN credits) + 1
  IN  /\ exchange = "bittrex" /\ "race" \in faults
      /\ id <= MaxCredits
      /\ \E d \in Deposits :
           credits' = Put(credits, id, [amount |-> AmountOf[d], time |-> hour])
      /\ creditOf' = Put(creditOf, id, ByHand)
      /\ UNCHANGED <<cycleVars, hour, made, registered, seen>>

HourPasses ==
  /\ exchange = "bittrex" /\ hour < MaxHour
  /\ hour' = hour + 1
  /\ UNCHANGED <<cycleVars, made, credits, creditOf, registered, seen>>

------------------------------------------------------------------------------
\* The history is asked for, and arrives or not.
BittrexHistory(d) ==
  /\ round # "idle" /\ call = NoCall
  /\ d \in left /\ d = Current
  /\ \/ Continue("match", 0, "") /\ seen' = DOMAIN credits
     \/ "node" \in faults /\ Answer(d, "") /\ UNCHANGED seen
  /\ UNCHANGED <<hour, made, credits, creditOf, registered>>

\* Mutant of IsNewBittrexDeposit: every entry is new.
IsEverNew(id, d) == TRUE

\* Mutant of IsNewBittrexDeposit: the second round does not find its own entry.
IsNewOnce(id, d) == id \notin DOMAIN registered

\* An entry registered for the activity itself is new as well.
IsNewBittrexDeposit(id, d) == id \in DOMAIN registered => registered[id] = d

\* The amount is compared from one side only.
Matches(id, d) ==
  /\ credits[id].amount <= AmountOf[d]
  /\ credits[id].time > made[d]
  /\ IsNewBittrexDeposit(id, d)

\* RegisterBittrexDeposit, whose error is dropped.
RegisterBittrexDeposit(id, d) ==
  \/ registered' = Put(registered, id, d)
  \/ "disk" \in faults /\ UNCHANGED registered

\* The first entry that matches, if any.
BittrexMatch(d) ==
  /\ call.pc = "match" /\ d = Current
  /\ \/ \E id \in seen : Matches(id, d) /\ RegisterBittrexDeposit(id, d) /\ Answer(d, "done")
     \/ (\A id \in seen : ~Matches(id, d)) /\ Answer(d, "") /\ UNCHANGED registered
  /\ seen' = {}
  /\ UNCHANGED <<hour, made, credits, creditOf>>

BittrexCycle ==
  /\ exchange = "bittrex"
  /\ \/ (StartCycle \/ EndRound) /\ UNCHANGED bittrexVars
     \/ \E d \in Deposits : BittrexHistory(d) \/ BittrexMatch(d)

BittrexNext ==
  \/ BittrexCycle
  \/ \E d \in Deposits : MakeDeposit(d) \/ Credit(d)
  \/ CreditByHand \/ HourPasses
  \/ /\ exchange = "bittrex" /\ Crash
     /\ seen' = {}
     /\ UNCHANGED <<hour, made, credits, creditOf, registered>>

\* The runner ticks for ever and the calls have time limits.
BittrexFairness == WF_<<bittrexVars, cycleVars>>(BittrexCycle)

------------------------------------------------------------------------------
(***************************************************************************)
(* DoneHasOwnEntry: unless a registration was lost, every activity that is *)
(* done has an entry of the history that is its own and nobody else's, not *)
(* older than itself, however often the double check asks, wherever the    *)
(* process dies and whoever else pays in.                                  *)
(***************************************************************************)
DoneHasOwnEntry ==
  exchange = "bittrex" /\ "disk" \notin faults =>
    \A d \in Deposits : est[d] = "done" =>
      \E id \in DOMAIN registered :
        registered[id] = d /\ credits[id].time > made[d] /\ credits[id].amount <= AmountOf[d]

(***************************************************************************)
(* CreditIsSeen: when nothing fails, deposits are made one at a time and   *)
(* nobody else pays in, a deposit that Bittrex credited ends as done.      *)
(***************************************************************************)
CreditIsSeen ==
  faults = {} => \A d \in Deposits :
    [](d \in {creditOf[i] : i \in DOMAIN creditOf} => <>(est[d] = "done"))
=============================================================================
