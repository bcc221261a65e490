---------------------------- MODULE DepositCycle ----------------------------
(***************************************************************************)
(* How the auth data cycle asks an exchange about the deposits whose       *)
(* exchange side is pending (data/fetcher/fetcher.go, FetchAuthDataFrom-   *)
(* Exchange): two rounds of status calls, one deposit after the other, and *)
(* once more until both rounds have the same answers.  It matters for the  *)
(* exchanges whose DepositStatus has effects of its own.                   *)
(***************************************************************************)
EXTENDS Buckets, Naturals

CONSTANTS Deposits,    \* the deposits
          Scenarios    \* the exchange, what may fail, and the deposits pending from the start

ASSUME ScenarioAssumption ==
  Scenarios \subseteq [exchange : {"huobi", "bittrex"},
                       faults   : SUBSET {"node", "disk", "read", "crash", "drop", "race"},
                       waiting  : SUBSET Deposits]

\* Bittrex compares with the time a deposit was made, so none of its deposits
\* is pending before the behaviour that makes it.
ASSUME WaitingAssumption == \A s \in Scenarios : s.exchange = "bittrex" => s.waiting = {}

VARIABLES exchange,    \* the exchange this behaviour is about
          faults,      \* what may fail in it
          est,         \* est[d]: the stored exchange status, "none" before d is recorded
          asked,       \* the deposits that were pending when the cycle started
          round,       \* "idle", or the round of the double check
          left,        \* the deposits not asked about yet in this round
          pre, post,   \* the answers of the two rounds
          call         \* the call in progress

roundVars == <<asked, round, left, pre, post>>
cycleVars == <<exchange, faults, est, roundVars, call>>

Empty  == [d \in {} |-> {}]
NoCall == [pc |-> "none", hash |-> 0, verdict |-> ""]

CycleTypeOK ==
  /\ est \in [Deposits -> {"none", "", "done", "failed"}]
  /\ round \in {"idle", "pre", "post"}
  /\ left \subseteq asked /\ asked \subseteq Deposits
  /\ IsMap(pre, Deposits, {"", "done", "failed"})
  /\ IsMap(post, Deposits, {"", "done", "failed"})

CycleInit ==
  /\ \E s \in Scenarios :
       /\ exchange = s.exchange /\ faults = s.faults
       /\ est = [d \in Deposits |-> IF d \in s.waiting THEN "" ELSE "none"]
  /\ asked = {} /\ round = "idle" /\ left = {} /\ pre = Empty /\ post = Empty
  /\ call = NoCall

------------------------------------------------------------------------------
\* GetPendingActivities, once for a cycle.
Waiting == {d \in Deposits : est[d] = ""}

StartCycle ==
  /\ round = "idle"
  /\ round' = "pre" /\ asked' = Waiting /\ left' = Waiting
  /\ UNCHANGED <<exchange, faults, est, pre, post, call>>

\* End of a round: the second one, or compare, and store or start over.
EndRound ==
  /\ round # "idle" /\ left = {} /\ call = NoCall
  /\ \/ /\ round = "pre"
        /\ round' = "post" /\ left' = asked
        /\ UNCHANGED <<est, pre, post>>
     \/ /\ round = "post" /\ pre # post
        /\ round' = "pre" /\ left' = asked /\ pre' = Empty /\ post' = Empty
        /\ UNCHANGED est
     \/ /\ round = "post" /\ pre = post
        /\ est' = [d \in Deposits |-> IF d \in DOMAIN post THEN post[d] ELSE est[d]]
        /\ round' = "idle" /\ pre' = Empty /\ post' = Empty
        /\ UNCHANGED left
  /\ UNCHANGED <<exchange, faults, asked, call>>

\* The deposit being asked about, and the end of the call about it.
Current == CHOOSE d \in left : TRUE

Answer(d, status) ==
  /\ left' = left \ {d}
  /\ call' = NoCall
  /\ IF round = "pre" THEN pre' = Put(pre, d, status) /\ UNCHANGED post
                      ELSE post' = Put(post, d, status) /\ UNCHANGED pre
  /\ UNCHANGED <<exchange, faults, est, asked, round>>

Continue(pc, hash, verdict) ==
  /\ call' = [pc |-> pc, hash |-> hash, verdict |-> verdict]
  /\ UNCHANGED <<exchange, faults, est, roundVars>>

\* The process dies; only the databases remain.
Crash ==
  /\ "crash" \in faults
  /\ round # "idle"
  /\ asked' = {} /\ round' = "idle" /\ left' = {} /\ pre' = Empty /\ post' = Empty
  /\ call' = NoCall
  /\ UNCHANGED <<exchange, faults, est>>
=============================================================================
