---------------------------- MODULE DepositProofs ----------------------------
(***************************************************************************)
(* What the double check of the auth data cycle may rely on when           *)
(* DepositStatus has effects, for any deposits, faults and amounts.        *)
(*                                                                         *)
(* None of the properties is inductive.  CycleInv says where a call stands *)
(* in the cycle: the deposits asked about are still pending, and a round   *)
(* answers each of them once.  HuobiInv adds what a call has learnt and    *)
(* has not used yet: no entry when it is about to send, a transaction that *)
(* exists once it has a hash, a credited one once its verdict is "done".   *)
(* BittrexInv adds the same for the entry a deposit was matched with.      *)
(***************************************************************************)
EXTENDS ExchangeDeposits, FiniteSetTheorems, TLAPS

Verdicts == {"", "done", "failed"}
Calls    == [pc : CallSteps \cup {"match"}, hash : Nat, verdict : Verdicts]

\* The answers of the rounds, as far as they go, are about pending deposits.
RoundInv ==
  /\ round = "idle" => left = {} /\ DOMAIN pre = {}
  /\ round # "post" => DOMAIN post = {}
  /\ round # "idle" => \A d \in asked : est[d] = ""
  /\ DOMAIN pre \cup DOMAIN post \subseteq asked
  /\ DOMAIN post \cap left = {}
  /\ call.pc = "none" => call = NoCall
  /\ call.pc # "none" => left # {}

CycleInv == CycleTypeOK /\ call \in Calls /\ RoundInv

\* The deposit is done, or a round of this cycle was told so.
ToldDone(d) ==
  \/ est[d] = "done"
  \/ d \in DOMAIN pre /\ pre[d] = "done"
  \/ d \in DOMAIN post /\ post[d] = "done"

\* The deposit is done, or will not be asked about again if this cycle ends.
LastDone(d) == est[d] = "done" \/ (d \in DOMAIN post /\ post[d] = "done")

Credited(d) == \E i \in DOMAIN tx2[d] : tx2[d][i] = "credited"

\* The call in progress knows a second transaction.
Knows == {"storeSent", "storeMined", "history", "storeFinal", "removePending"}

HuobiTyped ==
  /\ funded \subseteq Deposits
  /\ tx2 \in [Deposits -> Seq(TxStates)]
  /\ \A d \in Deposits : Len(tx2[d]) <= MaxSends
  /\ IsMap(pendingTx, Deposits, Entries)
  /\ IsMap(finalTx, Deposits, Entries)

\* The entries on file are of transactions that were sent.
FiledWasSent ==
  /\ \A d \in DOMAIN pendingTx : pendingTx[d].hash \in DOMAIN tx2[d]
  /\ \A d \in DOMAIN finalTx : finalTx[d].hash \in DOMAIN tx2[d]

\* What the call in progress learnt still holds when it is used.
CallKnows ==
  /\ exchange = "huobi" => call.pc # "match"
  /\ exchange # "huobi" => call.pc \in {"none", "match"} /\ DOMAIN pendingTx = {}
  /\ call.pc \in Knows => call.hash \in DOMAIN tx2[Current]
  /\ call.pc = "send" /\ "read" \notin faults => Current \notin DOMAIN pendingTx \cup DOMAIN finalTx
  /\ call.verdict = "done" => Credited(Current)

ToldIsCredited ==
  exchange = "huobi" => \A d \in Deposits : ToldDone(d) => Credited(d)

LastIsRemoved ==
  "disk" \notin faults => \A d \in Deposits : LastDone(d) => d \notin DOMAIN pendingTx

HuobiInv == HuobiTyped /\ FiledWasSent /\ CallKnows /\ ToldIsCredited /\ LastIsRemoved

\* An entry of the history is registered for d and fits it.
HasEntry(d) ==
  /\ d \in DOMAIN made
  /\ \E id \in DOMAIN registered :
       registered[id] = d /\ credits[id].time > made[d] /\ credits[id].amount <= AmountOf[d]

BittrexInv ==
  /\ hour \in 1 .. MaxHour
  /\ BittrexTypeOK
  /\ \E n \in Nat : DOMAIN credits = 1 .. n
  /\ exchange \in {"huobi", "bittrex"}
  /\ exchange = "bittrex" => \A d \in Deposits : est[d] # "none" => d \in DOMAIN made
  /\ exchange = "bittrex" /\ "disk" \notin faults =>
       \A d \in Deposits : ToldDone(d) => HasEntry(d)

DepositsInv == CycleInv /\ HuobiInv /\ BittrexInv
------------------------------------------------------------------------------
\* A stored key keeps the types of a bucket.
LEMMA PutIsMap ==
  ASSUME NEW S, NEW T, NEW f, IsMap(f, S, T), NEW k \in S, NEW v \in T
  PROVE  IsMap(Put(f, k, v), S, T)
BY DEF IsMap, Put

\* Current is a deposit left to be asked about.
LEMMA CurrentIsLeft ==
  ASSUME CycleInv, left # {}
  PROVE  Current \in left /\ Current \in asked /\ Current \in Deposits /\ round # "idle"
BY DEF CycleInv, CycleTypeOK, RoundInv, Current

\* A call in progress is about such a deposit.
LEMMA CallIsCurrent ==
  ASSUME CycleInv, call.pc # "none" \/ call.verdict = "done"
  PROVE  left # {} /\ Current \in left /\ Current \in Deposits
<1>1. NoCall.verdict # "done"
  BY DEF NoCall
<1>2. call.pc # "none"
  BY <1>1 DEF CycleInv, RoundInv
<1>3. left # {}
  BY <1>2 DEF CycleInv, RoundInv
<1> QED BY <1>3, CurrentIsLeft

\* A deposit left to be asked about is pending and has no answer in post.
LEMMA LeftIsOpen ==
  ASSUME CycleInv, NEW d \in left
  PROVE  ~LastDone(d)
BY DEF CycleInv, CycleTypeOK, RoundInv, LastDone

\* The cycle starts: nothing was answered, so nothing is told done.
LEMMA StartStep ==
  ASSUME CycleInv, StartCycle
  PROVE  /\ CycleInv'
         /\ \A d \in Deposits : /\ ToldDone(d)' => ToldDone(d)
                                /\ LastDone(d)' => LastDone(d)
BY DEF CycleInv, CycleTypeOK, RoundInv, StartCycle, Waiting, ToldDone, LastDone, Calls, NoCall,
       IsMap

\* A round ends: a deposit is stored as done only if both rounds were told so.
LEMMA EndStep ==
  ASSUME CycleInv, EndRound
  PROVE  /\ CycleInv'
         /\ \A d \in Deposits : /\ ToldDone(d)' => ToldDone(d)
                                /\ LastDone(d)' => LastDone(d)
         /\ \A d \in Deposits : est'[d] # "none" => est[d] # "none"
<1>1. CASE round = "pre" /\ round' = "post" /\ left' = asked /\ UNCHANGED <<est, pre, post>>
  BY <1>1 DEF CycleInv, CycleTypeOK, RoundInv, EndRound, ToldDone, LastDone, Calls, NoCall, IsMap
<1>2. CASE round = "post" /\ pre # post /\ round' = "pre" /\ left' = asked /\ pre' = Empty
           /\ post' = Empty /\ UNCHANGED est
  BY <1>2 DEF CycleInv, CycleTypeOK, RoundInv, EndRound, ToldDone, LastDone, Calls, NoCall, IsMap,
              Empty
<1>3. CASE /\ round = "post" /\ pre = post
           /\ est' = [d \in Deposits |-> IF d \in DOMAIN post THEN post[d] ELSE est[d]]
           /\ round' = "idle" /\ pre' = Empty /\ post' = Empty
           /\ UNCHANGED left
  BY <1>3 DEF CycleInv, CycleTypeOK, RoundInv, EndRound, ToldDone, LastDone, Calls, NoCall, IsMap,
              Empty
<1> QED BY <1>1, <1>2, <1>3 DEF EndRound

\* The process dies: only est remains.
LEMMA CrashStep ==
  ASSUME CycleInv, Crash
  PROVE  /\ CycleInv'
         /\ \A d \in Deposits : /\ ToldDone(d)' => ToldDone(d)
                                /\ LastDone(d)' => LastDone(d)
BY DEF CycleInv, CycleTypeOK, RoundInv, Crash, ToldDone, LastDone, Calls, NoCall, CallSteps,
       Verdicts, IsMap, Empty

\* A call goes on to its next step.
LEMMA ContinueStep ==
  ASSUME CycleInv, NEW pc \in (CallSteps \cup {"match"}) \ {"none"}, NEW hash \in Nat, NEW v \in Verdicts,
         left # {}, Continue(pc, hash, v)
  PROVE  /\ CycleInv'
         /\ Current' = Current
         /\ call' = [pc |-> pc, hash |-> hash, verdict |-> v]
         /\ \A d \in Deposits : /\ ToldDone(d)' => ToldDone(d)
                                /\ LastDone(d)' => LastDone(d)
BY DEF CycleInv, CycleTypeOK, RoundInv, Continue, ToldDone, LastDone, Calls, roundVars, Current

\* A call ends: only the deposit it was about may become told done.
LEMMA AnswerStep ==
  ASSUME CycleInv, NEW e \in left, NEW v \in Verdicts, Answer(e, v)
  PROVE  /\ CycleInv'
         /\ call' = NoCall
         /\ \A d \in Deposits : /\ ToldDone(d)' => ToldDone(d) \/ (d = e /\ v = "done")
                                /\ LastDone(d)' => LastDone(d) \/ (d = e /\ v = "done")
<1>0. round \in {"pre", "post"} /\ e \in Deposits /\ e \in asked
  BY DEF CycleInv, CycleTypeOK, RoundInv
<1>1. CASE round = "pre"
  <2>1. pre' = Put(pre, e, v) /\ post' = post
    BY <1>1 DEF Answer
  <2>2. IsMap(pre', Deposits, {"", "done", "failed"})
    BY <2>1, <1>0, PutIsMap DEF CycleInv, CycleTypeOK, Verdicts
  <2>3. /\ DOMAIN pre' = DOMAIN pre \cup {e}
        /\ pre'[e] = v
        /\ \A d \in DOMAIN pre : d # e => pre'[d] = pre[d]
    BY <2>1 DEF Put
  <2>4. CycleTypeOK'
    BY <2>1, <2>2 DEF CycleInv, CycleTypeOK, Answer
  <2>5. RoundInv' /\ (call \in Calls)' /\ call' = NoCall
    BY <1>1, <1>0, <2>1, <2>3 DEF CycleInv, RoundInv, Answer, NoCall, Calls, CallSteps, Verdicts
  <2> QED BY <2>1, <2>3, <2>4, <2>5 DEF CycleInv, ToldDone, LastDone, Answer
<1>2. CASE round = "post"
  <2>1. post' = Put(post, e, v) /\ pre' = pre
    BY <1>2 DEF Answer
  <2>2. IsMap(post', Deposits, {"", "done", "failed"})
    BY <2>1, <1>0, PutIsMap DEF CycleInv, CycleTypeOK, Verdicts
  <2>3. /\ DOMAIN post' = DOMAIN post \cup {e}
        /\ post'[e] = v
        /\ \A d \in DOMAIN post : d # e => post'[d] = post[d]
    BY <2>1 DEF Put
  <2>4. CycleTypeOK'
    BY <2>1, <2>2 DEF CycleInv, CycleTypeOK, Answer
  <2>5. RoundInv' /\ (call \in Calls)' /\ call' = NoCall
    BY <1>2, <1>0, <2>1, <2>3 DEF CycleInv, RoundInv, Answer, NoCall, Calls, CallSteps, Verdicts
  <2> QED BY <2>1, <2>3, <2>4, <2>5 DEF CycleInv, ToldDone, LastDone, Answer
<1> QED BY <1>0, <1>1, <1>2
------------------------------------------------------------------------------
\* A step that changes no file and no transaction, and ends the call or leaves
\* it alone.
LEMMA HuobiKept ==
  ASSUME HuobiInv, UNCHANGED <<huobiVars, exchange, faults>>,
         call' = NoCall \/ (call' = call /\ Current' = Current),
         \A d \in Deposits : /\ ToldDone(d)' => ToldDone(d)
                             /\ LastDone(d)' => LastDone(d)
  PROVE  HuobiInv'
<1>1. HuobiTyped' /\ FiledWasSent'
  BY DEF HuobiInv, HuobiTyped, FiledWasSent, huobiVars, netVars, dbVars, IsMap
<1>2. CallKnows'
  <2>1. UNCHANGED <<tx2, pendingTx, finalTx, exchange>>
    BY DEF huobiVars, netVars, dbVars
  <2>2. CASE call' = NoCall
    BY <2>1, <2>2 DEF HuobiInv, CallKnows, Knows, NoCall
  <2>3. CASE call' = call /\ Current' = Current
    BY <2>1, <2>3 DEF HuobiInv, CallKnows, Knows, Credited
  <2> QED BY <2>2, <2>3
<1>3. ToldIsCredited' /\ LastIsRemoved'
  BY DEF HuobiInv, ToldIsCredited, LastIsRemoved, Credited, huobiVars, netVars, dbVars
<1> QED BY <1>1, <1>2, <1>3 DEF HuobiInv

\* A step of the Bittrex call.
LEMMA HuobiIdle ==
  ASSUME HuobiInv, exchange # "huobi", UNCHANGED <<huobiVars, exchange, faults>>,
         call'.pc \in {"none", "match"}, call'.verdict # "done"
  PROVE  HuobiInv'
<1>1. HuobiTyped' /\ FiledWasSent'
  BY DEF HuobiInv, HuobiTyped, FiledWasSent, huobiVars, netVars, dbVars, IsMap
<1> QED BY <1>1 DEF HuobiInv, CallKnows, Knows, ToldIsCredited, LastIsRemoved, huobiVars, dbVars

\* The first transaction of a deposit is mined.
LEMMA HuobiFund ==
  ASSUME HuobiInv, NEW d \in Deposits, Fund(d)
  PROVE  HuobiInv'
BY DEF HuobiInv, HuobiTyped, FiledWasSent, CallKnows, ToldIsCredited, LastIsRemoved, Fund,
       dbVars, cycleVars, roundVars, IsMap, Credited, ToldDone, LastDone, Current

\* A second transaction is mined, reverted, dropped or credited: none is
\* forgotten, and a credited one stays so.
LEMMA HuobiMove ==
  ASSUME CycleInv, HuobiInv, NEW d \in Deposits, NEW i \in 1 .. MaxSends, Move(d, i)
  PROVE  HuobiInv'
<1>0. tx2 \in [Deposits -> Seq(TxStates)] /\ tx2[d] \in Seq(TxStates)
  BY DEF HuobiInv, HuobiTyped
<1>1. PICK s \in TxStates : tx2' = [tx2 EXCEPT ![d] = [@ EXCEPT ![i] = s]]
  BY DEF Move, TxStates
<1>2. i \in DOMAIN tx2[d] /\ tx2[d][i] # "credited"
  BY DEF Move
<1>3. /\ tx2'[d] = [tx2[d] EXCEPT ![i] = s]
      /\ \A e \in Deposits : e # d => tx2'[e] = tx2[e]
      /\ DOMAIN tx2' = Deposits
  BY <1>0, <1>1
<1>4. tx2'[d] \in Seq(TxStates) /\ Len(tx2'[d]) = Len(tx2[d]) /\ DOMAIN tx2'[d] = DOMAIN tx2[d]
  BY <1>0, <1>2, <1>3
<1>5. tx2' \in [Deposits -> Seq(TxStates)]
  BY <1>0, <1>1, <1>4, <1>3
<1>6. \A e \in Deposits : DOMAIN tx2'[e] = DOMAIN tx2[e] /\ Len(tx2'[e]) = Len(tx2[e])
  BY <1>3, <1>4
<1>7. \A e \in Deposits : Credited(e) => Credited(e)'
  BY <1>0, <1>2, <1>3, <1>4 DEF Credited
<1>8. UNCHANGED <<funded, pendingTx, finalTx, exchange, faults, est, pre, post, call, Current>>
  BY DEF Move, dbVars, cycleVars, roundVars, Current
<1>9. HuobiTyped' /\ FiledWasSent'
  BY <1>5, <1>6, <1>8 DEF HuobiInv, HuobiTyped, FiledWasSent, IsMap
<1>10. CallKnows'
  BY <1>6, <1>7, <1>8, CallIsCurrent DEF HuobiInv, CallKnows, Knows
<1>11. ToldIsCredited' /\ LastIsRemoved'
  BY <1>7, <1>8 DEF HuobiInv, ToldIsCredited, LastIsRemoved, ToldDone, LastDone
<1> QED BY <1>9, <1>10, <1>11 DEF HuobiInv
\* Time passes: the entries keep their hashes.
LEMMA HuobiAge ==
  ASSUME HuobiInv, Age
  PROVE  HuobiInv'
<1>1. /\ pendingTx' = [d \in DOMAIN pendingTx |-> [pendingTx[d] EXCEPT !.old = TRUE]]
      /\ finalTx' = [d \in DOMAIN finalTx |-> [finalTx[d] EXCEPT !.old = TRUE]]
      /\ UNCHANGED <<funded, tx2, exchange, faults, est, pre, post, call, Current>>
  BY DEF Age, netVars, cycleVars, roundVars, Current
<1>2. DOMAIN pendingTx' = DOMAIN pendingTx /\ DOMAIN finalTx' = DOMAIN finalTx
  BY <1>1
<1>3. IsMap(pendingTx', Deposits, Entries) /\ IsMap(finalTx', Deposits, Entries)
  BY <1>1 DEF HuobiInv, HuobiTyped, IsMap, Entries
<1>4. /\ \A d \in DOMAIN pendingTx : pendingTx'[d].hash = pendingTx[d].hash
      /\ \A d \in DOMAIN finalTx : finalTx'[d].hash = finalTx[d].hash
  BY <1>1 DEF HuobiInv, HuobiTyped, IsMap, Entries
<1>5. HuobiTyped' /\ FiledWasSent'
  BY <1>1, <1>2, <1>3, <1>4 DEF HuobiInv, HuobiTyped, FiledWasSent
<1>6. CallKnows'
  BY <1>1, <1>2 DEF HuobiInv, CallKnows, Credited
<1>7. ToldIsCredited' /\ LastIsRemoved'
  BY <1>1, <1>2 DEF HuobiInv, ToldIsCredited, LastIsRemoved, Credited, ToldDone, LastDone
<1> QED BY <1>5, <1>6, <1>7 DEF HuobiInv

\* A call that ends without "done" and touches no file and no transaction.
LEMMA HuobiAnswer ==
  ASSUME CycleInv, HuobiInv, NEW d \in left, NEW v \in {"", "failed"}, Answer(d, v),
         UNCHANGED <<netVars, dbVars>>
  PROVE  CycleInv' /\ HuobiInv'
<1>1. /\ CycleInv' /\ call' = NoCall
      /\ \A e \in Deposits : /\ ToldDone(e)' => ToldDone(e)
                             /\ LastDone(e)' => LastDone(e)
  BY AnswerStep DEF Verdicts
<1>2. UNCHANGED <<huobiVars, exchange, faults>>
  BY DEF Answer, huobiVars
<1> QED BY <1>1, <1>2, HuobiKept

\* A call that goes on, to where what it needs is known.
LEMMA HuobiContinue ==
  ASSUME CycleInv, HuobiInv, exchange = "huobi", left # {}, UNCHANGED <<netVars, dbVars>>,
         NEW pc \in CallSteps \ {"none"}, NEW h \in Nat, NEW v \in Verdicts, Continue(pc, h, v),
         pc = "send" /\ "read" \notin faults => Current \notin DOMAIN pendingTx \cup DOMAIN finalTx,
         pc \in Knows => h \in DOMAIN tx2[Current],
         v = "done" => Credited(Current)
  PROVE  CycleInv' /\ HuobiInv'
<1>1. /\ CycleInv' /\ Current' = Current
      /\ call' = [pc |-> pc, hash |-> h, verdict |-> v]
      /\ \A e \in Deposits : /\ ToldDone(e)' => ToldDone(e)
                             /\ LastDone(e)' => LastDone(e)
  BY ContinueStep
<1>2. UNCHANGED <<funded, tx2, pendingTx, finalTx, exchange, faults>>
  BY DEF Continue, netVars, dbVars
<1>3. HuobiTyped' /\ FiledWasSent'
  BY <1>2 DEF HuobiInv, HuobiTyped, FiledWasSent, IsMap
<1>4. CallKnows'
  BY <1>1, <1>2 DEF HuobiInv, CallKnows, Credited, CallSteps
<1>5. ToldIsCredited' /\ LastIsRemoved'
  BY <1>1, <1>2 DEF HuobiInv, ToldIsCredited, LastIsRemoved, Credited
<1> QED BY <1>1, <1>3, <1>4, <1>5 DEF HuobiInv

\* What FindTx2 may answer: an entry that is on file, or nothing.
LEMMA FindTx2Answers ==
  ASSUME NEW d, NEW found \in FindTx2(d)
  PROVE  /\ \A entry \in found : \/ d \in DOMAIN finalTx /\ entry = finalTx[d]
                                 \/ d \in DOMAIN pendingTx /\ entry = pendingTx[d]
         /\ found = {} /\ "read" \notin faults => d \notin DOMAIN pendingTx \cup DOMAIN finalTx
  BY DEF FindTx2, OnFile

\* The look-up finds a transaction that was sent, or nothing.
LEMMA HuobiLookUp ==
  ASSUME CycleInv, HuobiInv, exchange = "huobi", NEW d \in Deposits, LookUp(d)
  PROVE  CycleInv' /\ HuobiInv'
<1>1. d \in left /\ d = Current /\ left # {} /\ UNCHANGED <<netVars, dbVars>>
  BY DEF LookUp
<1>2. CASE \E v \in {"", "failed"} : Answer(d, v)
  BY <1>1, <1>2, HuobiAnswer
<1>3. CASE {} \in FindTx2(d) /\ Continue("send", 0, "")
  <2>1. "read" \notin faults => d \notin DOMAIN pendingTx \cup DOMAIN finalTx
    BY <1>3, FindTx2Answers
  <2> QED BY <1>1, <1>3, <2>1, HuobiContinue DEF CallSteps, Knows, Verdicts
<1>4. CASE \E found \in FindTx2(d) : \E entry \in found :
             \/ Continue("storeMined", entry.hash, "")
             \/ Continue("storeFinal", entry.hash, "failed")
  <2>1. PICK found \in FindTx2(d) : \E entry \in found :
             \/ Continue("storeMined", entry.hash, "")
             \/ Continue("storeFinal", entry.hash, "failed")
    BY <1>4
  <2>2. PICK entry \in found : \/ Continue("storeMined", entry.hash, "")
                               \/ Continue("storeFinal", entry.hash, "failed")
    BY <2>1
  <2>3. \/ d \in DOMAIN finalTx /\ entry = finalTx[d]
        \/ d \in DOMAIN pendingTx /\ entry = pendingTx[d]
    BY <2>1, <2>2, FindTx2Answers
  <2>4. entry.hash \in DOMAIN tx2[d] /\ entry.hash \in Nat
    BY <2>3 DEF HuobiInv, FiledWasSent, HuobiTyped, IsMap, Entries
  <2> QED BY <1>1, <2>2, <2>4, HuobiContinue DEF CallSteps, Verdicts
<1> QED BY <1>2, <1>3, <1>4 DEF LookUp, OnTx2

\* A further second transaction: the ones sent before stay as they are.
LEMMA SentKeeps ==
  ASSUME HuobiInv, NEW d \in Deposits, Len(tx2[d]) < MaxSends,
         tx2' = [tx2 EXCEPT ![d] = Append(@, "pooled")]
  PROVE  /\ tx2' \in [Deposits -> Seq(TxStates)]
         /\ \A e \in Deposits : Len(tx2'[e]) <= MaxSends
         /\ \A e \in Deposits : DOMAIN tx2[e] \subseteq DOMAIN tx2'[e]
         /\ \A e \in Deposits : Credited(e) => Credited(e)'
         /\ Len(tx2[d]) + 1 \in DOMAIN tx2'[d]
         /\ Len(tx2[d]) + 1 \in Nat
         /\ \A e \in Deposits : e # d => tx2'[e] = tx2[e]
<1>1. tx2 \in [Deposits -> Seq(TxStates)] /\ tx2[d] \in Seq(TxStates) /\ MaxSends \in Nat
  BY HuobiAssumption DEF HuobiInv, HuobiTyped
<1>2. tx2'[d] = Append(tx2[d], "pooled") /\ \A e \in Deposits : e # d => tx2'[e] = tx2[e]
  BY <1>1
<1>3. tx2'[d] \in Seq(TxStates) /\ Len(tx2'[d]) = Len(tx2[d]) + 1
  BY <1>1, <1>2 DEF TxStates
<1>4. /\ DOMAIN tx2[d] \subseteq DOMAIN tx2'[d]
      /\ \A i \in DOMAIN tx2[d] : tx2'[d][i] = tx2[d][i]
      /\ Len(tx2[d]) + 1 \in DOMAIN tx2'[d]
  BY <1>1, <1>2, <1>3
<1>5. tx2' \in [Deposits -> Seq(TxStates)]
  BY <1>1, <1>2, <1>3
<1>6. \A e \in Deposits : Credited(e) => Credited(e)'
  BY <1>2, <1>4 DEF Credited
<1> QED BY <1>1, <1>2, <1>3, <1>4, <1>5, <1>6 DEF HuobiInv, HuobiTyped

\* The broadcast: the new transaction has no entry yet, and nothing on file
\* or told done is disturbed.
LEMMA HuobiSend ==
  ASSUME CycleInv, HuobiInv, exchange = "huobi", NEW d \in Deposits, Send2ndTransaction(d)
  PROVE  CycleInv' /\ HuobiInv'
<1>1. /\ call.pc = "send" /\ d = Current /\ Len(tx2[d]) < MaxSends
      /\ UNCHANGED <<funded, pendingTx, finalTx>>
  BY DEF Send2ndTransaction, dbVars
<1>2. left # {} /\ d \in left
  BY <1>1, CallIsCurrent
<1>3. CASE UNCHANGED tx2 /\ Answer(d, "")
  BY <1>1, <1>2, <1>3, HuobiAnswer DEF netVars, dbVars
<1>4. CASE tx2' = [tx2 EXCEPT ![d] = Append(@, "pooled")]
  <2>1. /\ HuobiTyped' /\ FiledWasSent'
        /\ \A e \in Deposits : Credited(e) => Credited(e)'
        /\ Len(tx2[d]) + 1 \in DOMAIN tx2'[d]
        /\ Len(tx2[d]) + 1 \in Nat
    BY <1>1, <1>4, SentKeeps DEF HuobiInv, HuobiTyped, FiledWasSent, IsMap
  <2>2. CASE Answer(d, "")
    <3>1. /\ CycleInv' /\ call' = NoCall
          /\ \A e \in Deposits : /\ ToldDone(e)' => ToldDone(e)
                                 /\ LastDone(e)' => LastDone(e)
      BY <1>2, <2>2, AnswerStep DEF Verdicts
    <3>2. UNCHANGED <<exchange, faults>>
      BY <2>2 DEF Answer
    <3>3. CallKnows'
      BY <3>1, <3>2, <1>1 DEF HuobiInv, CallKnows, Knows, NoCall
    <3> QED BY <2>1, <3>1, <3>2, <3>3, <1>1 DEF HuobiInv, ToldIsCredited, LastIsRemoved
  <2>3. CASE Continue("storeSent", Len(tx2[d]) + 1, "")
    <3>1. /\ CycleInv' /\ Current' = Current
          /\ call' = [pc |-> "storeSent", hash |-> Len(tx2[d]) + 1, verdict |-> ""]
          /\ \A e \in Deposits : /\ ToldDone(e)' => ToldDone(e)
                                 /\ LastDone(e)' => LastDone(e)
      BY <1>2, <2>1, <2>3, ContinueStep DEF Verdicts, CallSteps
    <3>2. UNCHANGED <<exchange, faults>>
      BY <2>3 DEF Continue
    <3>3. CallKnows'
      BY <3>1, <3>2, <1>1, <2>1 DEF HuobiInv, CallKnows, Knows
    <3> QED BY <2>1, <3>1, <3>2, <3>3, <1>1 DEF HuobiInv, ToldIsCredited, LastIsRemoved
  <2> QED BY <1>1, <1>4, <2>2, <2>3 DEF Send2ndTransaction
<1> QED BY <1>3, <1>4 DEF Send2ndTransaction

\* An entry of the transaction the call knows may be put on file.
LEMMA EntryPut ==
  ASSUME CycleInv, HuobiInv, call.pc \in Knows, NEW m, IsMap(m, Deposits, Entries),
         \A e \in DOMAIN m : m[e].hash \in DOMAIN tx2[e],
         NEW n, n = Put(m, Current, Young(call.hash))
  PROVE  /\ IsMap(n, Deposits, Entries)
         /\ DOMAIN n = DOMAIN m \cup {Current}
         /\ \A e \in DOMAIN n : n[e].hash \in DOMAIN tx2[e]
<1>1. Current \in Deposits /\ call.hash \in DOMAIN tx2[Current]
  BY CallIsCurrent DEF HuobiInv, CallKnows, Knows
<1>2. call.hash \in 1 .. MaxSends
  BY <1>1, HuobiAssumption DEF HuobiInv, HuobiTyped
<1>3. Young(call.hash) \in Entries /\ Young(call.hash).hash = call.hash
  BY <1>2 DEF Young, Entries
<1>4. /\ DOMAIN n = DOMAIN m \cup {Current}
      /\ n[Current] = Young(call.hash)
      /\ \A e \in DOMAIN m : e # Current => n[e] = m[e]
  BY DEF Put
<1>5. IsMap(n, Deposits, Entries)
  BY <1>1, <1>3, PutIsMap
<1> QED BY <1>1, <1>3, <1>4, <1>5

\* The call in progress is answered, and may put its entry back to the pending
\* bucket: the deposit is still open, so no answered one is disturbed.
LEMMA HuobiStoreSent ==
  ASSUME CycleInv, HuobiInv, exchange = "huobi", NEW d \in Deposits, StoreSent(d)
  PROVE  CycleInv' /\ HuobiInv'
<1>1. /\ call.pc = "storeSent" /\ d = Current /\ Answer(d, "")
      /\ UNCHANGED <<funded, tx2, finalTx>>
  BY DEF StoreSent, netVars
<1>2. left # {} /\ d \in left
  BY <1>1, CallIsCurrent
<1>3. CASE UNCHANGED pendingTx
  BY <1>1, <1>2, <1>3, HuobiAnswer DEF netVars, dbVars
<1>4. CASE pendingTx' = Put(pendingTx, d, Young(call.hash))
  <2>1. /\ IsMap(pendingTx', Deposits, Entries)
        /\ DOMAIN pendingTx' = DOMAIN pendingTx \cup {d}
        /\ \A e \in DOMAIN pendingTx' : pendingTx'[e].hash \in DOMAIN tx2[e]
    BY <1>1, <1>4, EntryPut DEF HuobiInv, HuobiTyped, FiledWasSent, Knows
  <2>2. /\ CycleInv' /\ call' = NoCall
        /\ \A e \in Deposits : /\ ToldDone(e)' => ToldDone(e)
                               /\ LastDone(e)' => LastDone(e)
    BY <1>1, <1>2, AnswerStep DEF Verdicts
  <2>3. UNCHANGED <<exchange, faults>>
    BY <1>1 DEF Answer
  <2>4. HuobiTyped' /\ FiledWasSent'
    BY <1>1, <2>1 DEF HuobiInv, HuobiTyped, FiledWasSent, IsMap
  <2>5. CallKnows'
    BY <2>2, <2>3 DEF CallKnows, Knows, NoCall
  <2>6. ToldIsCredited' /\ LastIsRemoved'
    BY <1>1, <1>2, <2>1, <2>2, <2>3, LeftIsOpen
       DEF HuobiInv, ToldIsCredited, LastIsRemoved, Credited
  <2> QED BY <2>2, <2>4, <2>5, <2>6 DEF HuobiInv
<1> QED BY <1>3, <1>4 DEF StoreSent
\* tx2 is mined: the entry goes to the pending bucket, again if need be.
LEMMA HuobiStoreMined ==
  ASSUME CycleInv, HuobiInv, exchange = "huobi", NEW d \in Deposits, StoreMined(d)
  PROVE  CycleInv' /\ HuobiInv'
<1>1. /\ call.pc = "storeMined" /\ d = Current
      /\ UNCHANGED <<funded, tx2, finalTx>>
  BY DEF StoreMined, netVars
<1>2. left # {} /\ d \in left
  BY <1>1, CallIsCurrent
<1>3. CASE UNCHANGED pendingTx /\ Answer(d, "")
  BY <1>1, <1>2, <1>3, HuobiAnswer DEF netVars, dbVars
<1>4. CASE /\ pendingTx' = Put(pendingTx, d, Young(call.hash))
           /\ Continue("history", call.hash, "")
  <2>1. /\ IsMap(pendingTx', Deposits, Entries)
        /\ DOMAIN pendingTx' = DOMAIN pendingTx \cup {d}
        /\ \A e \in DOMAIN pendingTx' : pendingTx'[e].hash \in DOMAIN tx2[e]
    BY <1>1, <1>4, EntryPut DEF HuobiInv, HuobiTyped, FiledWasSent, Knows
  <2>2. call.hash \in Nat /\ call.hash \in DOMAIN tx2[Current]
    BY <1>1 DEF CycleInv, Calls, HuobiInv, CallKnows, Knows
  <2>3. /\ CycleInv' /\ Current' = Current
        /\ call' = [pc |-> "history", hash |-> call.hash, verdict |-> ""]
        /\ \A e \in Deposits : /\ ToldDone(e)' => ToldDone(e)
                               /\ LastDone(e)' => LastDone(e)
    BY <1>2, <1>4, <2>2, ContinueStep DEF Verdicts, CallSteps
  <2>4. UNCHANGED <<exchange, faults>>
    BY <1>4 DEF Continue
  <2>5. HuobiTyped' /\ FiledWasSent'
    BY <1>1, <2>1 DEF HuobiInv, HuobiTyped, FiledWasSent, IsMap
  <2>6. CallKnows'
    BY <1>1, <2>2, <2>3, <2>4 DEF CallKnows
  <2>7. ToldIsCredited' /\ LastIsRemoved'
    BY <1>1, <1>2, <2>1, <2>3, <2>4, LeftIsOpen
       DEF HuobiInv, ToldIsCredited, LastIsRemoved, Credited
  <2> QED BY <2>3, <2>5, <2>6, <2>7 DEF HuobiInv
<1> QED BY <1>3, <1>4 DEF StoreMined

\* The verdict is "done" only for a transaction that Huobi credited.
LEMMA HuobiHistory ==
  ASSUME CycleInv, HuobiInv, exchange = "huobi", NEW d \in Deposits, DepositHistory(d)
  PROVE  CycleInv' /\ HuobiInv'
<1>1. call.pc = "history" /\ d = Current /\ UNCHANGED <<netVars, dbVars>>
  BY DEF DepositHistory
<1>2. left # {} /\ d \in left
  BY <1>1, CallIsCurrent
<1>3. CASE Answer(d, "")
  BY <1>1, <1>2, <1>3, HuobiAnswer
<1>4. CASE tx2[d][call.hash] = "credited" /\ Continue("storeFinal", call.hash, "done")
  <2>1. call.hash \in Nat /\ call.hash \in DOMAIN tx2[Current]
    BY <1>1 DEF CycleInv, Calls, HuobiInv, CallKnows, Knows
  <2>2. Credited(Current)
    BY <1>1, <1>4, <2>1 DEF Credited
  <2> QED BY <1>1, <1>2, <1>4, <2>1, <2>2, HuobiContinue DEF CallSteps, Verdicts
<1> QED BY <1>3, <1>4 DEF DepositHistory

\* The entry goes to the permanent bucket.
LEMMA HuobiStoreFinal ==
  ASSUME CycleInv, HuobiInv, exchange = "huobi", NEW d \in Deposits, StoreFinal(d)
  PROVE  CycleInv' /\ HuobiInv'
<1>1. /\ call.pc = "storeFinal" /\ d = Current
      /\ Continue("removePending", call.hash, call.verdict)
      /\ UNCHANGED <<funded, tx2, pendingTx>>
  BY DEF StoreFinal, netVars
<1>2. left # {} /\ d \in left
  BY <1>1, CallIsCurrent
<1>3. /\ call.hash \in Nat /\ call.verdict \in Verdicts
      /\ call.hash \in DOMAIN tx2[Current]
      /\ call.verdict = "done" => Credited(Current)
  BY <1>1 DEF CycleInv, Calls, HuobiInv, CallKnows, Knows
<1>4. /\ IsMap(finalTx', Deposits, Entries)
      /\ \A e \in DOMAIN finalTx' : finalTx'[e].hash \in DOMAIN tx2[e]
  <2>1. CASE UNCHANGED finalTx
    BY <2>1 DEF HuobiInv, HuobiTyped, FiledWasSent, IsMap
  <2>2. CASE finalTx' = Put(finalTx, d, Young(call.hash))
    BY <1>1, <2>2, EntryPut DEF HuobiInv, HuobiTyped, FiledWasSent, Knows
  <2> QED BY <2>1, <2>2 DEF StoreFinal
<1>5. /\ CycleInv' /\ Current' = Current
      /\ call' = [pc |-> "removePending", hash |-> call.hash, verdict |-> call.verdict]
      /\ \A e \in Deposits : /\ ToldDone(e)' => ToldDone(e)
                             /\ LastDone(e)' => LastDone(e)
  BY <1>1, <1>2, <1>3, ContinueStep DEF CallSteps
<1>6. UNCHANGED <<exchange, faults>>
  BY <1>1 DEF Continue
<1>7. HuobiTyped' /\ FiledWasSent'
  BY <1>1, <1>4 DEF HuobiInv, HuobiTyped, FiledWasSent, IsMap
<1>8. CallKnows'
  BY <1>1, <1>3, <1>5, <1>6 DEF CallKnows, Credited
<1>9. ToldIsCredited' /\ LastIsRemoved'
  BY <1>1, <1>5, <1>6 DEF HuobiInv, ToldIsCredited, LastIsRemoved, Credited
<1> QED BY <1>5, <1>7, <1>8, <1>9 DEF HuobiInv

\* The pending entry goes before the verdict is given.
LEMMA HuobiRemovePending ==
  ASSUME CycleInv, HuobiInv, exchange = "huobi", NEW d \in Deposits, RemovePending(d)
  PROVE  CycleInv' /\ HuobiInv'
<1>1. /\ call.pc = "removePending" /\ d = Current /\ Answer(d, call.verdict)
      /\ UNCHANGED <<funded, tx2, finalTx>>
  BY DEF RemovePending, netVars
<1>2. left # {} /\ d \in left
  BY <1>1, CallIsCurrent
<1>3. call.verdict \in Verdicts /\ (call.verdict = "done" => Credited(d))
  BY <1>1 DEF CycleInv, Calls, HuobiInv, CallKnows
<1>4. /\ CycleInv' /\ call' = NoCall
      /\ \A e \in Deposits :
           /\ ToldDone(e)' => ToldDone(e) \/ (e = d /\ call.verdict = "done")
           /\ LastDone(e)' => LastDone(e) \/ (e = d /\ call.verdict = "done")
  BY <1>1, <1>2, <1>3, AnswerStep
<1>5. UNCHANGED <<exchange, faults>>
  BY <1>1 DEF Answer
<1>6. /\ IsMap(pendingTx', Deposits, Entries)
      /\ DOMAIN pendingTx' \subseteq DOMAIN pendingTx
      /\ \A e \in DOMAIN pendingTx' : pendingTx'[e] = pendingTx[e]
      /\ "disk" \notin faults => d \notin DOMAIN pendingTx'
  BY DEF RemovePending, Delete, HuobiInv, HuobiTyped, IsMap
<1>7. HuobiTyped' /\ FiledWasSent'
  BY <1>1, <1>6 DEF HuobiInv, HuobiTyped, FiledWasSent, IsMap
<1>8. CallKnows'
  BY <1>4, <1>5 DEF CallKnows, Knows, NoCall
<1>9. ToldIsCredited' /\ LastIsRemoved'
  BY <1>1, <1>3, <1>4, <1>5, <1>6 DEF HuobiInv, ToldIsCredited, LastIsRemoved, Credited
<1> QED BY <1>4, <1>7, <1>8, <1>9 DEF HuobiInv

\* Nothing was sent, stored or answered yet.
LEMMA InitStep ==
  ASSUME HuobiInit, CycleInit
  PROVE  CycleInv /\ HuobiInv
<1>1. PICK s \in Scenarios :
        /\ exchange = s.exchange
        /\ est = [d \in Deposits |-> IF d \in s.waiting THEN "" ELSE "none"]
  BY DEF CycleInit
<1>2. DOMAIN pre = {} /\ DOMAIN post = {} /\ DOMAIN pendingTx = {} /\ DOMAIN finalTx = {}
  BY DEF CycleInit, HuobiInit, Empty
<1>3. CycleInv
  BY <1>1, <1>2 DEF CycleInit, CycleInv, CycleTypeOK, RoundInv, Calls, CallSteps, Verdicts, NoCall,
                    IsMap, Empty
<1>4. HuobiTyped /\ FiledWasSent
  BY <1>2, HuobiAssumption DEF HuobiInit, HuobiTyped, FiledWasSent, IsMap, Empty
<1>5. CallKnows
  BY <1>2 DEF CycleInit, CallKnows, NoCall, Knows
<1>6. ToldIsCredited /\ LastIsRemoved
  BY <1>1, <1>2 DEF ToldIsCredited, LastIsRemoved, ToldDone, LastDone
<1> QED BY <1>3, <1>4, <1>5, <1>6 DEF HuobiInv
------------------------------------------------------------------------------
\* A step that neither makes nor credits nor registers a deposit.
LEMMA BittrexKept ==
  ASSUME BittrexInv, UNCHANGED <<hour, made, credits, registered, exchange, faults>>,
         seen' \subseteq DOMAIN credits,
         exchange = "bittrex" => \A d \in Deposits : /\ est'[d] # "none" => est[d] # "none"
                                                     /\ ToldDone(d)' => ToldDone(d)
  PROVE  BittrexInv'
BY DEF BittrexInv, BittrexTypeOK, HasEntry, IsMap

\* A deposit is made: it was not pending, so no round is told about it.
LEMMA BittrexMake ==
  ASSUME CycleInv, BittrexInv, NEW d \in Deposits, MakeDeposit(d)
  PROVE  /\ CycleInv' /\ BittrexInv'
         /\ \A e \in Deposits : /\ ToldDone(e)' => ToldDone(e)
                                /\ LastDone(e)' => LastDone(e)
<1>1. /\ est[d] = "none" /\ est' = [est EXCEPT ![d] = ""] /\ made' = Put(made, d, hour)
      /\ UNCHANGED <<exchange, faults, asked, round, left, pre, post, call>>
      /\ UNCHANGED <<hour, credits, registered, seen>>
  BY DEF MakeDeposit, roundVars
<1>2. /\ DOMAIN made' = DOMAIN made \cup {d}
      /\ \A e \in DOMAIN made : e # d => made'[e] = made[e]
  BY <1>1 DEF Put
<1>3. IsMap(made', Deposits, 1 .. MaxHour)
  BY <1>1, PutIsMap DEF BittrexInv, BittrexTypeOK
<1>4. CycleInv'
  BY <1>1 DEF CycleInv, CycleTypeOK, RoundInv, IsMap
<1>5. /\ \A e \in Deposits : e # d => est'[e] = est[e]
      /\ est'[d] = ""
  BY <1>1 DEF CycleInv, CycleTypeOK
<1>6. ~ToldDone(d)
  BY <1>1 DEF CycleInv, CycleTypeOK, RoundInv, ToldDone
<1>7. \A e \in Deposits : /\ ToldDone(e)' => ToldDone(e) /\ e # d
                          /\ LastDone(e)' => LastDone(e)
  BY <1>1, <1>5, <1>6 DEF ToldDone, LastDone
<1>8. \A e \in Deposits : e # d /\ HasEntry(e) => HasEntry(e)'
  BY <1>1, <1>2 DEF HasEntry
<1>9. BittrexTypeOK' /\ (hour \in 1 .. MaxHour)' /\ \E n \in Nat : DOMAIN credits' = 1 .. n
  BY <1>1, <1>3 DEF BittrexInv, BittrexTypeOK, IsMap
<1> QED BY <1>1, <1>2, <1>4, <1>5, <1>7, <1>8, <1>9 DEF BittrexInv

\* The history grows by an entry with a number of its own.
LEMMA HistoryGrows ==
  ASSUME BittrexInv, NEW d \in Deposits,
         Cardinality(DOMAIN credits) + 1 <= MaxCredits,
         credits' = Put(credits, Cardinality(DOMAIN credits) + 1,
                        [amount |-> AmountOf[d], time |-> hour])
  PROVE  /\ IsMap(credits', 1 .. MaxCredits, [amount : Nat, time : 1 .. MaxHour])
         /\ \E n \in Nat : DOMAIN credits' = 1 .. n
         /\ DOMAIN credits \subseteq DOMAIN credits'
         /\ \A id \in DOMAIN credits : credits'[id] = credits[id]
<1>1. PICK n \in Nat : DOMAIN credits = 1 .. n
  BY DEF BittrexInv
<1>2. Cardinality(DOMAIN credits) = n
  BY <1>1, FS_Interval
<1>3. n + 1 \in 1 .. MaxCredits
  BY <1>1, <1>2, BittrexAssumption
<1> DEFINE entry == [amount |-> AmountOf[d], time |-> hour]
           Lines == [amount : Nat, time : 1 .. MaxHour]
<1>4. entry \in Lines /\ IsMap(credits, 1 .. MaxCredits, Lines)
  BY BittrexAssumption DEF BittrexInv, BittrexTypeOK
<1>5. credits' = Put(credits, n + 1, entry)
  BY <1>2
<1> HIDE DEF entry, Lines
<1>6. IsMap(credits', 1 .. MaxCredits, Lines)
  BY <1>3, <1>4, <1>5, PutIsMap
<1>7. /\ DOMAIN credits' = 1 .. (n + 1)
      /\ \A id \in DOMAIN credits : credits'[id] = credits[id]
  BY <1>1, <1>5 DEF Put
<1> QED BY <1>1, <1>6, <1>7 DEF Lines

\* Whoever paid, an entry more leaves the registered ones alone.
LEMMA BittrexCredit ==
  ASSUME BittrexInv, NEW d \in Deposits,
         Cardinality(DOMAIN credits) + 1 <= MaxCredits,
         credits' = Put(credits, Cardinality(DOMAIN credits) + 1,
                        [amount |-> AmountOf[d], time |-> hour]),
         UNCHANGED <<cycleVars, hour, made, registered, seen>>
  PROVE  BittrexInv'
<1>1. /\ IsMap(credits', 1 .. MaxCredits, [amount : Nat, time : 1 .. MaxHour])
      /\ \E n \in Nat : DOMAIN credits' = 1 .. n
      /\ DOMAIN credits \subseteq DOMAIN credits'
      /\ \A id \in DOMAIN credits : credits'[id] = credits[id]
  BY HistoryGrows
<1>2. UNCHANGED <<exchange, faults, est, pre, post>>
  BY DEF cycleVars, roundVars
<1>3. BittrexTypeOK'
  BY <1>1 DEF BittrexInv, BittrexTypeOK, IsMap
<1>4. \A e \in Deposits : HasEntry(e) => HasEntry(e)'
  BY <1>1 DEF HasEntry, BittrexInv, BittrexTypeOK, IsMap
<1> QED BY <1>1, <1>2, <1>3, <1>4 DEF BittrexInv, ToldDone

\* A match is registered: the entry was nobody else's.
LEMMA BittrexRegister ==
  ASSUME CycleInv, BittrexInv, exchange = "bittrex", NEW d \in left, NEW id \in seen,
         Matches(id, d), RegisterBittrexDeposit(id, d), Answer(d, "done"), seen' = {},
         UNCHANGED <<hour, made, credits, creditOf>>
  PROVE  CycleInv' /\ BittrexInv'
<1>1. /\ CycleInv'
      /\ \A e \in Deposits : ToldDone(e)' => ToldDone(e) \/ e = d
  BY AnswerStep DEF Verdicts
<1>2. UNCHANGED <<exchange, faults, est>>
  BY DEF Answer
<1>3. d \in Deposits /\ d \in asked /\ est[d] = "" /\ id \in DOMAIN credits
  BY DEF CycleInv, CycleTypeOK, RoundInv, BittrexInv, BittrexTypeOK
<1>4. d \in DOMAIN made
  BY <1>3 DEF BittrexInv
<1>5. CASE "disk" \in faults /\ UNCHANGED registered
  BY <1>1, <1>2, <1>5 DEF BittrexInv, BittrexTypeOK, IsMap
<1>6. CASE registered' = Put(registered, id, d)
  <2>1. /\ DOMAIN registered' = DOMAIN registered \cup {id}
        /\ registered'[id] = d
        /\ \A j \in DOMAIN registered : registered'[j] = registered[j]
    BY <1>6 DEF Put, Matches, IsNewBittrexDeposit
  <2>2. IsMap(registered', DOMAIN credits, Deposits)
    BY <1>3, <1>6, PutIsMap DEF BittrexInv, BittrexTypeOK
  <2>3. \A e \in Deposits : HasEntry(e) => HasEntry(e)'
    BY <2>1 DEF HasEntry
  <2>4. HasEntry(d)'
    BY <1>4, <2>1 DEF HasEntry, Matches
  <2>5. BittrexTypeOK'
    BY <2>2 DEF BittrexInv, BittrexTypeOK
  <2> QED BY <1>1, <1>2, <2>3, <2>4, <2>5 DEF BittrexInv
<1> QED BY <1>5, <1>6 DEF RegisterBittrexDeposit

\* The history is asked for, looked through, or not available.
LEMMA BittrexCall ==
  ASSUME CycleInv, HuobiInv, BittrexInv, exchange = "bittrex", NEW d \in Deposits,
         BittrexHistory(d) \/ BittrexMatch(d), UNCHANGED huobiVars
  PROVE  CycleInv' /\ HuobiInv' /\ BittrexInv'
<1>1. d = Current /\ d \in left /\ left # {}
  BY CallIsCurrent DEF BittrexHistory, BittrexMatch
<1>2. CASE Answer(d, "") /\ UNCHANGED <<hour, made, credits, registered>> /\ seen' \in {seen, {}}
  <2>1. /\ CycleInv' /\ call' = NoCall
        /\ \A e \in Deposits : ToldDone(e)' => ToldDone(e)
    BY <1>1, <1>2, AnswerStep DEF Verdicts
  <2>2. UNCHANGED <<exchange, faults, est>>
    BY <1>2 DEF Answer
  <2>3. seen' \subseteq DOMAIN credits
    BY <1>2 DEF BittrexInv, BittrexTypeOK
  <2>4. HuobiInv'
    BY <2>1, <2>2, HuobiIdle DEF NoCall
  <2>5. BittrexInv'
    BY <1>2, <2>1, <2>2, <2>3, BittrexKept
  <2> QED BY <2>1, <2>4, <2>5
<1>3. CASE /\ Continue("match", 0, "") /\ seen' = DOMAIN credits
           /\ UNCHANGED <<hour, made, credits, registered>>
  <2>1. /\ CycleInv'
        /\ call' = [pc |-> "match", hash |-> 0, verdict |-> ""]
        /\ \A e \in Deposits : ToldDone(e)' => ToldDone(e)
    BY <1>1, <1>3, ContinueStep DEF Verdicts
  <2>2. UNCHANGED <<exchange, faults, est>>
    BY <1>3 DEF Continue
  <2>3. HuobiInv'
    BY <2>1, <2>2, HuobiIdle
  <2>4. BittrexInv'
    BY <1>3, <2>1, <2>2, BittrexKept
  <2> QED BY <2>1, <2>3, <2>4
<1>4. CASE /\ \E id \in seen : /\ Matches(id, d) /\ RegisterBittrexDeposit(id, d)
                               /\ Answer(d, "done")
           /\ seen' = {} /\ UNCHANGED <<hour, made, credits, creditOf>>
  <2>1. CycleInv' /\ BittrexInv'
    BY <1>1, <1>4, BittrexRegister
  <2>2. call' = NoCall /\ UNCHANGED <<exchange, faults>>
    BY <1>4 DEF Answer
  <2>3. HuobiInv'
    BY <2>2, HuobiIdle DEF NoCall
  <2> QED BY <2>1, <2>3
<1> QED BY <1>2, <1>3, <1>4 DEF BittrexHistory, BittrexMatch
------------------------------------------------------------------------------
\* The cycle itself, whichever exchange it asks.
LEMMA CycleSteps ==
  ASSUME DepositsInv, StartCycle \/ EndRound \/ Crash, UNCHANGED huobiVars,
         UNCHANGED <<hour, made, credits, registered>>, seen' \in {seen, {}}
  PROVE  DepositsInv'
<1>0. CycleInv /\ HuobiInv /\ BittrexInv
  BY DEF DepositsInv
<1>1. UNCHANGED <<exchange, faults>> /\ \A d \in Deposits : est'[d] # "none" => est[d] # "none"
  BY <1>0, EndStep DEF StartCycle, EndRound, Crash
<1>2. /\ CycleInv'
      /\ \A d \in Deposits : /\ ToldDone(d)' => ToldDone(d)
                             /\ LastDone(d)' => LastDone(d)
  BY <1>0, StartStep, EndStep, CrashStep
<1>3. call' = NoCall
  <2>1. CASE StartCycle
    <3>1. call.pc = "none"
      BY <1>0, <2>1 DEF StartCycle, CycleInv, RoundInv
    <3> QED BY <1>0, <2>1, <3>1 DEF StartCycle, CycleInv, RoundInv
  <2>2. CASE EndRound \/ Crash
    BY <2>2 DEF EndRound, Crash
  <2> QED BY <2>1, <2>2
<1>4. HuobiInv'
  BY <1>0, <1>1, <1>2, <1>3, HuobiKept
<1>5. seen' \subseteq DOMAIN credits
  BY <1>0 DEF BittrexInv, BittrexTypeOK
<1>6. BittrexInv'
  BY <1>0, <1>1, <1>2, <1>5, BittrexKept
<1> QED BY <1>2, <1>4, <1>6 DEF DepositsInv

\* A step outside the calls leaves the cycle where it is.
LEMMA CycleKept ==
  ASSUME DepositsInv, UNCHANGED cycleVars
  PROVE  /\ CycleInv'
         /\ UNCHANGED bittrexVars => BittrexInv'
         /\ UNCHANGED huobiVars => HuobiInv'
<1>0. CycleInv /\ HuobiInv /\ BittrexInv
  BY DEF DepositsInv
<1>1. UNCHANGED <<exchange, faults, est, asked, round, left, pre, post, call>>
  BY DEF cycleVars, roundVars
<1>2. CycleInv'
  BY <1>0, <1>1 DEF CycleInv, CycleTypeOK, RoundInv, IsMap
<1>3. \A d \in Deposits : /\ ToldDone(d)' => ToldDone(d)
                          /\ LastDone(d)' => LastDone(d)
  BY <1>1 DEF ToldDone, LastDone
<1>4. ASSUME UNCHANGED bittrexVars PROVE BittrexInv'
  <2>1. seen' \subseteq DOMAIN credits
    BY <1>0, <1>4 DEF bittrexVars, BittrexInv, BittrexTypeOK
  <2> QED BY <1>0, <1>1, <1>3, <1>4, <2>1, BittrexKept DEF bittrexVars
<1>5. ASSUME UNCHANGED huobiVars PROVE HuobiInv'
  <2>1. Current' = Current
    BY <1>1 DEF Current
  <2> QED BY <1>0, <1>1, <1>3, <1>5, <2>1, HuobiKept
<1> QED BY <1>2, <1>4, <1>5

\* Every step of Huobi's deposits keeps the invariant.
LEMMA HuobiStep ==
  ASSUME DepositsInv, HuobiNext, UNCHANGED bittrexVars
  PROVE  DepositsInv'
<1>0. /\ CycleInv /\ HuobiInv /\ BittrexInv
      /\ UNCHANGED <<hour, made, credits, registered, seen>>
  BY DEF DepositsInv, bittrexVars
<1>1. CASE exchange = "huobi" /\ (StartCycle \/ EndRound \/ Crash) /\ UNCHANGED huobiVars
  BY <1>0, <1>1, CycleSteps
<1>2. CASE exchange = "huobi" /\ \E d \in Deposits : DepositStatus(d)
  <2>1. PICK d \in Deposits : DepositStatus(d)
    BY <1>2
  <2>2. CycleInv' /\ HuobiInv'
    BY <1>0, <1>2, <2>1, HuobiLookUp, HuobiSend, HuobiStoreSent, HuobiStoreMined, HuobiHistory,
       HuobiStoreFinal, HuobiRemovePending DEF DepositStatus
  <2>3. UNCHANGED <<exchange, faults>>
    BY <2>1 DEF DepositStatus, LookUp, OnTx2, Send2ndTransaction, StoreSent, StoreMined,
                DepositHistory, StoreFinal, RemovePending, Answer, Continue
  <2>4. BittrexInv'
    BY <1>0, <1>2, <2>3, BittrexKept DEF BittrexInv, BittrexTypeOK
  <2> QED BY <2>2, <2>4 DEF DepositsInv
<1>3. CASE \E d \in Deposits : Fund(d) \/ \E i \in 1 .. MaxSends : Move(d, i)
  <2>1. HuobiInv'
    BY <1>0, <1>3, HuobiFund, HuobiMove
  <2>2. UNCHANGED cycleVars
    BY <1>3 DEF Fund, Move
  <2> QED BY <2>1, <2>2, CycleKept DEF DepositsInv
<1>4. CASE Age
  <2>1. HuobiInv'
    BY <1>0, <1>4, HuobiAge
  <2>2. UNCHANGED cycleVars
    BY <1>4 DEF Age
  <2> QED BY <2>1, <2>2, CycleKept DEF DepositsInv
<1> QED BY <1>1, <1>2, <1>3, <1>4 DEF HuobiNext, Cycle

\* Every step of Bittrex's deposits keeps it too.
LEMMA BittrexStep ==
  ASSUME DepositsInv, BittrexNext, UNCHANGED huobiVars
  PROVE  DepositsInv'
<1>0. CycleInv /\ HuobiInv /\ BittrexInv
  BY DEF DepositsInv
<1>1. CASE BittrexCycle
  <2>1. CASE (StartCycle \/ EndRound) /\ UNCHANGED bittrexVars
    BY <2>1, CycleSteps DEF bittrexVars
  <2>2. CASE \E d \in Deposits : BittrexHistory(d) \/ BittrexMatch(d)
    BY <1>0, <1>1, <2>2, BittrexCall DEF BittrexCycle, DepositsInv
  <2> QED BY <1>1, <2>1, <2>2 DEF BittrexCycle
<1>2. CASE \E d \in Deposits : MakeDeposit(d)
  <2>1. PICK d \in Deposits : MakeDeposit(d)
    BY <1>2
  <2>2. /\ CycleInv' /\ BittrexInv'
        /\ \A e \in Deposits : /\ ToldDone(e)' => ToldDone(e)
                               /\ LastDone(e)' => LastDone(e)
    BY <1>0, <2>1, BittrexMake
  <2>3. UNCHANGED <<exchange, faults, call, Current>>
    BY <2>1 DEF MakeDeposit, roundVars, Current
  <2> QED BY <1>0, <2>2, <2>3, HuobiKept DEF DepositsInv
<1>3. CASE CreditByHand \/ \E d \in Deposits : Credit(d)
  <2>1. UNCHANGED cycleVars
    BY <1>3 DEF Credit, CreditByHand
  <2>2. BittrexInv'
    BY <1>0, <1>3, BittrexCredit DEF Credit, CreditByHand
  <2> QED BY <2>1, <2>2, CycleKept DEF DepositsInv
<1>4. CASE HourPasses
  <2>1. UNCHANGED cycleVars
    BY <1>4 DEF HourPasses
  <2>2. UNCHANGED <<exchange, faults, est, pre, post>>
    BY <2>1 DEF cycleVars, roundVars
  <2>3. hour' \in 1 .. MaxHour
    BY <1>0, <1>4, BittrexAssumption DEF HourPasses, BittrexInv
  <2>4. BittrexInv'
    BY <1>0, <1>4, <2>2, <2>3 DEF HourPasses, BittrexInv, BittrexTypeOK, IsMap, HasEntry, ToldDone
  <2> QED BY <2>1, <2>4, CycleKept DEF DepositsInv
<1>5. CASE Crash /\ seen' = {} /\ UNCHANGED <<hour, made, credits, creditOf, registered>>
  BY <1>5, CycleSteps
<1> QED BY <1>1, <1>2, <1>3, <1>4, <1>5 DEF BittrexNext
\* A stuttering step.
LEMMA DepositsStutter ==
  ASSUME DepositsInv, UNCHANGED depositsVars
  PROVE  DepositsInv'
BY CycleKept DEF depositsVars, DepositsInv

\* The first state.
LEMMA DepositsInvInit == DepositsInit => DepositsInv
<1> SUFFICES ASSUME DepositsInit PROVE DepositsInv
  OBVIOUS
<1>0. HuobiInit /\ BittrexInit /\ CycleInit
  BY DEF DepositsInit
<1>1. PICK s \in Scenarios :
        /\ exchange = s.exchange
        /\ est = [d \in Deposits |-> IF d \in s.waiting THEN "" ELSE "none"]
  BY <1>0 DEF CycleInit
<1>2. exchange \in {"huobi", "bittrex"} /\ (exchange = "bittrex" => s.waiting = {})
  BY <1>1, ScenarioAssumption, WaitingAssumption
<1>3. /\ DOMAIN made = {} /\ DOMAIN credits = {} /\ DOMAIN registered = {}
      /\ DOMAIN pre = {} /\ DOMAIN post = {}
  BY <1>0 DEF BittrexInit, CycleInit, Empty
<1>4. BittrexTypeOK
  BY <1>0, <1>3 DEF BittrexInit, BittrexTypeOK, IsMap, Empty
<1>5. \E n \in Nat : DOMAIN credits = 1 .. n
  <2>1. DOMAIN credits = 1 .. 0
    BY <1>3
  <2> QED BY <2>1
<1>6. hour \in 1 .. MaxHour
  BY <1>0, BittrexAssumption DEF BittrexInit
<1>7. \A d \in Deposits : ~ToldDone(d) /\ (exchange = "bittrex" => est[d] = "none")
  BY <1>1, <1>2, <1>3 DEF ToldDone
<1>8. BittrexInv
  BY <1>2, <1>4, <1>5, <1>6, <1>7 DEF BittrexInv
<1> QED BY <1>0, <1>8, InitStep DEF DepositsInv

\* The inductive invariant holds in every state.
THEOREM DepositsInvHolds == DepositsSpec => []DepositsInv
<1>1. DepositsInv /\ [DepositsNext]_depositsVars => DepositsInv'
  BY HuobiStep, BittrexStep, DepositsStutter DEF DepositsNext
<1> QED BY <1>1, DepositsInvInit, PTL DEF DepositsSpec

(***************************************************************************)
(* The buckets, rounds and answers of the two adapters always have their   *)
(* types, for any deposits, scenarios and bounds.                          *)
(***************************************************************************)
THEOREM DepositsTyped == DepositsSpec => []DepositsTypeOK
<1>1. DepositsInv => DepositsTypeOK
  BY DEF DepositsInv, CycleInv, HuobiInv, HuobiTyped, CallKnows, BittrexInv, DepositsTypeOK,
         TypeOK, Calls
<1> QED BY <1>1, DepositsInvHolds, PTL

(***************************************************************************)
(* Whatever fails and wherever the process dies, a deposit that            *)
(* FetchAuthDataFromExchange stored as done was credited by Huobi.         *)
(***************************************************************************)
THEOREM DoneCredited == DepositsSpec => []DoneIsCredited
<1>1. DepositsInv => DoneIsCredited
  BY DEF DepositsInv, HuobiInv, ToldIsCredited, ToldDone, Credited, DoneIsCredited
<1> QED BY <1>1, DepositsInvHolds, PTL

(***************************************************************************)
(* Unless a write of the exchange's database fails, a deposit that is done *)
(* has no entry in PENDING_INTERMEDIATE_TX.                                *)
(***************************************************************************)
THEOREM DoneRemoved == DepositsSpec => []DoneLeavesNoPending
<1>1. DepositsInv => DoneLeavesNoPending
  BY DEF DepositsInv, HuobiInv, LastIsRemoved, LastDone, DoneLeavesNoPending
<1> QED BY <1>1, DepositsInvHolds, PTL

(***************************************************************************)
(* As long as the two buckets can be read, DepositStatus never sends a     *)
(* second transaction for a deposit that has an entry in either of them.   *)
(***************************************************************************)
THEOREM SentAtMostOnce == DepositsSpec => SentOnce
<1> DEFINE Kept == \A d \in Deposits :
             "read" \notin faults /\ d \in DOMAIN pendingTx \cup DOMAIN finalTx => Len(tx2'[d]) = Len(tx2[d])
<1>1. DepositsInv /\ [DepositsNext]_depositsVars => [Kept]_vars
  <2> SUFFICES ASSUME DepositsInv, [DepositsNext]_depositsVars
               PROVE  Kept \/ UNCHANGED vars
    OBVIOUS
  <2>0. CycleInv /\ HuobiInv
    BY DEF DepositsInv
  <2>1. CASE UNCHANGED tx2
    BY <2>1
  <2>2. CASE \E d \in Deposits, i \in 1 .. MaxSends : Move(d, i)
    <3>1. PICK d \in Deposits, i \in 1 .. MaxSends : Move(d, i)
      BY <2>2
    <3>2. tx2 \in [Deposits -> Seq(TxStates)]
      BY <2>0 DEF HuobiInv, HuobiTyped
    <3>3. PICK s \in TxStates : tx2' = [tx2 EXCEPT ![d] = [@ EXCEPT ![i] = s]]
      BY <3>1 DEF Move, TxStates
    <3>4. i \in DOMAIN tx2[d]
      BY <3>1 DEF Move
    <3>5. \A e \in Deposits : Len(tx2'[e]) = Len(tx2[e])
      BY <3>2, <3>3, <3>4
    <3> QED BY <3>5
  <2>3. CASE \E d \in Deposits : Send2ndTransaction(d)
    <3>1. PICK d \in Deposits : Send2ndTransaction(d)
      BY <2>3
    <3>2. call.pc = "send" /\ d = Current /\ Len(tx2[d]) < MaxSends
      BY <3>1 DEF Send2ndTransaction
    <3>3. "read" \notin faults => d \notin DOMAIN pendingTx \cup DOMAIN finalTx
      BY <2>0, <3>2 DEF HuobiInv, CallKnows
    <3>4. \A e \in Deposits : e # d => tx2'[e] = tx2[e]
      BY <2>0, <3>1, <3>2, SentKeeps DEF Send2ndTransaction
    <3> QED BY <3>3, <3>4
  <2> QED BY <2>1, <2>2, <2>3
          DEF DepositsNext, depositsVars, HuobiNext, Cycle, DepositStatus, LookUp, StoreSent,
              StoreMined, DepositHistory, StoreFinal, RemovePending, Fund, Age, huobiVars, netVars
<1> QED BY <1>1, DepositsInvHolds, PTL DEF DepositsSpec, SentOnce

(***************************************************************************)
(* Unless a registration is lost, an activity that Bittrex's DepositStatus *)
(* reported as done has a registered entry of the history that is its own  *)
(* and fits it.                                                            *)
(***************************************************************************)
THEOREM DoneOwnsEntry == DepositsSpec => []DoneHasOwnEntry
<1>1. DepositsInv => DoneHasOwnEntry
  BY DEF DepositsInv, BittrexInv, HasEntry, ToldDone, DoneHasOwnEntry
<1> QED BY <1>1, DepositsInvHolds, PTL
=============================================================================
