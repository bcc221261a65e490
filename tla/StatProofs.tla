----------------------------- MODULE StatProofs -----------------------------
(***************************************************************************)
(* Proofs about the log fetcher of the statistics.                         *)
(***************************************************************************)
EXTENDS StatServer, FoldProofs

\* What a transaction carries, the events, and the logs made of them.
AllTx    == UNION {Range(s[2]) : s \in Scenarios}
AllData  == {tx.data : tx \in AllTx}
EventSet == [block : Nat, index : Nat, tx : Nat \X Nat, kind : {"cat", "fee", "trade"}, data : AllData]
LogSet   == [type : {"cat", "trade"}, block : Nat, index : Nat, tx : Nat \X Nat, data : AllData]
AccSet   == [out : Seq(LogSet), open : Seq(LogSet)]

ChainOK == chain \in Seq(Seq(AllTx))

\* The order of events and logs on the chain.
Before(l, m) == l.block < m.block \/ (l.block = m.block /\ l.index < m.index)

\* e is an event of the transaction p of block b.
Emits(e, b, p) ==
  /\ e.block = b /\ e.tx = <<b, p>> /\ e.data = chain[b][p].data
  /\ IF chain[b][p].type = "cat" THEN e.kind = "cat" /\ e.index = 2 * p - 1
     ELSE \/ e.kind = "fee" /\ e.index = 2 * p - 1
          \/ e.kind = "trade" /\ e.index = 2 * p

\* ev has the events of the blocks in B, in their order.
Chronicle(ev, B) ==
  /\ ev \in Seq(EventSet)
  /\ \A j \in 1 .. Len(ev) : \E b \in B : \E p \in 1 .. Len(chain[b]) : Emits(ev[j], b, p)
  /\ \A b \in B : \A p \in 1 .. Len(chain[b]) : \E j \in 1 .. Len(ev) : Emits(ev[j], b, p)
  /\ \A i, j \in 1 .. Len(ev) : i < j => Before(ev[i], ev[j])
  /\ \A j \in 1 .. Len(ev) : ev[j].kind = "trade" =>
       j > 1 /\ ev[j - 1].kind = "fee" /\ ev[j - 1].tx = ev[j].tx

\* The events of one transaction.
LEMMA TxEvents ==
  ASSUME ChainOK, NEW b \in 1 .. Len(chain), NEW p \in 1 .. Len(chain[b])
  PROVE  /\ EventsOf(b, p) \in Seq(EventSet)
         /\ Len(EventsOf(b, p)) \in Nat /\ Len(EventsOf(b, p)) >= 1 /\ Len(EventsOf(b, p)) <= 2
         /\ \A k \in 1 .. Len(EventsOf(b, p)) : Emits(EventsOf(b, p)[k], b, p)
         /\ EventsOf(b, p)[1].index = 2 * p - 1
         /\ Len(EventsOf(b, p)) < 2 => EventsOf(b, p)[1].kind # "trade"
         /\ Len(EventsOf(b, p)) >= 2 => EventsOf(b, p)[1].kind = "fee" /\ EventsOf(b, p)[2].index = 2 * p
<1> DEFINE tx == chain[b][p]
           E(i, kind) == Event(b, p, i, kind)
<1>1. tx \in AllTx /\ b \in Nat /\ p \in Nat /\ p > 0
  BY DEF ChainOK
<1>2. tx.data \in AllData
  BY <1>1 DEF AllData
<1>3. ASSUME NEW i \in Nat, NEW kind \in {"cat", "fee", "trade"}
      PROVE  /\ E(i, kind) \in EventSet
             /\ E(i, kind).block = b /\ E(i, kind).index = i /\ E(i, kind).tx = <<b, p>>
             /\ E(i, kind).kind = kind /\ E(i, kind).data = tx.data
  BY <1>1, <1>2 DEF Event, EventSet
<1>4. 2 * p - 1 \in Nat /\ 2 * p \in Nat
  BY <1>1
<1> HIDE DEF E
<1>5. CASE tx.type = "cat"
  <2>1. EventsOf(b, p) = <<E(2 * p - 1, "cat")>>
    BY <1>5 DEF EventsOf, E
  <2>2. E(2 * p - 1, "cat") \in EventSet /\ Emits(E(2 * p - 1, "cat"), b, p)
    BY <1>3, <1>4, <1>5 DEF Emits
  <2> QED BY <2>1, <2>2, <1>3, <1>4
<1>6. CASE tx.type # "cat"
  <2>1. EventsOf(b, p) = <<E(2 * p - 1, "fee"), E(2 * p, "trade")>>
    BY <1>6 DEF EventsOf, E
  <2>2. E(2 * p - 1, "fee") \in EventSet /\ Emits(E(2 * p - 1, "fee"), b, p)
    BY <1>3, <1>4, <1>6 DEF Emits
  <2>3. E(2 * p, "trade") \in EventSet /\ Emits(E(2 * p, "trade"), b, p)
    BY <1>3, <1>4, <1>6 DEF Emits
  <2> QED BY <2>1, <2>2, <2>3, <1>3, <1>4
<1> QED BY <1>5, <1>6

\* The events of a block.
LEMMA BlockChronicle ==
  ASSUME ChainOK, NEW b \in 1 .. Len(chain)
  PROVE  Chronicle(Events(b), {b})
<1> DEFINE n == Len(chain[b])
           seqs == [p \in 1 .. n |-> EventsOf(b, p)]
           ev == Events(b)
<1>1. n \in Nat /\ b \in Nat
  BY DEF ChainOK
<1>2. seqs \in Seq(Seq(EventSet)) /\ Len(seqs) = n /\ \A p \in 1 .. n : seqs[p] = EventsOf(b, p)
  <2>1. \A p \in 1 .. n : EventsOf(b, p) \in Seq(EventSet)
    BY TxEvents
  <2> QED BY <1>1, <2>1
<1>3. ev = FlattenSeq(seqs)
  BY DEF Events
<1> HIDE DEF seqs, ev, n
<1>4. ev \in Seq(EventSet) /\ Len(ev) \in Nat
  BY <1>2, <1>3, FlattenIsFlat
<1>5. PICK start : IsFlat(ev, seqs, n, start)
  BY <1>2, <1>3, FlattenIsFlat
<1>6. ASSUME NEW p \in 1 .. n
      PROVE  /\ Len(seqs[p]) \in Nat /\ Len(seqs[p]) >= 1 /\ Len(seqs[p]) <= 2 /\ start[p] \in Nat /\ start[p] + Len(seqs[p]) <= Len(ev)
             /\ \A k \in 1 .. Len(seqs[p]) :
                  /\ ev[start[p] + k] = seqs[p][k] /\ Emits(ev[start[p] + k], b, p)
                  /\ ev[start[p] + k].kind = "trade" => k = 2
                  /\ ev[start[p] + k].index = 2 * p - 2 + k
             /\ Len(seqs[p]) >= 2 => ev[start[p] + 1].kind = "fee"
  <2>1. /\ Len(EventsOf(b, p)) \in Nat /\ Len(EventsOf(b, p)) >= 1 /\ Len(EventsOf(b, p)) <= 2
        /\ \A k \in 1 .. Len(EventsOf(b, p)) : Emits(EventsOf(b, p)[k], b, p)
        /\ EventsOf(b, p)[1].index = 2 * p - 1
        /\ Len(EventsOf(b, p)) < 2 => EventsOf(b, p)[1].kind # "trade"
        /\ Len(EventsOf(b, p)) >= 2 => EventsOf(b, p)[1].kind = "fee" /\ EventsOf(b, p)[2].index = 2 * p
    BY TxEvents DEF n
  <2>2. seqs[p] = EventsOf(b, p)
    BY <1>2
  <2>3. /\ start[p] \in Nat /\ start[p] + Len(seqs[p]) <= Len(ev)
        /\ \A k \in 1 .. Len(seqs[p]) : ev[start[p] + k] = seqs[p][k]
    BY <1>5 DEF IsFlat
  <2>4. p \in Nat
    BY <1>1
  <2>5. ASSUME NEW k \in 1 .. Len(seqs[p])
        PROVE  /\ ev[start[p] + k] = seqs[p][k] /\ Emits(ev[start[p] + k], b, p)
               /\ ev[start[p] + k].kind = "trade" => k = 2
               /\ ev[start[p] + k].index = 2 * p - 2 + k
    <3>1. ev[start[p] + k] = EventsOf(b, p)[k] /\ (k = 1 \/ (k = 2 /\ Len(seqs[p]) >= 2))
      BY <2>1, <2>2, <2>3
    <3>2. CASE k = 1
      <4>1. ev[start[p] + k] = EventsOf(b, p)[1]
        BY <3>1, <3>2
      <4>2. ev[start[p] + k].kind # "trade" /\ ev[start[p] + k].index = 2 * p - 1
        BY <4>1, <2>1
      <4> QED BY <3>1, <3>2, <4>2, <2>1, <2>2, <2>3, <2>4
    <3>3. CASE k = 2 /\ Len(seqs[p]) >= 2
      <4>1. ev[start[p] + k] = EventsOf(b, p)[2]
        BY <3>1, <3>3
      <4>2. ev[start[p] + k].index = 2 * p
        BY <4>1, <3>3, <2>1, <2>2
      <4> QED BY <3>1, <3>3, <4>2, <2>1, <2>2, <2>3, <2>4
    <3> QED BY <3>1, <3>2, <3>3
  <2>6. Len(seqs[p]) >= 2 => ev[start[p] + 1].kind = "fee"
    BY <2>1, <2>2, <2>3
  <2> QED BY <2>1, <2>2, <2>3, <2>5, <2>6
<1>7. \A j \in 1 .. Len(ev) : \E p \in 1 .. n : \E k \in 1 .. Len(seqs[p]) : j = start[p] + k
  BY <1>5 DEF IsFlat
<1>8. \A j \in 1 .. Len(ev) : \E p \in 1 .. n : Emits(ev[j], b, p)
  BY <1>6, <1>7
<1>9. ASSUME NEW p \in 1 .. n PROVE \E j \in 1 .. Len(ev) : Emits(ev[j], b, p)
  <2>0. Len(seqs[p]) \in Nat /\ Len(seqs[p]) >= 1 /\ Len(seqs[p]) <= 2 /\ start[p] \in Nat /\ start[p] + Len(seqs[p]) <= Len(ev)
    BY <1>6
  <2>1. 1 \in 1 .. Len(seqs[p]) /\ start[p] + 1 \in 1 .. Len(ev)
    BY <1>4, <2>0
  <2> QED BY <2>1, <1>6
<1>10. ASSUME NEW i \in 1 .. Len(ev), NEW j \in 1 .. Len(ev), i < j
       PROVE  Before(ev[i], ev[j])
  <2>1. PICK p \in 1 .. n : \E k \in 1 .. Len(seqs[p]) : i = start[p] + k
    BY <1>7
  <2>2. PICK k \in 1 .. Len(seqs[p]) : i = start[p] + k
    BY <2>1
  <2>3. PICK q \in 1 .. n : \E m \in 1 .. Len(seqs[q]) : j = start[q] + m
    BY <1>7
  <2>4. PICK m \in 1 .. Len(seqs[q]) : j = start[q] + m
    BY <2>3
  <2>5. /\ ev[i].block = b /\ ev[i].index = 2 * p - 2 + k /\ start[p] \in Nat /\ Len(seqs[p]) \in Nat /\ Len(seqs[p]) >= 1 /\ Len(seqs[p]) <= 2
        /\ ev[j].block = b /\ ev[j].index = 2 * q - 2 + m /\ start[q] \in Nat /\ Len(seqs[q]) \in Nat /\ Len(seqs[q]) >= 1 /\ Len(seqs[q]) <= 2
    BY <1>6, <2>2, <2>4 DEF Emits
  <2>6. /\ p \in Nat /\ q \in Nat /\ k \in Nat /\ m \in Nat /\ k >= 1 /\ k <= 2 /\ m >= 1 /\ m <= 2
        /\ m <= Len(seqs[q])
    <3>1. p \in Nat /\ q \in Nat
      BY <1>1
    <3> QED BY <3>1, <2>5
  <2>7. p < q \/ (p = q /\ k < m)
    <3>1. start[p] + k < start[q] + m
      BY <1>10, <2>2, <2>4
    <3>2. n <= Len(seqs)
      BY <1>1, <1>2
    <3> QED BY <1>1, <1>2, <1>5, <3>1, <3>2, FlatOrder
  <2>8. CASE p = q /\ k < m
    BY <2>8, <2>5, <2>6 DEF Before
  <2>9. CASE p < q
    BY <2>9, <2>5, <2>6 DEF Before
  <2> QED BY <2>7, <2>8, <2>9
<1>11. ASSUME NEW j \in 1 .. Len(ev), ev[j].kind = "trade"
       PROVE  j > 1 /\ ev[j - 1].kind = "fee" /\ ev[j - 1].tx = ev[j].tx
  <2>1. PICK p \in 1 .. n : \E k \in 1 .. Len(seqs[p]) : j = start[p] + k
    BY <1>7
  <2>2. PICK k \in 1 .. Len(seqs[p]) : j = start[p] + k
    BY <2>1
  <2>3. k = 2 /\ start[p] \in Nat /\ Len(seqs[p]) \in Nat /\ Len(seqs[p]) >= 1 /\ Len(seqs[p]) <= 2
    BY <1>6, <1>11, <2>2
  <2>4. Len(seqs[p]) >= 2 /\ 1 \in 1 .. Len(seqs[p]) /\ j - 1 = start[p] + 1
    BY <2>2, <2>3
  <2>5. j > 1
    BY <2>2, <2>3
  <2>6. ev[j - 1].kind = "fee"
    BY <1>6, <2>4
  <2>7. Emits(ev[j - 1], b, p) /\ Emits(ev[j], b, p)
    BY <1>6, <2>2, <2>4
  <2> QED BY <2>5, <2>6, <2>7 DEF Emits
<1> QED BY <1>4, <1>8, <1>9, <1>10, <1>11 DEF Chronicle, n, ev

\* The blocks that are asked for.
Asked(from, to) == {b \in 1 .. MaxBlock : b \in from .. to /\ b \in DOMAIN chain}

\* The events of a range of blocks.
LEMMA RawChronicle ==
  ASSUME ChainOK, NEW from \in Nat, NEW to \in Nat
  PROVE  Chronicle(GetRawLogs(from, to), Asked(from, to))
<1> DEFINE B    == Asked(from, to)
           n    == MaxBlock
           seqs == [b \in 1 .. MaxBlock |-> IF b \in from .. to /\ b \in DOMAIN chain THEN Events(b) ELSE <<>>]
           ev   == GetRawLogs(from, to)
<1>1. n \in Nat /\ B \subseteq 1 .. n /\ B \subseteq 1 .. Len(chain)
  BY StatLogsAssumption DEF ChainOK, Asked
<1>2. \A b \in B : Chronicle(Events(b), {b})
  BY <1>1, BlockChronicle
<1>3. /\ \A b \in B : seqs[b] = Events(b)
      /\ \A b \in 1 .. n : b \notin B => seqs[b] = <<>>
  BY DEF Asked
<1>4. seqs \in Seq(Seq(EventSet)) /\ Len(seqs) = n
  <2>1. ASSUME NEW b \in 1 .. n PROVE seqs[b] \in Seq(EventSet)
    <3> HIDE DEF seqs, B
    <3>1. CASE b \in B
      <4>1. Chronicle(Events(b), {b}) /\ seqs[b] = Events(b)
        BY <3>1, <1>2, <1>3
      <4>2. Events(b) \in Seq(EventSet)
        BY <4>1 DEF Chronicle
      <4> QED BY <4>1, <4>2
    <3>2. CASE b \notin B
      <4>1. seqs[b] = <<>>
        BY <3>2, <1>3
      <4> QED BY <4>1
    <3> QED BY <3>1, <3>2
  <2>2. seqs \in [1 .. n -> Seq(EventSet)]
    BY <2>1
  <2> HIDE DEF seqs
  <2> QED BY <1>1, <2>2
<1>5. ev = FlattenSeq(seqs)
  BY DEF GetRawLogs
<1> HIDE DEF seqs, ev, n, B
<1>6. ev \in Seq(EventSet) /\ Len(ev) \in Nat
  BY <1>4, <1>5, FlattenIsFlat
<1>7. PICK start : IsFlat(ev, seqs, n, start)
  BY <1>4, <1>5, FlattenIsFlat
<1>8. ASSUME NEW j \in 1 .. Len(ev)
      PROVE  \E b \in B : \E k \in 1 .. Len(Events(b)) : j = start[b] + k
  <2>1. PICK b \in 1 .. n : \E k \in 1 .. Len(seqs[b]) : j = start[b] + k
    BY <1>7 DEF IsFlat
  <2>2. b \in B
    BY <2>1, <1>3
  <2> QED BY <2>1, <2>2, <1>3
<1>9. ASSUME NEW b \in B
      PROVE  /\ start[b] \in Nat /\ Len(Events(b)) \in Nat /\ start[b] + Len(Events(b)) <= Len(ev)
             /\ \A k \in 1 .. Len(Events(b)) : ev[start[b] + k] = Events(b)[k]
  <2>1. Len(Events(b)) \in Nat /\ seqs[b] = Events(b) /\ b \in 1 .. n
    BY <1>1, <1>2, <1>3 DEF Chronicle
  <2> QED BY <2>1, <1>7 DEF IsFlat
<1>10. ASSUME NEW j \in 1 .. Len(ev)
       PROVE  \E b \in B : \E p \in 1 .. Len(chain[b]) : Emits(ev[j], b, p)
  <2>1. PICK b \in B : \E k \in 1 .. Len(Events(b)) : j = start[b] + k
    BY <1>8
  <2>2. PICK k \in 1 .. Len(Events(b)) : j = start[b] + k
    BY <2>1
  <2>3. ev[j] = Events(b)[k]
    BY <2>2, <1>9
  <2>4. \E p \in 1 .. Len(chain[b]) : Emits(Events(b)[k], b, p)
    BY <1>2 DEF Chronicle
  <2> QED BY <2>3, <2>4
<1>11. ASSUME NEW b \in B, NEW p \in 1 .. Len(chain[b])
       PROVE  \E j \in 1 .. Len(ev) : Emits(ev[j], b, p)
  <2>1. PICK k \in 1 .. Len(Events(b)) : Emits(Events(b)[k], b, p)
    BY <1>2 DEF Chronicle
  <2>2. start[b] \in Nat /\ Len(Events(b)) \in Nat /\ start[b] + Len(Events(b)) <= Len(ev)
    BY <1>9
  <2>3. start[b] + k \in 1 .. Len(ev)
    BY <2>2, <1>6
  <2>4. ev[start[b] + k] = Events(b)[k]
    BY <1>9
  <2> QED BY <2>1, <2>3, <2>4
<1>12. ASSUME NEW i \in 1 .. Len(ev), NEW j \in 1 .. Len(ev), i < j
       PROVE  Before(ev[i], ev[j])
  <2>1. PICK b \in B : \E k \in 1 .. Len(Events(b)) : i = start[b] + k
    BY <1>8
  <2>2. PICK k \in 1 .. Len(Events(b)) : i = start[b] + k
    BY <2>1
  <2>3. PICK c \in B : \E m \in 1 .. Len(Events(c)) : j = start[c] + m
    BY <1>8
  <2>4. PICK m \in 1 .. Len(Events(c)) : j = start[c] + m
    BY <2>3
  <2>5. ev[i] = Events(b)[k] /\ ev[j] = Events(c)[m]
    BY <1>9, <2>2, <2>4
  <2>6. ev[i].block = b /\ ev[j].block = c
    <3>1. \E p \in 1 .. Len(chain[b]) : Emits(Events(b)[k], b, p)
      BY <1>2 DEF Chronicle
    <3>2. \E p \in 1 .. Len(chain[c]) : Emits(Events(c)[m], c, p)
      BY <1>2 DEF Chronicle
    <3> QED BY <2>5, <3>1, <3>2 DEF Emits
  <2>7. b < c \/ (b = c /\ k < m)
    <3>1. start[b] + k < start[c] + m
      BY <1>12, <2>2, <2>4
    <3>2. n <= Len(seqs) /\ b \in 1 .. n /\ c \in 1 .. n
      BY <1>1, <1>4
    <3>3. k \in 1 .. Len(seqs[b]) /\ m \in 1 .. Len(seqs[c])
      BY <1>3
    <3> QED BY <1>1, <1>4, <1>7, <3>1, <3>2, <3>3, FlatOrder
  <2>8. CASE b = c /\ k < m
    <3>1. Before(Events(b)[k], Events(b)[m])
      BY <2>8, <1>2 DEF Chronicle
    <3> QED BY <3>1, <2>5, <2>8
  <2>9. CASE b < c
    BY <2>9, <2>6 DEF Before
  <2> QED BY <2>7, <2>8, <2>9
<1>13. ASSUME NEW j \in 1 .. Len(ev), ev[j].kind = "trade"
       PROVE  j > 1 /\ ev[j - 1].kind = "fee" /\ ev[j - 1].tx = ev[j].tx
  <2>1. PICK b \in B : \E k \in 1 .. Len(Events(b)) : j = start[b] + k
    BY <1>8
  <2>2. PICK k \in 1 .. Len(Events(b)) : j = start[b] + k
    BY <2>1
  <2>3. ev[j] = Events(b)[k] /\ start[b] \in Nat /\ Len(Events(b)) \in Nat
    BY <2>2, <1>9
  <2>4. k > 1 /\ Events(b)[k - 1].kind = "fee" /\ Events(b)[k - 1].tx = Events(b)[k].tx
    BY <2>3, <1>13, <1>2 DEF Chronicle
  <2>5. k - 1 \in 1 .. Len(Events(b)) /\ start[b] + (k - 1) = j - 1 /\ j > 1
    BY <2>2, <2>3, <2>4
  <2>6. ev[j - 1] = Events(b)[k - 1]
    BY <2>5, <1>9
  <2> QED BY <2>3, <2>4, <2>5, <2>6
<1> QED BY <1>6, <1>10, <1>11, <1>12, <1>13 DEF Chronicle, B, ev

\* One turn of the loop of GetLogs stays inside the type.
LEMMA AddTyped ==
  ASSUME NEW a \in AccSet, NEW e \in EventSet
  PROVE  AddEvent(a, e) \in AccSet
<1>1. a.out \in Seq(LogSet) /\ a.open \in Seq(LogSet)
  BY DEF AccSet
<1>2. ASSUME NEW type \in {"cat", "trade"} PROVE AsLog(type, e) \in LogSet
  BY DEF AsLog, EventSet, LogSet
<1>3. CASE e.kind = "cat"
  <2>1. Append(a.out, AsLog("cat", e)) \in Seq(LogSet)
    BY <1>1, <1>2
  <2> QED BY <1>1, <1>3, <2>1 DEF AddEvent, AccSet
<1>4. CASE e.kind # "cat"
  <2>1. a.out \o a.open \in Seq(LogSet) /\ <<AsLog("trade", e)>> \in Seq(LogSet)
    BY <1>1, <1>2
  <2> QED BY <1>4, <2>1 DEF AddEvent, AccSet
<1> QED BY <1>3, <1>4

\* The fold of GetLogs, turn by turn.
LEMMA AddFold ==
  ASSUME NEW s \in Seq(EventSet), NEW base \in AccSet
  PROVE  \E h \in [0 .. Len(s) -> AccSet] :
           /\ h[0] = base
           /\ \A i \in 1 .. Len(s) : h[i] = AddEvent(h[i - 1], s[i])
           /\ FoldLeft(AddEvent, base, s) = h[Len(s)]
<1> DEFINE F == [p \in AccSet \X EventSet |-> AddEvent(p[1], p[2])]
           Iter(g) == g = [q \in SUBSET DOMAIN s |->
                             IF q = {} THEN base ELSE AddEvent(g[q \ {Max(q)}], s[Max(q)])]
<1>1. F \in [AccSet \X EventSet -> AccSet]
  BY AddTyped
<1>2. PICK G : IsFoldTable(G, AccSet, F, base, s)
  <2> HIDE DEF F
  <2> QED BY <1>1, FoldTable
<1>3. DOMAIN s = 1 .. Len(s) /\ Len(s) \in Nat
  OBVIOUS
<1>4. ASSUME NEW q \in SUBSET DOMAIN s, q # {}
      PROVE  F[<<G[q \ {Max(q)}], s[Max(q)]>>] = AddEvent(G[q \ {Max(q)}], s[Max(q)])
  <2>1. Max(q) \in q
    BY <1>3, <1>4, MaxOf
  <2>2. G[q \ {Max(q)}] \in AccSet /\ s[Max(q)] \in EventSet
    BY <2>1, <1>2, <1>3 DEF IsFoldTable
  <2> QED BY <2>2
<1>5. Iter(G)
  <2> HIDE DEF F
  <2> QED BY <1>2, <1>3, <1>4 DEF IsFoldTable
<1> DEFINE it == CHOOSE g : Iter(g)
<1>6. Iter(it)
  <2> HIDE DEF Iter
  <2> QED BY <1>5, Zenon
<1>7. FoldLeft(AddEvent, base, s) = it[DOMAIN s]
  BY Zenon DEF FoldLeft, MapThenFoldSet
<1> DEFINE h == [i \in 0 .. Len(s) |-> it[1 .. i]]
<1>8. \A q \in SUBSET (1 .. Len(s)) :
        it[q] = IF q = {} THEN base ELSE AddEvent(it[q \ {Max(q)}], s[Max(q)])
  <2> HIDE DEF it
  <2> QED BY <1>3, <1>6
<1>9. h[0] = base
  <2>1. 1 .. 0 = {} /\ 1 .. 0 \in SUBSET (1 .. Len(s)) /\ 0 \in 0 .. Len(s)
    BY <1>3
  <2>2. h[0] = it[1 .. 0]
    BY <2>1
  <2> HIDE DEF it, h
  <2> QED BY <2>1, <2>2, <1>8
<1>10. ASSUME NEW i \in 1 .. Len(s)
       PROVE  h[i] = AddEvent(h[i - 1], s[i])
  <2>1. 1 .. i \in SUBSET (1 .. Len(s)) /\ 1 .. i # {} /\ Max(1 .. i) = i /\ (1 .. i) \ {i} = 1 .. (i - 1)
    BY <1>3, MaxOfStretch
  <2>2. i \in 0 .. Len(s) /\ i - 1 \in 0 .. Len(s)
    BY <1>3
  <2>3. h[i] = it[1 .. i] /\ h[i - 1] = it[1 .. (i - 1)]
    BY <2>2
  <2>4. it[1 .. i] = AddEvent(it[(1 .. i) \ {Max(1 .. i)}], s[Max(1 .. i)])
    <3> HIDE DEF it
    <3> QED BY <2>1, <1>8, Zenon
  <2> HIDE DEF h, it
  <2> QED BY <2>1, <2>3, <2>4
<1>11. h[Len(s)] = FoldLeft(AddEvent, base, s)
  <2> HIDE DEF it
  <2> QED BY <1>7, <1>3
<1>12. h \in [0 .. Len(s) -> AccSet]
  <2> DEFINE T == {n \in Nat : n <= Len(s) => h[n] \in AccSet}
  <2> HIDE DEF h
  <2>1. 0 \in T
    BY <1>9
  <2>2. ASSUME NEW n \in Nat, n \in T PROVE n + 1 \in T
    <3> SUFFICES ASSUME n + 1 <= Len(s) PROVE h[n + 1] \in AccSet
      OBVIOUS
    <3>1. n + 1 \in 1 .. Len(s) /\ (n + 1) - 1 = n /\ n <= Len(s)
      BY <1>3
    <3>2. h[n] \in AccSet /\ s[n + 1] \in EventSet
      BY <2>2, <3>1
    <3>3. h[n + 1] = AddEvent(h[n], s[n + 1])
      BY <3>1, <1>10
    <3> QED BY <3>2, <3>3, AddTyped
  <2>3. Nat \subseteq T
    <3> HIDE DEF T
    <3> QED BY <2>1, <2>2, InductionOn
  <2>4. \A n \in 0 .. Len(s) : h[n] \in AccSet
    BY <2>3
  <2> QED BY <2>4 DEF h
<1> HIDE DEF h
<1> QED BY <1>9, <1>10, <1>11, <1>12

\* The log of the transaction p of block b.
LogIn(ch, b, p) ==
  [type  |-> IF ch[b][p].type = "cat" THEN "cat" ELSE "trade",
   block |-> b, index |-> 2 * p - 1, tx |-> <<b, p>>, data |-> ch[b][p].data]
LogAt(b, p) == LogIn(chain, b, p)

IsLog(l, B) == \E b \in B : \E p \in 1 .. Len(chain[b]) : l = LogAt(b, p)

\* What holds of the loop of GetLogs after k events of ev.
Collected(ev, B, k, a) ==
  /\ \A x \in 1 .. Len(a.out) : IsLog(a.out[x], B)
  /\ a.open # <<>> => a.open = <<a.open[1]>> /\ IsLog(a.open[1], B) /\ a.open[1].type = "trade"
  /\ k = 0 => a.out = <<>> /\ a.open = <<>>
  /\ k > 0 => /\ \A x \in 1 .. Len(a.out) : ~Before(ev[k], a.out[x])
              /\ a.open # <<>> => ~Before(ev[k], a.open[1])
  /\ \A x, y \in 1 .. Len(a.out) : x < y /\ (a.out[x].type = "trade" \/ a.out[y].type = "cat")
       => Before(a.out[x], a.out[y])
  /\ a.open # <<>> => \A x \in 1 .. Len(a.out) :
       a.out[x].tx # a.open[1].tx /\ (a.out[x].type = "trade" => Before(a.out[x], a.open[1]))
  /\ \A i \in 1 .. k : \A b \in B : \A p \in 1 .. Len(chain[b]) : Emits(ev[i], b, p) =>
       \/ \E x \in 1 .. Len(a.out) : a.out[x] = LogAt(b, p)
       \/ a.open # <<>> /\ a.open[1] = LogAt(b, p)
  /\ k > 0 /\ ev[k].kind = "fee" => a.open # <<>> /\ a.open[1].tx = ev[k].tx

\* The fields of a log.
LEMMA LogFields ==
  ASSUME NEW B, B \subseteq Nat, NEW b \in B, NEW p \in Nat
  PROVE  /\ LogAt(b, p).block = b /\ LogAt(b, p).index = 2 * p - 1 /\ LogAt(b, p).tx = <<b, p>>
         /\ LogAt(b, p).data = chain[b][p].data
         /\ LogAt(b, p).type = IF chain[b][p].type = "cat" THEN "cat" ELSE "trade"
BY DEF LogAt, LogIn

\* The first event of a transaction makes its log.
LEMMA AsLogAt ==
  ASSUME NEW b, NEW p, NEW e, Emits(e, b, p), e.kind # "trade"
  PROVE  AsLog(IF e.kind = "cat" THEN "cat" ELSE "trade", e) = LogAt(b, p)
BY DEF AsLog, LogAt, LogIn, Emits

\* A log before the first event of a transaction is of another transaction.
LEMMA OtherTx ==
  ASSUME ChainOK, NEW B, B \subseteq 1 .. Len(chain), NEW b \in B, NEW p \in 1 .. Len(chain[b]),
         NEW e, Emits(e, b, p), e.kind # "trade", NEW l, IsLog(l, B), Before(l, e)
  PROVE  l.tx # e.tx
<1>1. PICK c \in B : \E q \in 1 .. Len(chain[c]) : l = LogAt(c, q)
  BY DEF IsLog
<1>2. PICK q \in 1 .. Len(chain[c]) : l = LogAt(c, q)
  BY <1>1
<1>3. B \subseteq Nat /\ q \in Nat /\ p \in Nat /\ b \in Nat
  BY DEF ChainOK
<1>4. l.block = c /\ l.index = 2 * q - 1 /\ l.tx = <<c, q>>
  BY <1>2, <1>3, LogFields
<1>5. e.block = b /\ e.index = 2 * p - 1 /\ e.tx = <<b, p>>
  BY DEF Emits
<1> SUFFICES ASSUME c = b, q = p PROVE FALSE
  BY <1>4, <1>5
<1> QED BY <1>3, <1>4, <1>5 DEF Before

\* Logs that are not after an event are before the next one.
LEMMA BeforeNext ==
  ASSUME NEW l, NEW d, NEW e, l.block \in Nat, l.index \in Nat, d.block \in Nat, d.index \in Nat,
         e.block \in Nat, e.index \in Nat, ~Before(d, l), Before(d, e)
  PROVE  Before(l, e) /\ ~Before(e, l)
BY DEF Before

\* Adding one element.
LEMMA ConcatOne ==
  ASSUME NEW X, NEW s \in Seq(X), NEW y \in X
  PROVE  s \o <<y>> = Append(s, y)
OBVIOUS

\* One more event keeps it.
LEMMA AddStep ==
  ASSUME ChainOK, NEW B, B \subseteq 1 .. Len(chain), NEW ev, Chronicle(ev, B),
         NEW k \in Nat, k < Len(ev), NEW a \in AccSet, Collected(ev, B, k, a)
  PROVE  Collected(ev, B, k + 1, AddEvent(a, ev[k + 1]))
<1> DEFINE e == ev[k + 1]
           new == AddEvent(a, e)
<1>1. /\ ev \in Seq(EventSet) /\ k + 1 \in 1 .. Len(ev) /\ e \in EventSet
      /\ e.block \in Nat /\ e.index \in Nat /\ k + 1 > 0 /\ k + 1 # 0
  <2>1. ev \in Seq(EventSet) /\ k + 1 \in 1 .. Len(ev) /\ k + 1 > 0
    BY DEF Chronicle
  <2>2. e \in EventSet
    BY <2>1
  <2> QED BY <2>1, <2>2 DEF EventSet
<1>2. PICK b \in B : \E p \in 1 .. Len(chain[b]) : Emits(e, b, p)
  BY <1>1 DEF Chronicle
<1>3. PICK p \in 1 .. Len(chain[b]) : Emits(e, b, p)
  BY <1>2
<1>4. a.out \in Seq(LogSet) /\ a.open \in Seq(LogSet) /\ Len(a.out) \in Nat
  BY DEF AccSet
<1>5. \A l \in LogSet : l.block \in Nat /\ l.index \in Nat
  BY DEF LogSet
<1>6. ASSUME NEW l \in LogSet, k > 0 => ~Before(ev[k], l), k > 0
      PROVE  Before(l, e) /\ ~Before(e, l)
  <2>1. k \in 1 .. Len(ev) /\ ev[k] \in EventSet
    BY <1>1, <1>6
  <2>2. Before(ev[k], e)
    BY <2>1, <1>1 DEF Chronicle
  <2>3. ev[k].block \in Nat /\ ev[k].index \in Nat
    BY <2>1 DEF EventSet
  <2> QED BY <2>2, <2>3, <1>1, <1>5, <1>6, BeforeNext
<1>7. /\ \A x \in 1 .. Len(a.out) : a.out[x] \in LogSet
      /\ a.open # <<>> => a.open[1] \in LogSet
  BY <1>4
<1>8. /\ \A x \in 1 .. Len(a.out) : Before(a.out[x], e) /\ ~Before(e, a.out[x])
      /\ a.open # <<>> => Before(a.open[1], e) /\ ~Before(e, a.open[1])
  <2>1. CASE k = 0
    <3>1. a.out = <<>> /\ a.open = <<>>
      BY <2>1 DEF Collected
    <3> QED BY <3>1
  <2>2. CASE k > 0
    BY <2>2, <1>6, <1>7 DEF Collected
  <2> QED BY <2>1, <2>2
<1>9. ASSUME NEW c \in B, NEW q \in 1 .. Len(chain[c]), Emits(e, c, q) PROVE c = b /\ q = p
  BY <1>3, <1>9 DEF Emits
<1>10. ~Before(e, e)
  BY <1>1 DEF Before
<1>11. \A i \in 1 .. k + 1 : i \in 1 .. k \/ i = k + 1
  OBVIOUS
<1> HIDE DEF e
<1>12. CASE e.kind = "cat"
  <2> DEFINE l == AsLog("cat", e)
  <2>1. l = LogAt(b, p) /\ IsLog(l, B)
    BY <1>3, <1>12, AsLogAt DEF IsLog
  <2>2. l.type = "cat" /\ l.block = e.block /\ l.index = e.index /\ l.tx = e.tx
    BY DEF AsLog
  <2>3. l \in LogSet
    BY <1>1 DEF AsLog, LogSet, EventSet
  <2> HIDE DEF l
  <2>4. new.out = Append(a.out, l) /\ new.open = a.open
    BY <1>12 DEF AddEvent, l
  <2>5. /\ Len(new.out) = Len(a.out) + 1 /\ new.out[Len(a.out) + 1] = l
        /\ \A x \in 1 .. Len(a.out) : new.out[x] = a.out[x]
        /\ \A x \in 1 .. Len(new.out) : x \in 1 .. Len(a.out) \/ x = Len(a.out) + 1
    BY <2>3, <2>4, <1>4
  <2>6. ~Before(e, l) /\ \A m : Before(m, e) => Before(m, l)
    BY <2>2, <1>1 DEF Before
  <2> HIDE DEF new
  <2>7. \A x \in 1 .. Len(new.out) : IsLog(new.out[x], B)
    BY <2>1, <2>5 DEF Collected
  <2>8. \A x \in 1 .. Len(new.out) : ~Before(e, new.out[x])
    BY <2>5, <2>6, <1>8
  <2>9. ASSUME NEW x \in 1 .. Len(new.out), NEW y \in 1 .. Len(new.out), x < y,
               new.out[x].type = "trade" \/ new.out[y].type = "cat"
        PROVE  Before(new.out[x], new.out[y])
    <3>1. x \in 1 .. Len(a.out)
      BY <2>5, <2>9, <1>4
    <3>2. CASE y \in 1 .. Len(a.out)
      BY <3>1, <3>2, <2>5, <2>9 DEF Collected
    <3>3. CASE y = Len(a.out) + 1
      BY <3>1, <3>3, <2>5, <2>6, <1>8
    <3> QED BY <3>2, <3>3, <2>5
  <2>10. ASSUME new.open # <<>>, NEW x \in 1 .. Len(new.out)
         PROVE  /\ new.out[x].tx # new.open[1].tx
                /\ new.out[x].type = "trade" => Before(new.out[x], new.open[1])
    <3>1. CASE x \in 1 .. Len(a.out)
      BY <3>1, <2>4, <2>5, <2>10 DEF Collected
    <3>2. CASE x = Len(a.out) + 1
      <4>1. Before(a.open[1], e) /\ IsLog(a.open[1], B)
        BY <2>4, <2>10, <1>8 DEF Collected
      <4>2. a.open[1].tx # e.tx
        BY <4>1, <1>3, <1>12, OtherTx
      <4> QED BY <4>2, <3>2, <2>2, <2>4, <2>5
    <3> QED BY <3>1, <3>2, <2>5
  <2>11. ASSUME NEW i \in 1 .. k + 1, NEW c \in B, NEW q \in 1 .. Len(chain[c]), Emits(ev[i], c, q)
         PROVE  \/ \E x \in 1 .. Len(new.out) : new.out[x] = LogAt(c, q)
                \/ new.open # <<>> /\ new.open[1] = LogAt(c, q)
    <3>1. CASE i \in 1 .. k
      <4>1. CASE a.open # <<>> /\ a.open[1] = LogAt(c, q)
        BY <4>1, <2>4
      <4>2. ASSUME NEW x \in 1 .. Len(a.out), a.out[x] = LogAt(c, q)
            PROVE  x \in 1 .. Len(new.out) /\ new.out[x] = LogAt(c, q)
        BY <4>2, <2>5, <1>4
      <4>3. \/ \E x \in 1 .. Len(a.out) : a.out[x] = LogAt(c, q)
            \/ a.open # <<>> /\ a.open[1] = LogAt(c, q)
        BY <3>1, <2>11 DEF Collected
      <4> QED BY <4>1, <4>2, <4>3
    <3>2. CASE i = k + 1
      <4>1. c = b /\ q = p
        BY <3>2, <2>11, <1>9 DEF e
      <4>2. Len(a.out) + 1 \in 1 .. Len(new.out)
        BY <2>5, <1>4
      <4> QED BY <4>1, <4>2, <2>1, <2>5
    <3> QED BY <3>1, <3>2, <1>11
  <2>12. new.open # <<>> => /\ new.open = <<new.open[1]>> /\ IsLog(new.open[1], B) /\ new.open[1].type = "trade"
                            /\ ~Before(e, new.open[1])
    BY <2>4, <1>8 DEF Collected
  <2> QED BY <1>1, <1>12, <2>7, <2>8, <2>9, <2>10, <2>11, <2>12 DEF Collected, e, new
<1>13. CASE e.kind = "trade"
  <2>1. k + 1 > 1 /\ ev[(k + 1) - 1].kind = "fee" /\ ev[(k + 1) - 1].tx = e.tx
    BY <1>1, <1>13 DEF Chronicle, e
  <2>2. k > 0 /\ ev[k].kind = "fee" /\ ev[k].tx = e.tx /\ k \in 1 .. Len(ev) /\ k \in 1 .. k
    BY <2>1, <1>1
  <2>3. a.open # <<>> /\ a.open[1].tx = e.tx
    BY <2>2 DEF Collected
  <2>4. new = a
    BY <1>13, <2>3 DEF AddEvent
  <2>5. Emits(ev[k], b, p)
    <3>1. PICK c \in B : \E q \in 1 .. Len(chain[c]) : Emits(ev[k], c, q)
      BY <2>2 DEF Chronicle
    <3>2. PICK q \in 1 .. Len(chain[c]) : Emits(ev[k], c, q)
      BY <3>1
    <3>3. <<c, q>> = <<b, p>>
      BY <3>2, <2>2, <1>3 DEF Emits
    <3> QED BY <3>2, <3>3
  <2>6. ASSUME NEW i \in 1 .. k + 1, NEW c \in B, NEW q \in 1 .. Len(chain[c]), Emits(ev[i], c, q)
        PROVE  \/ \E x \in 1 .. Len(a.out) : a.out[x] = LogAt(c, q)
               \/ a.open # <<>> /\ a.open[1] = LogAt(c, q)
    <3>1. CASE i \in 1 .. k
      BY <3>1, <2>6 DEF Collected
    <3>2. CASE i = k + 1
      <4>1. c = b /\ q = p
        BY <3>2, <2>6, <1>9 DEF e
      <4> QED BY <4>1, <2>2, <2>5 DEF Collected
    <3> QED BY <3>1, <3>2, <1>11
  <2> HIDE DEF new
  <2> QED BY <1>1, <1>8, <1>13, <2>2, <2>4, <2>6 DEF Collected, e, new
<1>14. CASE e.kind = "fee"
  <2> DEFINE l == AsLog("trade", e)
  <2>1. l = LogAt(b, p) /\ IsLog(l, B)
    BY <1>3, <1>14, AsLogAt DEF IsLog
  <2>2. l.type = "trade" /\ l.block = e.block /\ l.index = e.index /\ l.tx = e.tx
    BY DEF AsLog
  <2> HIDE DEF l
  <2>3. ~(a.open # <<>> /\ a.open[1].tx = e.tx)
    <3>1. a.open # <<>> => Before(a.open[1], e) /\ IsLog(a.open[1], B)
      BY <1>8 DEF Collected
    <3> QED BY <3>1, <1>3, <1>14, OtherTx
  <2>4. new.out = a.out \o a.open /\ new.open = <<l>>
    BY <1>14, <2>3 DEF AddEvent, l
  <2>5. new.open # <<>> /\ new.open[1] = l
    BY <2>4
  <2>6. ~Before(e, l) /\ \A m : Before(m, e) => Before(m, l)
    BY <2>2, <1>1 DEF Before
  <2> HIDE DEF new
  <2>7. /\ Len(new.out) \in Nat
        /\ \A x \in 1 .. Len(a.out) : x \in 1 .. Len(new.out) /\ new.out[x] = a.out[x]
        /\ \A x \in 1 .. Len(new.out) :
             x \in 1 .. Len(a.out) \/ (x = Len(a.out) + 1 /\ a.open # <<>> /\ new.out[x] = a.open[1])
        /\ a.open # <<>> => Len(a.out) + 1 \in 1 .. Len(new.out) /\ new.out[Len(a.out) + 1] = a.open[1]
    <3>1. CASE a.open = <<>>
      <4>1. new.out = a.out
        BY <3>1, <2>4, <1>4
      <4> QED BY <4>1, <3>1, <1>4
    <3>2. CASE a.open # <<>>
      <4>1. a.open = <<a.open[1]>> /\ a.open[1] \in LogSet
        BY <3>2, <1>7 DEF Collected
      <4>2. new.out = Append(a.out, a.open[1])
        <5> DEFINE y == a.open[1]
        <5>1. y \in LogSet /\ a.open = <<y>>
          BY <4>1
        <5> HIDE DEF y
        <5>2. a.out \o <<y>> = Append(a.out, y)
          BY <5>1, <1>4, ConcatOne
        <5> QED BY <5>1, <5>2, <2>4 DEF y
      <4> QED BY <4>1, <4>2, <3>2, <1>4
    <3> QED BY <3>1, <3>2
  <2>8. \A x \in 1 .. Len(new.out) : /\ IsLog(new.out[x], B)
                                     /\ Before(new.out[x], e) /\ ~Before(e, new.out[x])
    BY <2>7, <1>8 DEF Collected
  <2>9. ASSUME NEW x \in 1 .. Len(new.out), NEW y \in 1 .. Len(new.out), x < y,
               new.out[x].type = "trade" \/ new.out[y].type = "cat"
        PROVE  Before(new.out[x], new.out[y])
    <3>1. x \in 1 .. Len(a.out)
      BY <2>7, <2>9, <1>4
    <3>2. CASE y \in 1 .. Len(a.out)
      BY <3>1, <3>2, <2>7, <2>9 DEF Collected
    <3>3. CASE y = Len(a.out) + 1 /\ a.open # <<>>
      BY <3>1, <3>3, <2>7, <2>9 DEF Collected
    <3> QED BY <3>2, <3>3, <2>7
  <2>10. ASSUME NEW x \in 1 .. Len(new.out)
         PROVE  new.out[x].tx # l.tx /\ Before(new.out[x], l)
    <3>1. IsLog(new.out[x], B) /\ Before(new.out[x], e)
      BY <2>8
    <3>2. new.out[x].tx # e.tx
      BY <3>1, <1>3, <1>14, OtherTx
    <3> QED BY <3>1, <3>2, <2>2, <2>6
  <2>11. ASSUME NEW i \in 1 .. k + 1, NEW c \in B, NEW q \in 1 .. Len(chain[c]), Emits(ev[i], c, q)
         PROVE  \/ \E x \in 1 .. Len(new.out) : new.out[x] = LogAt(c, q)
                \/ new.open # <<>> /\ new.open[1] = LogAt(c, q)
    <3>1. CASE i \in 1 .. k
      <4>3. \/ \E x \in 1 .. Len(a.out) : a.out[x] = LogAt(c, q)
            \/ a.open # <<>> /\ a.open[1] = LogAt(c, q)
        BY <3>1, <2>11 DEF Collected
      <4> QED BY <4>3, <2>7
    <3>2. CASE i = k + 1
      BY <3>2, <2>11, <1>9, <2>1, <2>5 DEF e
    <3> QED BY <3>1, <3>2, <1>11
  <2> QED BY <1>1, <2>1, <2>2, <2>4, <2>5, <2>6, <2>8, <2>9, <2>10, <2>11 DEF Collected, e, new
<1> QED BY <1>1, <1>12, <1>13, <1>14 DEF EventSet

\* What a list of the logs of the blocks in B is: every log of these blocks and
\* no other, with every trade before what follows it and every category log after
\* what it follows.
LogList(L, B) ==
  /\ L \in Seq(LogSet)
  /\ \A x \in 1 .. Len(L) : IsLog(L[x], B)
  /\ \A b \in B : \A p \in 1 .. Len(chain[b]) : \E x \in 1 .. Len(L) : L[x] = LogAt(b, p)
  /\ \A x, y \in 1 .. Len(L) : x < y /\ (L[x].type = "trade" \/ L[y].type = "cat") => Before(L[x], L[y])

\* GetLogs answers with the logs of the blocks that are asked for.
LEMMA LogsOf ==
  ASSUME ChainOK, NEW from \in Nat, NEW to \in Nat
  PROVE  LogList(GetLogs(from, to), Asked(from, to))
<1> DEFINE B    == Asked(from, to)
           ev   == GetRawLogs(from, to)
           base == [out |-> <<>>, open |-> <<>>]
           end  == FoldLeft(AddEvent, base, ev)
<1>1. B \subseteq 1 .. Len(chain) /\ B \subseteq Nat
  BY DEF Asked, ChainOK
<1>2. Chronicle(ev, B)
  BY RawChronicle
<1>3. GetLogs(from, to) = IF end.open # <<>> /\ end.out # <<>> /\ Last(end.out).tx = end.open[1].tx
                          THEN end.out ELSE end.out \o end.open
  BY DEF GetLogs
<1>4. base \in AccSet /\ Collected(ev, B, 0, base)
  BY DEF AccSet, Collected
<1> HIDE DEF B, ev, base
<1>5. ev \in Seq(EventSet) /\ Len(ev) \in Nat
  BY <1>2 DEF Chronicle
<1>6. PICK h \in [0 .. Len(ev) -> AccSet] :
        /\ h[0] = base
        /\ \A i \in 1 .. Len(ev) : h[i] = AddEvent(h[i - 1], ev[i])
        /\ FoldLeft(AddEvent, base, ev) = h[Len(ev)]
  BY <1>4, <1>5, AddFold
<1> DEFINE T == {k \in Nat : k <= Len(ev) => Collected(ev, B, k, h[k])}
<1>7. 0 \in T
  BY <1>4, <1>6
<1>8. ASSUME NEW k \in Nat, k \in T PROVE k + 1 \in T
  <2> SUFFICES ASSUME k + 1 <= Len(ev) PROVE Collected(ev, B, k + 1, h[k + 1])
    OBVIOUS
  <2>1. k < Len(ev) /\ k \in 0 .. Len(ev) /\ k + 1 \in 1 .. Len(ev) /\ (k + 1) - 1 = k
    BY <1>5
  <2>2. h[k] \in AccSet /\ Collected(ev, B, k, h[k])
    BY <2>1, <1>6, <1>8
  <2>3. h[k + 1] = AddEvent(h[k], ev[k + 1])
    BY <2>1, <1>6
  <2> HIDE DEF T
  <2> QED BY <2>1, <2>2, <2>3, <1>1, <1>2, AddStep
<1>9. Nat \subseteq T
  <2> HIDE DEF T
  <2> QED BY <1>7, <1>8, InductionOn
<1>10. end \in AccSet /\ Collected(ev, B, Len(ev), end)
  <2>1. end = h[Len(ev)] /\ Len(ev) \in 0 .. Len(ev)
    BY <1>5, <1>6
  <2> HIDE DEF end
  <2> QED BY <1>5, <1>9, <2>1
<1> HIDE DEF end, T
<1>11. end.out \in Seq(LogSet) /\ end.open \in Seq(LogSet) /\ Len(end.out) \in Nat
  BY <1>10 DEF AccSet
<1> DEFINE L == end.out \o end.open
           n == Len(end.out)
<1>12. GetLogs(from, to) = L
  <2> SUFFICES ASSUME end.open # <<>>, end.out # <<>>
               PROVE  Last(end.out).tx # end.open[1].tx
    BY <1>3
  <2>1. n \in 1 .. n /\ Last(end.out) = end.out[n]
    BY <1>11 DEF Last
  <2> QED BY <2>1, <1>10 DEF Collected
<1>13. /\ Len(L) \in Nat /\ L \in Seq(LogSet)
       /\ \A x \in 1 .. n : x \in 1 .. Len(L) /\ L[x] = end.out[x]
       /\ \A x \in 1 .. Len(L) : x \in 1 .. n \/ (x = n + 1 /\ end.open # <<>> /\ L[x] = end.open[1])
       /\ end.open # <<>> => n + 1 \in 1 .. Len(L) /\ L[n + 1] = end.open[1]
  <2>1. CASE end.open = <<>>
    <3>1. L = end.out
      BY <2>1, <1>11
    <3> HIDE DEF L
    <3> QED BY <3>1, <2>1, <1>11
  <2>2. CASE end.open # <<>>
    <3> DEFINE y == end.open[1]
    <3>1. y \in LogSet /\ end.open = <<y>>
      BY <2>2, <1>10, <1>11 DEF Collected
    <3> HIDE DEF y
    <3>2. L = Append(end.out, y)
      BY <3>1, <1>11, ConcatOne
    <3> HIDE DEF L
    <3>3. /\ Len(L) = n + 1 /\ L \in Seq(LogSet) /\ L[n + 1] = y
          /\ \A x \in 1 .. n : L[x] = end.out[x]
      BY <3>1, <3>2, <1>11
    <3> HIDE DEF n
    <3> QED BY <3>3, <1>11, <2>2 DEF y, n
  <2> QED BY <2>1, <2>2
<1> HIDE DEF L, n
<1>14. \A x \in 1 .. Len(L) : IsLog(L[x], B)
  BY <1>10, <1>13 DEF Collected, n
<1>15. ASSUME NEW b \in B, NEW p \in 1 .. Len(chain[b])
       PROVE  \E x \in 1 .. Len(L) : L[x] = LogAt(b, p)
  <2>1. PICK i \in 1 .. Len(ev) : Emits(ev[i], b, p)
    BY <1>2 DEF Chronicle
  <2>2. \/ \E x \in 1 .. n : end.out[x] = LogAt(b, p)
        \/ end.open # <<>> /\ end.open[1] = LogAt(b, p)
    BY <2>1, <1>10 DEF Collected, n
  <2> QED BY <2>2, <1>13
<1>16. ASSUME NEW x \in 1 .. Len(L), NEW y \in 1 .. Len(L), x < y,
              L[x].type = "trade" \/ L[y].type = "cat"
       PROVE  Before(L[x], L[y])
  <2>0. n \in Nat
    BY <1>11 DEF n
  <2>1. x \in 1 .. n
    BY <2>0, <1>13, <1>16
  <2>2. CASE y \in 1 .. n
    <3>1. L[x] = end.out[x] /\ L[y] = end.out[y]
      BY <2>1, <2>2, <1>13
    <3> QED BY <3>1, <2>1, <2>2, <1>10, <1>16 DEF Collected, n
  <2>3. CASE y = n + 1 /\ end.open # <<>>
    <3>1. L[x] = end.out[x] /\ L[y] = end.open[1]
      BY <2>1, <2>3, <1>13
    <3> QED BY <3>1, <2>1, <2>3, <1>10, <1>16 DEF Collected, n
  <2> QED BY <2>2, <2>3, <1>13
<1> QED BY <1>12, <1>13, <1>14, <1>15, <1>16 DEF LogList, B

------------------------------------------------------------------------------
\* The transaction p of block b of the chain ch.
TxAt(ch, b, p) == b \in 1 .. Len(ch) /\ p \in 1 .. Len(ch[b])

\* A block that is not replaced any more.
Settled(ch, b) == b + ReorgSafe <= Len(ch)

\* A block that is not replaced any more, or was read without knowing the head.
Sure(ch, b) == b <= DeployBlock \/ b \in early \/ Settled(ch, b)

\* l stands for the transaction p of block b.
Marks(l, ch, b, p) == l.block = b /\ l.index = 2 * p - 1 /\ l.data = ch[b][p].data

\* l is from a place on the chain, and what is there unless the block was read
\* early and is replaced since.
Place(l, ch, b, p) ==
  b \in 1 .. Len(ch) /\ p \in 1 .. BlockTxs /\ l.block = b /\ l.index = 2 * p - 1 /\ Sure(ch, b)
Intact(ch, b) == b \notin early \/ ch[b] # <<>>
ReadAt(l, ch, b, p) == Place(l, ch, b, p) /\ (Intact(ch, b) => TxAt(ch, b, p) /\ l = LogIn(ch, b, p))
KeptAt(l, ch, b, p) == Place(l, ch, b, p) /\ (Intact(ch, b) => TxAt(ch, b, p) /\ Marks(l, ch, b, p))

\* The state of the chain and the fetcher.
ChainPart ==
  /\ pool \in Seq(AllTx)
  /\ chain \in Seq(Seq(AllTx))
  /\ Len(chain) >= DeployBlock /\ Len(chain) <= MaxBlock
  /\ \A b \in 1 .. Len(chain) : Len(chain[b]) <= BlockTxs
  /\ \A b \in 1 .. Len(chain) : b <= DeployBlock => chain[b] = <<>>
  /\ currentBlock \in Nat /\ currentBlock <= Len(chain) /\ (currentBlock # 0 => currentBlock >= DeployBlock)

\* What the fetcher holds and what is stored.
SettledPart ==
  /\ block \in Nat
  /\ fetch \in [logs : Seq(LogSet), max : Nat]
  /\ fetch.logs = <<>> => fetch = Idle
  /\ \A i \in 1 .. Len(fetch.logs) : \E b, p \in Nat : ReadAt(fetch.logs[i], chain, b, p)
  /\ \A l \in tradeLogs \cup catLogs : \E b, p \in Nat : KeptAt(l, chain, b, p)

\* Trades are stored in their order.
OrderPart ==
  /\ \A i, j \in 1 .. Len(fetch.logs) :
       i < j /\ (fetch.logs[i].type = "trade" \/ fetch.logs[j].type = "cat")
       => Before(fetch.logs[i], fetch.logs[j])
  /\ \A l \in tradeLogs : \A i \in 1 .. Len(fetch.logs) : Before(l, fetch.logs[i])
  /\ fetch = Idle => \A l \in tradeLogs : l.block <= block

\* The blocks the fetcher has been at.
Reached(b) ==
  \/ b <= block \/ b <= fetch.max
  \/ \E i \in 1 .. Len(fetch.logs) : b <= fetch.logs[i].block
  \/ \E l \in tradeLogs : b <= l.block

\* It has not been at a block that may be replaced, or too early.
ReachPart == \A b \in Nat : Reached(b) => Sure(chain, b)

\* A transaction that is stored, behind a stored trade of its block, dropped, or to
\* be stored.
Covered(b, p) ==
  \/ \E l \in tradeLogs \cup catLogs : Marks(l, chain, b, p)
  \/ \E m \in tradeLogs : m.block = b /\ m.index < 2 * p - 1
  \/ <<b, 2 * p - 1, chain[b][p].data>> \in dropped
  \/ \E i \in 1 .. Len(fetch.logs) : fetch.logs[i] = LogIn(chain, b, p)

CoverPart == \A b, p \in Nat : TxAt(chain, b, p) /\ Reached(b) /\ b \notin early => Covered(b, p)

(***************************************************************************)
(* The inductive invariant of the log fetcher.                             *)
(***************************************************************************)
LogInv == ChainPart /\ SettledPart /\ OrderPart /\ ReachPart /\ CoverPart

\* The constants.
LEMMA LogNumbers ==
  /\ DeployBlock \in Nat /\ DeployBlock > 0 /\ ReorgSafe \in Nat /\ ReorgSafe > 0
  /\ Window \in Nat /\ Window > 0 /\ WordSize \in Nat /\ WordSize > 0 /\ MaxBlock \in Nat
  /\ BlockTxs \in Nat /\ BlockTxs > 0
  /\ ReorgSafe <= DeployBlock /\ DeployBlock <= MaxBlock /\ MaxBlock + 1 + Window + ReorgSafe <= WordSize
BY StatLogsAssumption

\* The chain may grow, and a block that is not settled may be emptied.
Grows(ch, ch2) ==
  /\ Len(ch2) >= Len(ch)
  /\ \A b \in 1 .. Len(ch) : ch2[b] = ch[b] \/ (ch2[b] = <<>> /\ ~Settled(ch, b) /\ b > DeployBlock)

LEMMA ChainGrows ==
  ASSUME LogInv, ChainPart', UNCHANGED <<block, tradeLogs, catLogs, fetch, early, dropped>>,
         Grows(chain, chain')
  PROVE  LogInv'
<1>0. /\ Len(chain) \in Nat /\ Len(chain') \in Nat /\ ReorgSafe \in Nat /\ ReorgSafe > 0 /\ Len(chain') >= Len(chain)
      /\ block' = block /\ tradeLogs' = tradeLogs /\ catLogs' = catLogs /\ fetch' = fetch
      /\ early' = early /\ dropped' = dropped /\ DeployBlock \in Nat
  BY LogNumbers DEF LogInv, ChainPart, Grows
<1>1. ASSUME NEW b \in Nat, Sure(chain, b) PROVE Sure(chain', b)
  BY <1>0, <1>1 DEF Sure, Settled
<1>2. ASSUME NEW b \in Nat, Sure(chain, b), Intact(chain', b), b \in 1 .. Len(chain)
      PROVE  Intact(chain, b) /\ chain'[b] = chain[b] /\ b \in 1 .. Len(chain')
  <2>1. b \in 1 .. Len(chain')
    BY <1>0, <1>2
  <2>2. chain'[b] = chain[b] \/ (chain'[b] = <<>> /\ ~Settled(chain, b) /\ b > DeployBlock)
    BY <1>2 DEF Grows
  <2>3. CASE b \in early
    BY <2>1, <2>2, <2>3, <1>2 DEF Intact
  <2>4. CASE b \notin early
    BY <2>1, <2>2, <2>4, <1>0, <1>2 DEF Intact, Sure
  <2> QED BY <2>3, <2>4
<1>3. ASSUME NEW l, NEW b \in Nat, NEW p \in Nat, Place(l, chain, b, p)
      PROVE  Place(l, chain', b, p) /\ Sure(chain, b) /\ b \in 1 .. Len(chain)
  <2>1. Sure(chain', b) /\ b \in 1 .. Len(chain')
    BY <1>0, <1>1, <1>3 DEF Place
  <2> QED BY <2>1, <1>3 DEF Place
<1>4. ASSUME NEW l, NEW b \in Nat, NEW p \in Nat, ReadAt(l, chain, b, p)
      PROVE  ReadAt(l, chain', b, p)
  <2>1. Place(l, chain', b, p) /\ Sure(chain, b) /\ b \in 1 .. Len(chain)
    BY <1>3, <1>4 DEF ReadAt
  <2>2. ASSUME Intact(chain', b) PROVE TxAt(chain', b, p) /\ l = LogIn(chain', b, p)
    <3>1. Intact(chain, b) /\ chain'[b] = chain[b] /\ b \in 1 .. Len(chain')
      BY <1>2, <2>1, <2>2
    <3>2. TxAt(chain, b, p) /\ l = LogIn(chain, b, p)
      BY <3>1, <1>4 DEF ReadAt
    <3> QED BY <3>1, <3>2 DEF TxAt, LogIn
  <2> QED BY <2>1, <2>2 DEF ReadAt
<1>5. ASSUME NEW l, NEW b \in Nat, NEW p \in Nat, KeptAt(l, chain, b, p)
      PROVE  KeptAt(l, chain', b, p)
  <2>1. Place(l, chain', b, p) /\ Sure(chain, b) /\ b \in 1 .. Len(chain)
    BY <1>3, <1>5 DEF KeptAt
  <2>2. ASSUME Intact(chain', b) PROVE TxAt(chain', b, p) /\ Marks(l, chain', b, p)
    <3>1. Intact(chain, b) /\ chain'[b] = chain[b] /\ b \in 1 .. Len(chain')
      BY <1>2, <2>1, <2>2
    <3>2. TxAt(chain, b, p) /\ Marks(l, chain, b, p)
      BY <3>1, <1>5 DEF KeptAt
    <3> QED BY <3>1, <3>2 DEF TxAt, Marks
  <2> QED BY <2>1, <2>2 DEF KeptAt
<1>6. SettledPart'
  <2>1. \A i \in 1 .. Len(fetch.logs) : \E b, p \in Nat : ReadAt(fetch.logs[i], chain', b, p)
    BY <1>4 DEF LogInv, SettledPart
  <2>2. \A l \in tradeLogs \cup catLogs : \E b, p \in Nat : KeptAt(l, chain', b, p)
    BY <1>5 DEF LogInv, SettledPart
  <2>3. /\ \A l, b, p : ReadAt(l, chain, b, p)' <=> ReadAt(l, chain', b, p)
        /\ \A l, b, p : KeptAt(l, chain, b, p)' <=> KeptAt(l, chain', b, p)
    BY <1>0 DEF ReadAt, KeptAt, Place, Intact, Sure, Settled, TxAt, LogIn, Marks
  <2> QED BY <2>1, <2>2, <2>3, <1>0 DEF LogInv, SettledPart, Idle
<1>7. OrderPart'
  BY <1>0 DEF LogInv, OrderPart, Before, Idle
<1>8. ReachPart'
  <2> SUFFICES ASSUME NEW b \in Nat, Reached(b)' PROVE Sure(chain, b)'
    BY DEF ReachPart
  <2>1. Reached(b)
    BY <1>0 DEF Reached
  <2>2. Sure(chain', b)
    BY <2>1, <1>1 DEF LogInv, ReachPart
  <2> QED BY <2>2, <1>0 DEF Sure, Settled
<1>9. CoverPart'
  <2> SUFFICES ASSUME NEW b \in Nat, NEW p \in Nat, TxAt(chain', b, p), Reached(b)', b \notin early
               PROVE  Covered(b, p)'
    BY <1>0 DEF CoverPart
  <2>1. Reached(b)
    BY <1>0 DEF Reached
  <2>2. Sure(chain, b)
    BY <2>1 DEF LogInv, ReachPart
  <2>3. b \in 1 .. Len(chain)
    <3>1. b \in 1 .. Len(chain') /\ p \in 1 .. Len(chain'[b])
      BY DEF TxAt
    <3>2. chain'[b] # <<>>
      BY <3>1
    <3>3. ~(b <= DeployBlock)
      BY <3>1, <3>2 DEF ChainPart
    <3> QED BY <2>2, <3>1, <3>3, <1>0 DEF Settled, Sure
  <2>4. chain'[b] = chain[b] /\ TxAt(chain, b, p)
    <3>1. Intact(chain', b)
      BY DEF Intact
    <3> QED BY <3>1, <2>2, <2>3, <1>2 DEF TxAt
  <2>5. Covered(b, p)
    BY <2>1, <2>4 DEF LogInv, CoverPart
  <2> QED BY <2>4, <2>5, <1>0 DEF Covered, Marks, LogIn
<1> QED BY <1>6, <1>7, <1>8, <1>9 DEF LogInv

\* A block is mined.
LEMMA MineKeeps ==
  ASSUME LogInv, NEW n \in 0 .. BlockTxs, Mine(n)
  PROVE  LogInv'
<1>0. /\ Len(chain) \in Nat /\ chain \in Seq(Seq(AllTx)) /\ pool \in Seq(AllTx) /\ n \in Nat /\ n <= BlockTxs
      /\ DeployBlock \in Nat /\ MaxBlock \in Nat /\ ReorgSafe \in Nat
  BY LogNumbers DEF LogInv, ChainPart
<1> DEFINE new == SubSeq(pool, 1, n)
<1>1. new \in Seq(AllTx) /\ Len(new) = n
  BY <1>0 DEF Mine
<1>2. SubSeq(pool, n + 1, Len(pool)) \in Seq(AllTx)
  BY <1>0
<1>3. chain' = Append(chain, new) /\ pool' \in Seq(AllTx) /\ Len(chain) < MaxBlock
  BY <1>2 DEF Mine
<1> HIDE DEF new
<1>4. /\ chain' \in Seq(Seq(AllTx)) /\ Len(chain') = Len(chain) + 1
      /\ \A b \in 1 .. Len(chain) : chain'[b] = chain[b]
      /\ chain'[Len(chain) + 1] = new
  BY <1>0, <1>1, <1>3
<1>5. \A b \in 1 .. Len(chain') : b \in 1 .. Len(chain) \/ b = Len(chain) + 1
  BY <1>0, <1>4
<1>6. /\ \A b \in 1 .. Len(chain) : Len(chain[b]) <= BlockTxs
      /\ \A b \in 1 .. Len(chain) : b <= DeployBlock => chain[b] = <<>>
      /\ Len(chain) >= DeployBlock
      /\ currentBlock \in Nat /\ (currentBlock # 0 => currentBlock >= DeployBlock) /\ currentBlock <= Len(chain)
  BY DEF LogInv, ChainPart
<1>7. /\ \A b \in 1 .. Len(chain') : Len(chain'[b]) <= BlockTxs
      /\ \A b \in 1 .. Len(chain') : b <= DeployBlock => chain'[b] = <<>>
  <2> SUFFICES ASSUME NEW b \in 1 .. Len(chain')
               PROVE  Len(chain'[b]) <= BlockTxs /\ (b <= DeployBlock => chain'[b] = <<>>)
    OBVIOUS
  <2>1. CASE b \in 1 .. Len(chain)
    BY <2>1, <1>4, <1>6
  <2>2. CASE b = Len(chain) + 1
    <3>1. chain'[b] = new /\ ~(b <= DeployBlock)
      BY <2>2, <1>0, <1>4, <1>6
    <3> QED BY <3>1, <1>0, <1>1
  <2> QED BY <2>1, <2>2, <1>5
<1>8. /\ currentBlock' \in Nat /\ (currentBlock' # 0 => currentBlock' >= DeployBlock) /\ currentBlock' <= Len(chain')
      /\ Len(chain') >= DeployBlock /\ Len(chain') <= MaxBlock /\ Len(chain') >= Len(chain)
  BY <1>0, <1>3, <1>4, <1>6 DEF Mine
<1>9. ChainPart'
  BY <1>3, <1>4, <1>7, <1>8 DEF ChainPart
<1>10. UNCHANGED <<block, tradeLogs, catLogs, fetch, early, dropped>>
  BY DEF Mine, lostVars
<1>11. Grows(chain, chain')
  BY <1>4, <1>8 DEF Grows
<1> QED BY <1>9, <1>10, <1>11, ChainGrows

\* A block that is not settled is replaced.
LEMMA ReorgKeeps ==
  ASSUME LogInv, NEW r \in 1 .. MaxBlock, Reorg(r)
  PROVE  LogInv'
<1>0. /\ Len(chain) \in Nat /\ chain \in Seq(Seq(AllTx)) /\ pool \in Seq(AllTx)
      /\ DeployBlock \in Nat /\ MaxBlock \in Nat /\ ReorgSafe \in Nat /\ BlockTxs \in Nat
  BY LogNumbers DEF LogInv, ChainPart
<1>1. /\ r \in 1 .. Len(chain) /\ r > DeployBlock /\ ~Settled(chain, r) /\ r \in Nat
      /\ chain' = [chain EXCEPT ![r] = <<>>]
      /\ pool' = chain[r] \o pool
  BY <1>0 DEF Reorg, Settled
<1>2. chain[r] \in Seq(AllTx)
  BY <1>0, <1>1
<1>3. pool' \in Seq(AllTx)
  BY <1>0, <1>1, <1>2
<1>4. /\ chain' \in Seq(Seq(AllTx)) /\ Len(chain') = Len(chain) /\ chain'[r] = <<>>
      /\ \A b \in 1 .. Len(chain) : b # r => chain'[b] = chain[b]
  BY <1>0, <1>1
<1>5. /\ \A b \in 1 .. Len(chain) : Len(chain[b]) <= BlockTxs
      /\ \A b \in 1 .. Len(chain) : b <= DeployBlock => chain[b] = <<>>
  BY DEF LogInv, ChainPart
<1>6. Len(<<>>) <= BlockTxs
  BY <1>0
<1>7. \A b \in 1 .. Len(chain') : Len(chain'[b]) <= BlockTxs
  <2> SUFFICES ASSUME NEW b \in 1 .. Len(chain) PROVE Len(chain'[b]) <= BlockTxs
    BY <1>4
  <2>1. CASE b = r
    BY <2>1, <1>4, <1>6
  <2>2. CASE b # r
    BY <2>2, <1>4, <1>5
  <2> QED BY <2>1, <2>2
<1>8. \A b \in 1 .. Len(chain') : b <= DeployBlock => chain'[b] = <<>>
  BY <1>4, <1>5
<1>9. ChainPart'
  <2>1. UNCHANGED currentBlock
    BY DEF Reorg
  <2> QED BY <2>1, <1>3, <1>4, <1>7, <1>8 DEF LogInv, ChainPart
<1>10. UNCHANGED <<block, tradeLogs, catLogs, fetch, early, dropped>>
  BY DEF Reorg, lostVars
<1>11. Grows(chain, chain')
  BY <1>0, <1>1, <1>4 DEF Grows
<1> QED BY <1>9, <1>10, <1>11, ChainGrows

\* The head is fetched.
LEMMA HeadKeeps ==
  ASSUME LogInv, FetchCurrentBlock
  PROVE  LogInv'
<1>1. /\ UNCHANGED <<pool, chain, block, tradeLogs, catLogs, fetch, early, dropped>> /\ currentBlock' = Len(chain)
      /\ Len(chain) \in Nat /\ Len(chain) >= DeployBlock
  BY DEF FetchCurrentBlock, LogInv, ChainPart, lostVars
<1>2. ChainPart'
  BY <1>1 DEF LogInv, ChainPart
<1>3. Grows(chain, chain')
  BY <1>1 DEF Grows
<1> QED BY <1>1, <1>2, <1>3, ChainGrows

\* The greatest of some bounded numbers.
LEMMA GreatestOf ==
  ASSUME NEW n \in Nat, NEW q, q \subseteq Nat, q # {}, \A y \in q : y <= n
  PROVE  \E m \in q : \A y \in q : y <= m
<1> DEFINE T == {n - y : y \in q}
<1>1. T \subseteq Nat /\ T # {}
  <2>1. \A y \in q : n - y \in Nat
    OBVIOUS
  <2>2. PICK y \in q : TRUE
    OBVIOUS
  <2>3. n - y \in T
    BY <2>2
  <2> QED BY <2>1, <2>3
<1>2. PICK t \in T : \A u \in T : t <= u
  BY <1>1, LeastOf
<1>3. PICK m \in q : t = n - m
  BY <1>2
<1>4. ASSUME NEW y \in q PROVE y <= m
  <2>1. n - y \in T
    OBVIOUS
  <2>2. t <= n - y
    BY <1>2, <2>1
  <2> QED BY <1>3, <2>2
<1> QED BY <1>4

\* Times of logs follow their blocks.
LEMMA TimesFollowBlocks ==
  ASSUME NEW S \in Nat, NEW b \in Nat, NEW i \in Nat, i < S, NEW c \in Nat, NEW j \in Nat, j < S,
         b * S + i <= c * S + j
  PROVE  b <= c
<1> SUFFICES ASSUME c < b PROVE FALSE
  OBVIOUS
<1>1. PICK d \in Nat : b = c + 1 + d
  <2>1. b - c - 1 \in Nat /\ b = c + 1 + (b - c - 1)
    OBVIOUS
  <2> QED BY <2>1
<1>2. b * S = c * S + S + d * S /\ d * S \in Nat /\ c * S \in Nat
  BY <1>1
<1> QED BY <1>2

\* A time is bounded.
LEMMA TimesBounded ==
  ASSUME NEW S \in Nat, NEW M \in Nat, NEW b \in Nat, b <= M, NEW i \in Nat, i < S
  PROVE  b * S + i \in Nat /\ M * S + S \in Nat /\ b * S + i <= M * S + S
<1>1. PICK d \in Nat : M = b + d
  <2>1. M - b \in Nat /\ M = b + (M - b)
    OBVIOUS
  <2> QED BY <2>1
<1>2. M * S = b * S + d * S /\ d * S \in Nat /\ b * S \in Nat
  BY <1>1
<1> QED BY <1>2

\* Stored trades have numbers for block and index.
LEMMA StoredFields ==
  ASSUME LogInv, NEW l \in tradeLogs
  PROVE  /\ l.block \in Nat /\ l.index \in Nat /\ l.block > 0 /\ l.block <= MaxBlock
         /\ l.index < SlotsPerBlock /\ SlotsPerBlock \in Nat
<1>1. PICK b, p \in Nat : KeptAt(l, chain, b, p)
  BY DEF LogInv, SettledPart
<1>2. /\ b \in 1 .. Len(chain) /\ p \in 1 .. BlockTxs /\ Len(chain) \in Nat /\ Len(chain) <= MaxBlock
      /\ l.block = b /\ l.index = 2 * p - 1
  BY <1>1 DEF KeptAt, Place, LogInv, ChainPart
<1>3. BlockTxs \in Nat /\ MaxBlock \in Nat
  BY LogNumbers
<1> QED BY <1>2, <1>3 DEF SlotsPerBlock

\* The last log of the trades.
LEMMA LastTrade ==
  ASSUME LogInv, tradeLogs # {}
  PROVE  LastLog(tradeLogs) \in tradeLogs /\ \A l \in tradeLogs : l.block <= LastLog(tradeLogs).block
<1> DEFINE q == {Timestamp(l) : l \in tradeLogs}
           bound == MaxBlock * SlotsPerBlock + SlotsPerBlock
<1>1. ASSUME NEW l \in tradeLogs
      PROVE  /\ Timestamp(l) = l.block * SlotsPerBlock + l.index
             /\ Timestamp(l) \in Nat /\ bound \in Nat /\ Timestamp(l) <= bound
  <2>1. /\ l.block \in Nat /\ l.index \in Nat /\ l.block <= MaxBlock
        /\ l.index < SlotsPerBlock /\ SlotsPerBlock \in Nat /\ MaxBlock \in Nat
    BY StoredFields, LogNumbers
  <2>2. Timestamp(l) = l.block * SlotsPerBlock + l.index
    BY DEF Timestamp, InterpretTimestamp
  <2>3. /\ l.block * SlotsPerBlock + l.index \in Nat /\ bound \in Nat
        /\ l.block * SlotsPerBlock + l.index <= bound
    BY <2>1, TimesBounded
  <2> QED BY <2>2, <2>3
<1> HIDE DEF bound
<1>2. bound \in Nat /\ q \subseteq Nat /\ q # {} /\ \A y \in q : y <= bound
  BY <1>1
<1>3. PICK m \in q : \A y \in q : y <= m
  BY <1>2, GreatestOf
<1>4. \E l \in tradeLogs : \A k \in tradeLogs : Timestamp(k) <= Timestamp(l)
  BY <1>3
<1> DEFINE last == LastLog(tradeLogs)
<1>5. last \in tradeLogs /\ \A k \in tradeLogs : Timestamp(k) <= Timestamp(last)
  BY <1>4 DEF LastLog
<1> HIDE DEF last
<1>6. ASSUME NEW l \in tradeLogs PROVE l.block <= last.block
  <2>1. /\ l.block \in Nat /\ l.index \in Nat /\ l.index < SlotsPerBlock /\ SlotsPerBlock \in Nat
        /\ last.block \in Nat /\ last.index \in Nat /\ last.index < SlotsPerBlock
    BY <1>5, StoredFields
  <2>2. l.block * SlotsPerBlock + l.index <= last.block * SlotsPerBlock + last.index
    BY <1>1, <1>5
  <2> QED BY <2>1, <2>2, TimesFollowBlocks
<1> QED BY <1>5, <1>6 DEF last

\* What the loop of FetchLogs is at was never stored: the duplicate test never holds.
LEMMA NeverDuplicated ==
  ASSUME LogInv, fetch # Idle
  PROVE  ~Duplicated(Head(fetch.logs))
<1>1. /\ fetch.logs \in Seq(LogSet) /\ fetch.logs # <<>>
      /\ 1 \in 1 .. Len(fetch.logs) /\ Head(fetch.logs) = fetch.logs[1]
  BY DEF LogInv, SettledPart
<1>2. PICK b, p \in Nat : ReadAt(fetch.logs[1], chain, b, p)
  BY <1>1 DEF LogInv, SettledPart
<1>3. Head(fetch.logs).block = b /\ Head(fetch.logs).index = 2 * p - 1 /\ b > 0
  BY <1>1, <1>2 DEF ReadAt, Place
<1>4. CASE tradeLogs = {}
  BY <1>3, <1>4 DEF Duplicated, LastLog, NoLog
<1>5. CASE tradeLogs # {}
  <2>1. LastLog(tradeLogs) \in tradeLogs
    BY <1>5, LastTrade
  <2>2. Before(LastLog(tradeLogs), Head(fetch.logs))
    BY <2>1, <1>1 DEF LogInv, OrderPart
  <2>3. LastLog(tradeLogs).block \in Nat /\ LastLog(tradeLogs).index \in Nat
    BY <2>1, StoredFields
  <2> QED BY <2>2, <2>3, <1>3 DEF Duplicated, Before
<1> QED BY <1>4, <1>5

\* The head that is safe; without a head the number wraps.
LEMMA UnknownHead ==
  ASSUME LogInv, currentBlock = 0
  PROVE  SafeHead = WordSize - ReorgSafe
<1>1. WordSize \in Nat /\ ReorgSafe \in Nat /\ ReorgSafe > 0 /\ ReorgSafe < WordSize
  BY LogNumbers
<1>2. WordSize - ReorgSafe \in 0 .. WordSize - 1 /\ WordSize + currentBlock - ReorgSafe = WordSize - ReorgSafe
  BY <1>1
<1>3. ASSUME NEW x \in 0 .. WordSize - 1 PROVE x % WordSize = x
  BY <1>1, <1>3
<1> QED BY <1>2, <1>3 DEF SafeHead

LEMMA SafeHeadIs ==
  ASSUME LogInv, currentBlock # 0
  PROVE  SafeHead = currentBlock - ReorgSafe
<1> DEFINE x == currentBlock - ReorgSafe
           q == (WordSize + x) \div WordSize
           r == (WordSize + x) % WordSize
<1>1. /\ WordSize \in Nat /\ WordSize > 0 /\ x \in Nat /\ x < WordSize
      /\ WordSize + currentBlock - ReorgSafe = WordSize + x
  BY LogNumbers DEF LogInv, ChainPart
<1> HIDE DEF x
<1>2. q \in Int /\ r \in 0 .. WordSize - 1 /\ WordSize + x = WordSize * q + r
  BY <1>1
<1> HIDE DEF q, r
<1>3. q = 1
  <2>1. CASE q >= 2
    <3>1. WordSize * q = 2 * WordSize + WordSize * (q - 2) /\ WordSize * (q - 2) >= 0
      BY <1>1, <1>2, <2>1
    <3> QED BY <3>1, <1>1, <1>2
  <2>2. CASE q <= 0
    <3>1. WordSize * q <= 0
      BY <1>1, <1>2, <2>2
    <3> QED BY <3>1, <1>1, <1>2
  <2> QED BY <2>1, <2>2, <1>2
<1>4. r = x
  BY <1>1, <1>2, <1>3
<1> QED BY <1>1, <1>4 DEF SafeHead, r, x

\* The blocks a window asks for.
LEMMA AskedBlocks ==
  ASSUME LogInv, NEW from \in Nat, NEW to \in Nat, NEW b \in Nat
  PROVE  /\ b \in Asked(from, to) <=> (b >= 1 /\ b >= from /\ b <= to /\ b <= Len(chain))
         /\ b \in Asked(from, to) => b \in 1 .. Len(chain)
<1>1. Len(chain) \in Nat /\ Len(chain) <= MaxBlock /\ MaxBlock \in Nat /\ DOMAIN chain = 1 .. Len(chain)
  BY LogNumbers DEF LogInv, ChainPart
<1> QED BY <1>1 DEF Asked

\* The fetcher asks for a window of blocks.
LEMMA RunKeeps ==
  ASSUME LogInv, RunLogFetcher
  PROVE  LogInv'
<1> DEFINE from == LastBlock + 1
           to   == IF LastBlock + 1 + Window > SafeHead THEN SafeHead ELSE LastBlock + 1 + Window
           L    == GetLogs(from, to)
           B    == Asked(from, to)
<1>1. /\ fetch = Idle /\ from <= to /\ LastBlock <= MaxBlock
      /\ IF L = <<>> THEN block' = to /\ fetch' = fetch
                     ELSE fetch' = [logs |-> L, max |-> 0] /\ block' = block
      /\ early' = IF currentBlock = 0 THEN early \cup Unsafe(from, to, L) ELSE early
      /\ pool' = pool /\ chain' = chain /\ currentBlock' = currentBlock
      /\ tradeLogs' = tradeLogs /\ catLogs' = catLogs /\ dropped' = dropped
  BY DEF RunLogFetcher
<1>2. /\ block \in Nat /\ DeployBlock \in Nat /\ Window \in Nat /\ ReorgSafe \in Nat /\ ReorgSafe > 0
      /\ currentBlock \in Nat /\ (currentBlock # 0 => currentBlock >= DeployBlock) /\ currentBlock <= Len(chain)
      /\ Len(chain) \in Nat /\ ReorgSafe <= DeployBlock /\ Len(chain) >= DeployBlock
      /\ MaxBlock \in Nat /\ WordSize \in Nat /\ MaxBlock + 1 + Window + ReorgSafe <= WordSize
  BY LogNumbers DEF LogInv, ChainPart, SettledPart
<1>3. /\ from \in Nat /\ from > 0 /\ from > block /\ LastBlock \in Nat
      /\ block # 0 => from = block + 1
      /\ block = 0 => from = DeployBlock + 1
  BY <1>2 DEF LastBlock
<1>4. to \in Nat /\ (currentBlock # 0 => Settled(chain, to))
  <2>1. CASE currentBlock # 0
    <3>1. SafeHead \in Nat /\ SafeHead + ReorgSafe <= Len(chain)
      BY <1>2, <2>1, SafeHeadIs
    <3>2. to \in Nat /\ to <= SafeHead
      BY <1>2, <1>3, <3>1
    <3> QED BY <1>2, <3>1, <3>2 DEF Settled
  <2>2. CASE currentBlock = 0
    <3>1. SafeHead \in Nat
      BY <1>2, <2>2, UnknownHead
    <3> QED BY <1>2, <1>3, <2>2, <3>1
  <2> QED BY <2>1, <2>2
<1> HIDE DEF from, to
<1>5. LogList(L, B)
  BY <1>3, <1>4, LogsOf DEF ChainOK, LogInv, ChainPart
<1> HIDE DEF L, B
<1>6. L \in Seq(LogSet) /\ Len(L) \in Nat /\ (Len(L) > 0 => L # <<>>) /\ DOMAIN L = 1 .. Len(L)
  BY <1>5 DEF LogList
<1>7. \A b \in Nat : /\ b \in B <=> (b >= 1 /\ b >= from /\ b <= to /\ b <= Len(chain))
                     /\ b \in B => b \in 1 .. Len(chain)
  BY <1>3, <1>4, AskedBlocks DEF B
<1>8. ASSUME NEW i \in 1 .. Len(L)
      PROVE  \E b, p \in Nat : /\ TxAt(chain, b, p) /\ L[i] = LogIn(chain, b, p)
                               /\ L[i].block = b /\ b >= from /\ b <= to
  <2>1. PICK b \in B : \E p \in 1 .. Len(chain[b]) : L[i] = LogAt(b, p)
    BY <1>5 DEF LogList, IsLog
  <2>2. PICK p \in 1 .. Len(chain[b]) : L[i] = LogAt(b, p)
    BY <2>1
  <2>3. b \in Nat /\ b \in 1 .. Len(chain) /\ b >= from /\ b <= to
    <3>1. b \in Nat
      BY DEF B, Asked
    <3> QED BY <3>1, <1>7
  <2>4. TxAt(chain, b, p) /\ p \in Nat
    BY <2>3 DEF TxAt
  <2>6. L[i] = LogIn(chain, b, p) /\ L[i].block = b
    BY <2>2 DEF LogAt, LogIn
  <2> QED BY <2>3, <2>4, <2>6
<1>9. ASSUME NEW b \in Nat, NEW p \in Nat, TxAt(chain, b, p), b >= from, b <= to
      PROVE  \E i \in 1 .. Len(L) : L[i] = LogIn(chain, b, p)
  <2>1. b \in B /\ p \in 1 .. Len(chain[b])
    BY <1>2, <1>3, <1>7, <1>9 DEF TxAt
  <2> QED BY <2>1, <1>5 DEF LogList, LogAt
<1>10. \A l \in tradeLogs : l.block <= block /\ l.block \in Nat
  BY <1>1, StoredFields DEF LogInv, OrderPart
<1>11. fetch.logs = <<>> /\ fetch.max = 0 /\ early \subseteq early'
  BY <1>1 DEF Idle
<1>12. ASSUME NEW b \in Nat, NEW p \in Nat, TxAt(chain, b, p), b <= to, b \notin early
       PROVE  \/ \E l \in tradeLogs \cup catLogs : Marks(l, chain, b, p)
              \/ \E m \in tradeLogs : m.block = b /\ m.index < 2 * p - 1
              \/ <<b, 2 * p - 1, chain[b][p].data>> \in dropped
              \/ \E i \in 1 .. Len(L) : L[i] = LogIn(chain, b, p)
  <2>1. CASE b >= from
    BY <2>1, <1>9, <1>12
  <2>2. CASE b < from
    <3>1. b > DeployBlock
      <4>1. b \in 1 .. Len(chain) /\ p \in 1 .. Len(chain[b])
        BY <1>12 DEF TxAt
      <4>2. chain[b] # <<>>
        BY <4>1
      <4> QED BY <4>1, <4>2, <1>2 DEF LogInv, ChainPart
    <3>2. b <= block
      BY <2>2, <3>1, <1>2, <1>3
    <3>3. Covered(b, p)
      BY <3>2, <1>12 DEF LogInv, CoverPart, Reached
    <3>4. ~\E i \in 1 .. Len(fetch.logs) : fetch.logs[i] = LogIn(chain, b, p)
      BY <1>11
    <3> QED BY <3>3, <3>4 DEF Covered
  <2> QED BY <2>1, <2>2, <1>3
<1>13. ChainPart'
  BY <1>1 DEF LogInv, ChainPart
\* What is sure, and what was sure stays so.
<1>20. ASSUME NEW b \in Nat, Sure(chain, b) PROVE Sure(chain, b)'
  BY <1>1, <1>11, <1>20 DEF Sure, Settled
<1>21. ASSUME NEW b \in Nat, b <= to, L = <<>> \/ \E i \in 1 .. Len(L) : b <= L[i].block
       PROVE  Sure(chain, b)'
  <2>1. CASE b < from
    <3>1. b <= block \/ b <= DeployBlock
      BY <2>1, <1>2, <1>3
    <3>2. Sure(chain, b)
      BY <3>1 DEF LogInv, ReachPart, Reached, Sure
    <3> QED BY <3>2, <1>20
  <2>2. CASE b >= from
    <3>1. CASE Settled(chain, b)
      BY <3>1, <1>20 DEF Sure
    <3>2. CASE ~Settled(chain, b)
      <4>1. currentBlock = 0
        BY <3>2, <1>2, <1>4, <1>21 DEF Settled
      <4>2. b \in Unsafe(from, to, L)
        BY <2>2, <3>2, <1>2, <1>3, <1>4, <1>6, <1>21 DEF Unsafe, Settled
      <4> QED BY <4>1, <4>2, <1>1 DEF Sure
    <3> QED BY <3>1, <3>2
  <2> QED BY <2>1, <2>2, <1>3
<1>22. ASSUME NEW b \in Nat, Reached(b)'
       PROVE  b <= to /\ Sure(chain, b)'
  <2>1. /\ block' = block \/ block' = to
        /\ fetch'.max = 0
        /\ block' # block => L = <<>>
        /\ fetch'.logs = L \/ (fetch'.logs = <<>>)
        /\ tradeLogs' = tradeLogs /\ block <= to
    BY <1>1, <1>2, <1>3, <1>4, <1>11
  <2>2. CASE b <= block \/ \E l \in tradeLogs : b <= l.block
    <3>1. Reached(b)
      BY <2>2 DEF Reached
    <3>2. b <= to
      BY <2>1, <2>2, <1>2, <1>4, <1>10
    <3> QED BY <3>1, <3>2, <1>20 DEF LogInv, ReachPart
  <2>3. CASE b <= to /\ L = <<>>
    BY <2>3, <1>21
  <2>4. CASE \E i \in 1 .. Len(L) : b <= L[i].block
    <3>1. PICK i \in 1 .. Len(L) : b <= L[i].block
      BY <2>4
    <3>2. L[i].block \in Nat /\ L[i].block <= to
      BY <1>8
    <3>3. b <= to
      BY <3>1, <3>2, <1>4
    <3> QED BY <3>3, <2>4, <1>21
  <2>5. CASE b <= 0
    BY <2>2, <2>5, <1>2
  <2> QED BY <2>1, <2>2, <2>3, <2>4, <2>5, <1>22 DEF Reached
<1>23. ReachPart'
  BY <1>22 DEF ReachPart
<1>24. ASSUME NEW l, NEW b \in Nat, NEW p \in Nat, KeptAt(l, chain, b, p)
       PROVE  KeptAt(l, chain, b, p)'
  <2>1. Place(l, chain, b, p)'
    BY <1>1, <1>20, <1>24 DEF KeptAt, Place
  <2>2. Intact(chain, b)' => Intact(chain, b)
    BY <1>1, <1>11 DEF Intact
  <2> QED BY <2>1, <2>2, <1>1, <1>24 DEF KeptAt, TxAt, Marks
<1>25. \A l \in (tradeLogs \cup catLogs)' : \E b, p \in Nat : KeptAt(l, chain, b, p)'
  BY <1>1, <1>24 DEF LogInv, SettledPart
<1>26. ASSUME NEW l, NEW i \in 1 .. Len(L), l = L[i] PROVE \E b, p \in Nat : ReadAt(l, chain, b, p)'
  <2>1. PICK b, p \in Nat : /\ TxAt(chain, b, p) /\ l = LogIn(chain, b, p)
                            /\ l.block = b /\ b >= from /\ b <= to
    BY <1>8, <1>26
  <2>2. Sure(chain, b)'
    BY <2>1, <1>21, <1>26
  <2>3. /\ b \in 1 .. Len(chain) /\ p \in 1 .. BlockTxs
        /\ l.index = 2 * p - 1
    <3>1. b \in 1 .. Len(chain) /\ p \in 1 .. Len(chain[b])
      BY <2>1 DEF TxAt
    <3>2. chain \in Seq(Seq(AllTx)) /\ \A c \in 1 .. Len(chain) : Len(chain[c]) <= BlockTxs
      BY DEF LogInv, ChainPart
    <3>3. chain[b] \in Seq(AllTx) /\ Len(chain[b]) <= BlockTxs
      BY <3>1, <3>2
    <3>4. Len(chain[b]) \in Nat /\ BlockTxs \in Nat
      BY <3>3, LogNumbers
    <3> QED BY <3>1, <3>3, <3>4, <2>1 DEF LogIn
  <2>4. Place(l, chain, b, p)'
    BY <2>1, <2>2, <2>3, <1>1 DEF Place
  <2>5. (TxAt(chain, b, p) /\ l = LogIn(chain, b, p))'
    BY <2>1, <1>1 DEF TxAt, LogIn
  <2>6. ReadAt(l, chain, b, p)'
    BY <2>4, <2>5 DEF ReadAt
  <2> QED BY <2>1, <2>6
<1>14. CASE L = <<>>
  <2>1. fetch' = fetch /\ block' = to
    BY <1>1, <1>14
  <2>2. SettledPart'
    BY <2>1, <1>1, <1>4, <1>11, <1>25 DEF LogInv, SettledPart, Idle
  <2>3. OrderPart'
    <3>1. \A l \in tradeLogs : l.block <= to
      BY <1>1, <1>2, <1>3, <1>4, <1>10
    <3>2. ~(fetch' = Idle' /\ \E l \in tradeLogs' : ~(l.block <= block'))
      BY <3>1, <2>1, <1>1
    <3> QED BY <3>2, <2>1, <1>1, <1>11 DEF LogInv, OrderPart, Before
  <2>4. CoverPart'
    <3> SUFFICES ASSUME NEW b \in Nat, NEW p \in Nat, TxAt(chain, b, p), Reached(b)', b \notin early
                 PROVE  Covered(b, p)'
      BY <1>1, <1>11 DEF CoverPart
    <3>1. b <= to
      BY <1>22
    <3>2. ~\E i \in 1 .. Len(L) : L[i] = LogIn(chain, b, p)
      BY <1>14
    <3> QED BY <3>1, <3>2, <1>1, <1>12 DEF Covered
  <2> QED BY <1>13, <1>23, <2>2, <2>3, <2>4 DEF LogInv
<1>15. CASE L # <<>>
  <2>1. fetch' = [logs |-> L, max |-> 0] /\ block' = block
    BY <1>1, <1>15
  <2>2. fetch'.logs = L /\ fetch'.max = 0 /\ fetch' \in [logs : Seq(LogSet), max : Nat] /\ fetch' # Idle
    BY <2>1, <1>6, <1>15 DEF Idle
  <2>3. SettledPart'
    <3>1. \A i \in 1 .. Len(fetch'.logs) : \E b, p \in Nat : ReadAt(fetch.logs[i], chain, b, p)'
      BY <2>2, <1>26
    <3> QED BY <2>1, <2>2, <3>1, <1>1, <1>2, <1>15, <1>25 DEF SettledPart
  <2>4. OrderPart'
    <3>1. \A x, y \in 1 .. Len(L) : x < y /\ (L[x].type = "trade" \/ L[y].type = "cat") => Before(L[x], L[y])
      BY <1>5 DEF LogList
    <3>2. ASSUME NEW l \in tradeLogs, NEW i \in 1 .. Len(L) PROVE Before(l, L[i])
      <4>1. L[i].block \in Nat /\ L[i].block >= from
        BY <1>8
      <4> QED BY <4>1, <1>2, <1>3, <1>10 DEF Before
    <3> QED BY <2>2, <3>1, <3>2, <1>1 DEF OrderPart, Before, Idle
  <2>5. CoverPart'
    <3> SUFFICES ASSUME NEW b \in Nat, NEW p \in Nat, TxAt(chain, b, p), Reached(b)', b \notin early
                 PROVE  Covered(b, p)'
      BY <1>1, <1>11 DEF CoverPart
    <3>1. b <= to
      BY <1>22
    <3> QED BY <3>1, <2>2, <1>1, <1>12 DEF Covered
  <2> QED BY <1>13, <1>23, <2>3, <2>4, <2>5 DEF LogInv
<1> QED BY <1>14, <1>15

\* One log is stored.
LEMMA FetchKeeps ==
  ASSUME LogInv, FetchLogs
  PROVE  LogInv'
<1> DEFINE logs == fetch.logs
           l    == Head(logs)
           max  == IF l.block > fetch.max THEN l.block ELSE fetch.max
           rest == Tail(logs)
<1>1. /\ fetch # Idle /\ logs \in Seq(LogSet) /\ logs # <<>> /\ fetch.max \in Nat
      /\ Len(logs) \in Nat /\ Len(logs) >= 1 /\ l = logs[1] /\ l \in LogSet
      /\ block \in Nat
  BY DEF FetchLogs, LogInv, SettledPart
<1>2. /\ rest \in Seq(LogSet) /\ Len(rest) = Len(logs) - 1 /\ \A i \in 1 .. Len(rest) : rest[i] = logs[i + 1]
      /\ Len(rest) \in Nat
  BY <1>1
<1>3. /\ pool' = pool /\ chain' = chain /\ currentBlock' = currentBlock /\ early' = early
      /\ \/ l.type = "trade" /\ (\E country \in GetTradeGeo : StoreTradeLog(l, country)) /\ dropped' = dropped
         \/ l.type = "cat" /\ StoreCatLog(l) /\ dropped' = dropped
         \/ dropped' = dropped \cup {Key(l)} /\ tradeLogs' = tradeLogs /\ catLogs' = catLogs
      /\ IF Len(logs) = 1 THEN block' = max /\ fetch' = Idle
         ELSE /\ block' = (IF max > fetch.max THEN max ELSE block)
              /\ fetch' = [logs |-> rest, max |-> max]
  BY DEF FetchLogs, StoreFails
<1>4. PICK c, q \in Nat : ReadAt(logs[1], chain, c, q)
  <2>1. 1 \in 1 .. Len(logs)
    BY <1>1
  <2> QED BY <2>1 DEF LogInv, SettledPart
<1>5. l.block = c /\ l.index = 2 * q - 1 /\ ReadAt(l, chain, c, q)
  BY <1>1, <1>4 DEF ReadAt, Place
<1>6. max \in Nat /\ max >= l.block /\ max >= fetch.max /\ (max = l.block \/ max = fetch.max)
  BY <1>1, <1>4, <1>5
<1> HIDE DEF max
<1>7. /\ fetch'.logs = rest /\ fetch' \in [logs : Seq(LogSet), max : Nat]
      /\ fetch'.max = 0 \/ fetch'.max = max
      /\ block' = max \/ block' = block
      /\ rest = <<>> => block' = max /\ fetch' = Idle
      /\ fetch' = Idle => rest = <<>>
  <2>1. CASE Len(logs) = 1
    <3>1. Len(rest) = 0
      BY <2>1, <1>2
    <3> HIDE DEF rest
    <3>2. rest = <<>>
      BY <3>1, <1>2
    <3>3. block' = max /\ fetch' = Idle
      BY <2>1, <1>3
    <3>4. Idle.logs = <<>> /\ Idle.max = 0 /\ Idle \in [logs : Seq(LogSet), max : Nat]
      BY DEF Idle
    <3> QED BY <3>2, <3>3, <3>4
  <2>2. CASE Len(logs) # 1
    <3>1. rest # <<>>
      <4>1. Len(rest) # 0
        BY <2>2, <1>1, <1>2
      <4> HIDE DEF rest
      <4> QED BY <4>1
    <3> HIDE DEF rest
    <3>2. fetch' = [logs |-> rest, max |-> max] /\ (block' = max \/ block' = block)
      BY <2>2, <1>3
    <3> QED BY <3>1, <3>2, <1>2, <1>6 DEF Idle
  <2> QED BY <2>1, <2>2
<1>8. ~Duplicated(l)
  BY <1>1, NeverDuplicated
<1>9. PICK x : /\ x.block = l.block /\ x.index = l.index /\ x.data = l.data
               /\ \/ l.type = "trade" /\ tradeLogs' = tradeLogs \cup {x} /\ catLogs' = catLogs
                  \/ l.type = "cat" /\ catLogs' = catLogs \cup {x} /\ tradeLogs' = tradeLogs
                  \/ Key(l) \in dropped' /\ catLogs' = catLogs /\ tradeLogs' = tradeLogs
               /\ dropped \subseteq dropped'
  <2>1. ASSUME NEW country \in GetTradeGeo, l.type = "trade", StoreTradeLog(l, country)
        PROVE  \E x : /\ x.block = l.block /\ x.index = l.index /\ x.data = l.data
                      /\ tradeLogs' = tradeLogs \cup {x} /\ catLogs' = catLogs
    <3> DEFINE x == [block |-> l.block, index |-> l.index, data |-> l.data, country |-> country]
    <3>1. x.block = l.block /\ x.index = l.index /\ x.data = l.data
      OBVIOUS
    <3>2. tradeLogs' = tradeLogs \cup {x} /\ catLogs' = catLogs
      BY <2>1, <1>8 DEF StoreTradeLog
    <3> HIDE DEF x
    <3> QED BY <3>1, <3>2
  <2>2. ASSUME l.type = "cat", StoreCatLog(l)
        PROVE  \E x : /\ x.block = l.block /\ x.index = l.index /\ x.data = l.data
                      /\ catLogs' = catLogs \cup {x} /\ tradeLogs' = tradeLogs
    <3> DEFINE x == [block |-> l.block, index |-> l.index, data |-> l.data]
    <3>1. x.block = l.block /\ x.index = l.index /\ x.data = l.data
      OBVIOUS
    <3>2. catLogs' = catLogs \cup {x} /\ tradeLogs' = tradeLogs
      BY <2>2, <1>8 DEF StoreCatLog
    <3> HIDE DEF x
    <3> QED BY <3>1, <3>2
  <2>3. CASE dropped' = dropped \cup {Key(l)} /\ tradeLogs' = tradeLogs /\ catLogs' = catLogs
    <3>1. l.block = l.block /\ Key(l) \in dropped' /\ dropped \subseteq dropped'
      BY <2>3
    <3> QED BY <2>3, <3>1
  <2> QED BY <2>1, <2>2, <2>3, <1>3
<1> HIDE DEF l, rest
<1>10. /\ tradeLogs \subseteq tradeLogs' /\ tradeLogs \cup catLogs \subseteq (tradeLogs \cup catLogs)'
       /\ x \in (tradeLogs \cup catLogs)' \/ Key(l) \in dropped'
       /\ KeptAt(x, chain, c, q)
       /\ \A m \in tradeLogs' : m \in tradeLogs \/ (m = x /\ l.type = "trade")
       /\ \A m \in (tradeLogs \cup catLogs)' : m \in tradeLogs \cup catLogs \/ m = x
  <2>1. Place(x, chain, c, q)
    BY <1>5, <1>9 DEF ReadAt, Place
  <2>2. ASSUME Intact(chain, c) PROVE TxAt(chain, c, q) /\ Marks(x, chain, c, q)
    <3>1. TxAt(chain, c, q) /\ l = LogIn(chain, c, q)
      BY <2>2, <1>5 DEF ReadAt
    <3>2. l.data = chain[c][q].data
      BY <3>1 DEF LogIn
    <3> QED BY <3>1, <3>2, <1>5, <1>9 DEF Marks
  <2>3. KeptAt(x, chain, c, q)
    BY <2>1, <2>2 DEF KeptAt
  <2> QED BY <2>3, <1>9
<1>11. ASSUME NEW i \in 1 .. Len(rest)
       PROVE  i + 1 \in 1 .. Len(logs) /\ rest[i] = logs[i + 1] /\ 1 \in 1 .. Len(logs)
  BY <1>1, <1>2
<1>12. \A i \in 1 .. Len(logs) : i = 1 \/ i - 1 \in 1 .. Len(rest)
  BY <1>1, <1>2
<1>13. ChainPart'
  BY <1>3 DEF LogInv, ChainPart
<1>14. SettledPart'
  <2>0. /\ \A m, b, p : ReadAt(m, chain, b, p)' <=> ReadAt(m, chain, b, p)
        /\ \A m, b, p : KeptAt(m, chain, b, p)' <=> KeptAt(m, chain, b, p)
    BY <1>3 DEF ReadAt, KeptAt, Place, Intact, Sure, Settled, TxAt, LogIn, Marks
  <2>1. block' \in Nat
    BY <1>1, <1>6, <1>7
  <2>3. ASSUME NEW i \in 1 .. Len(rest)
        PROVE  \E b, p \in Nat : ReadAt(rest[i], chain, b, p)
    <3>1. i + 1 \in 1 .. Len(fetch.logs) /\ rest[i] = fetch.logs[i + 1]
      BY <1>11
    <3> QED BY <3>1 DEF LogInv, SettledPart
  <2>4. ASSUME NEW m \in (tradeLogs \cup catLogs)'
        PROVE  \E b, p \in Nat : KeptAt(m, chain, b, p)
    <3>1. CASE m \in tradeLogs \cup catLogs
      BY <3>1 DEF LogInv, SettledPart
    <3>2. CASE m = x
      BY <3>2, <1>4, <1>10
    <3> QED BY <3>1, <3>2, <1>10
  <2> QED BY <2>0, <2>1, <2>3, <2>4, <1>3, <1>7 DEF SettledPart
<1>15. ASSUME NEW m \in tradeLogs', NEW i \in 1 .. Len(rest) PROVE Before(m, rest[i])
  <2>1. i + 1 \in 1 .. Len(fetch.logs) /\ rest[i] = fetch.logs[i + 1] /\ 1 \in 1 .. Len(fetch.logs) /\ 1 < i + 1
    BY <1>2, <1>11
  <2>2. CASE m \in tradeLogs
    BY <2>1, <2>2 DEF LogInv, OrderPart
  <2>3. CASE m = x /\ l.type = "trade"
    <3>1. fetch.logs[1].type = "trade"
      BY <2>3, <1>1
    <3>2. Before(fetch.logs[1], fetch.logs[i + 1])
      BY <2>1, <3>1 DEF LogInv, OrderPart
    <3>3. x.block = fetch.logs[1].block /\ x.index = fetch.logs[1].index
      BY <1>1, <1>9
    <3> QED BY <2>1, <2>3, <3>2, <3>3 DEF Before
  <2> QED BY <2>2, <2>3, <1>10
<1>16. OrderPart'
  <2>1. ASSUME NEW i \in 1 .. Len(rest), NEW j \in 1 .. Len(rest), i < j,
               rest[i].type = "trade" \/ rest[j].type = "cat"
        PROVE  Before(rest[i], rest[j])
    <3>1. /\ i + 1 \in 1 .. Len(fetch.logs) /\ rest[i] = fetch.logs[i + 1] /\ i + 1 < j + 1
          /\ j + 1 \in 1 .. Len(fetch.logs) /\ rest[j] = fetch.logs[j + 1]
      BY <1>2, <1>11, <2>1
    <3>2. Before(fetch.logs[i + 1], fetch.logs[j + 1])
      BY <3>1, <2>1 DEF LogInv, OrderPart
    <3> QED BY <3>1, <3>2
  <2>2. ASSUME fetch' = Idle, NEW m \in tradeLogs' PROVE m.block <= block'
    <3>1. block' = max
      BY <2>2, <1>7
    <3>2. m.block <= l.block /\ m.block \in Nat
      <4>1. CASE m \in tradeLogs
        <5>1. Before(m, fetch.logs[1]) /\ m.block \in Nat
          <6>1. 1 \in 1 .. Len(fetch.logs)
            BY <1>1
          <6> QED BY <4>1, <6>1, StoredFields DEF LogInv, OrderPart
        <5>2. fetch.logs[1].block \in Nat /\ l.block = fetch.logs[1].block
          BY <1>1, <1>4, <1>5
        <5> QED BY <5>1, <5>2 DEF Before
      <4>2. CASE m = x
        BY <4>2, <1>4, <1>5, <1>9
      <4> QED BY <4>1, <4>2, <1>10
    <3> QED BY <3>1, <3>2, <1>4, <1>5, <1>6
  <2>3. \A i, j \in 1 .. Len(rest) : i < j /\ (rest[i].type = "trade" \/ rest[j].type = "cat") => Before(rest[i], rest[j])
    BY <2>1
  <2>4. \A m \in tradeLogs' : \A i \in 1 .. Len(rest) : Before(m, rest[i])
    BY <1>15
  <2>5. fetch' = Idle => \A m \in tradeLogs' : m.block <= block'
    BY <2>2
  <2> QED BY <2>3, <2>4, <2>5, <1>7 DEF OrderPart, Before, Idle
<1>18. ASSUME NEW b \in Nat, Reached(b)' PROVE Reached(b)
  <2>0. 1 \in 1 .. Len(fetch.logs) /\ fetch.logs[1] = l
    BY <1>1
  <2>1. CASE b <= l.block
    BY <2>0, <2>1 DEF Reached
  <2>2. CASE b <= max
    <3>1. b <= l.block \/ b <= fetch.max
      BY <2>2, <1>6
    <3> QED BY <3>1, <2>1 DEF Reached
  <2>3. CASE b <= block' \/ b <= fetch'.max
    <3>1. CASE b <= 0
      BY <3>1, <1>1 DEF Reached
    <3>2. b <= max \/ b <= block \/ b <= 0
      BY <2>3, <1>1, <1>6, <1>7
    <3> QED BY <3>1, <3>2, <2>2 DEF Reached
  <2>4. ASSUME NEW i \in 1 .. Len(rest), b <= rest[i].block PROVE Reached(b)
    BY <2>4, <1>11 DEF Reached
  <2>5. ASSUME NEW m \in tradeLogs', b <= m.block PROVE Reached(b)
    <3>1. CASE m \in tradeLogs
      BY <2>5, <3>1 DEF Reached
    <3>2. CASE m = x
      BY <2>1, <2>5, <3>2, <1>9
    <3> QED BY <3>1, <3>2, <1>10
  <2> QED BY <2>3, <2>4, <2>5, <1>7, <1>18 DEF Reached
<1>19. ReachPart'
  <2> SUFFICES ASSUME NEW b \in Nat, Reached(b)' PROVE Sure(chain, b)'
    BY DEF ReachPart
  <2>1. Sure(chain, b)
    BY <1>18 DEF LogInv, ReachPart
  <2> QED BY <2>1, <1>3 DEF Sure, Settled
<1>17. CoverPart'
  <2> SUFFICES ASSUME NEW b \in Nat, NEW p \in Nat, TxAt(chain, b, p), Reached(b)', b \notin early
               PROVE  Covered(b, p)'
    BY <1>3 DEF CoverPart
  <2>1. Reached(b)
    BY <1>18
  <2>2. Covered(b, p)
    BY <2>1 DEF LogInv, CoverPart
  <2>3. CASE \E m \in tradeLogs \cup catLogs : Marks(m, chain, b, p)
    BY <2>3, <1>3, <1>10 DEF Covered
  <2>4. CASE \E m \in tradeLogs : m.block = b /\ m.index < 2 * p - 1
    BY <2>4, <1>10 DEF Covered
  <2>6. CASE <<b, 2 * p - 1, chain[b][p].data>> \in dropped
    BY <2>6, <1>3, <1>9 DEF Covered
  <2>5. ASSUME NEW i \in 1 .. Len(fetch.logs), fetch.logs[i] = LogIn(chain, b, p)
        PROVE  Covered(b, p)'
    <3>1. CASE i = 1
      <4>1. l = LogIn(chain, b, p)
        BY <2>5, <3>1, <1>1
      <4>2. Marks(x, chain, b, p)
        BY <4>1, <1>9 DEF Marks, LogIn
      <4>3. Key(l) = <<b, 2 * p - 1, chain[b][p].data>>
        BY <4>1 DEF Key, LogIn
      <4> QED BY <4>2, <4>3, <1>3, <1>10 DEF Covered
    <3>2. CASE i - 1 \in 1 .. Len(rest)
      <4>1. rest[i - 1] = fetch.logs[(i - 1) + 1] /\ (i - 1) + 1 = i
        BY <3>2, <1>11
      <4>2. rest[i - 1] = LogIn(chain, b, p)
        BY <4>1, <2>5
      <4> QED BY <3>2, <4>2, <1>3, <1>7 DEF Covered
    <3> QED BY <3>1, <3>2, <1>12
  <2> QED BY <2>2, <2>3, <2>4, <2>5, <2>6 DEF Covered
<1> QED BY <1>13, <1>14, <1>16, <1>17, <1>19 DEF LogInv

\* The process starts again.
LEMMA RestartKeeps ==
  ASSUME LogInv, RestartLogs
  PROVE  LogInv'
<1> DEFINE last == LastLog(tradeLogs)
<1>1. /\ pool' = pool /\ chain' = chain /\ tradeLogs' = tradeLogs /\ catLogs' = catLogs
      /\ block' = last.block /\ (currentBlock' = Len(chain) \/ currentBlock' = 0) /\ fetch' = Idle
      /\ early' = early /\ dropped' = dropped
  BY DEF RestartLogs, LoadLastLogIndex, lostVars, FirstHead
<1>2. /\ tradeLogs = {} => last.block = 0
      /\ tradeLogs # {} => /\ last \in tradeLogs /\ last.block \in Nat
                           /\ \A l \in tradeLogs : l.block <= last.block
  BY LastTrade, StoredFields DEF LastLog, NoLog
<1> HIDE DEF last
<1>3. Len(chain) \in Nat /\ Len(chain) >= DeployBlock /\ DeployBlock \in Nat /\ DeployBlock > 0
  BY LogNumbers DEF LogInv, ChainPart
<1>4. block' \in Nat
  BY <1>1, <1>2
<1>5. fetch' \in [logs : Seq(LogSet), max : Nat] /\ fetch'.logs = <<>> /\ fetch'.max = 0
  BY <1>1 DEF Idle
<1>6. ChainPart'
  BY <1>1, <1>3 DEF LogInv, ChainPart
<1>7. SettledPart'
  <2>1. \A m, b, p : KeptAt(m, chain, b, p)' <=> KeptAt(m, chain, b, p)
    BY <1>1 DEF KeptAt, Place, Intact, Sure, Settled, TxAt, Marks
  <2>2. \A m \in (tradeLogs \cup catLogs)' : \E b, p \in Nat : KeptAt(m, chain, b, p)'
    BY <2>1, <1>1 DEF LogInv, SettledPart
  <2> QED BY <2>2, <1>1, <1>4, <1>5 DEF SettledPart
<1>8. OrderPart'
  <2>1. \A l \in tradeLogs : l.block <= last.block
    BY <1>2
  <2> QED BY <2>1, <1>1, <1>5 DEF OrderPart
<1>10. ASSUME NEW b \in Nat, Reached(b)', b > 0 PROVE \E l \in tradeLogs : b <= l.block
  <2>1. b <= last.block \/ b <= 0 \/ \E l \in tradeLogs : b <= l.block
    BY <1>1, <1>5, <1>10 DEF Reached
  <2> QED BY <2>1, <1>2, <1>10
<1>11. ReachPart'
  <2> SUFFICES ASSUME NEW b \in Nat, Reached(b)' PROVE Sure(chain, b)'
    BY DEF ReachPart
  <2>1. Sure(chain, b)
    <3>1. CASE b = 0
      BY <3>1, <1>3 DEF Sure
    <3>2. CASE b > 0
      BY <3>2, <1>10 DEF LogInv, ReachPart, Reached
    <3> QED BY <3>1, <3>2
  <2> QED BY <2>1, <1>1 DEF Sure, Settled
<1>9. CoverPart'
  <2> SUFFICES ASSUME NEW b \in Nat, NEW p \in Nat, TxAt(chain, b, p), Reached(b)', b \notin early
               PROVE  Covered(b, p)'
    BY <1>1 DEF CoverPart
  <2>1. TxAt(chain, b, p) /\ b >= 1
    BY <1>1 DEF TxAt
  <2>2. PICK l \in tradeLogs : b <= l.block
    BY <2>1, <1>10
  <2>3. Reached(b)
    BY <2>2 DEF Reached
  <2>4. Covered(b, p)
    BY <2>1, <2>3 DEF LogInv, CoverPart
  <2>5. CASE \E m \in tradeLogs \cup catLogs : Marks(m, chain, b, p)
    BY <2>5, <1>1 DEF Covered
  <2>6. CASE \E m \in tradeLogs : m.block = b /\ m.index < 2 * p - 1
    BY <2>6, <1>1 DEF Covered
  <2>8. CASE <<b, 2 * p - 1, chain[b][p].data>> \in dropped
    BY <2>8, <1>1 DEF Covered
  <2>7. ASSUME NEW i \in 1 .. Len(fetch.logs), fetch.logs[i] = LogIn(chain, b, p)
        PROVE  Covered(b, p)'
    <3>1. Before(l, fetch.logs[i])
      BY <2>2 DEF LogInv, OrderPart
    <3>2. fetch.logs[i].block = b /\ fetch.logs[i].index = 2 * p - 1 /\ l.block \in Nat
      BY <2>7, <2>2, StoredFields DEF LogIn
    <3>3. l.block = b /\ l.index < 2 * p - 1
      BY <2>2, <3>1, <3>2 DEF Before
    <3> QED BY <3>3, <2>2, <1>1 DEF Covered
  <2> QED BY <2>4, <2>5, <2>6, <2>7, <2>8 DEF Covered
<1> QED BY <1>6, <1>7, <1>8, <1>9, <1>11 DEF LogInv

------------------------------------------------------------------------------
\* The steps of the aggregations leave the log fetcher alone.
LEMMA AggregationsAside ==
  ASSUME \/ RunTradeLogProcessor
         \/ RunBurnFeeAggregation \/ RunVolumeStatAggregation \/ RunUserInfoAggregation
         \/ RunTradeSummaryAggregation \/ RunWalletStatAggregation \/ RunCountryStatAggregation
         \/ RunCatLogProcessor \/ ReadCatLogs \/ ApplyCatLog \/ FinishCatLogs \/ SkipCatLogs
  PROVE  UNCHANGED <<logVars, crashes>>
<1>1. ASSUME NEW k, ReadTrades(k) PROVE UNCHANGED <<logVars, crashes>>
  BY <1>1 DEF ReadTrades, ReadCursor, ReadTradeLogs, SkipTradeLogs
<1>2. ASSUME NEW k, FirstTrades(k) PROVE UNCHANGED <<logVars, crashes>>
  BY <1>2 DEF FirstTrades, SetFirstTradeEver, SetFirstTradeInDay, LoadFirstTrades
<1>3. ASSUME NEW k, SetStat(k) PROVE UNCHANGED <<logVars, crashes>>
  BY <1>3 DEF SetStat
<1>4. CASE RunTradeLogProcessor
  BY <1>4 DEF RunTradeLogProcessor
<1>5. CASE RunBurnFeeAggregation \/ RunVolumeStatAggregation \/ RunUserInfoAggregation
  BY <1>1, <1>3, <1>5 DEF RunBurnFeeAggregation, RunVolumeStatAggregation, RunUserInfoAggregation,
     SetBurnFeeStat, SetVolumeStat, SetUserList
<1>6. CASE RunTradeSummaryAggregation \/ RunWalletStatAggregation \/ RunCountryStatAggregation
  BY <1>1, <1>2, <1>3, <1>6 DEF RunTradeSummaryAggregation, RunWalletStatAggregation, RunCountryStatAggregation,
     SetTradeSummary, SetWalletStat, SetCountryStat
<1>7. CASE RunCatLogProcessor
  BY <1>7 DEF RunCatLogProcessor
<1>8. CASE ApplyCatLog
  BY <1>8 DEF ApplyCatLog
<1>9. CASE FinishCatLogs
  BY <1>9 DEF FinishCatLogs
<1>10. CASE ReadCatLogs \/ SkipCatLogs
  BY <1>10 DEF ReadCatLogs, SkipCatLogs
<1> QED BY <1>4, <1>5, <1>6, <1>7, <1>8, <1>9, <1>10

\* The invariant holds at the start.
LEMMA LogInvInit == StatInit => LogInv
<1> SUFFICES ASSUME StatInit PROVE LogInv
  OBVIOUS
<1>1. /\ chain = [b \in 1 .. DeployBlock |-> <<>>] /\ (currentBlock = DeployBlock \/ currentBlock = 0) /\ block = 0
      /\ tradeLogs = {} /\ catLogs = {} /\ fetch = Idle
  BY DEF StatInit, StatLogsInit, FirstHead
<1>2. DeployBlock \in Nat /\ ReorgSafe \in Nat /\ MaxBlock \in Nat /\ BlockTxs \in Nat /\ ReorgSafe <= DeployBlock /\ DeployBlock <= MaxBlock
  BY LogNumbers
<1>3. chain \in Seq(Seq(AllTx)) /\ Len(chain) = DeployBlock /\ \A b \in 1 .. Len(chain) : chain[b] = <<>>
  BY <1>1, <1>2
<1>4. pool \in Seq(AllTx)
  <2>1. PICK s \in Scenarios : pool = s[2]
    BY DEF StatInit, AggregationInit
  <2>2. s[2] \in Seq(Range(s[2])) /\ Range(s[2]) \subseteq AllTx
    BY AggregationAssumption DEF AllTx
  <2>3. \A i \in 1 .. Len(s[2]) : s[2][i] \in AllTx
    BY <2>2
  <2> QED BY <2>1, <2>2, <2>3
<1>5. fetch.logs = <<>> /\ fetch.max = 0 /\ fetch \in [logs : Seq(LogSet), max : Nat]
  BY <1>1 DEF Idle
<1>6. ChainPart
  <2>1. \A b \in 1 .. Len(chain) : Len(chain[b]) <= BlockTxs
    BY <1>2, <1>3
  <2> QED BY <2>1, <1>1, <1>2, <1>3, <1>4 DEF ChainPart
<1>7. SettledPart
  BY <1>1, <1>2, <1>3, <1>5 DEF SettledPart, Settled
<1>8. OrderPart
  BY <1>1, <1>5 DEF OrderPart
<1>9. CoverPart
  BY <1>1, <1>2, <1>3, <1>5 DEF CoverPart, TxAt, Reached
<1>10. ReachPart
  BY <1>1, <1>2, <1>5 DEF ReachPart, Reached, Sure
<1> QED BY <1>6, <1>7, <1>8, <1>9, <1>10 DEF LogInv

\* Every step keeps the invariant.
LEMMA LogInvStep == LogInv /\ [StatNext]_statVars => LogInv'
<1> SUFFICES ASSUME LogInv, [StatNext]_statVars PROVE LogInv'
  OBVIOUS
<1>1. ASSUME UNCHANGED logVars PROVE LogInv'
  <2>1. /\ UNCHANGED <<block, tradeLogs, catLogs, fetch, early, dropped>> /\ UNCHANGED <<pool, chain, currentBlock>>
        /\ Len(chain) \in Nat
    BY <1>1 DEF logVars, lostVars, LogInv, ChainPart
  <2>2. ChainPart' /\ Grows(chain, chain')
    BY <2>1 DEF LogInv, ChainPart, Grows
  <2> QED BY <2>1, <2>2, ChainGrows
<1>2. CASE StatLogsNext
  BY <1>2, MineKeeps, ReorgKeeps, HeadKeeps, RunKeeps, FetchKeeps DEF StatLogsNext
<1>3. CASE Restart
  BY <1>3, RestartKeeps DEF Restart
<1>4. CASE UNCHANGED statVars
  BY <1>1, <1>4 DEF statVars
<1>5. CASE FetcherStep
  BY <1>2, <1>5 DEF FetcherStep
<1> QED BY <1>1, <1>3, <1>4, <1>5, AggregationsAside DEF StatNext

\* The inductive invariant of the log fetcher holds always, whatever the
\* aggregations do in between.
THEOREM LogInvAlways == StatSpec => []LogInv
BY LogInvInit, LogInvStep, PTL DEF StatSpec

\* What is stored and what is in fetch is what a reader of the chain sees.
LEMMA SeenOnChain ==
  ASSUME LogInv, NEW b \in Nat, NEW p \in Nat, TxAt(chain, b, p), NEW l, Marks(l, chain, b, p)
  PROVE  \E m \in LogsOnChain(1, MaxBlock) : Key(m) = Key(l)
<1> DEFINE L == GetLogs(1, MaxBlock)
           B == Asked(1, MaxBlock)
<1>1. MaxBlock \in Nat /\ Len(chain) \in Nat /\ Len(chain) <= MaxBlock /\ ChainOK /\ DOMAIN chain = 1 .. Len(chain)
  BY LogNumbers DEF LogInv, ChainPart, ChainOK
<1>2. LogList(L, B)
  BY <1>1, LogsOf
<1>3. b \in B /\ p \in 1 .. Len(chain[b])
  BY <1>1 DEF Asked, TxAt
<1> HIDE DEF L, B
<1>4. PICK x \in 1 .. Len(L) : L[x] = LogAt(b, p)
  BY <1>2, <1>3 DEF LogList
<1>5. Key(L[x]) = Key(l)
  BY <1>4 DEF Key, LogAt, LogIn, Marks
<1>6. L[x] \in Range(L)
  <2>1. DOMAIN L = 1 .. Len(L)
    BY <1>2 DEF LogList
  <2> QED BY <2>1 DEF Range
<1> QED BY <1>5, <1>6 DEF LogsOnChain, L

\* The invariant implies that what is stored is on the chain.
LEMMA InvCanonical == LogInv => StoredLogsCanonical
<1> SUFFICES ASSUME LogInv, NEW l \in tradeLogs \cup catLogs, l.block \notin early
             PROVE  Key(l) \in {Key(m) : m \in LogsOnChain(1, MaxBlock)}
  BY DEF StoredLogsCanonical, Stored, Key
<1>1. PICK b, p \in Nat : TxAt(chain, b, p) /\ Marks(l, chain, b, p)
  <2>1. PICK b, p \in Nat : KeptAt(l, chain, b, p)
    BY DEF LogInv, SettledPart
  <2>2. b \notin early
    BY <2>1 DEF KeptAt, Place
  <2> QED BY <2>1, <2>2 DEF KeptAt, Intact
<1>2. \E m \in LogsOnChain(1, MaxBlock) : Key(m) = Key(l)
  BY <1>1, SeenOnChain
<1> QED BY <1>2

\* The invariant implies that losses are confined.
LEMMA InvConfined == LogInv => LossConfined
<1> SUFFICES ASSUME LogInv, fetch = Idle, NEW l \in LogsOnChain(1, block)
             PROVE  \/ Key(l) \in Stored \cup dropped
                    \/ l.block \in early
                    \/ \E m \in tradeLogs : m.block = l.block /\ m.index < l.index
  BY DEF LossConfined
<1> DEFINE L == GetLogs(1, block)
           B == Asked(1, block)
<1>1. /\ block \in Nat /\ Len(chain) \in Nat /\ ChainOK /\ fetch.logs = <<>>
  BY LogNumbers DEF LogInv, ChainPart, SettledPart, ChainOK, Idle
<1>2. LogList(L, B)
  BY <1>1, LogsOf
<1>3. \A b \in B : b \in Nat /\ b \in 1 .. Len(chain) /\ b <= block
  BY <1>1 DEF Asked, ChainOK
<1>4. l \in Range(L)
  BY DEF LogsOnChain
<1> HIDE DEF L, B
<1>5. PICK x \in 1 .. Len(L) : l = L[x]
  <2>1. DOMAIN L = 1 .. Len(L)
    BY <1>2 DEF LogList
  <2> QED BY <2>1, <1>4 DEF Range
<1>6. PICK b \in B : \E p \in 1 .. Len(chain[b]) : l = LogAt(b, p)
  BY <1>2, <1>5 DEF LogList, IsLog
<1>7. PICK p \in 1 .. Len(chain[b]) : l = LogAt(b, p)
  BY <1>6
<1>8. TxAt(chain, b, p) /\ b \in Nat /\ p \in Nat /\ Reached(b)
  BY <1>3 DEF TxAt, Reached
<1>9. b \in early \/ Covered(b, p)
  BY <1>8 DEF LogInv, CoverPart
<1>10. l.block = b /\ l.index = 2 * p - 1 /\ l.data = chain[b][p].data
  BY <1>7 DEF LogAt, LogIn
<1>11. ASSUME NEW m \in tradeLogs \cup catLogs, Marks(m, chain, b, p) PROVE Key(l) \in Stored
  <2>1. Key(m) = Key(l)
    BY <1>10, <1>11 DEF Key, Marks
  <2>2. Key(m) \in Stored
    BY DEF Stored
  <2> QED BY <2>1, <2>2
<1>12. CASE <<b, 2 * p - 1, chain[b][p].data>> \in dropped
  BY <1>10, <1>12 DEF Key
<1> QED BY <1>1, <1>9, <1>10, <1>11, <1>12 DEF Covered

(***************************************************************************)
(* Nothing is ever stored from a block that is replaced later, whatever    *)
(* the chain, the fetcher, the restarts and the aggregations do: the       *)
(* fetcher stays REORG_BLOCK_SAFE blocks behind the head.  Excepted are    *)
(* the blocks it read nearer to the head while it had never been told it.  *)
(***************************************************************************)
THEOREM StoredLogsAlwaysCanonical == StatSpec => []StoredLogsCanonical
BY LogInvAlways, InvCanonical, PTL

(***************************************************************************)
(* Between two fetches a log at or before the cursor is stored, or lies    *)
(* behind a stored trade log of its own block, or its own transaction      *)
(* failed, or its block was read too early: a restart, wherever it         *)
(* happens, loses at most the rest of the block that was being stored.     *)
(***************************************************************************)
THEOREM LossAlwaysConfined == StatSpec => []LossConfined
BY LogInvAlways, InvConfined, PTL
=============================================================================
