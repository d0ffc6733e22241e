-------------------------- MODULE SendBundleProofs ---------------------------
(***************************************************************************)
(* Bundles from simulation to settlement, for any transactions and blocks  *)
(* of any length: an accepted item never fails its accept, the builder's   *)
(* fill state is exactly what was put in and not taken out, and a node     *)
(* that executes the block comes to the builder's verdicts.                *)
(***************************************************************************)
EXTENDS CallBundle, MarketProofs, SequenceTheorems, WellFoundedInduction

(* The least element of a set of naturals, from their well-foundedness.    *)
Less == OpToRel(<, Nat)

LEMMA LeastNatural ==
  ASSUME NEW T \in SUBSET Nat, T # {}
  PROVE  \E x \in T : \A y \in T : x <= y
<1>1. IsWellFoundedOn(Less, Nat)
  BY NatLessThanWellFounded DEF OpToRel, Less
<1>2. \A x, y \in Nat : y < x => <<y, x>> \in Less
  BY DEF OpToRel, Less
<1>3. PICK x \in T : \A y \in T : ~(<<y, x>> \in Less)
  BY <1>1, WFMin
<1>4. ASSUME NEW y \in T PROVE x <= y
  <2>1. x \in Nat /\ y \in Nat /\ ~(y < x)
    BY <1>2, <1>3
  <2> QED
    BY <2>1
<1> QED
  BY <1>4

-----------------------------------------------------------------------------
(* Sums along a list: the sums of a list of integers exist, and two that   *)
(* begin alike and grow alike are the same.                                *)
SumsOf(h, g, n) == h = [i \in 0..n |-> IF i = 0 THEN 0 ELSE h[i - 1] + g[i]]

LEMMA SumsExist ==
  ASSUME NEW n \in Nat, NEW g, \A i \in 1..n : g[i] \in Int
  PROVE  \E h \in [0..n -> Int] : SumsOf(h, g, n)
<1> DEFINE bad == {m \in 0..n : ~ \E h \in [0..m -> Int] : SumsOf(h, g, m)}
<1>1. CASE bad # {}
  <2>1. bad \in SUBSET Nat
    OBVIOUS
  <2>2. PICK m \in bad : \A k \in bad : m <= k
    BY <1>1, <2>1, LeastNatural
  <2>3. CASE m = 0
    <3> DEFINE h == [i \in 0..0 |-> 0]
    <3>1. h \in [0..0 -> Int] /\ SumsOf(h, g, 0)
      BY DEF SumsOf
    <3> QED
      BY <2>2, <2>3, <3>1
  <2>4. CASE m # 0
    <3>1. m \in 0..n /\ m - 1 \in 0..n /\ m \in 1..n /\ ~(m <= m - 1) /\ m - 1 \in 0..(m - 1)
      BY <2>4
    <3>2. m - 1 \notin bad
      BY <2>2, <3>1
    <3>3. PICK h \in [0..(m - 1) -> Int] : SumsOf(h, g, m - 1)
      BY <3>1, <3>2
    <3> DEFINE k == [i \in 0..m |-> IF i = m THEN h[m - 1] + g[m] ELSE h[i]]
    <3>4. \A i \in 0..m : i # m => i \in 0..(m - 1)
      BY <3>1
    <3>5. h[m - 1] \in Int /\ g[m] \in Int
      BY <3>1
    <3>6. k \in [0..m -> Int]
      BY <3>4, <3>5
    <3>7. ASSUME NEW i \in 0..m
          PROVE  k[i] = IF i = 0 THEN 0 ELSE k[i - 1] + g[i]
      <4>1. CASE i = m
        BY <2>4, <3>1, <4>1
      <4>2. CASE i # m
        <5>1. i \in 0..(m - 1) /\ (i # 0 => i - 1 \in 0..m /\ i - 1 # m)
          BY <3>1, <4>2
        <5>2. h[i] = IF i = 0 THEN 0 ELSE h[i - 1] + g[i]
          BY <3>3, <5>1 DEF SumsOf
        <5> QED
          BY <4>2, <5>1, <5>2
      <4> QED
        BY <4>1, <4>2
    <3>8. SumsOf(k, g, m)
      <4>1. k = [i \in 0..m |-> k[i]]
        OBVIOUS
      <4> HIDE DEF k
      <4> QED
        BY <3>7, <4>1 DEF SumsOf
    <3> QED
      BY <2>2, <3>6, <3>8
  <2> QED
    BY <2>3, <2>4
<1>2. CASE bad = {}
  BY <1>2
<1> QED
  BY <1>1, <1>2

LEMMA SameSums ==
  ASSUME NEW n \in Nat, NEW u, NEW v,
         \A i \in 0..n : u[i] \in Int /\ v[i] \in Int,
         u[0] = v[0],
         \A i \in 1..n : u[i] - u[i - 1] = v[i] - v[i - 1]
  PROVE  \A i \in 0..n : u[i] = v[i]
<1> DEFINE bad == {i \in 0..n : u[i] # v[i]}
<1>1. CASE bad # {}
  <2>1. bad \in SUBSET Nat
    OBVIOUS
  <2>2. PICK m \in bad : \A k \in bad : m <= k
    BY <1>1, <2>1, LeastNatural
  <2>3. m # 0 /\ m \in 1..n /\ m - 1 \in 0..n /\ ~(m <= m - 1) /\ m \in 0..n
    BY <2>2
  <2>4. u[m - 1] = v[m - 1]
    BY <2>2, <2>3
  <2>5. u[m] - u[m - 1] = v[m] - v[m - 1]
    BY <2>3
  <2>6. u[m] = v[m]
    BY <2>3, <2>4, <2>5
  <2> QED
    BY <2>2, <2>6
<1> QED
  BY <1>1

(* What the transactions of a list put into a slot, one after another.     *)
LEMMA GainType ==
  ASSUME NEW tx \in Tx, NEW s \in Slot
  PROVE  Gain(tx, s) \in Int
<1>1. tx.ev.fills \in SlotMap /\ tx.ev.orders \in SlotMap
  BY DEF Tx
<1>2. Filled(tx.ev.fills, s) \in Amount /\ Filled(tx.ev.orders, s) \in Amount
  BY <1>1, FilledType
<1> QED
  BY <1>2, MaxAmountAssumption DEF Gain, Amount

LEMMA SumsFacts ==
  ASSUME NEW values \in Seq(Int)
  PROVE  /\ Len(values) \in Nat
         /\ \A i \in 0..Len(values) : Sums(values)[i] \in Int
         /\ Sums(values)[0] = 0
         /\ \A i \in 1..Len(values) : Sums(values)[i] = Sums(values)[i - 1] + values[i]
<1> DEFINE n == Len(values)
           P(h) == h = [i \in 0..n |-> IF i = 0 THEN 0 ELSE h[i - 1] + values[i]]
<1>1. n \in Nat
  BY LenProperties
<1>2. \A i \in 1..n : values[i] \in Int
  BY ElementOfSeq
<1>3. PICK h \in [0..n -> Int] : SumsOf(h, values, n)
  BY <1>1, <1>2, SumsExist
<1>4. P(h)
  BY <1>3 DEF SumsOf
<1>5. Sums(values) = CHOOSE k : P(k)
  BY DEF Sums
<1>6. P(Sums(values))
  <2> HIDE DEF P
  <2> QED
    BY <1>4, <1>5
<1> DEFINE sums == Sums(values)
<1> HIDE DEF n, sums
<1>7. \A i \in 0..n : sums[i] = IF i = 0 THEN 0 ELSE sums[i - 1] + values[i]
  <2>1. sums = [i \in 0..n |-> IF i = 0 THEN 0 ELSE sums[i - 1] + values[i]]
    BY <1>6 DEF sums
  <2> QED
    BY <2>1
<1>8. sums[0] = 0
  BY <1>1, <1>7
<1>9. \A i \in 1..n : sums[i] = sums[i - 1] + values[i]
  BY <1>1, <1>7
<1>10. \A i \in 0..n : sums[i] \in Int
  <2> DEFINE bad == {i \in 0..n : sums[i] \notin Int}
  <2>1. CASE bad # {}
    <3> bad \in SUBSET Nat
      BY <1>1
    <3>1. PICK m \in bad : \A k \in bad : m <= k
      BY <2>1, LeastNatural
    <3>2. m # 0 /\ m \in 1..n /\ m - 1 \in 0..n /\ ~(m <= m - 1)
      BY <1>1, <1>8, <3>1
    <3>3. sums[m - 1] \in Int /\ values[m] \in Int
      BY <1>2, <3>1, <3>2
    <3> QED
      BY <1>9, <3>1, <3>2, <3>3
  <2> QED
    BY <2>1
<1> QED
  BY <1>1, <1>8, <1>9, <1>10 DEF n, sums

LEMMA FunctionIsList ==
  ASSUME NEW n \in Nat, NEW T, NEW g \in [1..n -> T]
  PROVE  g \in Seq(T) /\ Len(g) = n
OBVIOUS

LEMMA NetFacts ==
  ASSUME NEW txs \in Seq(Tx), NEW s \in Slot
  PROVE  /\ Len(txs) \in Nat
         /\ \A i \in 0..Len(txs) : NetOf(txs, s)[i] \in Int
         /\ NetOf(txs, s)[0] = 0
         /\ \A i \in 1..Len(txs) :
              NetOf(txs, s)[i] = NetOf(txs, s)[i - 1] + Gain(txs[i], s)
<1> DEFINE gains == [i \in DOMAIN txs |-> Gain(txs[i], s)]
<1>1. Len(txs) \in Nat /\ DOMAIN txs = 1..Len(txs)
  BY LenProperties
<1>2. \A i \in DOMAIN txs : Gain(txs[i], s) \in Int
  BY <1>1, ElementOfSeq, GainType
<1>3. gains \in [1..Len(txs) -> Int] /\ \A i \in 1..Len(txs) : gains[i] = Gain(txs[i], s)
  BY <1>1, <1>2
<1>4. NetOf(txs, s) = Sums(gains)
  BY DEF NetOf
<1> HIDE DEF gains
<1>5. gains \in Seq(Int) /\ Len(gains) = Len(txs)
  BY <1>1, <1>3, FunctionIsList
<1> QED
  BY <1>1, <1>3, <1>4, <1>5, SumsFacts

LEMMA NetOfConcat ==
  ASSUME NEW a \in Seq(Tx), NEW b \in Seq(Tx), NEW s \in Slot
  PROVE  /\ \A i \in 0..Len(a) : NetOf(a \o b, s)[i] = NetOf(a, s)[i]
         /\ \A j \in 0..Len(b) : NetOf(a \o b, s)[Len(a) + j] =
                                   NetOf(a, s)[Len(a)] + NetOf(b, s)[j]
<1> DEFINE c == a \o b
           na == Len(a)
           nb == Len(b)
           A == NetOf(a, s)
           B == NetOf(b, s)
           C == NetOf(c, s)
<1>1. /\ c \in Seq(Tx) /\ Len(c) = na + nb
      /\ \A i \in 1..(na + nb) : c[i] = IF i <= na THEN a[i] ELSE b[i - na]
  BY ConcatProperties
<1> HIDE DEF c
<1>2. /\ na \in Nat /\ (\A i \in 0..na : A[i] \in Int) /\ A[0] = 0
      /\ \A i \in 1..na : A[i] = A[i - 1] + Gain(a[i], s)
  BY NetFacts
<1>3. /\ nb \in Nat /\ (\A i \in 0..nb : B[i] \in Int) /\ B[0] = 0
      /\ \A i \in 1..nb : B[i] = B[i - 1] + Gain(b[i], s)
  BY NetFacts
<1>4. /\ (\A i \in 0..(na + nb) : C[i] \in Int) /\ C[0] = 0
      /\ \A i \in 1..(na + nb) : C[i] = C[i - 1] + Gain(c[i], s)
  BY <1>1, NetFacts
<1>5. \A i \in 1..na : Gain(a[i], s) \in Int
  BY ElementOfSeq, GainType
<1>6. \A i \in 1..nb : Gain(b[i], s) \in Int
  BY ElementOfSeq, GainType
<1> HIDE DEF na, nb, A, B, C
<1>7. \A i \in 0..na : C[i] = A[i]
  <2>1. \A i \in 0..na : C[i] \in Int /\ A[i] \in Int
    BY <1>2, <1>3, <1>4
  <2>2. ASSUME NEW i \in 1..na
        PROVE  C[i] - C[i - 1] = A[i] - A[i - 1]
    <3>1. i \in 1..(na + nb) /\ i - 1 \in 0..(na + nb) /\ i <= na /\ i - 1 \in 0..na
      BY <1>2, <1>3
    <3>2. C[i] = C[i - 1] + Gain(a[i], s)
      BY <1>1, <1>4, <3>1
    <3>3. C[i - 1] \in Int /\ A[i - 1] \in Int /\ Gain(a[i], s) \in Int
      BY <1>2, <1>4, <1>5, <3>1
    <3>4. A[i] = A[i - 1] + Gain(a[i], s)
      BY <1>2
    <3> QED
      BY ONLY <3>2, <3>3, <3>4
  <2>3. C[0] = A[0]
    BY <1>2, <1>4
  <2> QED
    <3>1. na \in Nat
      BY <1>2
    <3>2. \A i \in 1..na : C[i] - C[i - 1] = A[i] - A[i - 1]
      BY <2>2
    <3> QED
      BY ONLY <2>1, <2>3, <3>1, <3>2, SameSums, ZenonT(60)
<1>8. \A j \in 0..nb : C[na + j] = A[na] + B[j]
  <2> DEFINE u == [j \in 0..nb |-> C[na + j]]
             v == [j \in 0..nb |-> A[na] + B[j]]
  <2>1. na \in 0..na /\ na \in 0..(na + nb) /\ A[na] \in Int
    BY <1>2, <1>3
  <2>2. ASSUME NEW j \in 0..nb
        PROVE  u[j] \in Int /\ v[j] \in Int
    <3>1. na + j \in 0..(na + nb)
      BY <1>2, <1>3
    <3> QED
      BY <1>3, <1>4, <2>1, <3>1
  <2>3. u[0] = v[0]
    <3>1. 0 \in 0..nb /\ na + 0 = na /\ A[na] + 0 = A[na]
      BY <1>2, <1>3, <2>1
    <3> QED
      BY <1>3, <1>7, <2>1, <3>1
  <2>4. ASSUME NEW j \in 1..nb
        PROVE  u[j] - u[j - 1] = v[j] - v[j - 1]
    <3>1. /\ na + j \in 1..(na + nb) /\ ~(na + j <= na) /\ (na + j) - na = j
          /\ (na + j) - 1 = na + (j - 1) /\ j \in 0..nb /\ j - 1 \in 0..nb
      BY <1>2, <1>3
    <3>2. C[na + j] = C[na + (j - 1)] + Gain(b[j], s)
      BY <1>1, <1>4, <3>1
    <3>3. u[j] = C[na + j] /\ u[j - 1] = C[na + (j - 1)] /\ v[j] = A[na] + B[j]
          /\ v[j - 1] = A[na] + B[j - 1]
      BY <3>1
    <3>4. C[na + (j - 1)] \in Int /\ B[j - 1] \in Int /\ Gain(b[j], s) \in Int
          /\ B[j] = B[j - 1] + Gain(b[j], s)
      BY <1>3, <1>6, <2>2, <3>1, <3>3
    <3> HIDE DEF u, v
    <3> QED
      BY ONLY <2>1, <3>2, <3>3, <3>4, SMTT(30)
  <2>5. \A j \in 0..nb : u[j] = v[j]
    <3> HIDE DEF u, v
    <3>1. nb \in Nat
      BY <1>3
    <3>2. /\ \A j \in 0..nb : u[j] \in Int /\ v[j] \in Int
          /\ \A j \in 1..nb : u[j] - u[j - 1] = v[j] - v[j - 1]
      BY <2>2, <2>4
    <3> QED
      BY ONLY <2>3, <3>1, <3>2, SameSums, ZenonT(60)
  <2> QED
    BY <2>5
<1> QED
  BY <1>7, <1>8 DEF c, na, nb, A, B, C

(* One more transaction.                                                   *)
LEMMA NetOfAppend ==
  ASSUME NEW a \in Seq(Tx), NEW tx \in Tx, NEW s \in Slot
  PROVE  /\ \A i \in 0..Len(a) : NetOf(Append(a, tx), s)[i] = NetOf(a, s)[i]
         /\ NetOf(Append(a, tx), s)[Len(a) + 1] = NetOf(a, s)[Len(a)] + Gain(tx, s)
<1>1. <<tx>> \in Seq(Tx) /\ Len(<<tx>>) = 1 /\ <<tx>>[1] = tx
  OBVIOUS
<1>2. Append(a, tx) = a \o <<tx>>
  BY AppendIsConcat
<1>3. NetOf(<<tx>>, s)[0] = 0 /\ NetOf(<<tx>>, s)[1] = NetOf(<<tx>>, s)[0] + Gain(tx, s)
  <2>1. 1 \in 1..1 /\ 1 - 1 = 0
    OBVIOUS
  <2> QED
    BY <1>1, <2>1, NetFacts
<1>4. Gain(tx, s) \in Int
  BY GainType
<1>5. NetOf(<<tx>>, s)[1] = Gain(tx, s)
  BY <1>3, <1>4
<1>6. NetOf(a \o <<tx>>, s)[Len(a) + 1] = NetOf(a, s)[Len(a)] + NetOf(<<tx>>, s)[1]
  <2>1. 1 \in 0..Len(<<tx>>)
    BY <1>1
  <2> QED
    BY <1>1, <2>1, NetOfConcat
<1>7. \A i \in 0..Len(a) : NetOf(a \o <<tx>>, s)[i] = NetOf(a, s)[i]
  BY <1>1, NetOfConcat
<1> QED
  BY <1>2, <1>5, <1>6, <1>7
-----------------------------------------------------------------------------
(* Types.                                                                  *)
Events == [fills : SlotMap, orders : SlotMap]

LEMMA EventsType ==
  /\ NoOutput \in Events
  /\ NoHostTxs \in [txs : Nat, fills : SlotMap]
  /\ \A ev \in TxEvents : ev \in Events /\ ev.fills \in SlotMap /\ ev.orders \in SlotMap
  /\ HostTxFills \subseteq SlotMap
<1>1. TxEvents \subseteq Events
  BY BundleAssumption DEF Events
<1> QED
  BY <1>1, EmptyMapFacts, BundleAssumption DEF Events, NoOutput, NoHostTxs

LEMMA CandidateType ==
  ASSUME output \in Events, NEW ev \in TxEvents
  PROVE  /\ Candidate(ev) \in Events
         /\ Candidate(ev).fills = Absorb(output.fills, ev.fills)
         /\ Candidate(ev).orders = Absorb(output.orders, ev.orders)
<1>1. output.fills \in SlotMap /\ output.orders \in SlotMap
  BY DEF Events
<1>2. ev.fills \in SlotMap /\ ev.orders \in SlotMap
  BY EventsType
<1>3. Absorb(output.fills, ev.fills) \in SlotMap /\ Absorb(output.orders, ev.orders) \in SlotMap
  BY <1>1, <1>2, AbsorbFacts
<1> QED
  BY <1>3 DEF Candidate, Events

LEMMA TypeParts ==
  TypeOK <=> /\ stage \in Stage
             /\ fillState \in SlotMap /\ hostFills \in SlotMap /\ context \in SlotMap
             /\ output \in Events
             /\ hostRun \in [txs : Nat, fills : SlotMap]
             /\ run \in Seq(Tx) /\ block \in Seq(Tx)
             /\ settled \in Seq(Verdict)
BY DEF TypeOK, Events

LEMMA InitBundleType == Init => TypeOK
<1> SUFFICES ASSUME Init PROVE TypeOK
  OBVIOUS
<1>1. <<>> \in Seq(Tx) /\ <<>> \in Seq(Verdict)
  OBVIOUS
<1>2. "idle" \in Stage
  BY DEF Stage
<1> QED
  BY <1>1, <1>2, EventsType, EmptyMapFacts, TypeParts DEF Init

LEMMA NextBundleType == TypeOK /\ [Next]_vars => TypeOK'
<1> SUFFICES ASSUME TypeOK, [Next]_vars PROVE TypeOK'
  OBVIOUS
<1>0. /\ stage \in Stage
      /\ fillState \in SlotMap /\ hostFills \in SlotMap /\ context \in SlotMap
      /\ output \in Events /\ output.fills \in SlotMap /\ output.orders \in SlotMap
      /\ hostRun \in [txs : Nat, fills : SlotMap]
      /\ run \in Seq(Tx) /\ block \in Seq(Tx)
      /\ settled \in Seq(Verdict)
  BY TypeParts DEF Events
<1>E. <<>> \in Seq(Tx)
  OBVIOUS
<1>1. CASE BeginBundle
  BY <1>0, <1>1, <1>E, EventsType DEF BeginBundle, blockVars, nodeVars, TypeOK, Events, Stage
<1>2. CASE Drop
  BY <1>0, <1>2, <1>E, EventsType DEF Drop, blockVars, nodeVars, TypeOK, Events, Stage
<1>3. ASSUME NEW fills \in HostTxFills, RunHostTx(fills)
      PROVE  TypeOK'
  <2>1. fills \in SlotMap /\ hostRun.fills \in SlotMap /\ hostRun.txs \in Nat
    BY <1>0, EventsType
  <2>2. Absorb(hostRun.fills, fills) \in SlotMap /\ Absorb(output.fills, fills) \in SlotMap
    BY <1>0, <2>1, AbsorbFacts
  <2>3. hostRun' = [txs |-> hostRun.txs + 1, fills |-> Absorb(hostRun.fills, fills)]
    BY <1>3 DEF RunHostTx
  <2>4. output' = [fills |-> Absorb(output.fills, fills), orders |-> output.orders]
    BY <1>0, <1>3 DEF RunHostTx, Events
  <2>5. hostRun' \in [txs : Nat, fills : SlotMap] /\ output' \in Events
    BY <1>0, <2>1, <2>2, <2>3, <2>4 DEF Events
  <2> QED
    BY <1>0, <1>3, <2>5 DEF RunHostTx, blockVars, nodeVars, TypeOK, Events
<1>4. CASE EndHostTxs
  BY <1>0, <1>4 DEF EndHostTxs, itemVars, blockVars, nodeVars, TypeOK, Events, Stage
<1>5. ASSUME NEW ev \in TxEvents, NEW marked \in BOOLEAN, RunRollupTx(ev, marked)
      PROVE  TypeOK'
  <2>1. ASSUME NEW v \in Verdict, Ran(ev, marked, v)
        PROVE  run' \in Seq(Tx)
    <3>1. [ev |-> ev, bundled |-> TRUE, marked |-> marked, verdict |-> v] \in Tx
      BY EventsType DEF Tx, Events
    <3> QED
      BY <1>0, <2>1, <3>1, AppendProperties DEF Ran
  <2>2. run' \in Seq(Tx)
    BY <1>5, <2>1 DEF RunRollupTx, Verdict
  <2>3. output' \in Events
    BY <1>0, <1>5, CandidateType DEF RunRollupTx, AfterReject
  <2> QED
    BY <1>0, <1>5, <2>2, <2>3 DEF RunRollupTx, blockVars, nodeVars, TypeOK, Events
<1>6. CASE EndBundle
  BY <1>0, <1>6 DEF EndBundle, itemVars, blockVars, nodeVars, TypeOK, Events, Stage
<1>7. ASSUME NEW ev \in TxEvents, SimulateTx(ev)
      PROVE  TypeOK'
  <2>1. [ev |-> ev, bundled |-> FALSE, marked |-> FALSE, verdict |-> "taken"] \in Tx
    BY EventsType DEF Tx, Events, Verdict
  <2>2. run' \in Seq(Tx)
    BY <1>7, <2>1 DEF SimulateTx
  <2> QED
    BY <1>0, <1>7, <2>2, EventsType
       DEF SimulateTx, blockVars, nodeVars, TypeOK, Events, Stage
<1>8. CASE Accept
  <2>1. PICK r \in CheckedRemove(fillState, output.fills, output.orders) :
             /\ fillState' = r.ctx
             /\ stage' = IF r.ok THEN "idle" ELSE "panicked"
    BY <1>8 DEF Accept
  <2>2. r.ctx \in SlotMap
    BY <1>0, CheckedRemoveType
  <2>3. block' \in Seq(Tx)
    BY <1>0, <1>8, ConcatProperties DEF Accept
  <2>4. hostFills' \in SlotMap
    BY <1>0, <1>8, AbsorbFacts DEF Accept
  <2> QED
    BY <1>0, <1>8, <1>E, <2>1, <2>2, <2>3, <2>4, EventsType
       DEF Accept, nodeVars, TypeOK, Events, Stage
<1>9. CASE Submit
  BY <1>0, <1>9 DEF Submit, itemVars, blockVars, TypeOK, Events, Stage
<1>10. CASE Settle
  <2> DEFINE tx == block[Len(settled) + 1]
  <2>1. Len(settled) + 1 \in 1..Len(block)
    BY <1>0, <1>10, LenProperties DEF Settle
  <2>2. tx \in Tx
    BY <1>0, <2>1, ElementOfSeq
  <2>3. tx.ev.fills \in SlotMap /\ tx.ev.orders \in SlotMap
    BY <2>2 DEF Tx
  <2> HIDE DEF tx
  <2>4. settled' \in Seq(Verdict)
    <3>1. {"failed", "taken", "dropped"} \subseteq Verdict
      BY DEF Verdict
    <3>2. PICK v \in Verdict : settled' = Append(settled, v)
      BY <1>10, <3>1 DEF Settle
    <3> QED
      BY <1>0, <3>2, AppendProperties
  <2>5. context' \in SlotMap
    <3>1. CASE tx.verdict = "failed"
      BY <1>0, <1>10, <3>1 DEF Settle, tx
    <3>2. CASE tx.verdict # "failed"
      <4>1. PICK r \in CheckedRemove(context, tx.ev.fills, tx.ev.orders) : context' = r.ctx
        BY <1>10, <3>2 DEF Settle, tx
      <4> QED
        BY <1>0, <2>3, <4>1, CheckedRemoveType
    <3> QED
      BY <3>1, <3>2
  <2> QED
    BY <1>0, <1>10, <2>4, <2>5 DEF Settle, itemVars, blockVars, TypeOK, Events
<1>11. CASE UNCHANGED vars
  BY <1>11 DEF vars, TypeOK
<1> QED
  BY <1>1, <1>2, <1>3, <1>4, <1>5, <1>6, <1>7, <1>8, <1>9, <1>10, <1>11 DEF Next

(* The aggregates, lists and verdicts keep their types, whatever runs.     *)
THEOREM BundleTypeCorrect == Spec => []TypeOK
BY InitBundleType, NextBundleType, PTL DEF Spec
-----------------------------------------------------------------------------
(* The inductive invariant behind CheckedDuringSimulation: no list is      *)
(* longer than its bound, orders are positive, what is simulated passed    *)
(* the check against the fill state there is, and nothing is settled       *)
(* before the block is submitted.                                          *)
Positive(orders) == \A s \in DOMAIN orders : orders[s] > 0
PlainTx == {tx \in Tx : tx.ev \in TxEvents}

Shape ==
  /\ stage \in {"idle", "host"} => run = <<>>
  /\ stage = "simulated" =>
       run # <<>> /\ CheckRuTxEvents(fillState, output.fills, output.orders)
  /\ stage \in {"host", "rollup", "simulated"} => Len(block) < MaxBlockTxs
  /\ hostRun.txs <= MaxHostTxs
  /\ Len(block) + Len(run) <= MaxBlockTxs + MaxTxs
  /\ stage # "settling" => settled = <<>>
  /\ Len(settled) <= Len(block)
  /\ Positive(output.orders)
  /\ run \in Seq(PlainTx) /\ block \in Seq(PlainTx)

ShapeInv == TypeOK /\ Shape /\ CheckedDuringSimulation

LEMMA AbsorbPositive ==
  ASSUME NEW a \in SlotMap, NEW b \in SlotMap, Positive(a), Positive(b)
  PROVE  Positive(Absorb(a, b))
<1> SUFFICES ASSUME NEW s \in DOMAIN Absorb(a, b)
             PROVE  Absorb(a, b)[s] > 0
  BY DEF Positive
<1>1. s \in DOMAIN a \cup DOMAIN b /\ Absorb(a, b)[s] = SatAdd(Filled(a, s), Filled(b, s))
  BY DEF Absorb
<1>2. Filled(a, s) \in Amount /\ Filled(b, s) \in Amount
  BY FilledType
<1>3. Filled(a, s) > 0 \/ Filled(b, s) > 0
  BY <1>1 DEF Positive, Filled
<1> HIDE DEF Positive
<1> QED
  BY <1>1, <1>2, <1>3, MaxAmountAssumption DEF SatAdd, Amount

LEMMA NoOutputPositive == Positive(NoOutput.orders)
BY DEF Positive, NoOutput, EmptyMap

(* Accepting what was simulated never fails.                               *)
LEMMA AcceptSucceeds ==
  ASSUME ShapeInv, Accept
  PROVE  \E r \in CheckedRemove(fillState, output.fills, output.orders) :
           /\ fillState' = r.ctx /\ stage' = "idle" /\ r.ok
           /\ \A s \in Slot : Filled(r.ctx, s) + Filled(output.orders, s)
                                = SatAdd(Filled(fillState, s), Filled(output.fills, s))
<1>1. PICK r \in CheckedRemove(fillState, output.fills, output.orders) :
           /\ fillState' = r.ctx
           /\ stage' = IF r.ok THEN "idle" ELSE "panicked"
  BY DEF Accept
<1>2. CheckRuTxEvents(fillState, output.fills, output.orders)
  BY DEF Accept, ShapeInv, Shape
<1>3. /\ fillState \in SlotMap /\ output.fills \in SlotMap /\ output.orders \in SlotMap
      /\ \A s \in DOMAIN output.orders : output.orders[s] > 0
  BY TypeParts DEF ShapeInv, Shape, Positive, Events
<1>4. /\ r.ok
      /\ \A s \in Slot : Filled(r.ctx, s) + Filled(output.orders, s)
                           = SatAdd(Filled(fillState, s), Filled(output.fills, s))
  BY <1>2, <1>3, CheckedRemoveExact
<1> QED
  BY <1>1, <1>4

LEMMA InitShape == Init => ShapeInv
<1> SUFFICES ASSUME Init PROVE Shape /\ CheckedDuringSimulation
  BY InitBundleType DEF ShapeInv
<1>1. <<>> \in Seq(PlainTx) /\ Len(<<>>) = 0
  OBVIOUS
<1>2. 0 <= MaxHostTxs /\ 0 + 0 <= MaxBlockTxs + MaxTxs
  BY BundleAssumption
<1> QED
  BY <1>1, <1>2, NoOutputPositive DEF Init, Shape, NoHostTxs, CheckedDuringSimulation

LEMMA NextShape == PositiveOrders /\ ShapeInv /\ [Next]_vars => ShapeInv'
<1> SUFFICES ASSUME PositiveOrders, ShapeInv, [Next]_vars
             PROVE  Shape' /\ CheckedDuringSimulation'
  BY NextBundleType DEF ShapeInv
<1> USE DEF CheckedDuringSimulation
<1>0. /\ stage \in Stage /\ stage # "panicked"
      /\ fillState \in SlotMap /\ hostFills \in SlotMap /\ context \in SlotMap
      /\ output \in Events /\ output.fills \in SlotMap /\ output.orders \in SlotMap
      /\ hostRun.txs \in Nat
      /\ run \in Seq(PlainTx) /\ block \in Seq(PlainTx)
      /\ Len(run) \in Nat /\ Len(block) \in Nat /\ Len(settled) \in Nat
      /\ settled \in Seq(Verdict)
      /\ MaxHostTxs \in Nat /\ MaxTxs \in Nat /\ MaxBlockTxs \in Nat
  BY TypeParts, LenProperties, BundleAssumption DEF ShapeInv, Shape, Events
<1>P. /\ stage \in {"idle", "host"} => run = <<>>
      /\ stage = "simulated" =>
           run # <<>> /\ CheckRuTxEvents(fillState, output.fills, output.orders)
      /\ stage \in {"host", "rollup", "simulated"} => Len(block) < MaxBlockTxs
      /\ hostRun.txs <= MaxHostTxs
      /\ Len(block) + Len(run) <= MaxBlockTxs + MaxTxs
      /\ stage # "settling" => settled = <<>>
      /\ Len(settled) <= Len(block)
      /\ Positive(output.orders)
  BY DEF ShapeInv, Shape
<1>E. /\ <<>> \in Seq(PlainTx) /\ Len(<<>>) = 0
      /\ NoHostTxs.txs = 0 /\ 0 <= MaxHostTxs
      /\ Len(block) + 0 <= MaxBlockTxs + MaxTxs
  BY <1>0, <1>P DEF NoHostTxs
<1>1. CASE BeginBundle
  BY <1>0, <1>1, <1>E, <1>P, NoOutputPositive DEF BeginBundle, blockVars, nodeVars, Shape
<1>2. CASE Drop
  BY <1>0, <1>2, <1>E, <1>P, NoOutputPositive DEF Drop, blockVars, nodeVars, Shape
<1>3. ASSUME NEW fills \in HostTxFills, RunHostTx(fills)
      PROVE  Shape' /\ CheckedDuringSimulation'
  <2>1. hostRun'.txs <= MaxHostTxs
    BY <1>0, <1>3 DEF RunHostTx
  <2>2. output'.orders = output.orders
    BY <1>0, <1>3 DEF RunHostTx, Events
  <2> QED
    BY <1>0, <1>3, <1>P, <2>1, <2>2 DEF RunHostTx, blockVars, nodeVars, Shape
<1>4. CASE EndHostTxs
  BY <1>0, <1>4, <1>P DEF EndHostTxs, itemVars, blockVars, nodeVars, Shape
<1>5. ASSUME NEW ev \in TxEvents, NEW marked \in BOOLEAN, RunRollupTx(ev, marked)
      PROVE  Shape' /\ CheckedDuringSimulation'
  <2>1. ASSUME NEW v \in Verdict, Ran(ev, marked, v)
        PROVE  run' \in Seq(PlainTx) /\ Len(run') = Len(run) + 1
    <3>1. [ev |-> ev, bundled |-> TRUE, marked |-> marked, verdict |-> v] \in PlainTx
      BY EventsType DEF Tx, Events, PlainTx
    <3> QED
      BY <1>0, <2>1, <3>1, AppendProperties DEF Ran
  <2>2. run' \in Seq(PlainTx) /\ Len(run') = Len(run) + 1
    BY <1>5, <2>1 DEF RunRollupTx, Verdict
  <2>3. Positive(output'.orders)
    <3>1. Positive(Candidate(ev).orders)
      <4>1. ev.orders \in SlotMap /\ Positive(ev.orders)
        BY EventsType DEF PositiveOrders, Positive
      <4> QED
        BY <1>0, <1>P, <4>1, CandidateType, AbsorbPositive
    <3> QED
      BY <1>5, <1>P, <3>1 DEF RunRollupTx, AfterReject
  <2>4. Len(block) + Len(run') <= MaxBlockTxs + MaxTxs
    <3>1. Len(run) < MaxTxs /\ Len(block) < MaxBlockTxs
      BY <1>5, <1>P DEF RunRollupTx
    <3> QED
      BY <1>0, <2>2, <3>1
  <2> QED
    BY <1>0, <1>5, <1>P, <2>2, <2>3, <2>4 DEF RunRollupTx, blockVars, nodeVars, Shape
<1>6. CASE EndBundle
  BY <1>0, <1>6, <1>P DEF EndBundle, itemVars, blockVars, nodeVars, Shape
<1>7. ASSUME NEW ev \in TxEvents, SimulateTx(ev)
      PROVE  Shape' /\ CheckedDuringSimulation'
  <2>1. [ev |-> ev, bundled |-> FALSE, marked |-> FALSE, verdict |-> "taken"] \in PlainTx
    BY EventsType DEF Tx, Events, Verdict, PlainTx
  <2>2. run' \in Seq(PlainTx) /\ Len(run') = 1 /\ run' # <<>>
    BY <1>7, <2>1 DEF SimulateTx
  <2>3. Len(block) < MaxBlockTxs /\ Len(block) + 1 <= MaxBlockTxs + MaxTxs
    BY <1>0, <1>7 DEF SimulateTx
  <2>4. Positive(ev.orders)
    BY DEF PositiveOrders, Positive
  <2> QED
    BY <1>0, <1>7, <1>E, <1>P, <2>2, <2>3, <2>4
       DEF SimulateTx, blockVars, nodeVars, Shape, TxCovered
<1>8. CASE Accept
  <2>1. stage' = "idle"
    BY <1>8, AcceptSucceeds
  <2>2. /\ run' = <<>> /\ hostRun' = NoHostTxs /\ output' = NoOutput
        /\ settled' = settled /\ settled = <<>>
        /\ block' = block \o run
    BY <1>8, <1>P DEF Accept, nodeVars
  <2>3. block' \in Seq(PlainTx) /\ Len(block') = Len(block) + Len(run)
    BY <1>0, <2>2, ConcatProperties
  <2>4. Len(block') + 0 <= MaxBlockTxs + MaxTxs /\ 0 <= Len(block')
    BY <1>0, <1>P, <2>3
  <2> QED
    BY <1>0, <1>E, <2>1, <2>2, <2>3, <2>4, NoOutputPositive DEF Shape
<1>9. CASE Submit
  BY <1>0, <1>9, <1>P DEF Submit, itemVars, blockVars, Shape
<1>10. CASE Settle
  <2>1. Len(settled') = Len(settled) + 1
    BY <1>0, <1>10, AppendProperties DEF Settle
  <2>2. Len(settled') <= Len(block)
    BY <1>0, <1>10, <2>1 DEF Settle
  <2> QED
    BY <1>0, <1>10, <1>P, <2>2 DEF Settle, itemVars, blockVars, Shape
<1>11. CASE UNCHANGED vars
  BY <1>11, <1>0, <1>P DEF vars, Shape
<1> QED
  BY <1>1, <1>2, <1>3, <1>4, <1>5, <1>6, <1>7, <1>8, <1>9, <1>10, <1>11 DEF Next

(* accept_aggregates never fails on an item that was simulated, whatever   *)
(* was dropped, reverted or accepted before it, if no order asks for zero. *)
THEOREM AcceptNeverFails ==
  ASSUME PositiveOrders
  PROVE  Spec => []CheckedDuringSimulation
<1>1. ShapeInv => CheckedDuringSimulation
  BY DEF ShapeInv
<1>2. ShapeInv /\ [Next]_vars => ShapeInv'
  BY NextShape
<1> QED
  BY InitShape, <1>1, <1>2, PTL DEF Spec
-----------------------------------------------------------------------------
(* The most that a fill, the host transactions of an item, and an item     *)
(* with one more of its transactions can put into a slot.                  *)
Most == (MaxAmount - 1) \div MaxFillers
HostMost == Most * MaxHostTxs
TxMost == HostMost + Most

(* A product of naturals is a natural. *)
LEMMA ProductIsNat == \A a, b \in Nat : a * b \in Nat
  OBVIOUS

LEMMA Scaled ==
  ASSUME NEW c \in Nat, NEW m \in Nat, NEW n \in Nat
  PROVE  /\ c * m \in Nat
         /\ c * (m + n) = c * m + c * n
         /\ m <= n => c * m <= c * n
<1>1. c * m \in Nat /\ c * n \in Nat /\ c * (m + n) = c * m + c * n
  OBVIOUS
<1>2. ASSUME m <= n
      PROVE  c * m <= c * n
  <2>1. PICK d \in Nat : n = m + d
    <3>1. n - m \in Nat /\ n = m + (n - m)
      BY <1>2
    <3> QED
      BY <3>1
  <2>2. c * n = c * m + c * d /\ c * d \in Nat
    BY <2>1
  <2> QED
    BY <1>1, <2>2
<1> QED
  BY <1>1, <1>2

LEMMA MostFacts ==
  ASSUME FillsFit
  PROVE  /\ Most \in Nat /\ HostMost \in Nat /\ TxMost \in Nat
         /\ TxMost * (MaxBlockTxs + MaxTxs) + TxMost < MaxAmount
         /\ \A fills \in HostTxFills \cup {ev.fills : ev \in TxEvents} :
              \A s \in Slot : Filled(fills, s) <= Most
<1> DEFINE h == MaxHostTxs
           k == MaxBlockTxs + MaxTxs
           top == MaxAmount - 1
           u == MaxFillers
<1>1. h \in Nat /\ k \in Nat /\ top \in Nat /\ MaxAmount = top + 1
  BY BundleAssumption, MaxAmountAssumption DEF FillsFit
<1>2. u = (h + 1) * (k + 1)
  BY BundleAssumption DEF MaxFillers
<1> HIDE DEF h, k, top
<1>3. u \in Nat /\ u > 0
  <2>1. (h + 1) * (k + 1) = h * k + h + k + 1 /\ h * k \in Nat
    BY <1>1
  <2> QED
    BY <1>1, <1>2, <2>1
<1> HIDE DEF u
<1>4. Most = top \div u
  BY DEF Most, top, u
<1>5. Most \in Nat /\ Most * u <= top /\ top < (Most + 1) * u
  BY <1>1, <1>3, <1>4
<1>6. ASSUME NEW x \in Nat, x * u <= top
      PROVE  x <= Most
  <2>1. CASE x > Most
    <3>1. Most + 1 <= x /\ Most + 1 \in Nat
      BY <1>5, <2>1
    <3>2. u * (Most + 1) <= u * x
      BY <1>3, <3>1, Scaled
    <3>3. u * x = x * u /\ u * (Most + 1) = (Most + 1) * u
      BY <1>3, <1>5
    <3>4. x * u \in Nat /\ (Most + 1) * u \in Nat
      BY <1>3, <1>5
    <3> QED
      BY <1>1, <1>5, <1>6, <3>2, <3>3, <3>4
  <2> QED
    BY <1>5, <2>1
<1>7. \A fills \in HostTxFills \cup {ev.fills : ev \in TxEvents} :
        \A s \in Slot : Filled(fills, s) <= Most
  <2> TAKE fills \in HostTxFills \cup {ev.fills : ev \in TxEvents}
  <2> TAKE s \in Slot
  <2>1. fills \in SlotMap
    BY EventsType
  <2>2. Filled(fills, s) \in Nat
    BY <2>1, FilledType DEF Amount
  <2>3. Filled(fills, s) * u < MaxAmount
    BY DEF FillsFit, u
  <2>4. Filled(fills, s) * u <= top
    <3>1. Filled(fills, s) * u \in Nat
      BY <1>3, <2>2
    <3> QED
      BY <1>1, <2>3, <3>1
  <2> QED
    BY <1>6, <2>2, <2>4
<1>8. HostMost \in Nat /\ TxMost \in Nat
  BY <1>1, <1>5 DEF HostMost, TxMost, h
<1>9. TxMost = Most * (h + 1)
  BY <1>1, <1>5 DEF HostMost, TxMost, h
<1>10. TxMost * k + TxMost = Most * u
  <2> DEFINE m == Most
  <2>1. m \in Nat
    BY <1>5
  <2> HIDE DEF m
  <2>2. (m * (h + 1)) * k + m * (h + 1) = m * ((h + 1) * (k + 1))
    BY <1>1, <2>1
  <2> QED
    BY <1>2, <1>9, <2>2 DEF m
<1>11. TxMost * k + TxMost \in Nat
  BY <1>1, <1>8
<1> QED
  BY <1>1, <1>5, <1>7, <1>8, <1>10, <1>11 DEF k
-----------------------------------------------------------------------------
(* What an item has put into a slot and taken out of it, against a fill    *)
(* state f: no sum is capped, and after none of its transactions has it    *)
(* taken out more than there was.  The same of a block.                    *)
ItemBooks(f, out, host, txs, s) ==
  /\ Filled(host.fills, s) <= Most * host.txs
  /\ Filled(out.fills, s) <= Most * host.txs + Most * Len(txs)
  /\ Filled(out.fills, s) - Filled(out.orders, s) =
       Filled(host.fills, s) + NetOf(txs, s)[Len(txs)]
  /\ \A k \in 0..Len(txs) :
       Filled(f, s) + Filled(host.fills, s) + NetOf(txs, s)[k] >= 0

BlockBooks(f, host, txs, s) ==
  /\ Filled(f, s) <= TxMost * Len(txs)
  /\ Filled(host, s) <= HostMost * Len(txs)
  /\ Filled(f, s) = Filled(host, s) + NetOf(txs, s)[Len(txs)]
  /\ \A k \in 0..Len(txs) : Filled(host, s) + NetOf(txs, s)[k] >= 0

HostRuns == [txs : Nat, fills : SlotMap]

LEMMA RoomSum ==
  ASSUME NEW m \in Nat, NEW h \in Nat, NEW lb \in Nat, NEW lr \in Nat, NEW k \in Nat,
         NEW nt \in Nat, nt <= h, lb + lr <= k
  PROVE  /\ (m * h + m) * lb + (m * nt + m * lr) + m <= (m * h + m) * k + (m * h + m)
         /\ (m * h) * lb + m * nt <= (m * h + m) * k + (m * h + m)
         /\ lr >= 1 => /\ (m * h + m) * lb + (m * nt + m * lr) <= (m * h + m) * (lb + lr)
                       /\ (m * h) * lb + m * nt <= (m * h) * (lb + lr)
<1> DEFINE a == m * h
           c == a + m
<1>1. a \in Nat /\ c \in Nat
  OBVIOUS
<1>2. m * nt \in Nat /\ m * nt <= a
  BY Scaled
<1> HIDE DEF a
<1>3. /\ c * lb \in Nat /\ c * lr \in Nat /\ a * lb \in Nat /\ a * lr \in Nat /\ m * lr \in Nat
      /\ m * lb \in Nat /\ c * k \in Nat
  BY <1>1
<1>4. c * (lb + lr) = c * lb + c * lr /\ c * (lb + lr) <= c * k
  <2>1. lb + lr \in Nat
    OBVIOUS
  <2> QED
    BY <1>1, <2>1, Scaled
<1>5. c * lr = a * lr + m * lr /\ c * lb = a * lb + m * lb /\ a * (lb + lr) = a * lb + a * lr
  BY <1>1
<1>6. lr >= 1 => a * lr >= a
  <2>1. lr >= 1 => a * 1 <= a * lr
    BY <1>1, Scaled
  <2> QED
    BY <1>1, <2>1
<1> DEFINE x1 == c * lb
           x2 == c * lr
           x3 == a * lb
           x4 == a * lr
           x5 == m * lr
           x6 == m * lb
           x7 == c * k
           x8 == m * nt
           x9 == c * (lb + lr)
           x10 == a * (lb + lr)
<1> HIDE DEF x1, x2, x3, x4, x5, x6, x7, x8, x9, x10
<1>7. /\ x1 \in Nat /\ x2 \in Nat /\ x3 \in Nat /\ x4 \in Nat /\ x5 \in Nat /\ x6 \in Nat
      /\ x7 \in Nat /\ x8 \in Nat /\ x8 <= a
      /\ x9 = x1 + x2 /\ x9 <= x7 /\ x2 = x4 + x5 /\ x1 = x3 + x6 /\ x10 = x3 + x4
      /\ lr >= 1 => x4 >= a
  BY <1>2, <1>3, <1>4, <1>5, <1>6 DEF x1, x2, x3, x4, x5, x6, x7, x8, x9, x10
<1>8. /\ x1 + (x8 + x5) + m <= x7 + (a + m)
      /\ x3 + x8 <= x7 + (a + m)
      /\ lr >= 1 => x1 + (x8 + x5) <= x9 /\ x3 + x8 <= x10
  BY <1>1, <1>7
<1> QED
  BY <1>8 DEF a, x1, x2, x3, x4, x5, x6, x7, x8, x9, x10

LEMMA ItemRoom ==
  ASSUME FillsFit, NEW f \in SlotMap, NEW hostAll \in SlotMap, NEW b \in Seq(Tx),
         NEW out \in Events, NEW host \in HostRuns, NEW txs \in Seq(Tx), NEW s \in Slot,
         BlockBooks(f, hostAll, b, s), ItemBooks(f, out, host, txs, s),
         host.txs <= MaxHostTxs, Len(b) + Len(txs) <= MaxBlockTxs + MaxTxs
  PROVE  /\ Filled(f, s) + Filled(out.fills, s) + Most < MaxAmount
         /\ Filled(hostAll, s) + Filled(host.fills, s) < MaxAmount
         /\ Len(txs) >= 1 =>
              /\ Filled(f, s) + Filled(out.fills, s) <= TxMost * (Len(b) + Len(txs))
              /\ Filled(hostAll, s) + Filled(host.fills, s) <= HostMost * (Len(b) + Len(txs))
<1> DEFINE lb == Len(b)
           lr == Len(txs)
           k == MaxBlockTxs + MaxTxs
           nt == host.txs
           vf == Filled(f, s)
           vo == Filled(out.fills, s)
           vh == Filled(hostAll, s)
           vr == Filled(host.fills, s)
<1>1. lb \in Nat /\ lr \in Nat /\ k \in Nat /\ nt \in Nat /\ MaxHostTxs \in Nat /\ Most \in Nat
  BY LenProperties, BundleAssumption, MostFacts DEF HostRuns
<1>2. vf \in Nat /\ vo \in Nat /\ vh \in Nat /\ vr \in Nat
  <2>1. out.fills \in SlotMap /\ host.fills \in SlotMap
    BY DEF Events, HostRuns
  <2> QED
    BY <2>1, FilledType DEF Amount
<1>3. vf <= TxMost * lb /\ vo <= Most * nt + Most * lr /\ vh <= HostMost * lb /\ vr <= Most * nt
  BY DEF BlockBooks, ItemBooks
<1>4. TxMost = Most * MaxHostTxs + Most /\ HostMost = Most * MaxHostTxs
  BY DEF TxMost, HostMost
<1>5. TxMost * k + TxMost < MaxAmount
  BY MostFacts
<1>6. nt <= MaxHostTxs /\ lb + lr <= k
  OBVIOUS
<1> HIDE DEF lb, lr, k, nt, vf, vo, vh, vr
<1>7. /\ TxMost * lb + (Most * nt + Most * lr) + Most <= TxMost * k + TxMost
      /\ HostMost * lb + Most * nt <= TxMost * k + TxMost
      /\ lr >= 1 => /\ TxMost * lb + (Most * nt + Most * lr) <= TxMost * (lb + lr)
                    /\ HostMost * lb + Most * nt <= HostMost * (lb + lr)
  BY <1>1, <1>4, <1>6, RoomSum
<1>8. /\ TxMost * lb \in Nat /\ Most * nt \in Nat /\ Most * lr \in Nat /\ HostMost * lb \in Nat
      /\ TxMost * k + TxMost \in Nat /\ MaxAmount \in Nat
      /\ TxMost * (lb + lr) \in Nat /\ HostMost * (lb + lr) \in Nat
  <2>1. TxMost \in Nat /\ HostMost \in Nat
    BY MostFacts
  <2> QED
    BY <1>1, <2>1, MaxAmountAssumption
<1> DEFINE x1 == TxMost * lb
           x2 == Most * nt
           x3 == Most * lr
           x4 == HostMost * lb
           x5 == TxMost * k + TxMost
           x6 == TxMost * (lb + lr)
           x7 == HostMost * (lb + lr)
           m == Most
<1> HIDE DEF x1, x2, x3, x4, x5, x6, x7, m
<1>9. /\ x1 \in Nat /\ x2 \in Nat /\ x3 \in Nat /\ x4 \in Nat /\ x5 \in Nat
      /\ x6 \in Nat /\ x7 \in Nat /\ m \in Nat /\ MaxAmount \in Nat
      /\ vf <= x1 /\ vo <= x2 + x3 /\ vh <= x4 /\ vr <= x2
      /\ x1 + (x2 + x3) + m <= x5 /\ x4 + x2 <= x5 /\ x5 < MaxAmount
      /\ lr >= 1 => x1 + (x2 + x3) <= x6 /\ x4 + x2 <= x7
  BY <1>1, <1>3, <1>5, <1>7, <1>8 DEF x1, x2, x3, x4, x5, x6, x7, m
<1>10. /\ vf + vo + m < MaxAmount /\ vh + vr < MaxAmount
       /\ lr >= 1 => vf + vo <= x6 /\ vh + vr <= x7
  BY <1>2, <1>9
<1> QED
  BY <1>10 DEF lb, lr, vf, vo, vh, vr, x6, x7, m

(* A sum that stays below U256::MAX is exact.                              *)
LEMMA AbsorbExact ==
  ASSUME NEW c \in SlotMap, NEW d \in SlotMap, NEW s \in Slot,
         Filled(c, s) + Filled(d, s) < MaxAmount
  PROVE  Filled(Absorb(c, d), s) = Filled(c, s) + Filled(d, s)
<1>1. Filled(Absorb(c, d), s) = SatAdd(Filled(c, s), Filled(d, s))
  BY AbsorbFacts
<1>2. Filled(c, s) \in Nat /\ Filled(d, s) \in Nat
  BY FilledType DEF Amount
<1> QED
  BY <1>1, <1>2, MaxAmountAssumption DEF SatAdd

(* The numbers in the books of an item.                                    *)
LEMMA ItemNumbers ==
  ASSUME FillsFit, NEW f \in SlotMap, NEW out \in Events, NEW host \in HostRuns,
         NEW txs \in Seq(Tx), NEW s \in Slot
  PROVE  /\ Filled(f, s) \in Nat /\ Filled(out.fills, s) \in Nat
         /\ Filled(out.orders, s) \in Nat /\ Filled(host.fills, s) \in Nat
         /\ host.txs \in Nat /\ Len(txs) \in Nat /\ Most \in Nat
         /\ Most * host.txs \in Nat /\ Most * Len(txs) \in Nat
         /\ NetOf(txs, s)[Len(txs)] \in Int
         /\ \A k \in 0..Len(txs) : NetOf(txs, s)[k] \in Int
<1>1. out.fills \in SlotMap /\ out.orders \in SlotMap /\ host.fills \in SlotMap /\ host.txs \in Nat
  BY DEF Events, HostRuns
<1>2. /\ Filled(f, s) \in Nat /\ Filled(out.fills, s) \in Nat
      /\ Filled(out.orders, s) \in Nat /\ Filled(host.fills, s) \in Nat
  BY <1>1, FilledType DEF Amount
<1>3. Len(txs) \in Nat /\ Len(txs) \in 0..Len(txs) /\ Most \in Nat
  BY LenProperties, MostFacts
<1>4. \A k \in 0..Len(txs) : NetOf(txs, s)[k] \in Int
  BY NetFacts
<1> QED
  BY <1>1, <1>2, <1>3, <1>4, Scaled

(* The books of an item that has run nothing.                              *)
LEMMA FreshItem ==
  ASSUME FillsFit, NEW f \in SlotMap, NEW s \in Slot
  PROVE  ItemBooks(f, NoOutput, NoHostTxs, <<>>, s)
<1>1. <<>> \in Seq(Tx) /\ Len(<<>>) = 0
  OBVIOUS
<1>2. NetOf(<<>>, s)[0] = 0
  BY <1>1, NetFacts
<1>3. /\ Filled(NoOutput.fills, s) = 0 /\ Filled(NoOutput.orders, s) = 0
      /\ Filled(NoHostTxs.fills, s) = 0 /\ NoHostTxs.txs = 0
  BY EmptyMapFacts DEF NoOutput, NoHostTxs
<1>4. Most * 0 = 0 /\ Filled(f, s) \in Nat
  BY MostFacts, FilledType DEF Amount
<1>5. \A k \in 0..0 : k = 0
  OBVIOUS
<1> QED
  BY <1>1, <1>2, <1>3, <1>4, <1>5 DEF ItemBooks

(* A host transaction of a bundle, before its rollup transactions.         *)
LEMMA HostTxBooks ==
  ASSUME FillsFit, NEW f \in SlotMap, NEW out \in Events, NEW host \in HostRuns,
         NEW s \in Slot, NEW fills \in HostTxFills,
         ItemBooks(f, out, host, <<>>, s),
         Filled(f, s) + Filled(out.fills, s) + Most < MaxAmount
  PROVE  ItemBooks(f, [fills |-> Absorb(out.fills, fills), orders |-> out.orders],
                   [txs |-> host.txs + 1, fills |-> Absorb(host.fills, fills)], <<>>, s)
<1> DEFINE out2 == [fills |-> Absorb(out.fills, fills), orders |-> out.orders]
           host2 == [txs |-> host.txs + 1, fills |-> Absorb(host.fills, fills)]
           vf == Filled(f, s)
           vo == Filled(out.fills, s)
           vd == Filled(out.orders, s)
           vh == Filled(host.fills, s)
           vn == Filled(fills, s)
           m == Most
           x == Most * host.txs
           z == Most * 0
           net == NetOf(<<>>, s)[0]
<1>1. <<>> \in Seq(Tx) /\ Len(<<>>) = 0
  OBVIOUS
<1>2. vf \in Nat /\ vo \in Nat /\ vd \in Nat /\ vh \in Nat /\ m \in Nat /\ x \in Nat
  BY <1>1, ItemNumbers
<1>3. vn \in Nat /\ vn <= m /\ fills \in SlotMap
  BY MostFacts, EventsType, FilledType DEF Amount
<1>4. net = 0
  BY <1>1, NetFacts
<1>5. z = 0 /\ Most * (host.txs + 1) = x + m
  BY <1>2 DEF HostRuns
<1>6. out.fills \in SlotMap /\ host.fills \in SlotMap
  BY DEF Events, HostRuns
<1>7. out2.fills = Absorb(out.fills, fills) /\ host2.fills = Absorb(host.fills, fills)
      /\ out2.orders = out.orders /\ host2.txs = host.txs + 1
  OBVIOUS
<1>8. vh <= x /\ vo <= x + z /\ vo - vd = vh + net /\ vf + vo + m < MaxAmount
  BY <1>1 DEF ItemBooks
<1> HIDE DEF out2, host2, vf, vo, vd, vh, vn, m, x, z, net
<1>9. vo + vn < MaxAmount /\ vh + vn < MaxAmount
  BY <1>2, <1>3, <1>4, <1>8, MaxAmountAssumption
<1>10. Filled(out2.fills, s) = vo + vn /\ Filled(host2.fills, s) = vh + vn
       /\ Filled(out2.orders, s) = vd
  BY <1>3, <1>6, <1>7, <1>9, AbsorbExact DEF vo, vh, vn, vd
<1>11. /\ vh + vn <= x + m /\ vo + vn <= (x + m) + z
       /\ (vo + vn) - vd = (vh + vn) + net
       /\ vf + (vh + vn) + net >= 0
  BY <1>2, <1>3, <1>4, <1>5, <1>8
<1>12. \A k \in 0..0 : k = 0
  OBVIOUS
<1>13. ItemBooks(f, out2, host2, <<>>, s)
  BY <1>1, <1>5, <1>7, <1>10, <1>11, <1>12 DEF ItemBooks, vf, z, net
<1> QED
  BY <1>13 DEF out2, host2

(* A rollup transaction whose orders are covered.                          *)
LEMMA TakenBooks ==
  ASSUME FillsFit, NEW f \in SlotMap, NEW out \in Events, NEW host \in HostRuns,
         NEW txs \in Seq(Tx), NEW s \in Slot, NEW tx \in PlainTx, tx.verdict = "taken",
         NEW cand \in Events,
         cand.fills = Absorb(out.fills, tx.ev.fills),
         cand.orders = Absorb(out.orders, tx.ev.orders),
         CheckRuTxEvents(f, cand.fills, cand.orders),
         ItemBooks(f, out, host, txs, s),
         Filled(f, s) + Filled(out.fills, s) + Most < MaxAmount
  PROVE  ItemBooks(f, cand, host, Append(txs, tx), s)
<1> DEFINE n == Len(txs)
           all == Append(txs, tx)
           vf == Filled(f, s)
           vo == Filled(out.fills, s)
           vd == Filled(out.orders, s)
           vh == Filled(host.fills, s)
           en == Filled(tx.ev.fills, s)
           ed == Filled(tx.ev.orders, s)
           m == Most
           x == Most * host.txs
           y == Most * n
           net == NetOf(txs, s)[n]
           new == NetOf(all, s)[n + 1]
<1>1. /\ vf \in Nat /\ vo \in Nat /\ vd \in Nat /\ vh \in Nat /\ m \in Nat /\ x \in Nat
      /\ y \in Nat /\ net \in Int /\ n \in Nat
  BY ItemNumbers
<1>2. tx \in Tx /\ tx.ev \in TxEvents /\ tx.ev.fills \in SlotMap /\ tx.ev.orders \in SlotMap
  BY EventsType DEF PlainTx
<1>3. en \in Nat /\ en <= m /\ ed \in Nat
  <2>1. tx.ev.fills \in HostTxFills \cup {ev.fills : ev \in TxEvents}
    BY <1>2
  <2>2. Filled(tx.ev.fills, s) <= Most
    BY <2>1, MostFacts
  <2> QED
    BY <1>2, <2>2, FilledType DEF Amount
<1>4. new = net + (en - ed) /\ \A k \in 0..n : NetOf(all, s)[k] = NetOf(txs, s)[k]
  BY <1>2, NetOfAppend DEF Gain
<1>5. Len(all) = n + 1 /\ Most * (n + 1) = y + m
  <2>1. Len(all) = n + 1
    BY <1>2, AppendProperties
  <2>2. Most * (n + 1) = y + m
    BY <1>1
  <2> QED
    BY <2>1, <2>2
<1>6. vh <= x /\ vo <= x + y /\ vo - vd = vh + net /\ vf + vo + m < MaxAmount
      /\ \A k \in 0..n : vf + vh + NetOf(txs, s)[k] >= 0
  BY DEF ItemBooks
<1>7. out.fills \in SlotMap /\ out.orders \in SlotMap /\ cand.orders \in SlotMap
  BY DEF Events
<1> HIDE DEF n, all, vf, vo, vd, vh, en, ed, m, x, y, net, new
<1>8. vo + en < MaxAmount /\ vf + (vo + en) < MaxAmount
  BY <1>1, <1>3, <1>6, MaxAmountAssumption
<1>9. Filled(cand.fills, s) = vo + en
  BY <1>2, <1>7, <1>8, AbsorbExact DEF vo, en
<1>10. Filled(cand.orders, s) <= vf + (vo + en)
  <2>1. SatAdd(vf, vo + en) = vf + (vo + en)
    BY <1>1, <1>3, <1>8, MaxAmountAssumption DEF SatAdd
  <2>2. CASE s \in DOMAIN cand.orders
    <3>1. cand.orders[s] <= SatAdd(vf, vo + en)
      BY <1>9, <2>2 DEF CheckRuTxEvents, vf
    <3> QED
      BY <2>1, <2>2, <3>1 DEF Filled
  <2>3. CASE s \notin DOMAIN cand.orders
    <3>1. Filled(cand.orders, s) = 0
      BY <2>3 DEF Filled
    <3> QED
      BY <1>1, <1>3, <3>1
  <2> QED
    BY <2>2, <2>3
<1>11. Filled(cand.orders, s) = vd + ed
  <2>1. Filled(cand.orders, s) = SatAdd(vd, ed)
    <3>1. \A a, b \in SlotMap : Filled(Absorb(a, b), s) = SatAdd(Filled(a, s), Filled(b, s))
      BY AbsorbFacts
    <3>2. Filled(Absorb(out.orders, tx.ev.orders), s) =
            SatAdd(Filled(out.orders, s), Filled(tx.ev.orders, s))
      BY <1>2, <1>7, <3>1
    <3> QED
      BY <3>2 DEF vd, ed
  <2> QED
    BY <1>1, <1>3, <1>8, <1>10, <2>1, MaxAmountAssumption DEF SatAdd
<1>12. /\ vh <= x /\ vo + en <= x + (y + m)
       /\ (vo + en) - (vd + ed) = vh + new
       /\ vf + vh + new >= 0
  BY <1>1, <1>3, <1>4, <1>6, <1>10, <1>11
<1>13. ASSUME NEW k \in 0..(n + 1)
       PROVE  vf + vh + NetOf(all, s)[k] >= 0
  <2>1. k \in 0..n \/ k = n + 1
    BY <1>1
  <2>2. CASE k \in 0..n
    BY <1>4, <1>6, <2>2
  <2>3. CASE k = n + 1
    BY <1>12, <2>3 DEF new
  <2> QED
    BY <2>1, <2>2, <2>3
<1> QED
  BY <1>5, <1>9, <1>11, <1>12, <1>13 DEF ItemBooks, all, vf, vh, x, new

(* A rollup transaction that was dropped or failed.                        *)
LEMMA IdleTxBooks ==
  ASSUME FillsFit, NEW f \in SlotMap, NEW out \in Events, NEW host \in HostRuns,
         NEW txs \in Seq(Tx), NEW s \in Slot, NEW tx \in Tx, tx.verdict # "taken",
         ItemBooks(f, out, host, txs, s)
  PROVE  ItemBooks(f, out, host, Append(txs, tx), s)
<1> DEFINE n == Len(txs)
           all == Append(txs, tx)
           vf == Filled(f, s)
           vo == Filled(out.fills, s)
           vd == Filled(out.orders, s)
           vh == Filled(host.fills, s)
           m == Most
           x == Most * host.txs
           y == Most * n
           net == NetOf(txs, s)[n]
           new == NetOf(all, s)[n + 1]
<1>1. /\ vf \in Nat /\ vo \in Nat /\ vd \in Nat /\ vh \in Nat /\ m \in Nat /\ x \in Nat
      /\ y \in Nat /\ net \in Int /\ n \in Nat
  BY ItemNumbers
<1>2. Gain(tx, s) = 0
  BY DEF Gain
<1>3. new = net /\ \A k \in 0..n : NetOf(all, s)[k] = NetOf(txs, s)[k]
  BY <1>1, <1>2, NetOfAppend
<1>4. Len(all) = n + 1 /\ Most * (n + 1) = y + m
  <2>1. Len(all) = n + 1
    BY AppendProperties
  <2>2. Most * (n + 1) = y + m
    BY <1>1
  <2> QED
    BY <2>1, <2>2
<1>5. vh <= x /\ vo <= x + y /\ vo - vd = vh + net
      /\ \A k \in 0..n : vf + vh + NetOf(txs, s)[k] >= 0
  BY DEF ItemBooks
<1> HIDE DEF n, all, vf, vo, vd, vh, m, x, y, net, new
<1>6. n \in 0..n /\ vo <= x + (y + m)
  BY <1>1, <1>5
<1>7. vf + vh + net >= 0
  BY <1>5, <1>6 DEF net
<1>8. ASSUME NEW k \in 0..(n + 1)
      PROVE  vf + vh + NetOf(all, s)[k] >= 0
  <2>1. k \in 0..n \/ k = n + 1
    BY <1>1
  <2>2. CASE k \in 0..n
    BY <1>3, <1>5, <2>2
  <2>3. CASE k = n + 1
    BY <1>3, <1>7, <2>3 DEF new
  <2> QED
    BY <2>1, <2>2, <2>3
<1> QED
  BY <1>3, <1>4, <1>5, <1>6, <1>8 DEF ItemBooks, all, vf, vo, vd, vh, x, new

(* An accepted item.                                                       *)
LEMMA AcceptBooks ==
  ASSUME FillsFit, NEW f \in SlotMap, NEW hostAll \in SlotMap, NEW b \in Seq(Tx),
         NEW out \in Events, NEW host \in HostRuns, NEW txs \in Seq(Tx), NEW s \in Slot,
         BlockBooks(f, hostAll, b, s), ItemBooks(f, out, host, txs, s),
         host.txs <= MaxHostTxs, Len(b) + Len(txs) <= MaxBlockTxs + MaxTxs,
         Len(txs) >= 1, NEW f2 \in SlotMap,
         Filled(f2, s) + Filled(out.orders, s) = SatAdd(Filled(f, s), Filled(out.fills, s))
  PROVE  BlockBooks(f2, Absorb(hostAll, host.fills), b \o txs, s)
<1> DEFINE n == Len(b)
           r == Len(txs)
           all == b \o txs
           vf == Filled(f, s)
           v2 == Filled(f2, s)
           va == Filled(hostAll, s)
           vo == Filled(out.fills, s)
           vd == Filled(out.orders, s)
           vh == Filled(host.fills, s)
           host2 == Absorb(hostAll, host.fills)
           x == TxMost * (n + r)
           y == HostMost * (n + r)
           netB == NetOf(b, s)[n]
           netR == NetOf(txs, s)[r]
<1>1. /\ vf \in Nat /\ vo \in Nat /\ vd \in Nat /\ vh \in Nat /\ va \in Nat /\ v2 \in Nat
      /\ netR \in Int /\ r \in Nat /\ \A k \in 0..r : NetOf(txs, s)[k] \in Int
  <2>1. va \in Nat /\ v2 \in Nat
    BY FilledType DEF Amount
  <2> QED
    BY <2>1, ItemNumbers
<1>2. n \in Nat /\ netB \in Int /\ \A k \in 0..n : NetOf(b, s)[k] \in Int
  <2>1. n \in Nat /\ n \in 0..n
    BY LenProperties
  <2> QED
    BY <2>1, NetFacts
<1>3. /\ \A k \in 0..n : NetOf(all, s)[k] = NetOf(b, s)[k]
      /\ \A j \in 0..r : NetOf(all, s)[n + j] = netB + NetOf(txs, s)[j]
  BY NetOfConcat
<1>4. Len(all) = n + r
  BY ConcatProperties
<1>5. Most \in Nat /\ vf + vo + Most < MaxAmount /\ va + vh < MaxAmount
      /\ vf + vo <= x /\ va + vh <= y
  <2>1. Most \in Nat
    BY MostFacts
  <2> QED
    BY <2>1, ItemRoom
<1>6. vf = va + netB /\ \A k \in 0..n : va + NetOf(b, s)[k] >= 0
  BY DEF BlockBooks
<1>7. vo - vd = vh + netR /\ \A j \in 0..r : vf + vh + NetOf(txs, s)[j] >= 0
  BY DEF ItemBooks
<1>8. v2 + vd = SatAdd(vf, vo)
  OBVIOUS
<1>9. Filled(host2, s) = va + vh
  <2>1. host.fills \in SlotMap
    BY DEF HostRuns
  <2>2. Filled(hostAll, s) + Filled(host.fills, s) < MaxAmount
    BY <1>5
  <2> HIDE DEF va, vh
  <2> QED
    BY <2>1, <2>2, AbsorbExact DEF va, vh
<1>10. x \in Nat
  <2> DEFINE m == TxMost
  <2> HIDE DEF n, r
  <2>1. m \in Nat
    BY MostFacts
  <2>2. n + r \in Nat
    BY ONLY <1>1, <1>2
  <2> HIDE DEF m
  <2>3. m * (n + r) \in Nat
    BY ONLY <2>1, <2>2, ProductIsNat
  <2> QED
    BY ONLY <2>3 DEF m, x
<1> HIDE DEF n, r, all, vf, v2, va, vo, vd, vh, host2, x, y, netB, netR
<1>11. v2 = vf + vo - vd
  <2>1. ~(vf + vo > MaxAmount)
    BY <1>1, <1>5, MaxAmountAssumption
  <2>2. v2 + vd = vf + vo
    BY <1>8, <2>1 DEF SatAdd
  <2> QED
    BY ONLY <1>1, <2>2
<1>12. v2 <= x /\ v2 = (va + vh) + (netB + netR)
  BY <1>1, <1>2, <1>5, <1>6, <1>7, <1>10, <1>11
<1>13. r \in 0..r /\ NetOf(all, s)[n + r] = netB + netR
  <2>1. r \in 0..r
    BY <1>1
  <2> QED
    BY <1>3, <2>1 DEF netR
<1>14. ASSUME NEW k \in 0..(n + r)
       PROVE  (va + vh) + NetOf(all, s)[k] >= 0
  <2>1. k \in 0..n \/ (k - n \in 0..r /\ n + (k - n) = k)
    BY <1>1, <1>2
  <2>2. CASE k \in 0..n
    <3>1. NetOf(all, s)[k] = NetOf(b, s)[k] /\ NetOf(b, s)[k] \in Int /\ va + NetOf(b, s)[k] >= 0
      BY <1>2, <1>3, <1>6, <2>2
    <3> QED
      BY <1>1, <3>1
  <2>3. CASE k - n \in 0..r /\ n + (k - n) = k
    <3> DEFINE j == k - n
               net == NetOf(txs, s)[j]
    <3>1. NetOf(all, s)[k] = netB + net /\ net \in Int /\ vf + vh + net >= 0
      BY <1>1, <1>3, <1>7, <2>3
    <3> HIDE DEF net
    <3> QED
      BY <1>1, <1>2, <1>6, <3>1
  <2> QED
    BY <2>1, <2>2, <2>3
<1>15. BlockBooks(f2, host2, all, s)
  BY <1>4, <1>5, <1>9, <1>12, <1>13, <1>14 DEF BlockBooks, v2, x, y
<1> QED
  BY <1>15 DEF host2, all

(* The node, after so many transactions of the block: what is in its       *)
(* context is what the block's transactions have left there.               *)
NodeBooks(c, host, txs, n, s) ==
  Filled(c, s) = Filled(host, s) + NetOf(txs, s)[n]

(* There is room in the node's context for the fills of one more.          *)
LEMMA NodeRoom ==
  ASSUME FillsFit, NEW c \in Nat, NEW lb \in Nat, NEW n \in Nat,
         c <= HostMost * lb + Most * n, n < lb, lb <= MaxBlockTxs + MaxTxs
  PROVE  /\ c + Most < MaxAmount
         /\ Most * (n + 1) = Most * n + Most
<1> DEFINE k == MaxBlockTxs + MaxTxs
           m == Most
           h == HostMost
           t == TxMost
<1>1. k \in Nat /\ m \in Nat /\ h \in Nat /\ t \in Nat /\ t * k + t < MaxAmount /\ t = h + m
  BY MostFacts, BundleAssumption DEF TxMost
<1>2. c <= h * lb + m * n /\ n + 1 <= lb /\ lb <= k
  OBVIOUS
<1> HIDE DEF k, m, h, t
<1>3. m * (n + 1) = m * n + m /\ m * n \in Nat /\ h * lb \in Nat /\ m * lb \in Nat
      /\ t * lb = h * lb + m * lb /\ t * k \in Nat
  BY <1>1
<1>4. m * (n + 1) <= m * lb
  BY <1>1, <1>2, Scaled
<1>5. t * lb <= t * k
  BY <1>1, <1>2, Scaled
<1>6. c + m < MaxAmount
  <2> DEFINE x1 == m * n
             x2 == h * lb
             x3 == m * lb
             x4 == t * lb
             x5 == t * k
             x6 == m * (n + 1)
  <2> HIDE DEF x1, x2, x3, x4, x5, x6
  <2>1. /\ x1 \in Nat /\ x2 \in Nat /\ x3 \in Nat /\ x5 \in Nat /\ x6 = x1 + m
        /\ x4 = x2 + x3 /\ x6 <= x3 /\ x4 <= x5 /\ x5 + t < MaxAmount /\ c <= x2 + x1
    BY <1>1, <1>2, <1>3, <1>4, <1>5 DEF x1, x2, x3, x4, x5, x6
  <2> QED
    BY <1>1, <2>1, MaxAmountAssumption
<1> QED
  BY <1>3, <1>6 DEF m

(* A transaction that the builder took, in the node.                       *)
LEMMA SettleBooks ==
  ASSUME FillsFit, PositiveOrders, NEW f \in SlotMap, NEW host \in SlotMap,
         NEW b \in Seq(PlainTx), b \in Seq(Tx), NEW c \in SlotMap,
         NEW n \in Nat, n < Len(b), b[n + 1].verdict = "taken",
         \A s \in Slot : /\ BlockBooks(f, host, b, s) /\ NodeBooks(c, host, b, n, s)
                         /\ Filled(c, s) + Most < MaxAmount,
         NEW r \in CheckedRemove(c, b[n + 1].ev.fills, b[n + 1].ev.orders)
  PROVE  r.ok /\ \A s \in Slot : NodeBooks(r.ctx, host, b, n + 1, s)
<1> DEFINE tx == b[n + 1]
<1>1. Len(b) \in Nat /\ n + 1 \in 1..Len(b) /\ n \in 0..Len(b) /\ n + 1 \in 0..Len(b)
      /\ (n + 1) - 1 = n
  BY LenProperties
<1>2. tx \in Tx /\ tx.ev \in TxEvents /\ tx.ev.fills \in SlotMap /\ tx.ev.orders \in SlotMap
  <2>1. tx \in PlainTx
    BY <1>1, ElementOfSeq
  <2> QED
    BY <2>1, EventsType DEF PlainTx
<1>3. \A s \in DOMAIN tx.ev.orders : tx.ev.orders[s] > 0
  BY <1>2 DEF PositiveOrders
<1>4. tx.verdict = "taken" /\ r \in CheckedRemove(c, tx.ev.fills, tx.ev.orders)
  OBVIOUS
<1>5. ASSUME NEW s \in Slot
      PROVE  /\ NetOf(b, s)[n + 1] = NetOf(b, s)[n] +
                  (Filled(tx.ev.fills, s) - Filled(tx.ev.orders, s))
             /\ Filled(host, s) + NetOf(b, s)[n + 1] >= 0
             /\ Filled(c, s) = Filled(host, s) + NetOf(b, s)[n]
             /\ NetOf(b, s)[n] \in Int
             /\ Filled(tx.ev.fills, s) <= Most
             /\ Filled(tx.ev.fills, s) \in Nat /\ Filled(tx.ev.orders, s) \in Nat
             /\ Filled(c, s) \in Nat /\ Filled(host, s) \in Nat /\ Most \in Nat
             /\ Filled(c, s) + Most < MaxAmount
  <2>1. NetOf(b, s)[n + 1] = NetOf(b, s)[(n + 1) - 1] + Gain(tx, s)
    BY <1>1, NetFacts
  <2>2. Gain(tx, s) = Filled(tx.ev.fills, s) - Filled(tx.ev.orders, s)
    BY DEF Gain
  <2>3. Filled(host, s) + NetOf(b, s)[n + 1] >= 0
    BY <1>1 DEF BlockBooks
  <2>4. Filled(c, s) = Filled(host, s) + NetOf(b, s)[n]
    BY DEF NodeBooks
  <2>5. NetOf(b, s)[n] \in Int
    BY <1>1, NetFacts
  <2>6. tx.ev.fills \in HostTxFills \cup {ev.fills : ev \in TxEvents}
    BY <1>2
  <2>7. Filled(tx.ev.fills, s) <= Most /\ Most \in Nat
    BY <2>6, MostFacts
  <2>8. /\ Filled(tx.ev.fills, s) \in Nat /\ Filled(tx.ev.orders, s) \in Nat
        /\ Filled(c, s) \in Nat /\ Filled(host, s) \in Nat
    BY <1>2, FilledType DEF Amount
  <2> HIDE DEF tx
  <2> QED
    BY <1>1, <2>1, <2>2, <2>3, <2>4, <2>5, <2>7, <2>8
<1> HIDE DEF tx
<1>6. ASSUME NEW s \in Slot
      PROVE  /\ SatAdd(Filled(c, s), Filled(tx.ev.fills, s)) =
                  Filled(c, s) + Filled(tx.ev.fills, s)
             /\ Filled(tx.ev.orders, s) <= Filled(c, s) + Filled(tx.ev.fills, s)
             /\ Filled(c, s) + Filled(tx.ev.fills, s) - Filled(tx.ev.orders, s) =
                  Filled(host, s) + NetOf(b, s)[n + 1]
  <2> DEFINE vc == Filled(c, s)
             va == Filled(host, s)
             en == Filled(tx.ev.fills, s)
             ed == Filled(tx.ev.orders, s)
             net == NetOf(b, s)[n]
             new == NetOf(b, s)[n + 1]
             m == Most
  <2>1. /\ new = net + (en - ed) /\ va + new >= 0 /\ vc = va + net /\ net \in Int /\ en <= m
        /\ en \in Nat /\ ed \in Nat /\ vc \in Nat /\ va \in Nat /\ m \in Nat
        /\ vc + m < MaxAmount
    BY <1>5
  <2> HIDE DEF vc, va, en, ed, net, new, m
  <2>2. ~(vc + en > MaxAmount) /\ vc + en - ed = va + new
    <3>1. ~(vc + en > MaxAmount)
      BY ONLY <2>1, MaxAmountAssumption
    <3>2. vc + en - ed = va + new
      BY ONLY <2>1
    <3> QED
      BY ONLY <3>1, <3>2
  <2>3. SatAdd(vc, en) = vc + en
    BY <2>2 DEF SatAdd
  <2>4. ed <= vc + en
    BY <2>1, <2>2
  <2> QED
    BY <2>2, <2>3, <2>4 DEF vc, va, en, ed, new
<1>7. CheckRuTxEvents(c, tx.ev.fills, tx.ev.orders)
  <2> SUFFICES ASSUME NEW s \in DOMAIN tx.ev.orders
               PROVE  tx.ev.orders[s] <= SatAdd(Filled(c, s), Filled(tx.ev.fills, s))
    BY DEF CheckRuTxEvents
  <2>1. s \in Slot
    BY <1>2, SlotMapMembers
  <2>2. Filled(tx.ev.orders, s) = tx.ev.orders[s]
    BY DEF Filled
  <2> QED
    BY <1>6, <2>1, <2>2
<1>8. /\ r.ok
      /\ \A s \in Slot : Filled(r.ctx, s) + Filled(tx.ev.orders, s)
                           = SatAdd(Filled(c, s), Filled(tx.ev.fills, s))
  BY <1>2, <1>3, <1>4, <1>7, CheckedRemoveExact
<1>9. r.ctx \in SlotMap
  BY <1>2, <1>4, CheckedRemoveType
<1>10. ASSUME NEW s \in Slot
       PROVE  NodeBooks(r.ctx, host, b, n + 1, s)
  <2> DEFINE v == Filled(r.ctx, s)
             vc == Filled(c, s)
             en == Filled(tx.ev.fills, s)
             ed == Filled(tx.ev.orders, s)
             new == Filled(host, s) + NetOf(b, s)[n + 1]
  <2>1. v \in Nat /\ en \in Nat /\ ed \in Nat /\ vc \in Nat
    BY <1>5, <1>9, FilledType DEF Amount
  <2>2. v + ed = vc + en /\ vc + en - ed = new
    BY <1>6, <1>8
  <2> HIDE DEF v, vc, en, ed, new
  <2>3. v = new
    BY <2>1, <2>2
  <2> QED
    BY <2>3 DEF NodeBooks, v, new
<1> QED
  BY <1>8, <1>10
-----------------------------------------------------------------------------
(* The inductive invariant behind FillStateExact and BuilderAndNodeAgree:  *)
(* the books of the block and of the item, and, while a block without      *)
(* dropped transactions is settled, those of the node.                     *)
NoneDropped == \A i \in DOMAIN block : block[i].verdict # "dropped"

NodeAgrees ==
  /\ \A s \in Slot : Filled(context, s) <= HostMost * Len(block) + Most * Len(settled)
  /\ NoneDropped =>
       /\ \A i \in DOMAIN settled : settled[i] = block[i].verdict
       /\ \A s \in Slot : NodeBooks(context, hostFills, block, Len(settled), s)

Books ==
  /\ \A s \in Slot : BlockBooks(fillState, hostFills, block, s)
  /\ \A s \in Slot : ItemBooks(fillState, output, hostRun, run, s)
  /\ stage = "settling" => NodeAgrees

BooksInv == ShapeInv /\ Books

LEMMA BooksImply == BooksInv => FillStateExact /\ BuilderAndNodeAgree
<1> SUFFICES ASSUME BooksInv PROVE FillStateExact /\ BuilderAndNodeAgree
  OBVIOUS
<1>1. FillStateExact
  BY DEF BooksInv, Books, BlockBooks, FillStateExact
<1>2. ASSUME stage = "settling", NoneDropped, Len(settled) = Len(block), NEW s \in Slot
      PROVE  Filled(context, s) = Filled(fillState, s)
  <2>1. NodeBooks(context, hostFills, block, Len(block), s)
    BY <1>2 DEF BooksInv, Books, NodeAgrees
  <2>2. Filled(fillState, s) = Filled(hostFills, s) + NetOf(block, s)[Len(block)]
    BY DEF BooksInv, Books, BlockBooks
  <2> QED
    BY <2>1, <2>2 DEF NodeBooks
<1>3. BuilderAndNodeAgree
  BY <1>2 DEF BooksInv, Books, NodeAgrees, NoneDropped, BuilderAndNodeAgree
<1> QED
  BY <1>1, <1>3

LEMMA InitBooks == FillsFit /\ Init => BooksInv
<1> SUFFICES ASSUME FillsFit, Init PROVE Books
  BY InitShape DEF BooksInv
<1>1. EmptyMap \in SlotMap
  BY EmptyMapFacts
<1>2. ASSUME NEW s \in Slot
      PROVE  BlockBooks(EmptyMap, EmptyMap, <<>>, s)
  <2>1. Filled(EmptyMap, s) = 0
    BY EmptyMapFacts
  <2>2. <<>> \in Seq(Tx) /\ Len(<<>>) = 0 /\ \A k \in 0..0 : k = 0
    OBVIOUS
  <2>3. NetOf(<<>>, s)[0] = 0
    BY <2>2, NetFacts
  <2>4. TxMost * 0 = 0 /\ HostMost * 0 = 0
    BY MostFacts
  <2> QED
    BY <2>1, <2>2, <2>3, <2>4 DEF BlockBooks
<1>3. \A s \in Slot : ItemBooks(EmptyMap, NoOutput, NoHostTxs, <<>>, s)
  BY <1>1, FreshItem
<1> QED
  BY <1>2, <1>3 DEF Init, Books

LEMMA NextBooks == PositiveOrders /\ FillsFit /\ BooksInv /\ [Next]_vars => BooksInv'
<1> SUFFICES ASSUME PositiveOrders, FillsFit, BooksInv, [Next]_vars
             PROVE  Books'
  BY NextShape DEF BooksInv
<1>0. /\ fillState \in SlotMap /\ hostFills \in SlotMap /\ context \in SlotMap
      /\ output \in Events /\ output.fills \in SlotMap /\ output.orders \in SlotMap
      /\ hostRun \in HostRuns /\ hostRun.fills \in SlotMap
      /\ run \in Seq(Tx) /\ block \in Seq(Tx) /\ block \in Seq(PlainTx)
      /\ Len(run) \in Nat /\ Len(block) \in Nat /\ Len(settled) \in Nat
      /\ settled \in Seq(Verdict)
  BY TypeParts, LenProperties DEF BooksInv, ShapeInv, Shape, Events, HostRuns
<1>S. /\ stage \in {"idle", "host"} => run = <<>>
      /\ stage = "simulated" => run # <<>>
      /\ hostRun.txs <= MaxHostTxs
      /\ Len(block) + Len(run) <= MaxBlockTxs + MaxTxs
      /\ stage # "settling" => settled = <<>>
  BY DEF BooksInv, ShapeInv, Shape
<1>P. /\ \A s \in Slot : BlockBooks(fillState, hostFills, block, s)
      /\ \A s \in Slot : ItemBooks(fillState, output, hostRun, run, s)
      /\ stage = "settling" => NodeAgrees
  BY DEF BooksInv, Books
<1>R. \A s \in Slot : Filled(fillState, s) + Filled(output.fills, s) + Most < MaxAmount
  BY <1>0, <1>S, <1>P, ItemRoom
<1>F. \A s \in Slot : ItemBooks(fillState, NoOutput, NoHostTxs, <<>>, s)
  BY <1>0, FreshItem
<1>1. CASE BeginBundle
  BY <1>1, <1>P, <1>F DEF BeginBundle, blockVars, nodeVars, Books
<1>2. CASE Drop
  BY <1>2, <1>P, <1>F DEF Drop, blockVars, nodeVars, Books
<1>3. ASSUME NEW fills \in HostTxFills, RunHostTx(fills)
      PROVE  Books'
  <2>1. run = <<>> /\ stage # "settling"
    BY <1>3, <1>S DEF RunHostTx
  <2> DEFINE out2 == [fills |-> Absorb(output.fills, fills), orders |-> output.orders]
             host2 == [txs |-> hostRun.txs + 1, fills |-> Absorb(hostRun.fills, fills)]
  <2>2. output' = out2 /\ hostRun' = host2
    BY <1>0, <1>3 DEF RunHostTx, Events
  <2>3. \A s \in Slot : ItemBooks(fillState, output, hostRun, <<>>, s)
    BY <1>P, <2>1
  <2>4. \A s \in Slot : ItemBooks(fillState, out2, host2, <<>>, s)
    BY <1>0, <1>R, <2>3, HostTxBooks
  <2> HIDE DEF out2, host2
  <2>5. /\ stage' = stage /\ run' = <<>> /\ fillState' = fillState
        /\ hostFills' = hostFills /\ block' = block
    BY <1>3, <2>1 DEF RunHostTx, blockVars
  <2> QED
    BY <1>P, <2>1, <2>2, <2>4, <2>5 DEF Books
<1>4. CASE EndHostTxs
  BY <1>4, <1>P DEF EndHostTxs, itemVars, blockVars, nodeVars, Books
<1>5. ASSUME NEW ev \in TxEvents, NEW marked \in BOOLEAN, RunRollupTx(ev, marked)
      PROVE  Books'
  <2> DEFINE tx(v) == [ev |-> ev, bundled |-> TRUE, marked |-> marked, verdict |-> v]
  <2>1. \A v \in Verdict : tx(v) \in PlainTx /\ tx(v) \in Tx /\ tx(v).verdict = v /\ tx(v).ev = ev
    BY EventsType DEF Tx, Events, PlainTx
  <2>2. {"failed", "taken", "dropped"} \subseteq Verdict
    BY DEF Verdict
  <2>3. CASE Covered(ev) /\ run' = Append(run, tx("taken")) /\ output' = Candidate(ev)
    <3> DEFINE cand == Candidate(ev)
               t == tx("taken")
    <3>1. t \in PlainTx /\ t.verdict = "taken" /\ t.ev = ev
      BY <2>1, <2>2
    <3>2. /\ cand \in Events
          /\ cand.fills = Absorb(output.fills, ev.fills)
          /\ cand.orders = Absorb(output.orders, ev.orders)
      BY <1>0, CandidateType
    <3>3. CheckRuTxEvents(fillState, cand.fills, cand.orders)
      BY <2>3 DEF Covered
    <3> HIDE DEF cand, t
    <3>4. \A s \in Slot : ItemBooks(fillState, cand, hostRun, Append(run, t), s)
      BY <1>0, <1>P, <1>R, <3>1, <3>2, <3>3, TakenBooks
    <3>5. \A s \in Slot : ItemBooks(fillState, output', hostRun, run', s)
      BY <2>3, <3>4 DEF cand, t
    <3> QED
      BY <1>5, <1>P, <3>5 DEF RunRollupTx, blockVars, nodeVars, Books
  <2>4. ASSUME NEW v \in {"dropped", "failed"}, run' = Append(run, tx(v)), output' = output
        PROVE  Books'
    <3> DEFINE t == tx(v)
    <3>1. t \in Tx /\ t.verdict # "taken"
      BY <2>1, <2>2
    <3> HIDE DEF t
    <3>2. \A s \in Slot : ItemBooks(fillState, output, hostRun, Append(run, t), s)
      BY <1>0, <1>P, <3>1, IdleTxBooks
    <3>3. \A s \in Slot : ItemBooks(fillState, output', hostRun, run', s)
      BY <2>4, <3>2 DEF t
    <3> QED
      BY <1>5, <1>P, <3>3 DEF RunRollupTx, blockVars, nodeVars, Books
  <2>5. \/ Covered(ev) /\ run' = Append(run, tx("taken")) /\ output' = Candidate(ev)
        \/ run' = Append(run, tx("dropped")) /\ output' = output
        \/ run' = Append(run, tx("failed")) /\ output' = output
    BY <1>5 DEF RunRollupTx, Ran, AfterReject
  <2> QED
    BY <2>3, <2>4, <2>5
<1>6. CASE EndBundle
  BY <1>6, <1>P DEF EndBundle, itemVars, blockVars, nodeVars, Books
<1>7. ASSUME NEW ev \in TxEvents, SimulateTx(ev)
      PROVE  Books'
  <2> DEFINE t == [ev |-> ev, bundled |-> FALSE, marked |-> FALSE, verdict |-> "taken"]
  <2>1. t \in PlainTx /\ t.verdict = "taken" /\ t.ev = ev /\ <<t>> = Append(<<>>, t)
    BY EventsType DEF Tx, Events, Verdict, PlainTx
  <2> HIDE DEF t
  <2>2. ev \in Events /\ ev.fills \in SlotMap /\ ev.orders \in SlotMap
    BY EventsType
  <2>3. ev.fills = Absorb(NoOutput.fills, t.ev.fills) /\ ev.orders = Absorb(NoOutput.orders, t.ev.orders)
    BY <2>1, <2>2, AbsorbIntoEmpty DEF NoOutput
  <2>4. CheckRuTxEvents(fillState, ev.fills, ev.orders)
    BY <1>7 DEF SimulateTx, TxCovered
  <2>5. \A s \in Slot : Filled(fillState, s) + Filled(NoOutput.fills, s) + Most < MaxAmount
    <3>1. ASSUME NEW s \in Slot
          PROVE  Filled(fillState, s) + Filled(NoOutput.fills, s) + Most < MaxAmount
      <4>1. /\ Filled(NoOutput.fills, s) = 0 /\ Filled(fillState, s) \in Nat
            /\ Filled(output.fills, s) \in Nat /\ Most \in Nat
        BY <1>0, EmptyMapFacts, FilledType, MostFacts DEF NoOutput, Amount
      <4> QED
        BY <1>R, <4>1, MaxAmountAssumption
    <3> QED
      BY <3>1
  <2>6. NoOutput \in Events /\ NoHostTxs \in HostRuns /\ <<>> \in Seq(Tx)
    BY EventsType DEF HostRuns
  <2>7. \A s \in Slot : ItemBooks(fillState, ev, NoHostTxs, <<t>>, s)
    <3>1. \A s \in Slot : ItemBooks(fillState, ev, NoHostTxs, Append(<<>>, t), s)
      BY <1>0, <1>F, <2>1, <2>2, <2>3, <2>4, <2>5, <2>6, TakenBooks
    <3> QED
      BY <2>1, <3>1
  <2>8. output' = ev /\ hostRun' = NoHostTxs /\ run' = <<t>>
    BY <1>7 DEF SimulateTx, t
  <2>9. \A s \in Slot : ItemBooks(fillState, output', hostRun', run', s)
    BY <2>7, <2>8
  <2> QED
    BY <1>7, <1>P, <2>9 DEF SimulateTx, blockVars, nodeVars, Books
<1>8. CASE Accept
  <2>1. PICK r \in CheckedRemove(fillState, output.fills, output.orders) :
          /\ fillState' = r.ctx /\ stage' = "idle" /\ r.ok
          /\ \A s \in Slot : Filled(r.ctx, s) + Filled(output.orders, s)
                               = SatAdd(Filled(fillState, s), Filled(output.fills, s))
    BY <1>8, AcceptSucceeds DEF BooksInv
  <2>2. r.ctx \in SlotMap
    BY <1>0, CheckedRemoveType
  <2>3. Len(run) >= 1
    <3>1. run # <<>>
      BY <1>8, <1>S DEF Accept
    <3> QED
      BY <1>0, <3>1, EmptySeq
  <2>4. \A s \in Slot : BlockBooks(r.ctx, Absorb(hostFills, hostRun.fills), block \o run, s)
    BY <1>0, <1>S, <1>P, <2>1, <2>2, <2>3, AcceptBooks
  <2>5. \A s \in Slot : ItemBooks(r.ctx, NoOutput, NoHostTxs, <<>>, s)
    BY <2>2, FreshItem
  <2> QED
    BY <1>8, <2>1, <2>4, <2>5 DEF Accept, Books
<1>9. CASE Submit
  <2>1. settled = <<>> /\ Len(settled) = 0 /\ DOMAIN settled = {}
    BY <1>9, <1>S DEF Submit
  <2>2. ASSUME NEW s \in Slot
        PROVE  /\ Filled(hostFills, s) <= HostMost * Len(block) + Most * 0
               /\ NodeBooks(hostFills, hostFills, block, 0, s)
    <3>1. Filled(hostFills, s) <= HostMost * Len(block)
      BY <1>P DEF BlockBooks
    <3>2. Filled(hostFills, s) \in Nat /\ HostMost \in Nat /\ Most * 0 = 0
      BY <1>0, FilledType, MostFacts DEF Amount
    <3>3. HostMost * Len(block) \in Nat
      BY <1>0, <3>2
    <3>4. NetOf(block, s)[0] = 0
      BY <1>0, NetFacts
    <3> QED
      BY <3>1, <3>2, <3>3, <3>4 DEF NodeBooks
  <2>3. /\ context' = hostFills /\ settled' = <<>> /\ block' = block /\ hostFills' = hostFills
        /\ fillState' = fillState /\ output' = output /\ hostRun' = hostRun /\ run' = run
    BY <1>9, <2>1 DEF Submit, itemVars, blockVars
  <2>4. NodeAgrees'
    BY <2>1, <2>2, <2>3 DEF NodeAgrees
  <2> QED
    BY <1>P, <2>3, <2>4 DEF Books
<1>11. CASE UNCHANGED vars
  BY <1>11, <1>P DEF vars, Books, NodeAgrees, NoneDropped
<1>10. CASE Settle
  <2> DEFINE n == Len(settled)
             tx == block[n + 1]
  <2>1. /\ n \in Nat /\ n < Len(block) /\ n + 1 \in 1..Len(block)
        /\ stage = "settling" /\ NodeAgrees
    BY <1>0, <1>10, <1>P DEF Settle
  <2>2. tx \in PlainTx /\ tx \in Tx /\ tx.ev.fills \in SlotMap /\ tx.ev.orders \in SlotMap
        /\ tx.ev \in TxEvents /\ tx.verdict \in Verdict
    <3>1. tx \in PlainTx
      BY <1>0, <2>1, ElementOfSeq
    <3> QED
      BY <3>1, EventsType DEF PlainTx, Tx
  <2>3. ASSUME NEW s \in Slot
        PROVE  /\ Filled(context, s) <= HostMost * Len(block) + Most * n
               /\ Filled(context, s) + Most < MaxAmount
               /\ Most * (n + 1) = Most * n + Most
    <3>1. Filled(context, s) \in Nat /\ Filled(context, s) <= HostMost * Len(block) + Most * n
      BY <1>0, <2>1, FilledType DEF NodeAgrees, Amount
    <3>2. Len(block) <= MaxBlockTxs + MaxTxs
      BY <1>0, <1>S, BundleAssumption
    <3> HIDE DEF n
    <3> QED
      BY <1>0, <2>1, <3>1, <3>2, NodeRoom
  <2>4. PICK v \in Verdict : /\ settled' = Append(settled, v)
                             /\ tx.verdict = "failed" => v = "failed" /\ context' = context
                             /\ tx.verdict # "failed" =>
                                  \E r \in CheckedRemove(context, tx.ev.fills, tx.ev.orders) :
                                    /\ context' = r.ctx
                                    /\ v = IF r.ok THEN "taken" ELSE "dropped"
    BY <1>10 DEF Settle, Verdict
  <2>5. /\ Len(settled') = n + 1 /\ DOMAIN settled' = 1..(n + 1)
        /\ settled'[n + 1] = v /\ \A i \in 1..n : settled'[i] = settled[i]
        /\ DOMAIN settled = 1..n
    BY <1>0, <2>1, <2>4, AppendProperties, LenProperties
  <2>6. /\ stage' = stage /\ output' = output /\ hostRun' = hostRun /\ run' = run
        /\ fillState' = fillState /\ hostFills' = hostFills /\ block' = block
    BY <1>10 DEF Settle, itemVars, blockVars
  <2> HIDE DEF n, tx
  <2>7. ASSUME NEW s \in Slot
        PROVE  Filled(context', s) <= HostMost * Len(block) + Most * (n + 1)
    <3> DEFINE c == Filled(context, s)
               d == Filled(context', s)
               x == HostMost * Len(block)
               y == Most * n
               z == Most * (n + 1)
               m == Most
    <3>1. c \in Nat /\ x \in Nat /\ y \in Nat /\ m \in Nat /\ c <= x + y /\ z = y + m
      <4>1. c \in Nat /\ m \in Nat /\ HostMost \in Nat
        BY <1>0, MostFacts, FilledType DEF Amount
      <4>2. c <= x + y
        BY <1>0, <2>3
      <4>3. n \in Nat /\ Len(block) \in Nat
        BY <1>0, <2>1
      <4>4. x \in Nat
        BY ONLY <4>1, <4>3, ProductIsNat
      <4>5. y \in Nat /\ Most * 1 = m /\ z = y + Most * 1
        BY ONLY <4>1, <4>3, Scaled
      <4> QED
        BY <4>1, <4>2, <4>4, <4>5
    <3>2. d <= c + m
      <4>1. CASE tx.verdict = "failed"
        BY <2>4, <3>1, <4>1
      <4>2. CASE tx.verdict # "failed"
        <5>1. PICK r \in CheckedRemove(context, tx.ev.fills, tx.ev.orders) : context' = r.ctx
          BY <2>4, <4>2
        <5>2. \A t \in DOMAIN tx.ev.orders : tx.ev.orders[t] > 0
          BY <2>2 DEF PositiveOrders
        <5>3. r.ctx = context \/ d + Filled(tx.ev.orders, s) = SatAdd(c, Filled(tx.ev.fills, s))
          BY <1>0, <2>2, <5>1, <5>2, CheckedRemoveExact
        <5>4. CASE r.ctx = context
          BY <3>1, <5>1, <5>4
        <5>5. CASE d + Filled(tx.ev.orders, s) = SatAdd(c, Filled(tx.ev.fills, s))
          <6> DEFINE en == Filled(tx.ev.fills, s)
                     ed == Filled(tx.ev.orders, s)
          <6>1. tx.ev.fills \in HostTxFills \cup {ev.fills : ev \in TxEvents}
            BY <2>2
          <6>2. en <= m
            BY <6>1, MostFacts
          <6>3. en \in Amount /\ ed \in Nat /\ c \in Amount
            BY <1>0, <2>2, FilledType DEF Amount
          <6>4. r.ctx \in SlotMap
            BY <1>0, <2>2, CheckedRemoveType
          <6>5. d \in Nat
            BY <5>1, <6>4, FilledType DEF Amount
          <6>6. SatAdd(c, en) <= c + en
            BY <6>3, SatAddBounds
          <6>7. d + ed <= c + en /\ en \in Nat
            BY <5>5, <6>3, <6>6 DEF Amount
          <6> HIDE DEF c, d, m, en, ed
          <6> QED
            BY <3>1, <6>2, <6>3, <6>5, <6>7
        <5> QED
          BY <5>3, <5>4, <5>5
      <4> QED
        BY <4>1, <4>2
    <3>3. d \in Nat
      <4>1. context' \in SlotMap
        <5>1. CASE tx.verdict = "failed"
          BY <1>0, <2>4, <5>1
        <5>2. CASE tx.verdict # "failed"
          BY <1>0, <2>2, <2>4, <5>2, CheckedRemoveType
        <5> QED
          BY <5>1, <5>2
      <4> QED
        BY <4>1, FilledType DEF Amount
    <3> HIDE DEF c, d, x, y, z, m
    <3>4. d <= x + z
      BY <3>1, <3>2, <3>3
    <3> QED
      BY <3>4 DEF d, x, z
  <2>8. ASSUME NoneDropped
        PROVE  /\ v = tx.verdict
               /\ \A s \in Slot : NodeBooks(context', hostFills, block, n + 1, s)
    <3>1. \A s \in Slot : NodeBooks(context, hostFills, block, n, s)
      BY <2>1, <2>8 DEF NodeAgrees, n
    <3>2. tx.verdict # "dropped"
      <4>1. DOMAIN block = 1..Len(block)
        BY <1>0, LenProperties
      <4> QED
        BY <2>1, <2>8, <4>1 DEF NoneDropped, tx
    <3>3. CASE tx.verdict = "failed"
      <4>1. v = "failed" /\ context' = context
        BY <2>4, <3>3
      <4>2. ASSUME NEW s \in Slot
            PROVE  NodeBooks(context, hostFills, block, n + 1, s)
        <5>1. Gain(tx, s) = 0
          BY <3>3 DEF Gain
        <5>2. n + 1 \in 1..Len(block) /\ (n + 1) - 1 = n /\ n \in 0..Len(block)
          BY <1>0, <2>1
        <5>3. NetOf(block, s)[n + 1] = NetOf(block, s)[n] + 0 /\ NetOf(block, s)[n] \in Int
          BY <1>0, <5>1, <5>2, NetFacts DEF tx
        <5> QED
          BY <3>1, <5>3 DEF NodeBooks
      <4> QED
        BY <3>3, <4>1, <4>2
    <3>4. CASE tx.verdict # "failed"
      <4>1. tx.verdict = "taken"
        BY <2>2, <3>2, <3>4 DEF Verdict
      <4>2. PICK r \in CheckedRemove(context, tx.ev.fills, tx.ev.orders) :
              context' = r.ctx /\ v = IF r.ok THEN "taken" ELSE "dropped"
        BY <2>4, <3>4
      <4>3. \A s \in Slot : /\ BlockBooks(fillState, hostFills, block, s)
                            /\ NodeBooks(context, hostFills, block, n, s)
                            /\ Filled(context, s) + Most < MaxAmount
        BY <1>P, <2>3, <3>1
      <4>4. r.ok /\ \A s \in Slot : NodeBooks(r.ctx, hostFills, block, n + 1, s)
        BY <1>0, <2>1, <4>1, <4>2, <4>3, SettleBooks DEF tx
      <4> QED
        BY <4>1, <4>2, <4>4
    <3> QED
      BY <3>3, <3>4
  <2>9. ASSUME NoneDropped, NEW i \in 1..(n + 1)
        PROVE  settled'[i] = block[i].verdict
    <3>1. i \in 1..n \/ i = n + 1
      BY <2>1
    <3>2. CASE i \in 1..n
      BY <2>1, <2>5, <2>9, <3>2 DEF NodeAgrees
    <3>3. CASE i = n + 1
      BY <2>5, <2>8, <2>9, <3>3 DEF tx
    <3> QED
      BY <3>1, <3>2, <3>3
  <2>10. NoneDropped' = NoneDropped
    BY <2>6 DEF NoneDropped
  <2>11. NodeAgrees'
    BY <2>5, <2>6, <2>7, <2>8, <2>9, <2>10 DEF NodeAgrees
  <2> QED
    BY <1>P, <2>6, <2>11 DEF Books
<1> QED
  BY <1>1, <1>2, <1>3, <1>4, <1>5, <1>6, <1>7, <1>8, <1>9, <1>10, <1>11 DEF Next

LEMMA BooksAreKept == PositiveOrders /\ FillsFit => (Spec => []BooksInv)
<1> SUFFICES ASSUME PositiveOrders, FillsFit PROVE Spec => []BooksInv
  OBVIOUS
<1>1. Init => BooksInv
  BY InitBooks
<1>2. BooksInv /\ [Next]_vars => BooksInv'
  BY NextBooks
<1> QED
  BY <1>1, <1>2, PTL DEF Spec

(* The fill state of the builder is what the host transactions and the     *)
(* taken transactions of its block filled and did not order, whatever was  *)
(* dropped, reverted or accepted on the way, if no sum reaches U256::MAX.  *)
THEOREM FillStateIsExact ==
  ASSUME PositiveOrders, FillsFit
  PROVE  Spec => []FillStateExact
<1>1. BooksInv => FillStateExact
  BY BooksImply
<1>2. Spec => []BooksInv
  BY BooksAreKept
<1> QED
  BY <1>1, <1>2, PTL

(* A node that executes a block without dropped transactions, with all the *)
(* fills of the host block in its context from the start, settles every    *)
(* transaction as the builder judged it, and is left with the builder's    *)
(* fill state.                                                             *)
THEOREM NodeFollowsBuilder ==
  ASSUME PositiveOrders, FillsFit
  PROVE  Spec => []BuilderAndNodeAgree
<1>1. BooksInv => BuilderAndNodeAgree
  BY BooksImply
<1>2. Spec => []BooksInv
  BY BooksAreKept
<1> QED
  BY <1>1, <1>2, PTL
-----------------------------------------------------------------------------
(* Calls.  The total of one value more, and of no values.                  *)
LEMMA TotalGrows ==
  ASSUME NEW n \in Nat, NEW v \in Seq(Int), NEW w \in Seq(Int),
         Len(v) = n, Len(w) = n + 1, \A i \in 1..n : w[i] = v[i]
  PROVE  /\ Total(v) \in Int /\ Total(w) \in Int
         /\ Total(w) = Total(v) + w[n + 1]
<1> DEFINE A == Sums(v)
           B == Sums(w)
<1>1. /\ (\A i \in 0..n : A[i] \in Int) /\ A[0] = 0
      /\ \A i \in 1..n : A[i] = A[i - 1] + v[i]
  BY SumsFacts
<1>2. /\ (\A i \in 0..(n + 1) : B[i] \in Int) /\ B[0] = 0
      /\ \A i \in 1..(n + 1) : B[i] = B[i - 1] + w[i]
  BY SumsFacts
<1>3. \A i \in 1..n : v[i] \in Int /\ w[i] = v[i]
  BY ElementOfSeq
<1>4. Total(v) = A[n] /\ Total(w) = B[n + 1]
  BY DEF Total
<1> HIDE DEF A, B
<1>5. \A i \in 0..n : A[i] \in Int /\ B[i] \in Int
  BY <1>1, <1>2
<1>6. ASSUME NEW i \in 1..n
      PROVE  A[i] - A[i - 1] = B[i] - B[i - 1]
  <2>1. i \in 1..(n + 1) /\ i - 1 \in 0..n /\ i \in 0..n
    OBVIOUS
  <2>2. A[i] = A[i - 1] + v[i] /\ B[i] = B[i - 1] + v[i] /\ v[i] \in Int
    BY <1>1, <1>2, <1>3, <2>1
  <2>3. A[i - 1] \in Int /\ B[i - 1] \in Int
    BY <1>5, <2>1
  <2> QED
    BY ONLY <2>2, <2>3
<1>7. A[0] = B[0]
  BY <1>1, <1>2
<1>8. \A i \in 0..n : A[i] = B[i]
  <2>1. \A i \in 1..n : A[i] - A[i - 1] = B[i] - B[i - 1]
    BY <1>6
  <2> QED
    BY ONLY n \in Nat, <1>5, <1>7, <2>1, SameSums, ZenonT(60)
<1>9. n \in 0..n /\ n + 1 \in 1..(n + 1) /\ (n + 1) - 1 = n /\ n + 1 \in 0..(n + 1)
  BY ONLY n \in Nat
<1>10. A[n] \in Int /\ B[n + 1] \in Int /\ B[n + 1] = A[n] + w[n + 1]
  BY <1>1, <1>2, <1>8, <1>9
<1> QED
  BY <1>4, <1>10

LEMMA TotalOfNone == Total(<<>>) = 0
<1>1. <<>> \in Seq(Int) /\ Len(<<>>) = 0
  OBVIOUS
<1> QED
  BY <1>1, SumsFacts DEF Total

(* The results of a call, and the figures that are added up of them.       *)
CallResult ==
  {r \in [tx : CallTxs, gasFees : Nat, coinbaseDiff : Nat, ethSent : Nat] :
     r.ethSent = SatSub(r.coinbaseDiff, r.gasFees)}

LEMMA CallTxType ==
  ASSUME NEW tx \in CallTxs
  PROVE  /\ tx.ev \in Events /\ tx.ev.fills \in SlotMap /\ tx.ev.orders \in SlotMap
         /\ tx.ok \in BOOLEAN /\ tx.gas \in Nat /\ tx.price \in Nat /\ tx.pays \in Int
<1>1. tx \in [ev : [fills : SlotMap, orders : SlotMap], ok : BOOLEAN,
              gas : Nat, price : Nat, pays : Int]
  BY CallAssumption
<1> QED
  BY <1>1 DEF Events

(* The four lists of figures of the results are lists of naturals, as long *)
(* as the results.                                                         *)
LEMMA FiguresType ==
  ASSUME NEW results \in Seq(CallResult), NEW s
  PROVE  /\ Len(results) \in Nat
         /\ CoinbaseDiffs(results) \in Seq(Int) /\ Len(CoinbaseDiffs(results)) = Len(results)
         /\ EthSents(results) \in Seq(Int) /\ Len(EthSents(results)) = Len(results)
         /\ FillsInto(s, results) \in Seq(Int) /\ Len(FillsInto(s, results)) = Len(results)
         /\ OrdersFrom(s, results) \in Seq(Int) /\ Len(OrdersFrom(s, results)) = Len(results)
         /\ \A i \in 1..Len(results) :
              /\ results[i] \in CallResult
              /\ CoinbaseDiffs(results)[i] = results[i].coinbaseDiff
              /\ EthSents(results)[i] = results[i].ethSent
              /\ FillsInto(s, results)[i] = FillOf(results[i], s)
              /\ OrdersFrom(s, results)[i] = OrderOf(results[i], s)
              /\ FillOf(results[i], s) \in Nat /\ OrderOf(results[i], s) \in Nat
<1> DEFINE n == Len(results)
<1>1. n \in Nat /\ DOMAIN results = 1..n
  BY LenProperties
<1>2. \A i \in 1..n : results[i] \in CallResult
  BY ElementOfSeq
<1>3. ASSUME NEW r \in CallResult
      PROVE  /\ r.coinbaseDiff \in Int /\ r.ethSent \in Int
             /\ FillOf(r, s) \in Nat /\ OrderOf(r, s) \in Nat
  <2>1. r.tx \in CallTxs /\ r.coinbaseDiff \in Int /\ r.ethSent \in Int
    BY DEF CallResult
  <2>2. Filled(r.tx.ev.fills, s) \in Nat /\ Filled(r.tx.ev.orders, s) \in Nat
    BY <2>1, CallTxType, FilledType DEF Amount
  <2> QED
    BY <2>1, <2>2 DEF FillOf, OrderOf
<1>4. CoinbaseDiffs(results) = [i \in 1..n |-> results[i].coinbaseDiff]
  BY <1>1 DEF CoinbaseDiffs
<1>5. EthSents(results) = [i \in 1..n |-> results[i].ethSent]
  BY <1>1 DEF EthSents
<1>6. FillsInto(s, results) = [i \in 1..n |-> FillOf(results[i], s)]
  BY <1>1 DEF FillsInto
<1>7. OrdersFrom(s, results) = [i \in 1..n |-> OrderOf(results[i], s)]
  BY <1>1 DEF OrdersFrom
<1> HIDE DEF n
<1>8. CoinbaseDiffs(results) \in [1..n -> Int] /\ EthSents(results) \in [1..n -> Int]
  BY <1>2, <1>3, <1>4, <1>5
<1>9. FillsInto(s, results) \in [1..n -> Int] /\ OrdersFrom(s, results) \in [1..n -> Int]
  BY <1>2, <1>3, <1>6, <1>7
<1>10. /\ CoinbaseDiffs(results) \in Seq(Int) /\ Len(CoinbaseDiffs(results)) = n
       /\ EthSents(results) \in Seq(Int) /\ Len(EthSents(results)) = n
       /\ FillsInto(s, results) \in Seq(Int) /\ Len(FillsInto(s, results)) = n
       /\ OrdersFrom(s, results) \in Seq(Int) /\ Len(OrdersFrom(s, results)) = n
  BY <1>1, <1>8, <1>9, FunctionIsList
<1>11. \A i \in 1..n :
              /\ CoinbaseDiffs(results)[i] = results[i].coinbaseDiff
              /\ EthSents(results)[i] = results[i].ethSent
              /\ FillsInto(s, results)[i] = FillOf(results[i], s)
              /\ OrdersFrom(s, results)[i] = OrderOf(results[i], s)
  BY <1>4, <1>5, <1>6, <1>7
<1> QED
  BY <1>1, <1>2, <1>3, <1>10, <1>11 DEF n

(* One result more.                                                        *)
LEMMA OneResultMore ==
  ASSUME NEW old \in Seq(CallResult), NEW r \in CallResult, NEW s
  PROVE  /\ Append(old, r) \in Seq(CallResult) /\ Len(Append(old, r)) = Len(old) + 1
         /\ Total(CoinbaseDiffs(old)) \in Int /\ Total(EthSents(old)) \in Int
         /\ Total(FillsInto(s, old)) \in Int /\ Total(OrdersFrom(s, old)) \in Int
         /\ Total(CoinbaseDiffs(Append(old, r))) = Total(CoinbaseDiffs(old)) + r.coinbaseDiff
         /\ Total(EthSents(Append(old, r))) = Total(EthSents(old)) + r.ethSent
         /\ Total(FillsInto(s, Append(old, r))) = Total(FillsInto(s, old)) + FillOf(r, s)
         /\ Total(OrdersFrom(s, Append(old, r))) = Total(OrdersFrom(s, old)) + OrderOf(r, s)
<1> DEFINE n == Len(old)
           new == Append(old, r)
<1>1. /\ n \in Nat /\ new \in Seq(CallResult) /\ Len(new) = n + 1
      /\ new[n + 1] = r /\ \A i \in 1..n : new[i] = old[i]
  BY AppendProperties, LenProperties
<1>2. /\ CoinbaseDiffs(old) \in Seq(Int) /\ Len(CoinbaseDiffs(old)) = n
      /\ EthSents(old) \in Seq(Int) /\ Len(EthSents(old)) = n
      /\ FillsInto(s, old) \in Seq(Int) /\ Len(FillsInto(s, old)) = n
      /\ OrdersFrom(s, old) \in Seq(Int) /\ Len(OrdersFrom(s, old)) = n
      /\ \A i \in 1..n : /\ CoinbaseDiffs(old)[i] = old[i].coinbaseDiff
                         /\ EthSents(old)[i] = old[i].ethSent
                         /\ FillsInto(s, old)[i] = FillOf(old[i], s)
                         /\ OrdersFrom(s, old)[i] = OrderOf(old[i], s)
  BY FiguresType
<1>3. /\ CoinbaseDiffs(new) \in Seq(Int) /\ Len(CoinbaseDiffs(new)) = n + 1
      /\ EthSents(new) \in Seq(Int) /\ Len(EthSents(new)) = n + 1
      /\ FillsInto(s, new) \in Seq(Int) /\ Len(FillsInto(s, new)) = n + 1
      /\ OrdersFrom(s, new) \in Seq(Int) /\ Len(OrdersFrom(s, new)) = n + 1
      /\ \A i \in 1..(n + 1) : /\ CoinbaseDiffs(new)[i] = new[i].coinbaseDiff
                               /\ EthSents(new)[i] = new[i].ethSent
                               /\ FillsInto(s, new)[i] = FillOf(new[i], s)
                               /\ OrdersFrom(s, new)[i] = OrderOf(new[i], s)
  <2>1. new \in Seq(CallResult) /\ Len(new) = n + 1
    BY <1>1
  <2> QED
    BY <2>1, FiguresType
<1> HIDE DEF n, new
<1>4. \A i \in 1..n : i \in 1..(n + 1)
  BY <1>1
<1>5. n + 1 \in 1..(n + 1)
  BY <1>1
<1>6. /\ Total(CoinbaseDiffs(old)) \in Int
      /\ Total(CoinbaseDiffs(new)) = Total(CoinbaseDiffs(old)) + r.coinbaseDiff
  <2> DEFINE v == CoinbaseDiffs(old)
             w == CoinbaseDiffs(new)
  <2>1. \A i \in 1..n : w[i] = v[i]
    BY <1>1, <1>2, <1>3, <1>4
  <2>2. CoinbaseDiffs(new)[n + 1] = r.coinbaseDiff
    BY <1>1, <1>3, <1>5
  <2>3. v \in Seq(Int) /\ w \in Seq(Int) /\ Len(v) = n /\ Len(w) = n + 1 /\ n \in Nat
    BY <1>1, <1>2, <1>3
  <2> HIDE DEF v, w
  <2>4. Total(v) \in Int /\ Total(w) = Total(v) + w[n + 1]
    BY <2>1, <2>3, TotalGrows
  <2> QED
    BY <2>2, <2>4 DEF v, w
<1>7. /\ Total(EthSents(old)) \in Int
      /\ Total(EthSents(new)) = Total(EthSents(old)) + r.ethSent
  <2> DEFINE v == EthSents(old)
             w == EthSents(new)
  <2>1. \A i \in 1..n : w[i] = v[i]
    BY <1>1, <1>2, <1>3, <1>4
  <2>2. EthSents(new)[n + 1] = r.ethSent
    BY <1>1, <1>3, <1>5
  <2>3. v \in Seq(Int) /\ w \in Seq(Int) /\ Len(v) = n /\ Len(w) = n + 1 /\ n \in Nat
    BY <1>1, <1>2, <1>3
  <2> HIDE DEF v, w
  <2>4. Total(v) \in Int /\ Total(w) = Total(v) + w[n + 1]
    BY <2>1, <2>3, TotalGrows
  <2> QED
    BY <2>2, <2>4 DEF v, w
<1>8. /\ Total(FillsInto(s, old)) \in Int
      /\ Total(FillsInto(s, new)) = Total(FillsInto(s, old)) + FillOf(r, s)
  <2> DEFINE v == FillsInto(s, old)
             w == FillsInto(s, new)
  <2>1. \A i \in 1..n : w[i] = v[i]
    BY <1>1, <1>2, <1>3, <1>4
  <2>2. FillsInto(s, new)[n + 1] = FillOf(r, s)
    BY <1>1, <1>3, <1>5
  <2>3. v \in Seq(Int) /\ w \in Seq(Int) /\ Len(v) = n /\ Len(w) = n + 1 /\ n \in Nat
    BY <1>1, <1>2, <1>3
  <2> HIDE DEF v, w
  <2>4. Total(v) \in Int /\ Total(w) = Total(v) + w[n + 1]
    BY <2>1, <2>3, TotalGrows
  <2> QED
    BY <2>2, <2>4 DEF v, w
<1>9. /\ Total(OrdersFrom(s, old)) \in Int
      /\ Total(OrdersFrom(s, new)) = Total(OrdersFrom(s, old)) + OrderOf(r, s)
  <2> DEFINE v == OrdersFrom(s, old)
             w == OrdersFrom(s, new)
  <2>1. \A i \in 1..n : w[i] = v[i]
    BY <1>1, <1>2, <1>3, <1>4
  <2>2. OrdersFrom(s, new)[n + 1] = OrderOf(r, s)
    BY <1>1, <1>3, <1>5
  <2>3. v \in Seq(Int) /\ w \in Seq(Int) /\ Len(v) = n /\ Len(w) = n + 1 /\ n \in Nat
    BY <1>1, <1>2, <1>3
  <2> HIDE DEF v, w
  <2>4. Total(v) \in Int /\ Total(w) = Total(v) + w[n + 1]
    BY <2>1, <2>3, TotalGrows
  <2> QED
    BY <2>2, <2>4 DEF v, w
<1> QED
  BY <1>1, <1>6, <1>7, <1>8, <1>9 DEF n, new
-----------------------------------------------------------------------------
(* The inductive invariant behind CallReports: while a call runs, the      *)
(* coinbase has gained no more than the results claim together, and the    *)
(* order detector holds what the successful ones filled and ordered, with  *)
(* no sum capped; afterwards the response reports this of its results, and *)
(* what has been sent is a prefix of them.                                 *)
Responses ==
  [results : Seq(CallResult), totalGas : Nat, gasFees : Nat, coinbaseDiff : Nat,
   ethSent : Nat, gasPrice : Nat, fills : SlotMap, orders : SlotMap]

CallShape ==
  /\ response \in Responses /\ Len(response.results) <= MaxTxs
  /\ detector \in Events
  /\ coinbase \in Nat /\ initial \in Nat
  /\ calling # "running" => detector = NoOutput
  /\ calling # "called" => stage = "idle"

CoinbaseBooks(results, fees, gained) ==
  /\ gained <= Total(CoinbaseDiffs(results))
  /\ 0 <= Total(CoinbaseDiffs(results)) /\ 0 <= Total(EthSents(results))
  /\ Total(CoinbaseDiffs(results)) - fees <= Total(EthSents(results))

DetectorBooks(results, det, s) ==
  /\ Filled(det.fills, s) = Total(FillsInto(s, results))
  /\ Filled(det.fills, s) <= Most * Len(results)
  /\ Filled(det.orders, s) = Total(OrdersFrom(s, results))
  /\ Filled(det.orders, s) * MaxTxs <= (MaxAmount - 1) * Len(results)

Figures ==
  /\ response.coinbaseDiff <= Total(CoinbaseDiffs(response.results))
  /\ response.ethSent <= Total(EthSents(response.results))
  /\ response.gasPrice * response.totalGas <= response.coinbaseDiff
  /\ \A s \in Slot :
       /\ Filled(response.fills, s) = Total(FillsInto(s, response.results))
       /\ Filled(response.orders, s) = Total(OrdersFrom(s, response.results))

SentAsCalled(tx, result) ==
  /\ tx.ev = IF result.tx.ok THEN result.tx.ev ELSE NoOutput
  /\ tx.verdict = "failed" <=> ~result.tx.ok

Sent ==
  /\ Len(run) <= Len(response.results)
  /\ stage = "simulated" => Len(run) = Len(response.results)
  /\ \A i \in 1..Len(run) : SentAsCalled(run[i], response.results[i])

CallInv ==
  /\ CallShape
  /\ calling = "running" =>
       /\ CoinbaseBooks(response.results, response.gasFees, coinbase - initial)
       /\ \A s \in Slot : DetectorBooks(response.results, detector, s)
  /\ calling = "called" => Figures /\ Sent

LEMMA NoResults ==
  ASSUME FillsFit
  PROVE  /\ <<>> \in Seq(CallResult) /\ Len(<<>>) = 0
         /\ CoinbaseBooks(<<>>, 0, 0)
         /\ \A s \in Slot : DetectorBooks(<<>>, NoOutput, s)
<1>1. <<>> \in Seq(CallResult) /\ Len(<<>>) = 0
  OBVIOUS
<1>2. /\ CoinbaseDiffs(<<>>) = <<>> /\ EthSents(<<>>) = <<>>
      /\ \A s : FillsInto(s, <<>>) = <<>> /\ OrdersFrom(s, <<>>) = <<>>
  BY DEF CoinbaseDiffs, EthSents, FillsInto, OrdersFrom
<1>3. CoinbaseBooks(<<>>, 0, 0)
  BY <1>2, TotalOfNone DEF CoinbaseBooks
<1>4. ASSUME NEW s \in Slot
      PROVE  DetectorBooks(<<>>, NoOutput, s)
  <2>1. Filled(NoOutput.fills, s) = 0 /\ Filled(NoOutput.orders, s) = 0
    BY EmptyMapFacts DEF NoOutput
  <2>2. Most * 0 = 0 /\ 0 * MaxTxs = 0 /\ (MaxAmount - 1) * 0 = 0
    BY MostFacts, BundleAssumption, MaxAmountAssumption
  <2> QED
    BY <1>1, <1>2, <2>1, <2>2, TotalOfNone DEF DetectorBooks
<1> QED
  BY <1>1, <1>3, <1>4

LEMMA TotalsAreIntegers ==
  ASSUME NEW results \in Seq(CallResult)
  PROVE  Total(CoinbaseDiffs(results)) \in Int /\ Total(EthSents(results)) \in Int
<1>1. /\ CoinbaseDiffs(results) \in Seq(Int) /\ EthSents(results) \in Seq(Int)
      /\ FillsInto(0, results) \in Seq(Int)
  BY FiguresType
<1>2. /\ \A v \in Seq(Int) : Len(v) \in Nat /\ \A i \in 0..Len(v) : Sums(v)[i] \in Int
  BY SumsFacts
<1>3. \A n \in Nat : n \in 0..n
  OBVIOUS
<1> QED
  BY <1>1, <1>2, <1>3 DEF Total

(* A transaction more: the coinbase.                                       *)
LEMMA CoinbaseGains ==
  ASSUME NEW results \in Seq(CallResult), NEW r \in CallResult,
         NEW fees \in Nat, NEW gained \in Int, NEW pays \in Int,
         CoinbaseBooks(results, fees, gained), pays <= r.coinbaseDiff
  PROVE  CoinbaseBooks(Append(results, r), fees + r.gasFees, gained + pays)
<1> DEFINE new == Append(results, r)
           c0 == Total(CoinbaseDiffs(results))
           e0 == Total(EthSents(results))
           c1 == Total(CoinbaseDiffs(new))
           e1 == Total(EthSents(new))
           d == r.coinbaseDiff
           e == r.ethSent
           g == r.gasFees
<1>0. /\ Total(FillsInto(0, new)) = Total(FillsInto(0, results)) + FillOf(r, 0)
      /\ c1 = c0 + d /\ e1 = e0 + e /\ c0 \in Int /\ e0 \in Int
  BY OneResultMore
<1>1. d \in Nat /\ e \in Nat /\ g \in Nat /\ e = SatSub(d, g)
  BY DEF CallResult
<1>2. c1 = c0 + d /\ e1 = e0 + e
  BY <1>0 DEF new
<1>3. c0 \in Int /\ e0 \in Int
  BY <1>0
<1>4. gained <= c0 /\ 0 <= c0 /\ 0 <= e0 /\ c0 - fees <= e0 /\ pays <= d
  BY DEF CoinbaseBooks
<1> HIDE DEF c0, e0, c1, e1, d, e, g
<1>5. d - g <= e
  BY <1>1 DEF SatSub
<1>6. gained + pays <= c1 /\ 0 <= c1 /\ 0 <= e1 /\ c1 - (fees + g) <= e1
  BY <1>1, <1>2, <1>3, <1>4, <1>5
<1> QED
  BY <1>6 DEF c1, e1, g, CoinbaseBooks
(* And the order detector, which takes the aggregates of a transaction     *)
(* that succeeds.                                                          *)
LEMMA OrdersHaveRoom ==
  ASSUME NEW m \in Nat, NEW top \in Nat, NEW n \in Nat, n + 1 <= m,
         NEW all \in Nat, NEW o \in Nat, all * m <= top * n, o * m <= top
  PROVE  (all + o) * m <= top * (n + 1) /\ all + o <= top
<1>1. /\ (all + o) * m = all * m + o * m /\ top * (n + 1) = top * n + top
      /\ all * m \in Nat /\ o * m \in Nat /\ top * n \in Nat
      /\ m * (all + o) = (all + o) * m /\ m * (top + 1) = m * top + m
      /\ top * m = m * top
  OBVIOUS
<1>2. top * (n + 1) <= top * m
  BY Scaled
<1>3. top + 1 <= all + o => m * (top + 1) <= m * (all + o)
  BY Scaled
<1> DEFINE x1 == (all + o) * m
           x2 == all * m
           x3 == o * m
           x4 == top * (n + 1)
           x5 == top * n
           x6 == m * (all + o)
           x7 == m * (top + 1)
           x8 == m * top
           x9 == top * m
<1> HIDE DEF x1, x2, x3, x4, x5, x6, x7, x8, x9
<1>4. /\ x1 = x2 + x3 /\ x4 = x5 + top /\ x2 \in Nat /\ x3 \in Nat /\ x5 \in Nat
      /\ x6 = x1 /\ x7 = x8 + m /\ x9 = x8 /\ x4 <= x9 /\ x2 <= x5 /\ x3 <= top
      /\ top + 1 <= all + o => x7 <= x6
  BY <1>1, <1>2, <1>3 DEF x1, x2, x3, x4, x5, x6, x7, x8, x9
<1>5. x1 <= x4 /\ all + o <= top
  BY <1>4
<1> QED
  BY <1>5 DEF x1, x4

LEMMA DetectorTakes ==
  ASSUME FillsFit, CallsFit, NEW results \in Seq(CallResult), NEW r \in CallResult,
         Len(results) < MaxTxs, NEW det \in Events, NEW s \in Slot,
         DetectorBooks(results, det, s), r.tx.ok,
         NEW det2 \in Events,
         det2.fills = Absorb(det.fills, r.tx.ev.fills),
         det2.orders = Absorb(det.orders, r.tx.ev.orders)
  PROVE  DetectorBooks(Append(results, r), det2, s)
<1> DEFINE new == Append(results, r)
           n == Len(results)
           f == Filled(r.tx.ev.fills, s)
           o == Filled(r.tx.ev.orders, s)
           df == Filled(det.fills, s)
           do == Filled(det.orders, s)
           top == MaxAmount - 1
<1>1. /\ Len(new) = n + 1
      /\ Total(FillsInto(s, results)) \in Int /\ Total(OrdersFrom(s, results)) \in Int
      /\ Total(FillsInto(s, new)) = Total(FillsInto(s, results)) + f
      /\ Total(OrdersFrom(s, new)) = Total(OrdersFrom(s, results)) + o
  BY OneResultMore DEF FillOf, OrderOf
<1>2. /\ r.tx \in CallTxs /\ r.tx.ev.fills \in SlotMap /\ r.tx.ev.orders \in SlotMap
      /\ det.fills \in SlotMap /\ det.orders \in SlotMap /\ r.tx.ev \in TxEvents
  BY CallTxType DEF CallResult, CallsFit, Events
<1>3. f \in Nat /\ o \in Nat /\ df \in Nat /\ do \in Nat
  BY <1>2, FilledType DEF Amount
<1>4. n \in Nat /\ MaxTxs \in Nat /\ n + 1 <= MaxTxs /\ top \in Nat /\ MaxAmount = top + 1
  BY LenProperties, BundleAssumption, MaxAmountAssumption DEF FillsFit
<1>5. f <= Most /\ Most \in Nat
  BY <1>2, MostFacts
<1>6. o * MaxTxs <= top
  <2>1. o * MaxTxs < MaxAmount
    BY <1>2 DEF CallsFit
  <2>2. o * MaxTxs \in Nat
    BY <1>3, <1>4
  <2> HIDE DEF o, top
  <2> QED
    BY <1>4, <2>1, <2>2
<1>7. /\ df = Total(FillsInto(s, results)) /\ df <= Most * n
      /\ do = Total(OrdersFrom(s, results)) /\ do * MaxTxs <= top * n
  BY DEF DetectorBooks
<1> HIDE DEF n, f, o, df, do, top
<1>8. (do + o) * MaxTxs <= top * (n + 1) /\ do + o <= top
  BY <1>3, <1>4, <1>6, <1>7, OrdersHaveRoom
<1>9. df + f <= Most * (n + 1) /\ df + f < MaxAmount
  <2>1. /\ Most * (n + 1) = Most * n + Most * 1 /\ Most * 1 = Most /\ Most * n \in Nat
    BY <1>4, <1>5
  <2>2. /\ MaxBlockTxs + MaxTxs \in Nat /\ n + 1 <= MaxBlockTxs + MaxTxs /\ n + 1 \in Nat
    BY <1>4, BundleAssumption
  <2>3. Most * (n + 1) <= Most * (MaxBlockTxs + MaxTxs)
    BY <1>5, <2>2, Scaled
  <2>4. Most * (MaxBlockTxs + MaxTxs) < MaxAmount
    <3> DEFINE k == MaxBlockTxs + MaxTxs
    <3>1. k \in Nat /\ HostMost \in Nat /\ TxMost = HostMost + Most /\ TxMost \in Nat
          /\ TxMost * k + TxMost < MaxAmount
      BY <2>2, MostFacts DEF TxMost
    <3> HIDE DEF k
    <3>2. TxMost * k = HostMost * k + Most * k
      BY <1>5, <3>1
    <3>3. HostMost * k \in Nat /\ Most * k \in Nat
      BY <1>5, <3>1
    <3> DEFINE x == TxMost * k
               y == HostMost * k
               z == Most * k
    <3> HIDE DEF x, y, z
    <3>4. x = y + z /\ y \in Nat /\ z \in Nat /\ TxMost \in Nat /\ x + TxMost < MaxAmount
      BY <3>1, <3>2, <3>3 DEF x, y, z
    <3>5. z < MaxAmount
      BY <3>4, <1>4
    <3> QED
      BY <3>5 DEF z, k
  <2> DEFINE x == Most * (n + 1)
             y == Most * n
             z == Most * (MaxBlockTxs + MaxTxs)
  <2>5. x = y + Most /\ y \in Nat /\ x <= z /\ z < MaxAmount /\ df <= y /\ z \in Nat
    <3>1. z \in Nat
      BY <1>5, <2>2
    <3> QED
      BY <1>7, <2>1, <2>3, <2>4, <3>1
  <2> HIDE DEF x, y, z
  <2>6. df + f <= x /\ df + f < MaxAmount
    BY <1>3, <1>4, <1>5, <2>5
  <2> QED
    BY <2>6 DEF x
<1>10. Filled(det2.fills, s) = df + f
  BY <1>2, <1>9, AbsorbExact DEF df, f
<1>11. Filled(det2.orders, s) = do + o
  <2>1. do + o < MaxAmount
    BY <1>3, <1>4, <1>8
  <2> QED
    BY <1>2, <2>1, AbsorbExact DEF do, o
<1>12. (do + o) * MaxTxs <= (MaxAmount - 1) * (n + 1)
  BY <1>8 DEF top
<1> QED
  BY <1>1, <1>7, <1>9, <1>10, <1>11, <1>12 DEF DetectorBooks

(* A transaction that fails leaves the detector alone.                     *)
LEMMA DetectorKeeps ==
  ASSUME FillsFit, NEW results \in Seq(CallResult), NEW r \in CallResult,
         Len(results) < MaxTxs, NEW det \in Events, NEW s \in Slot,
         DetectorBooks(results, det, s), ~r.tx.ok
  PROVE  DetectorBooks(Append(results, r), det, s)
<1> DEFINE new == Append(results, r)
           n == Len(results)
           top == MaxAmount - 1
<1>1. /\ Len(new) = n + 1
      /\ Total(FillsInto(s, results)) \in Int /\ Total(OrdersFrom(s, results)) \in Int
      /\ Total(FillsInto(s, new)) = Total(FillsInto(s, results))
      /\ Total(OrdersFrom(s, new)) = Total(OrdersFrom(s, results))
  <2>1. FillOf(r, s) = 0 /\ OrderOf(r, s) = 0
    BY DEF FillOf, OrderOf
  <2> QED
    BY <2>1, OneResultMore
<1>2. n \in Nat /\ n + 1 \in Nat /\ n <= n + 1 /\ top \in Nat /\ Most \in Nat
  <2>1. n \in Nat
    BY LenProperties
  <2>2. top \in Nat
    BY MaxAmountAssumption DEF FillsFit
  <2> QED
    BY <2>1, <2>2, MostFacts
<1>3. Most * n <= Most * (n + 1) /\ top * n <= top * (n + 1)
  BY <1>2, Scaled
<1>4. /\ Filled(det.fills, s) = Total(FillsInto(s, results)) /\ Filled(det.fills, s) <= Most * n
      /\ Filled(det.orders, s) = Total(OrdersFrom(s, results))
      /\ Filled(det.orders, s) * MaxTxs <= top * n
  BY DEF DetectorBooks
<1>5. Filled(det.fills, s) \in Nat /\ Filled(det.orders, s) \in Nat /\ MaxTxs \in Nat
  BY FilledType, BundleAssumption DEF Amount, Events
<1> DEFINE a1 == Most * n
           a2 == Most * (n + 1)
           b1 == top * n
           b2 == top * (n + 1)
           o == Filled(det.orders, s) * MaxTxs
           f == Filled(det.fills, s)
<1>6. /\ a1 \in Nat /\ a2 \in Nat /\ b1 \in Nat /\ b2 \in Nat /\ o \in Nat /\ f \in Nat
      /\ f <= a1 /\ a1 <= a2 /\ o <= b1 /\ b1 <= b2
  BY <1>2, <1>3, <1>4, <1>5
<1> HIDE DEF a1, a2, b1, b2, o, f
<1>7. f <= a2 /\ o <= b2
  BY <1>6
<1> QED
  BY <1>1, <1>4, <1>7 DEF DetectorBooks, f, o, a2, b2
-----------------------------------------------------------------------------
(* The steps of a call.                                                    *)
LEMMA InitCall == FillsFit /\ Init /\ CallInit => CallInv
<1> SUFFICES ASSUME FillsFit, Init, CallInit PROVE CallInv
  OBVIOUS
<1>1. NoResponse \in Responses /\ Len(NoResponse.results) = 0 /\ 0 <= MaxTxs
  BY NoResults, EmptyMapFacts, BundleAssumption DEF NoResponse, Responses
<1>2. CoinbaseHas \in Nat
  BY CallAssumption
<1> QED
  BY <1>1, <1>2, EventsType DEF Init, CallInit, CallInv, CallShape

LEMMA BeginCallInv ==
  ASSUME FillsFit, CallInv, BeginCall
  PROVE  CallInv'
<1>1. /\ stage' = stage /\ stage = "idle" /\ calling # "running" /\ calling' = "running"
      /\ response' = NoResponse /\ initial' = coinbase /\ coinbase' = coinbase
      /\ detector' = detector /\ detector = NoOutput /\ coinbase \in Nat
  BY DEF BeginCall, vars, CallInv, CallShape
<1>2. NoResponse \in Responses /\ Len(NoResponse.results) = 0 /\ 0 <= MaxTxs
      /\ NoResponse.results = <<>> /\ NoResponse.gasFees = 0
  BY NoResults, EmptyMapFacts, BundleAssumption DEF NoResponse, Responses
<1>3. CallShape'
  BY <1>1, <1>2, EventsType DEF CallShape
<1>4. coinbase' - initial' = 0
  BY <1>1
<1>5. CoinbaseBooks(response'.results, response'.gasFees, coinbase' - initial')
  BY <1>1, <1>2, <1>4, NoResults
<1>6. \A s \in Slot : DetectorBooks(response'.results, detector', s)
  BY <1>1, <1>2, NoResults
<1> QED
  BY <1>1, <1>3, <1>5, <1>6 DEF CallInv

LEMMA CallTxInv ==
  ASSUME FillsFit, CallsFit, CallInv, NEW tx \in CallTxs, CallTx(tx)
  PROVE  CallInv'
<1> DEFINE diff == SatSub(coinbase + tx.pays, coinbase)
           r == TxResult(tx, diff)
           results == response.results
<1>1. /\ calling = "running" /\ calling' = "running" /\ stage' = stage /\ initial' = initial
      /\ Len(results) < MaxTxs /\ coinbase' = coinbase + tx.pays /\ coinbase' \in 0..MaxBalance
      /\ response' = [response EXCEPT !.totalGas = @ + tx.gas,
                                      !.gasFees = @ + tx.price * tx.gas,
                                      !.results = Append(@, r)]
      /\ detector' = IF tx.ok THEN [fills  |-> Absorb(detector.fills, tx.ev.fills),
                                    orders |-> Absorb(detector.orders, tx.ev.orders)]
                     ELSE detector
  BY DEF CallTx, Accumulate, TxResult, vars
<1>2. /\ response \in Responses /\ detector \in Events /\ coinbase \in Nat /\ initial \in Nat
      /\ results \in Seq(CallResult) /\ response.totalGas \in Nat /\ response.gasFees \in Nat
      /\ stage = "idle"
      /\ CoinbaseBooks(results, response.gasFees, coinbase - initial)
      /\ \A s \in Slot : DetectorBooks(results, detector, s)
  BY <1>1 DEF CallInv, CallShape, Responses
<1>3. /\ tx.ev.fills \in SlotMap /\ tx.ev.orders \in SlotMap /\ tx.gas \in Nat
      /\ tx.price \in Nat /\ tx.pays \in Int /\ tx.price * tx.gas \in Nat
      /\ MaxBalance \in Nat
  BY CallTxType, CallAssumption
<1>4. coinbase' \in Nat /\ coinbase + tx.pays \in Nat
  BY <1>1, <1>3
<1>5. diff \in Nat /\ tx.pays <= diff
  BY <1>2, <1>3, <1>4 DEF SatSub
<1>6. r \in CallResult /\ r.coinbaseDiff = diff /\ r.gasFees = tx.price * tx.gas /\ r.tx = tx
  <2> HIDE DEF diff
  <2>1. SatSub(diff, tx.price * tx.gas) \in Nat
    BY <1>3, <1>5 DEF SatSub
  <2>2. /\ r.tx = tx /\ r.gasFees = tx.price * tx.gas /\ r.coinbaseDiff = diff
        /\ r.ethSent = SatSub(diff, tx.price * tx.gas)
        /\ r \in [tx : CallTxs, gasFees : Nat, coinbaseDiff : Nat, ethSent : Nat]
    BY <1>3, <1>5, <2>1 DEF TxResult
  <2> QED
    BY <2>2 DEF CallResult
<1> HIDE DEF r, diff
<1>7. Append(results, r) \in Seq(CallResult) /\ Len(Append(results, r)) = Len(results) + 1
      /\ Len(results) + 1 <= MaxTxs
  <2>1. Len(results) \in Nat /\ MaxTxs \in Nat
    BY <1>2, LenProperties, BundleAssumption
  <2> QED
    BY <1>1, <1>2, <1>6, <2>1, AppendProperties
<1>8. /\ response'.results = Append(results, r)
      /\ response'.gasFees = response.gasFees + r.gasFees
      /\ response' \in Responses
  <2>1. response.totalGas + tx.gas \in Nat /\ response.gasFees + tx.price * tx.gas \in Nat
    <3> DEFINE fee == tx.price * tx.gas
    <3>1. fee \in Nat
      BY <1>3
    <3> HIDE DEF fee
    <3>2. response.totalGas + tx.gas \in Nat /\ response.gasFees + fee \in Nat
      <4>1. response.totalGas \in Nat /\ response.gasFees \in Nat /\ tx.gas \in Nat
        BY ONLY <1>2, <1>3
      <4> QED
        BY ONLY <3>1, <4>1
    <3> QED
      BY ONLY <3>2 DEF fee
  <2> QED
    BY <1>1, <1>2, <1>6, <1>7, <2>1 DEF Responses
<1>9. CoinbaseBooks(response'.results, response'.gasFees, coinbase' - initial')
  <2>1. (coinbase - initial) \in Int /\ coinbase' - initial' = (coinbase - initial) + tx.pays
    BY <1>1, <1>2, <1>3, SMTT(30)
  <2>2. CoinbaseBooks(Append(results, r), response.gasFees + r.gasFees,
                      (coinbase - initial) + tx.pays)
    BY <1>2, <1>3, <1>5, <1>6, <2>1, CoinbaseGains
  <2> QED
    BY <1>8, <2>1, <2>2
<1>10. detector' \in Events
  <2>1. detector.fills \in SlotMap /\ detector.orders \in SlotMap
    BY <1>2 DEF Events
  <2>2. Absorb(detector.fills, tx.ev.fills) \in SlotMap
        /\ Absorb(detector.orders, tx.ev.orders) \in SlotMap
    BY <1>3, <2>1, AbsorbFacts
  <2> QED
    BY <1>1, <1>2, <2>2 DEF Events
<1>11. ASSUME NEW s \in Slot
       PROVE  DetectorBooks(response'.results, detector', s)
  <2>1. CASE tx.ok
    <3>1. /\ detector'.fills = Absorb(detector.fills, r.tx.ev.fills)
          /\ detector'.orders = Absorb(detector.orders, r.tx.ev.orders)
      BY <1>1, <1>6, <2>1
    <3>2. r.tx.ok /\ Len(results) < MaxTxs /\ DetectorBooks(results, detector, s)
      BY <1>1, <1>2, <1>6, <2>1
    <3>3. DetectorBooks(Append(results, r), detector', s)
      BY <1>2, <1>6, <1>10, <3>1, <3>2, DetectorTakes
    <3> QED
      BY <1>8, <3>3
  <2>2. CASE ~tx.ok
    <3>1. detector' = detector
      BY <1>1, <2>2
    <3>2. ~r.tx.ok /\ Len(results) < MaxTxs /\ DetectorBooks(results, detector, s)
      BY <1>1, <1>2, <1>6, <2>2
    <3>3. DetectorBooks(Append(results, r), detector, s)
      BY <1>2, <1>6, <3>2, DetectorKeeps
    <3> QED
      BY <1>8, <3>1, <3>3
  <2> QED
    BY <2>1, <2>2
<1>12. CallShape'
  BY <1>1, <1>2, <1>4, <1>7, <1>8, <1>10 DEF CallShape
<1> QED
  BY <1>1, <1>9, <1>11, <1>12 DEF CallInv

LEMMA CallFailsInv ==
  ASSUME FillsFit, CallInv, CallFails
  PROVE  CallInv'
<1>1. NoResponse \in Responses /\ Len(NoResponse.results) = 0 /\ 0 <= MaxTxs
  BY NoResults, EmptyMapFacts, BundleAssumption DEF NoResponse, Responses
<1>2. CoinbaseHas \in Nat
  BY CallAssumption
<1> QED
  BY <1>1, <1>2, EventsType DEF CallFails, vars, CallInv, CallShape

(* The price of the gas is rounded down.                                   *)
LEMMA PriceFits ==
  ASSUME NEW d \in Nat, NEW g \in Nat, g # 0
  PROVE  d \div g \in Nat /\ (d \div g) * g <= d
OBVIOUS

LEMMA EndCallInv ==
  ASSUME FillsFit, CallInv, EndCall, stage = "idle" => run = <<>>
  PROVE  CallInv'
<1> DEFINE diff == SatSub(coinbase, initial)
           price == IF response.totalGas = 0 THEN 0 ELSE diff \div response.totalGas
           results == response.results
<1>1. /\ calling = "running" /\ calling' = "called" /\ stage' = stage /\ run' = run
      /\ coinbase' = coinbase /\ initial' = initial /\ detector' = NoOutput
      /\ response' = [response EXCEPT
                        !.coinbaseDiff = diff,
                        !.ethSent = SatSub(diff, response.gasFees),
                        !.gasPrice = price,
                        !.fills = detector.fills, !.orders = detector.orders]
  BY DEF EndCall, Drained, vars
<1>2. /\ response \in Responses /\ detector \in Events /\ coinbase \in Nat /\ initial \in Nat
      /\ response.totalGas \in Nat /\ response.gasFees \in Nat /\ stage = "idle"
      /\ Len(response.results) <= MaxTxs /\ results \in Seq(CallResult)
      /\ CoinbaseBooks(results, response.gasFees, coinbase - initial)
      /\ \A s \in Slot : DetectorBooks(results, detector, s)
      /\ detector.fills \in SlotMap /\ detector.orders \in SlotMap
  BY <1>1 DEF CallInv, CallShape, Responses, Events
<1>3. diff \in Nat /\ SatSub(diff, response.gasFees) \in Nat
  BY <1>2 DEF SatSub
<1>4. Total(CoinbaseDiffs(results)) \in Int /\ Total(EthSents(results)) \in Int
  BY <1>2, TotalsAreIntegers
<1>5. /\ diff <= Total(CoinbaseDiffs(results))
      /\ SatSub(diff, response.gasFees) <= Total(EthSents(results))
  <2> DEFINE c == Total(CoinbaseDiffs(results))
             e == Total(EthSents(results))
             fees == response.gasFees
  <2>1. coinbase - initial <= c /\ 0 <= c /\ 0 <= e /\ c - fees <= e /\ fees \in Nat
        /\ c \in Int /\ e \in Int
    BY <1>2, <1>4 DEF CoinbaseBooks
  <2> HIDE DEF c, e, fees
  <2>2. diff <= c
    BY <1>2, <2>1 DEF SatSub
  <2> HIDE DEF diff
  <2>3. SatSub(diff, fees) <= e
    BY <1>3, <2>1, <2>2 DEF SatSub, fees
  <2> QED
    BY <2>2, <2>3 DEF c, e, fees
<1> HIDE DEF diff
<1>6. price \in Nat /\ price * response.totalGas <= diff
  <2>1. CASE response.totalGas = 0
    BY <1>3, <2>1
  <2>2. CASE response.totalGas # 0
    BY <1>2, <1>3, <2>2, PriceFits
  <2> QED
    BY <2>1, <2>2
<1> HIDE DEF price
<1>7. /\ response'.results = results /\ response'.coinbaseDiff = diff
      /\ response'.ethSent = SatSub(diff, response.gasFees)
      /\ response'.gasPrice = price /\ response'.totalGas = response.totalGas
      /\ response'.fills = detector.fills /\ response'.orders = detector.orders
      /\ response' \in Responses
  BY <1>1, <1>2, <1>3, <1>6 DEF Responses
<1>8. Figures'
  <2>1. \A s \in Slot : /\ Filled(response'.fills, s) = Total(FillsInto(s, response'.results))
                        /\ Filled(response'.orders, s) = Total(OrdersFrom(s, response'.results))
    BY <1>2, <1>7 DEF DetectorBooks
  <2> QED
    BY <1>5, <1>6, <1>7, <2>1 DEF Figures
<1>9. Sent'
  <2>1. run' = <<>> /\ stage' = "idle" /\ Len(<<>>) = 0
    BY <1>1, <1>2
  <2>2. Len(response'.results) \in Nat
    BY <1>2, <1>7, LenProperties
  <2>3. 1..0 = {}
    OBVIOUS
  <2> QED
    BY <2>1, <2>2, <2>3 DEF Sent
<1>10. CallShape'
  BY <1>1, <1>2, <1>7, EventsType DEF CallShape
<1> QED
  BY <1>1, <1>8, <1>9, <1>10 DEF CallInv
-----------------------------------------------------------------------------
(* What is sent after a call is a behaviour of the bundle driver.          *)
CalledEvents(tx) == IF tx.ok THEN tx.ev ELSE NoOutput

LEMMA CallNextIsNext ==
  ASSUME CallsFit, CallInv, TypeOK, [CallNext]_<<vars, callVars>>
  PROVE  [Next]_vars
<1>1. CASE BeginCall
  BY <1>1 DEF BeginCall, vars
<1>2. ASSUME NEW tx \in CallTxs, CallTx(tx) PROVE [Next]_vars
  BY <1>2 DEF CallTx, vars
<1>3. CASE CallFails
  BY <1>3 DEF CallFails, vars
<1>4. CASE EndCall
  BY <1>4 DEF EndCall, vars
<1>5. CASE Send(BeginBundle)
  BY <1>5 DEF Send, Next
<1>6. ASSUME NEW fills \in HostTxFills, Send(RunHostTx(fills)) PROVE [Next]_vars
  BY <1>6 DEF Send, Next
<1>7. CASE Send(EndHostTxs)
  BY <1>7 DEF Send, Next
<1>8. ASSUME NEW marked \in BOOLEAN, Send(SendCalled(marked)) PROVE [Next]_vars
  <2> DEFINE result == response.results[Len(run) + 1]
  <2>1. /\ Len(run) < Len(response.results)
        /\ RunRollupTx(CalledEvents(result.tx), marked)
    BY <1>8 DEF Send, SendCalled, CalledEvents
  <2>2. response.results \in Seq(CallResult) /\ run \in Seq(Tx)
    BY TypeParts DEF CallInv, CallShape, Responses
  <2>3. Len(run) \in Nat /\ Len(run) + 1 \in 1..Len(response.results)
    <3>1. Len(run) \in Nat /\ Len(response.results) \in Nat
      BY <2>2, LenProperties
    <3> QED
      BY <2>1, <3>1
  <2>4. result.tx \in CallTxs
    BY <2>2, <2>3, ElementOfSeq DEF CallResult
  <2>5. CalledEvents(result.tx) \in TxEvents
    BY <2>4 DEF CallsFit, CalledEvents
  <2> QED
    BY <2>1, <2>5 DEF Next
<1>9. CASE Send(EndCalled)
  BY <1>9 DEF Send, EndCalled, Next
<1>10. CASE Send(Accept)
  BY <1>10 DEF Send, Next
<1>11. CASE Send(Drop)
  BY <1>11 DEF Send, Next
<1>12. CASE UNCHANGED <<vars, callVars>>
  BY <1>12
<1> QED
  BY <1>1, <1>2, <1>3, <1>4, <1>5, <1>6, <1>7, <1>8, <1>9, <1>10, <1>11, <1>12 DEF CallNext

(* The steps that send leave the response as it is.                        *)
LEMMA SendInv ==
  ASSUME CallInv, calling = "called", UNCHANGED callVars, Sent'
  PROVE  CallInv'
<1>1. /\ calling' = calling /\ response' = response /\ detector' = detector
      /\ coinbase' = coinbase /\ initial' = initial
  BY DEF callVars
<1>2. CallShape'
  BY <1>1 DEF CallInv, CallShape
<1>3. Figures'
  BY <1>1 DEF CallInv, Figures
<1> QED
  BY <1>1, <1>2, <1>3 DEF CallInv

LEMMA SendCalledSent ==
  ASSUME CallInv, TypeOK, calling = "called", UNCHANGED callVars,
         NEW marked \in BOOLEAN, SendCalled(marked)
  PROVE  Sent'
<1> DEFINE n == Len(run)
           results == response.results
           result == results[n + 1]
           ev == CalledEvents(result.tx)
<1>1. /\ n < Len(results) /\ RunRollupTx(ev, marked)
      /\ run'[Len(run')].verdict = "failed" <=> ~result.tx.ok
  BY DEF SendCalled, CalledEvents
<1>2. results \in Seq(CallResult) /\ run \in Seq(Tx) /\ n \in Nat /\ Len(results) \in Nat
      /\ response' = response
  BY TypeParts, LenProperties DEF CallInv, CallShape, Responses, callVars
<1>3. PICK verdict \in Verdict : Ran(ev, marked, verdict)
  BY <1>1 DEF RunRollupTx, Verdict
<1> DEFINE tx == [ev |-> ev, bundled |-> TRUE, marked |-> marked, verdict |-> verdict]
<1>4. run' = Append(run, tx) /\ tx.ev = ev /\ tx.verdict = verdict
  BY <1>3 DEF Ran
<1>5. stage' = "rollup"
  BY <1>1 DEF RunRollupTx
<1> HIDE DEF tx, ev, result
<1>6. Len(run') = n + 1 /\ run'[n + 1] = tx /\ \A i \in 1..n : run'[i] = run[i]
  BY <1>2, <1>4
<1>7. tx.verdict = "failed" <=> ~result.tx.ok
  BY <1>1, <1>6
<1>8. SentAsCalled(tx, result)
  BY <1>4, <1>7 DEF SentAsCalled, ev, CalledEvents
<1>9. \A i \in 1..n : SentAsCalled(run[i], results[i])
  BY DEF CallInv, Sent
<1>10. \A i \in 1..(n + 1) : i \in 1..n \/ i = n + 1
  BY <1>2
<1>11. \A i \in 1..(n + 1) : SentAsCalled(run'[i], results[i])
  BY <1>6, <1>8, <1>9, <1>10 DEF result
<1>12. n + 1 <= Len(results)
  BY <1>1, <1>2
<1> HIDE DEF n
<1> QED
  BY <1>2, <1>5, <1>6, <1>11, <1>12 DEF Sent

LEMMA NextCall ==
  ASSUME FillsFit, CallsFit, CallInv, BooksInv, [CallNext]_<<vars, callVars>>
  PROVE  CallInv'
<1>0. TypeOK /\ (stage \in {"idle", "host"} => run = <<>>)
  BY DEF BooksInv, ShapeInv, Shape
<1>S. calling = "called" => Sent
  BY DEF CallInv
<1>N. response.results \in Seq(CallResult) /\ Len(response.results) \in Nat
      /\ Len(response.results) >= 0
  BY LenProperties DEF CallInv, CallShape, Responses
<1>E. ASSUME run' = <<>>, stage' # "simulated", UNCHANGED callVars
      PROVE  Sent'
  <2>1. Len(<<>>) = 0 /\ 1..0 = {}
    OBVIOUS
  <2> QED
    BY <1>N, <1>E, <2>1 DEF Sent, callVars
<1>K. ASSUME run' = run, stage' # "simulated", UNCHANGED callVars, calling = "called"
      PROVE  Sent'
  BY <1>S, <1>K DEF Sent, callVars
<1>1. CASE BeginCall
  BY <1>1, BeginCallInv
<1>2. ASSUME NEW tx \in CallTxs, CallTx(tx) PROVE CallInv'
  BY <1>2, CallTxInv
<1>3. CASE CallFails
  BY <1>3, CallFailsInv
<1>4. CASE EndCall
  BY <1>0, <1>4, EndCallInv
<1>5. CASE Send(BeginBundle)
  BY <1>5, <1>E, SendInv DEF Send, BeginBundle
<1>6. ASSUME NEW fills \in HostTxFills, Send(RunHostTx(fills)) PROVE CallInv'
  BY <1>6, <1>K, SendInv DEF Send, RunHostTx
<1>7. CASE Send(EndHostTxs)
  BY <1>7, <1>K, SendInv DEF Send, EndHostTxs, itemVars
<1>8. ASSUME NEW marked \in BOOLEAN, Send(SendCalled(marked)) PROVE CallInv'
  BY <1>0, <1>8, SendCalledSent, SendInv DEF Send
<1>9. CASE Send(EndCalled)
  <2>1. calling = "called" /\ UNCHANGED callVars /\ response' = response
        /\ Len(run) = Len(response.results) /\ run' = run
    BY <1>9 DEF Send, EndCalled, EndBundle, itemVars, callVars
  <2>2. Sent'
    BY <1>S, <2>1 DEF Sent
  <2> QED
    BY <2>1, <2>2, SendInv
<1>10. CASE Send(Accept)
  <2>1. run' = <<>> /\ stage' \in {"idle", "panicked"} /\ calling = "called" /\ UNCHANGED callVars
    BY <1>10 DEF Send, Accept
  <2> QED
    BY <1>E, <2>1, SendInv
<1>11. CASE Send(Drop)
  BY <1>11, <1>E, SendInv DEF Send, Drop
<1>12. CASE UNCHANGED <<vars, callVars>>
  <2>1. /\ stage' = stage /\ run' = run /\ calling' = calling /\ response' = response
        /\ detector' = detector /\ coinbase' = coinbase /\ initial' = initial
    BY <1>12 DEF vars, callVars
  <2> QED
    BY <2>1 DEF CallInv, CallShape, Figures, Sent
<1> QED
  BY <1>1, <1>2, <1>3, <1>4, <1>5, <1>6, <1>7, <1>8, <1>9, <1>10, <1>11, <1>12 DEF CallNext

(* What the orders of the results ask for beyond their fills is what the   *)
(* transactions that were sent take out of the market.                     *)
LEMMA SentNet ==
  ASSUME NEW results \in Seq(CallResult), NEW txs \in Seq(Tx), Len(txs) = Len(results),
         \A i \in 1..Len(txs) : SentAsCalled(txs[i], results[i]) /\ txs[i].verdict # "dropped",
         NEW s \in Slot
  PROVE  NetOf(txs, s)[Len(txs)]
           = Total(FillsInto(s, results)) - Total(OrdersFrom(s, results))
<1> DEFINE n == Len(txs)
           A == NetOf(txs, s)
           F == FillsInto(s, results)
           O == OrdersFrom(s, results)
           SF == Sums(F)
           SO == Sums(O)
           B == [i \in 0..n |-> SF[i] - SO[i]]
<1>1. /\ n \in Nat /\ A[0] = 0 /\ (\A i \in 0..n : A[i] \in Int)
      /\ \A i \in 1..n : A[i] = A[i - 1] + Gain(txs[i], s)
  BY NetFacts
<1>2. /\ F \in Seq(Int) /\ Len(F) = n /\ O \in Seq(Int) /\ Len(O) = n
      /\ \A i \in 1..n : /\ results[i] \in CallResult
                         /\ F[i] = FillOf(results[i], s) /\ O[i] = OrderOf(results[i], s)
                         /\ FillOf(results[i], s) \in Nat /\ OrderOf(results[i], s) \in Nat
  BY FiguresType
<1>3. /\ (\A i \in 0..n : SF[i] \in Int) /\ SF[0] = 0
      /\ \A i \in 1..n : SF[i] = SF[i - 1] + F[i]
  <2> HIDE DEF F, n
  <2> QED
    BY <1>2, SumsFacts
<1>4. /\ (\A i \in 0..n : SO[i] \in Int) /\ SO[0] = 0
      /\ \A i \in 1..n : SO[i] = SO[i - 1] + O[i]
  <2> HIDE DEF O, n
  <2> QED
    BY <1>2, SumsFacts
<1>5. Total(F) = SF[n] /\ Total(O) = SO[n]
  BY <1>2 DEF Total
<1>6. ASSUME NEW i \in 1..n
      PROVE  Gain(txs[i], s) = FillOf(results[i], s) - OrderOf(results[i], s)
  <2>1. SentAsCalled(txs[i], results[i]) /\ txs[i].verdict # "dropped" /\ txs[i] \in Tx
    BY <1>1, <1>6, ElementOfSeq
  <2>2. txs[i].verdict \in Verdict
    BY <2>1 DEF Tx
  <2>3. CASE results[i].tx.ok
    <3>1. txs[i].verdict = "taken" /\ txs[i].ev = results[i].tx.ev
      BY <2>1, <2>2, <2>3 DEF SentAsCalled, Verdict
    <3> QED
      BY <2>3, <3>1 DEF Gain, FillOf, OrderOf
  <2>4. CASE ~results[i].tx.ok
    <3>1. txs[i].verdict # "taken"
      BY <2>1, <2>4 DEF SentAsCalled
    <3> QED
      BY <2>4, <3>1 DEF Gain, FillOf, OrderOf
  <2> QED
    BY <2>3, <2>4
<1> HIDE DEF n, A, F, O, SF, SO
<1>7. /\ \A i \in 0..n : A[i] \in Int /\ B[i] \in Int /\ B[i] = SF[i] - SO[i]
      /\ A[0] = B[0]
  BY <1>1, <1>3, <1>4
<1>8. ASSUME NEW i \in 1..n
      PROVE  A[i] - A[i - 1] = B[i] - B[i - 1]
  <2>1. i \in 0..n /\ i - 1 \in 0..n
    BY <1>1
  <2>2. B[i] = SF[i] - SO[i] /\ B[i - 1] = SF[i - 1] - SO[i - 1]
    BY <1>7, <2>1
  <2>3. SF[i] = SF[i - 1] + F[i] /\ SO[i] = SO[i - 1] + O[i]
    BY <1>3, <1>4
  <2>4. /\ A[i] = A[i - 1] + (F[i] - O[i]) /\ F[i] \in Int /\ O[i] \in Int
    BY <1>1, <1>2, <1>6
  <2>5. A[i - 1] \in Int /\ SF[i - 1] \in Int /\ SO[i - 1] \in Int
    BY <1>1, <1>3, <1>4, <2>1
  <2> HIDE DEF B
  <2>6. B[i] - B[i - 1] = F[i] - O[i]
    BY <2>2, <2>3, <2>4, <2>5
  <2>7. A[i] - A[i - 1] = F[i] - O[i]
    BY <2>4, <2>5
  <2> QED
    BY <2>6, <2>7
<1> HIDE DEF B
<1>9. \A i \in 1..n : A[i] - A[i - 1] = B[i] - B[i - 1]
  BY <1>8
<1>10. \A i \in 0..n : A[i] = B[i]
  <2>1. n \in Nat /\ A[0] = B[0] /\ \A i \in 0..n : A[i] \in Int /\ B[i] \in Int
    BY <1>1, <1>7
  <2> QED
    BY ONLY <1>9, <2>1, SameSums, ZenonT(60)
<1>11. n \in 0..n
  BY <1>1
<1>12. A[n] = SF[n] - SO[n]
  BY <1>7, <1>10, <1>11
<1> QED
  BY <1>5, <1>12 DEF A, n, F, O

LEMMA CallInvImplies == CallInv /\ BooksInv => CallReports
<1> SUFFICES ASSUME CallInv, BooksInv, calling = "called" PROVE CallReports
  BY DEF CallReports
<1>1. Figures /\ Sent
  BY DEF CallInv
<1>2. /\ response.results \in Seq(CallResult) /\ run \in Seq(Tx) /\ fillState \in SlotMap
      /\ response.fills \in SlotMap /\ response.orders \in SlotMap /\ hostRun \in HostRuns
      /\ hostRun.fills \in SlotMap /\ Len(run) \in Nat
  BY TypeParts, LenProperties
     DEF CallInv, CallShape, Responses, BooksInv, ShapeInv, HostRuns
<1>3. ASSUME stage = "simulated", \A i \in DOMAIN run : run[i].verdict # "dropped",
             NEW s \in Slot
      PROVE  Filled(response.orders, s) <= Filled(fillState, s)
                + Filled(hostRun.fills, s) + Filled(response.fills, s)
  <2> DEFINE results == response.results
             n == Len(run)
             a == Filled(response.orders, s)
             b == Filled(fillState, s)
             c == Filled(hostRun.fills, s)
             d == Filled(response.fills, s)
             net == NetOf(run, s)[n]
  <2>1. Len(results) = n /\ \A i \in 1..n : SentAsCalled(run[i], results[i])
                                           /\ run[i].verdict # "dropped"
    BY <1>1, <1>2, <1>3, LenProperties DEF Sent
  <2>2. net = Total(FillsInto(s, results)) - Total(OrdersFrom(s, results))
    BY <1>2, <2>1, SentNet
  <2>3. d = Total(FillsInto(s, results)) /\ a = Total(OrdersFrom(s, results))
    BY <1>1 DEF Figures
  <2>4. n \in 0..n
    BY <1>2
  <2>5. b + c + net >= 0
    BY <2>4 DEF BooksInv, Books, ItemBooks
  <2>6. a \in Nat /\ b \in Nat /\ c \in Nat /\ d \in Nat
    BY <1>2, FilledType DEF Amount
  <2>7. net = d - a
    BY <2>2, <2>3
  <2> HIDE DEF a, b, c, d, net
  <2>8. a <= b + c + d
    BY <2>5, <2>6, <2>7
  <2> QED
    BY <2>8 DEF a, b, c, d
<1> QED
  BY <1>1, <1>3 DEF Figures, CallReports

LEMMA CallSteps ==
  ASSUME PositiveOrders, FillsFit, CallsFit,
         BooksInv, CallInv, [CallNext]_<<vars, callVars>>
  PROVE  BooksInv' /\ CallInv' /\ [Next]_vars
<1>1. TypeOK
  BY DEF BooksInv, ShapeInv
<1>2. [Next]_vars
  BY <1>1, CallNextIsNext
<1> QED
  BY <1>2, NextBooks, NextCall

(* What signet_callBundle reports is true of the bundle: its totals        *)
(* promise the coinbase no more than its results do, its aggregates are    *)
(* those of its successful transactions, and a bundle that is then         *)
(* simulated with all of them taken had what its orders ask for.           *)
THEOREM CallsAreReported ==
  ASSUME PositiveOrders, FillsFit, CallsFit
  PROVE  CallSpec => []CallReports
<1>1. Init /\ CallInit => BooksInv /\ CallInv
  BY InitBooks, InitCall
<1>2. BooksInv /\ CallInv /\ [CallNext]_<<vars, callVars>> => BooksInv' /\ CallInv'
  BY CallSteps
<1>3. BooksInv /\ CallInv => CallReports
  BY CallInvImplies
<1> QED
  BY <1>1, <1>2, <1>3, PTL DEF CallSpec

(* What is sent of the bundles that were called is a behaviour of the      *)
(* bundle driver of SendBundle, so that what is proved of it holds of      *)
(* called bundles too.                                                     *)
THEOREM CalledBundlesAreSent ==
  ASSUME PositiveOrders, FillsFit, CallsFit
  PROVE  CallSpec => Spec
<1>1. Init /\ CallInit => BooksInv /\ CallInv
  BY InitBooks, InitCall
<1>2. BooksInv /\ CallInv /\ [CallNext]_<<vars, callVars>>
        => BooksInv' /\ CallInv' /\ [Next]_vars
  BY CallSteps
<1> QED
  BY <1>1, <1>2, PTL DEF CallSpec, Spec
=============================================================================
