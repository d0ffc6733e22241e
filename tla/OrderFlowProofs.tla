--------------------------- MODULE OrderFlowProofs ---------------------------
(***************************************************************************)
(* The flow of orders, for any orders, fillers, options and pages: what a  *)
(* filler submits pays exactly what its orders ask, nothing is paid for    *)
(* twice however many bundles there are, and a stream that ends yields     *)
(* every order that was there all along.                                   *)
(***************************************************************************)
EXTENDS OrderFlow, MarketProofs, ListProofs

(* An output of an order, or of a fill.                                    *)
AnyOutput ==
  Output \cup [asset : Asset, recipient : Recipient, amount : Amount, chainId : {"ru"}]
SlotOf(o) == <<o.asset, o.recipient>>
Single(o) == [s \in {SlotOf(o)} |-> o.amount]

LEMMA SingleIsMap ==
  ASSUME NEW o \in AnyOutput
  PROVE  /\ SlotOf(o) \in Slot /\ Single(o) \in SlotMap
         /\ DOMAIN Single(o) = {SlotOf(o)} /\ Filled(Single(o), SlotOf(o)) = o.amount
         /\ o.amount \in Amount
<1>1. o.asset \in Asset /\ o.recipient \in Recipient /\ o.amount \in Amount
  BY DEF AnyOutput, Output
<1>2. SlotOf(o) \in Slot
  BY <1>1 DEF SlotOf, Slot
<1>3. Single(o) \in [{SlotOf(o)} -> Amount] /\ DOMAIN Single(o) = {SlotOf(o)}
      /\ Single(o)[SlotOf(o)] = o.amount
  BY <1>1 DEF Single
<1>4. {SlotOf(o)} \subseteq Slot
  BY <1>2
<1> QED
  BY <1>1, <1>2, <1>3, <1>4, SlotMapMembers DEF Filled

LEMMA IngestIsAbsorb ==
  ASSUME NEW c \in SlotMap, NEW o \in AnyOutput
  PROVE  IngestOutput(c, o) = Absorb(c, Single(o)) /\ IngestOutput(c, o) \in SlotMap
<1>1. IngestOutput(c, o) = Absorb(c, Single(o))
  BY DEF IngestOutput, Single, SlotOf
<1> QED
  BY <1>1, SingleIsMap, AbsorbFacts

(* The sums along a list of outputs.                                       *)
Sums(h, outputs) ==
  h[0] = EmptyMap /\ \A i \in 1..Len(outputs) : h[i] = IngestOutput(h[i - 1], outputs[i])

LEMMA SumsExist ==
  ASSUME NEW outputs \in Seq(AnyOutput)
  PROVE  \E h \in [0..Len(outputs) -> SlotMap] : Sums(h, outputs)
<1> DEFINE n == Len(outputs)
           step == [i \in 1..n |-> [m \in SlotMap |-> IngestOutput(m, outputs[i])]]
<1>1. n \in Nat /\ EmptyMap \in SlotMap /\ \A i \in 1..n : outputs[i] \in AnyOutput
  BY EmptyMapFacts
<1>2. step \in [1..n -> [SlotMap -> SlotMap]]
  <2>1. \A i \in 1..n, m \in SlotMap : IngestOutput(m, outputs[i]) \in SlotMap
    BY <1>1, IngestIsAbsorb
  <2> QED
    BY <2>1
<1>3. PICK h \in [0..n -> SlotMap] : Along(h, n, EmptyMap, step)
  <2> HIDE DEF step, n
  <2> QED
    BY <1>1, <1>2, AlongExists
<1>4. ASSUME NEW i \in 1..n
      PROVE  h[i] = IngestOutput(h[i - 1], outputs[i])
  <2>1. i - 1 \in 0..n
    OBVIOUS
  <2>2. h[i - 1] \in SlotMap
    BY <2>1
  <2>3. step[i][h[i - 1]] = IngestOutput(h[i - 1], outputs[i])
    BY <2>2
  <2> QED
    BY <1>3, <2>3 DEF Along
<1> QED
  BY <1>3, <1>4 DEF Along, Sums

LEMMA AggregateIs ==
  ASSUME NEW outputs \in Seq(AnyOutput),
         NEW h \in [0..Len(outputs) -> SlotMap], Sums(h, outputs)
  PROVE  AggregateOutputs(outputs) = h[Len(outputs)]
<1> DEFINE n == Len(outputs)
           Is(g) == g = [i \in 0..n |-> IF i = 0 THEN EmptyMap
                                        ELSE IngestOutput(g[i - 1], outputs[i])]
           chosen == CHOOSE g : Is(g)
<1>1. n \in Nat
  OBVIOUS
<1>2. Is(h)
  <2>1. \A i \in 0..n : h[i] = IF i = 0 THEN EmptyMap ELSE IngestOutput(h[i - 1], outputs[i])
    BY <1>1 DEF Sums
  <2>2. h = [i \in 0..n |-> h[i]]
    OBVIOUS
  <2> QED
    BY <2>1, <2>2
<1>3. Is(chosen)
  <2> HIDE DEF Is
  <2> QED
    BY <1>2
<1>4. \A i \in 0..n : chosen[i] = IF i = 0 THEN EmptyMap
                                  ELSE IngestOutput(chosen[i - 1], outputs[i])
  <2> HIDE DEF chosen
  <2> QED
    BY <1>3
<1>5. \A i \in 0..n : chosen[i] = h[i]
  <2> DEFINE P == {i \in 0..n : chosen[i] = h[i]}
  <2> HIDE DEF chosen
  <2>1. 0 \in P
    BY <1>1, <1>4 DEF Sums
  <2>2. ASSUME NEW m \in 0..(n - 1), m \in P
        PROVE  m + 1 \in P
    <3>1. m + 1 \in 0..n /\ m + 1 \in 1..n /\ m + 1 # 0 /\ (m + 1) - 1 = m
      BY <1>1
    <3>2. chosen[m + 1] = IngestOutput(chosen[m], outputs[m + 1])
      BY <1>4, <3>1
    <3>3. h[m + 1] = IngestOutput(h[m], outputs[m + 1])
      BY <3>1 DEF Sums
    <3> QED
      BY <2>2, <3>1, <3>2, <3>3
  <2> HIDE DEF P
  <2>3. \A i \in 0..n : i \in P
    BY <1>1, <2>1, <2>2, Induction
  <2> QED
    BY <2>3 DEF P
<1>6. AggregateOutputs(outputs) = chosen[n]
  BY DEF AggregateOutputs
<1> HIDE DEF chosen
<1> QED
  BY <1>1, <1>5, <1>6

LEMMA AggregateEmpty == AggregateOutputs(<<>>) = EmptyMap
<1> DEFINE h == [i \in 0..0 |-> EmptyMap]
<1>1. <<>> \in Seq(AnyOutput) /\ Len(<<>>) = 0
  OBVIOUS
<1>2. h \in [0..0 -> SlotMap] /\ h[0] = EmptyMap
  BY EmptyMapFacts
<1>3. Sums(h, <<>>)
  BY <1>2 DEF Sums
<1> HIDE DEF h
<1>4. AggregateOutputs(<<>>) = h[0]
  BY <1>1, <1>2, <1>3, AggregateIs
<1> QED
  BY <1>2, <1>4

LEMMA AggregateAppend ==
  ASSUME NEW outputs \in Seq(AnyOutput), NEW o \in AnyOutput
  PROVE  /\ AggregateOutputs(outputs) \in SlotMap
         /\ AggregateOutputs(Append(outputs, o)) = Absorb(AggregateOutputs(outputs), Single(o))
<1> DEFINE n == Len(outputs)
           t == Append(outputs, o)
<1>1. PICK h \in [0..n -> SlotMap] : Sums(h, outputs)
  BY SumsExist
<1>2. n \in Nat /\ t \in Seq(AnyOutput) /\ Len(t) = n + 1 /\ t[n + 1] = o
      /\ \A i \in 1..n : t[i] = outputs[i]
  BY AppendProperties
<1> DEFINE k == [i \in 0..(n + 1) |-> IF i = n + 1 THEN IngestOutput(h[n], o) ELSE h[i]]
<1>3. h[n] \in SlotMap
  BY <1>2
<1>4. IngestOutput(h[n], o) \in SlotMap /\ IngestOutput(h[n], o) = Absorb(h[n], Single(o))
  BY <1>3, IngestIsAbsorb
<1>5. k \in [0..(n + 1) -> SlotMap]
  BY <1>4
<1>6. k[0] = EmptyMap /\ k[n] = h[n] /\ k[n + 1] = IngestOutput(h[n], o)
      /\ \A i \in 0..n : k[i] = h[i]
  BY <1>1, <1>2 DEF Sums
<1>7. ASSUME NEW i \in 1..(n + 1)
      PROVE  k[i] = IngestOutput(k[i - 1], t[i])
  <2> HIDE DEF k, t
  <2>1. CASE i = n + 1
    <3>1. i - 1 = n
      BY <1>2, <2>1
    <3> HIDE DEF n
    <3> QED
      BY <1>2, <1>6, <2>1, <3>1
  <2>2. CASE i # n + 1
    <3>1. i \in 1..n /\ i \in 0..n /\ i - 1 \in 0..n
      BY <1>2, <2>2
    <3>2. h[i] = IngestOutput(h[i - 1], outputs[i])
      BY <1>1, <3>1 DEF Sums
    <3>3. k[i] = h[i] /\ k[i - 1] = h[i - 1] /\ t[i] = outputs[i]
      BY <1>2, <1>6, <3>1
    <3> QED
      BY <3>2, <3>3
  <2> QED
    BY <2>1, <2>2
<1>8. AggregateOutputs(outputs) = h[n]
  BY <1>1, AggregateIs
<1> HIDE DEF k, t
<1>9. Sums(k, t)
  BY <1>2, <1>6, <1>7 DEF Sums
<1>10. AggregateOutputs(t) = k[n + 1]
  BY <1>2, <1>5, <1>9, AggregateIs
<1> QED
  BY <1>3, <1>4, <1>6, <1>8, <1>10 DEF t

LEMMA AggregateType ==
  ASSUME NEW outputs \in Seq(AnyOutput)
  PROVE  AggregateOutputs(outputs) \in SlotMap
<1>1. PICK h \in [0..Len(outputs) -> SlotMap] : Sums(h, outputs)
  BY SumsExist
<1>2. AggregateOutputs(outputs) = h[Len(outputs)]
  BY <1>1, AggregateIs
<1>3. h[Len(outputs)] \in SlotMap
  OBVIOUS
<1> QED
  BY <1>2, <1>3

LEMMA AggregateConcat ==
  ASSUME NEW a \in Seq(AnyOutput), NEW b \in Seq(AnyOutput)
  PROVE  AggregateOutputs(a \o b) = Absorb(AggregateOutputs(a), AggregateOutputs(b))
<1> DEFINE A == AggregateOutputs(a)
           T == {u \in Seq(AnyOutput) : AggregateOutputs(a \o u) = Absorb(A, AggregateOutputs(u))}
<1>0. A \in SlotMap
  BY AggregateType
<1>1. <<>> \in T
  <2>1. a \o <<>> = a
    BY ConcatEmptySeq
  <2>2. Absorb(A, EmptyMap) = A
    BY <1>0, AbsorbEmpty
  <2>3. AggregateOutputs(a \o <<>>) = Absorb(A, AggregateOutputs(<<>>))
    BY <2>1, <2>2, AggregateEmpty, Zenon
  <2>4. <<>> \in Seq(AnyOutput)
    OBVIOUS
  <2> HIDE DEF A
  <2> QED
    BY <2>3, <2>4
<1>2. ASSUME NEW u \in Seq(AnyOutput), NEW x \in AnyOutput, u \in T
      PROVE  Append(u, x) \in T
  <2> DEFINE U == AggregateOutputs(u)
  <2>1. a \o Append(u, x) = Append(a \o u, x) /\ a \o u \in Seq(AnyOutput)
        /\ Append(u, x) \in Seq(AnyOutput)
    OBVIOUS
  <2>2. AggregateOutputs(Append(a \o u, x)) = Absorb(AggregateOutputs(a \o u), Single(x))
    BY <2>1, AggregateAppend
  <2>3. AggregateOutputs(Append(u, x)) = Absorb(U, Single(x)) /\ U \in SlotMap
    BY AggregateAppend
  <2>4. AggregateOutputs(a \o u) = Absorb(A, U)
    BY <1>2
  <2>5. Single(x) \in SlotMap
    BY SingleIsMap
  <2> HIDE DEF A, U
  <2>6. Absorb(Absorb(A, U), Single(x)) = Absorb(A, Absorb(U, Single(x)))
    BY <1>0, <2>3, <2>5, AbsorbAssociative
  <2>7. AggregateOutputs(a \o Append(u, x)) = Absorb(A, AggregateOutputs(Append(u, x)))
    BY <2>1, <2>2, <2>3, <2>4, <2>6
  <2> QED
    BY <2>1, <2>7
<1>3. b \in T
  <2> HIDE DEF T
  <2>1. \A u \in Seq(AnyOutput) : u \in T
    BY <1>1, <1>2, ListInduction
  <2> QED
    BY <2>1
<1> QED
  BY <1>3

(* The slots of an aggregate are those of its outputs, and one that only   *)
(* one output is for has its amount.                                       *)
LEMMA AggregateSlots ==
  ASSUME NEW outputs \in Seq(AnyOutput)
  PROVE  DOMAIN AggregateOutputs(outputs) = {SlotOf(outputs[i]) : i \in DOMAIN outputs}
<1> DEFINE Slots(u) == {SlotOf(u[i]) : i \in DOMAIN u}
           T == {u \in Seq(AnyOutput) : DOMAIN AggregateOutputs(u) = Slots(u)}
<1>1. <<>> \in T
  <2>1. DOMAIN EmptyMap = {} /\ Slots(<<>>) = {} /\ <<>> \in Seq(AnyOutput)
    BY DEF EmptyMap
  <2> HIDE DEF Slots
  <2>2. DOMAIN AggregateOutputs(<<>>) = Slots(<<>>)
    BY <2>1, AggregateEmpty, Zenon
  <2> QED
    BY <2>1, <2>2
<1>2. ASSUME NEW u \in Seq(AnyOutput), NEW x \in AnyOutput, u \in T
      PROVE  Append(u, x) \in T
  <2> DEFINE v == Append(u, x)
             n == Len(u)
  <2>1. /\ v \in Seq(AnyOutput) /\ v[n + 1] = x /\ n \in Nat
        /\ DOMAIN v = 1..(n + 1) /\ DOMAIN u = 1..n
        /\ \A i \in 1..n : v[i] = u[i]
    BY AppendProperties
  <2>2. DOMAIN AggregateOutputs(v) = DOMAIN AggregateOutputs(u) \cup {SlotOf(x)}
    <3>1. /\ AggregateOutputs(u) \in SlotMap
          /\ AggregateOutputs(v) = Absorb(AggregateOutputs(u), Single(x))
      BY AggregateAppend
    <3>2. Single(x) \in SlotMap /\ DOMAIN Single(x) = {SlotOf(x)}
      BY SingleIsMap
    <3> HIDE DEF v
    <3> QED
      BY <3>1, <3>2, AbsorbFacts
  <2>3. DOMAIN AggregateOutputs(u) = Slots(u)
    BY <1>2
  <2>4. Slots(v) = Slots(u) \cup {SlotOf(x)}
    <3> HIDE DEF v, n
    <3>1. \A i \in DOMAIN v : i = n + 1 \/ i \in DOMAIN u
      BY <2>1
    <3>2. n + 1 \in DOMAIN v /\ \A i \in DOMAIN u : i \in DOMAIN v
      BY <2>1
    <3> QED
      BY <2>1, <3>1, <3>2
  <2> HIDE DEF Slots, v
  <2>5. v \in T
    BY <2>1, <2>2, <2>3, <2>4
  <2> QED
    BY <2>5 DEF v
<1>3. outputs \in T
  <2> HIDE DEF T
  <2>1. \A u \in Seq(AnyOutput) : u \in T
    BY <1>1, <1>2, ListInduction
  <2> QED
    BY <2>1
<1> QED
  BY <1>3

SlotsDistinct(u) == \A i, j \in DOMAIN u : SlotOf(u[i]) = SlotOf(u[j]) => i = j

LEMMA AggregateOfDistinct ==
  ASSUME NEW outputs \in Seq(AnyOutput), SlotsDistinct(outputs), NEW i \in DOMAIN outputs
  PROVE  Filled(AggregateOutputs(outputs), SlotOf(outputs[i])) = outputs[i].amount
<1> DEFINE Right(u) == \A j \in DOMAIN u : Filled(AggregateOutputs(u), SlotOf(u[j])) = u[j].amount
           T == {u \in Seq(AnyOutput) : SlotsDistinct(u) => Right(u)}
<1>1. <<>> \in T
  OBVIOUS
<1>2. ASSUME NEW u \in Seq(AnyOutput), NEW x \in AnyOutput, u \in T
      PROVE  Append(u, x) \in T
  <2> DEFINE v == Append(u, x)
             n == Len(u)
             A == AggregateOutputs(u)
  <2>1. /\ v \in Seq(AnyOutput) /\ v[n + 1] = x /\ n \in Nat
        /\ DOMAIN v = 1..(n + 1) /\ DOMAIN u = 1..n
        /\ \A j \in 1..n : v[j] = u[j]
    BY AppendProperties
  <2> SUFFICES ASSUME SlotsDistinct(v) PROVE Right(v)
    BY <2>1
  <2>2. A \in SlotMap /\ AggregateOutputs(v) = Absorb(A, Single(x))
    BY AggregateAppend
  <2>3. SlotOf(x) \in Slot /\ Single(x) \in SlotMap /\ DOMAIN Single(x) = {SlotOf(x)}
        /\ Filled(Single(x), SlotOf(x)) = x.amount /\ x.amount \in Amount
    BY SingleIsMap
  <2>4. DOMAIN A = {SlotOf(u[j]) : j \in DOMAIN u}
    BY AggregateSlots
  <2> HIDE DEF v, n, A
  <2>5. SlotsDistinct(u) /\ \A j \in DOMAIN u : SlotOf(u[j]) # SlotOf(x)
    <3>1. \A j \in DOMAIN u : j \in DOMAIN v /\ v[j] = u[j] /\ j # n + 1
      BY <2>1
    <3>2. n + 1 \in DOMAIN v
      BY <2>1
    <3> QED
      BY <2>1, <3>1, <3>2 DEF SlotsDistinct
  <2>6. Right(u)
    BY <1>2, <2>5
  <2> SUFFICES ASSUME NEW j \in DOMAIN v
               PROVE  Filled(AggregateOutputs(v), SlotOf(v[j])) = v[j].amount
    OBVIOUS
  <2>7. CASE j = n + 1
    <3>1. v[j] = x
      BY <2>1, <2>7
    <3>2. Filled(A, SlotOf(x)) = 0
      BY <2>4, <2>5 DEF Filled
    <3>3. Filled(AggregateOutputs(v), SlotOf(x)) = SatAdd(0, x.amount)
      <4>1. Filled(Absorb(A, Single(x)), SlotOf(x))
              = SatAdd(Filled(A, SlotOf(x)), Filled(Single(x), SlotOf(x)))
        BY <2>2, <2>3, AbsorbFacts
      <4> QED
        BY <2>2, <2>3, <3>2, <4>1
    <3>4. SatAdd(0, x.amount) = x.amount
      BY <2>3, MaxAmountAssumption DEF SatAdd, Amount
    <3> QED
      BY <3>1, <3>3, <3>4
  <2>8. CASE j # n + 1
    <3>1. j \in DOMAIN u /\ v[j] = u[j] /\ u[j] \in AnyOutput
      BY <2>1, <2>8
    <3>2. SlotOf(u[j]) \in Slot /\ u[j].amount \in Amount
      BY <3>1, SingleIsMap
    <3>3. Filled(A, SlotOf(u[j])) = u[j].amount
      BY <2>6, <3>1 DEF A
    <3>4. Filled(Single(x), SlotOf(u[j])) = 0
      BY <2>3, <2>5, <3>1 DEF Filled
    <3>5. Filled(AggregateOutputs(v), SlotOf(u[j])) = SatAdd(u[j].amount, 0)
      <4> DEFINE slot == SlotOf(u[j])
                 B == Single(x)
      <4>1. A \in SlotMap /\ B \in SlotMap /\ slot \in Slot
        BY <2>2, <2>3, <3>2
      <4>2. Filled(A, slot) = u[j].amount /\ Filled(B, slot) = 0
        BY <3>3, <3>4
      <4>3. AggregateOutputs(v) = Absorb(A, B)
        BY <2>2
      <4> HIDE DEF slot, B
      <4>4. Filled(Absorb(A, B), slot) = SatAdd(Filled(A, slot), Filled(B, slot))
        BY <4>1, AbsorbFacts
      <4> QED
        BY <4>2, <4>3, <4>4 DEF slot
    <3>6. SatAdd(u[j].amount, 0) = u[j].amount
      BY <3>2, MaxAmountAssumption DEF SatAdd, Amount
    <3> QED
      BY <3>1, <3>5, <3>6
  <2> QED
    BY <2>7, <2>8
<1>3. outputs \in T
  <2> HIDE DEF T
  <2>1. \A u \in Seq(AnyOutput) : u \in T
    BY <1>1, <1>2, ListInduction
  <2> QED
    BY <2>1
<1> QED
  BY <1>3

-----------------------------------------------------------------------------
(* Lists of permits, of orders or of fills.                                *)
OutputsListed(S) == \A p \in S : p.outputs \in Seq(AnyOutput)
OutputLists(a) == [i \in DOMAIN a |-> a[i].outputs]

LEMMA OutputListsType ==
  ASSUME NEW S, OutputsListed(S), NEW a \in Seq(S)
  PROVE  /\ OutputLists(a) \in Seq(Seq(AnyOutput)) /\ Len(OutputLists(a)) = Len(a)
         /\ \A i \in 1..Len(a) : OutputLists(a)[i] = a[i].outputs
         /\ FlattenSeq(OutputLists(a)) \in Seq(AnyOutput)
         /\ Aggregated(a) = AggregateOutputs(FlattenSeq(OutputLists(a)))
<1>1. Len(a) \in Nat /\ DOMAIN a = 1..Len(a) /\ \A i \in 1..Len(a) : a[i] \in S
  OBVIOUS
<1>2. \A i \in 1..Len(a) : a[i].outputs \in Seq(AnyOutput)
  BY <1>1 DEF OutputsListed
<1>3. OutputLists(a) \in [1..Len(a) -> Seq(AnyOutput)]
      /\ \A i \in 1..Len(a) : OutputLists(a)[i] = a[i].outputs
  BY <1>1, <1>2 DEF OutputLists
<1>4. OutputLists(a) \in Seq(Seq(AnyOutput)) /\ Len(OutputLists(a)) = Len(a)
  BY <1>1, <1>3
<1>5. Aggregated(a) = AggregateOutputs(FlattenSeq(OutputLists(a)))
  BY DEF Aggregated, OutputLists
<1> QED
  BY <1>3, <1>4, <1>5, FlattenType

LEMMA AggregatedType ==
  ASSUME NEW S, OutputsListed(S), NEW a \in Seq(S)
  PROVE  Aggregated(a) \in SlotMap /\ IsFiniteSet(DOMAIN Aggregated(a))
<1> DEFINE u == FlattenSeq(OutputLists(a))
<1>1. u \in Seq(AnyOutput) /\ Aggregated(a) = AggregateOutputs(u)
  BY OutputListsType
<1> HIDE DEF u
<1>2. DOMAIN Aggregated(a) = {SlotOf(u[i]) : i \in DOMAIN u}
  BY <1>1, AggregateSlots
<1> DEFINE slots == [i \in DOMAIN u |-> SlotOf(u[i])]
<1>3. {slots[i] : i \in DOMAIN u} = {SlotOf(u[i]) : i \in DOMAIN u}
  OBVIOUS
<1>4. IsFiniteSet(DOMAIN u)
  <2>1. DOMAIN u = 1..Len(u) /\ Len(u) \in Int /\ 1 \in Int
    BY <1>1
  <2> QED
    BY <2>1, FS_Interval
<1>5. IsFiniteSet({slots[i] : i \in DOMAIN u})
  <2> HIDE DEF slots
  <2> QED
    BY <1>4, FiniteImage
<1> QED
  BY <1>1, <1>2, <1>3, <1>5, AggregateType

LEMMA AggregatedConcat ==
  ASSUME NEW S, OutputsListed(S), NEW a \in Seq(S), NEW b \in Seq(S)
  PROVE  Aggregated(a \o b) = Absorb(Aggregated(a), Aggregated(b))
<1> DEFINE A == OutputLists(a)
           B == OutputLists(b)
           C == OutputLists(a \o b)
<1>1. a \o b \in Seq(S) /\ Len(a \o b) = Len(a) + Len(b) /\ Len(a) \in Nat /\ Len(b) \in Nat
      /\ \A i \in 1..(Len(a) + Len(b)) :
            (a \o b)[i] = IF i <= Len(a) THEN a[i] ELSE b[i - Len(a)]
  BY ConcatProperties
<1>2. A \in Seq(Seq(AnyOutput)) /\ Len(A) = Len(a) /\ \A i \in 1..Len(a) : A[i] = a[i].outputs
  BY OutputListsType
<1>3. B \in Seq(Seq(AnyOutput)) /\ Len(B) = Len(b) /\ \A i \in 1..Len(b) : B[i] = b[i].outputs
  BY OutputListsType
<1>4. C \in Seq(Seq(AnyOutput)) /\ Len(C) = Len(a) + Len(b)
      /\ \A i \in 1..(Len(a) + Len(b)) : C[i] = (a \o b)[i].outputs
  BY <1>1, OutputListsType
<1> HIDE DEF A, B, C
<1>5. C = A \o B
  <2>0. /\ A \o B \in Seq(Seq(AnyOutput)) /\ Len(A \o B) = Len(A) + Len(B)
        /\ \A i \in 1..(Len(A) + Len(B)) :
              (A \o B)[i] = IF i <= Len(A) THEN A[i] ELSE B[i - Len(A)]
    <3>1. A \in Seq(Seq(AnyOutput)) /\ B \in Seq(Seq(AnyOutput))
      BY <1>2, <1>3
    <3> QED
      BY ONLY <3>1, ConcatProperties
  <2>1. A \o B \in Seq(Seq(AnyOutput)) /\ Len(A \o B) = Len(a) + Len(b)
        /\ \A i \in 1..(Len(a) + Len(b)) :
              (A \o B)[i] = IF i <= Len(a) THEN A[i] ELSE B[i - Len(a)]
    BY <1>2, <1>3, <2>0, Zenon
  <2>2. ASSUME NEW i \in 1..(Len(a) + Len(b))
        PROVE  C[i] = (A \o B)[i]
    <3>0. /\ C[i] = (a \o b)[i].outputs
          /\ (a \o b)[i] = IF i <= Len(a) THEN a[i] ELSE b[i - Len(a)]
          /\ (A \o B)[i] = IF i <= Len(a) THEN A[i] ELSE B[i - Len(a)]
      BY <1>1, <1>4, <2>1, Zenon
    <3>1. CASE i <= Len(a)
      <4>1. i \in 1..Len(a)
        BY <1>1, <3>1
      <4>2. A[i] = a[i].outputs
        BY <1>2, <4>1
      <4> QED
        BY <3>0, <3>1, <4>2, Zenon
    <3>2. CASE ~(i <= Len(a))
      <4>1. i - Len(a) \in 1..Len(b)
        BY <1>1, <3>2
      <4>2. B[i - Len(a)] = b[i - Len(a)].outputs
        BY <1>3, <4>1
      <4> QED
        BY <3>0, <3>2, <4>2, Zenon
    <3> QED
      BY <3>1, <3>2
  <2> QED
    BY <1>4, <2>1, <2>2, SeqEqual
<1>6. FlattenSeq(C) = FlattenSeq(A) \o FlattenSeq(B)
  BY <1>2, <1>3, <1>5, FlattenConcat
<1>7. /\ Aggregated(a) = AggregateOutputs(FlattenSeq(A)) /\ FlattenSeq(A) \in Seq(AnyOutput)
      /\ Aggregated(b) = AggregateOutputs(FlattenSeq(B)) /\ FlattenSeq(B) \in Seq(AnyOutput)
      /\ Aggregated(a \o b) = AggregateOutputs(FlattenSeq(C))
  BY <1>1, OutputListsType DEF A, B, C
<1> QED
  BY <1>6, <1>7, AggregateConcat

LEMMA AggregatedNone == Aggregated(<<>>) = EmptyMap
<1>1. OutputLists(<<>>) = <<>>
  BY DEF OutputLists
<1>2. Aggregated(<<>>) = AggregateOutputs(FlattenSeq(OutputLists(<<>>)))
  BY DEF Aggregated, OutputLists
<1> QED
  BY <1>1, <1>2, FlattenEmpty, AggregateEmpty

LEMMA AggregatedOne ==
  ASSUME NEW p, p.outputs \in Seq(AnyOutput)
  PROVE  Aggregated(<<p>>) = AggregateOutputs(p.outputs)
<1>1. OutputLists(<<p>>) = <<p.outputs>>
  BY DEF OutputLists
<1>2. Aggregated(<<p>>) = AggregateOutputs(FlattenSeq(OutputLists(<<p>>)))
  BY DEF Aggregated, OutputLists
<1>3. <<p.outputs>> = Append(<<>>, p.outputs) /\ <<>> \in Seq(Seq(AnyOutput))
  OBVIOUS
<1>4. FlattenSeq(<<p.outputs>>) = FlattenSeq(<<>>) \o p.outputs
  BY <1>3, FlattenAppend
<1>5. <<>> \o p.outputs = p.outputs
  BY ConcatEmptySeq
<1> QED
  BY <1>1, <1>2, <1>4, <1>5, FlattenEmpty

(* The orders of a prefix ask for no more than all of them.                *)
LEMMA PrefixAsksLess ==
  ASSUME NEW S, OutputsListed(S), NEW a \in Seq(S), NEW n \in 0..Len(a)
  PROVE  /\ SubSeq(a, 1, n) \in Seq(S)
         /\ \A s \in DOMAIN Aggregated(SubSeq(a, 1, n)) :
              Aggregated(SubSeq(a, 1, n))[s] <= Filled(Aggregated(a), s)
<1> DEFINE b == SubSeq(a, 1, n)
           c == SubSeq(a, n + 1, Len(a))
<1>1. b \in Seq(S) /\ c \in Seq(S) /\ a = b \o c
  <2>1. b \in Seq(S) /\ c \in Seq(S)
    OBVIOUS
  <2>2. 1 \in 1..(Len(a) + 1) /\ n \in (1 - 1)..Len(a) /\ Len(a) \in n..Len(a)
    OBVIOUS
  <2>3. SubSeq(a, 1, n) \o SubSeq(a, n + 1, Len(a)) = SubSeq(a, 1, Len(a))
    BY <2>2, ConcatAdjacentSubSeq
  <2> QED
    BY <2>1, <2>3, SubSeqFull
<1> HIDE DEF b, c
<1>2. Aggregated(a) = Absorb(Aggregated(b), Aggregated(c))
  BY <1>1, AggregatedConcat
<1>3. Aggregated(b) \in SlotMap /\ Aggregated(c) \in SlotMap
  BY <1>1, AggregatedType
<1>4. ASSUME NEW s \in DOMAIN Aggregated(b)
      PROVE  Aggregated(b)[s] <= Filled(Aggregated(a), s)
  <2>1. s \in Slot /\ Aggregated(b)[s] = Filled(Aggregated(b), s)
    BY <1>3, SlotMapMembers DEF Filled
  <2>2. Filled(Absorb(Aggregated(b), Aggregated(c)), s)
          = SatAdd(Filled(Aggregated(b), s), Filled(Aggregated(c), s))
    BY <1>3, <2>1, AbsorbFacts
  <2>3. Filled(Aggregated(b), s) \in Amount /\ Filled(Aggregated(c), s) \in Amount
    BY <1>3, FilledType
  <2> QED
    BY <1>2, <2>1, <2>2, <2>3, SatAddBounds
<1> QED
  BY <1>1, <1>4 DEF b

-----------------------------------------------------------------------------
(* The part of an aggregate on a chain, and the outputs it is filled by.   *)
PartOn(agg, chain) == [s \in {t \in DOMAIN agg : ChainOf[t[1]] = chain} |-> agg[s]]

LEMMA PartIsMap ==
  ASSUME NEW agg \in SlotMap, NEW chain
  PROVE  PartOn(agg, chain) \in SlotMap
<1> DEFINE D == {t \in DOMAIN agg : ChainOf[t[1]] = chain}
<1>1. agg \in [DOMAIN agg -> Amount] /\ DOMAIN agg \subseteq Slot
  BY SlotMapMembers
<1>2. PartOn(agg, chain) \in [D -> Amount] /\ D \subseteq Slot
  BY <1>1 DEF PartOn
<1> QED
  BY <1>2, SlotMapMembers

LEMMA OutputsForLists ==
  ASSUME NEW agg \in SlotMap, IsFiniteSet(DOMAIN agg), NEW chain
  PROVE  /\ OutputsFor(agg, chain) \in Seq(AnyOutput)
         /\ AggregateOutputs(OutputsFor(agg, chain)) = PartOn(agg, chain)
<1> DEFINE D == {t \in DOMAIN agg : ChainOf[t[1]] = chain}
           output == [s \in D |-> [asset |-> s[1], recipient |-> s[2], amount |-> agg[s],
                                   chainId |-> "ru"]]
           S == {output[s] : s \in D}
           u == OutputsFor(agg, chain)
<1>1. agg \in [DOMAIN agg -> Amount] /\ DOMAIN agg \subseteq Slot
  BY SlotMapMembers
<1>2. ASSUME NEW s \in D
      PROVE  output[s] \in AnyOutput /\ SlotOf(output[s]) = s /\ output[s].amount = agg[s]
  <2>1. s[1] \in Asset /\ s[2] \in Recipient /\ s = <<s[1], s[2]>> /\ agg[s] \in Amount
    BY <1>1 DEF Slot
  <2>2. output[s] = [asset |-> s[1], recipient |-> s[2], amount |-> agg[s], chainId |-> "ru"]
    OBVIOUS
  <2>3. output[s] \in [asset : Asset, recipient : Recipient, amount : Amount, chainId : {"ru"}]
    BY <2>1, <2>2
  <2>4. output[s].asset = s[1] /\ output[s].recipient = s[2] /\ output[s].amount = agg[s]
    BY <2>2
  <2> QED
    BY <2>1, <2>3, <2>4 DEF AnyOutput, SlotOf
<1>3. IsFiniteSet(S)
  <2>1. IsFiniteSet(D)
    BY FS_Subset
  <2> HIDE DEF D, output
  <2> QED
    BY <2>1, FiniteImage
<1>4. u = SetToSeq(S)
  <2>1. S = {[asset |-> s[1], recipient |-> s[2], amount |-> agg[s], chainId |-> "ru"] : s \in D}
    OBVIOUS
  <2> QED
    BY <2>1 DEF OutputsFor
<1> HIDE DEF S, u
<1>5. u \in Seq(S) /\ Distinct(u) /\ \A x \in S : \E i \in DOMAIN u : u[i] = x
  BY <1>3, <1>4, SetToSeqLists
<1>6. \A x \in S : \E s \in D : x = output[s]
  BY DEF S
<1>7. u \in Seq(AnyOutput)
  <2>1. S \subseteq AnyOutput
    BY <1>2, <1>6
  <2> QED
    BY <1>5, <2>1
<1>8. \A i \in DOMAIN u : \E s \in D : u[i] = output[s]
  BY <1>5, <1>6
<1> HIDE DEF output
<1>9. SlotsDistinct(u)
  BY <1>2, <1>5, <1>8 DEF SlotsDistinct, Distinct
<1>10. {SlotOf(u[i]) : i \in DOMAIN u} = D
  <2>1. \A i \in DOMAIN u : SlotOf(u[i]) \in D
    BY <1>2, <1>8
  <2>2. \A s \in D : \E i \in DOMAIN u : SlotOf(u[i]) = s
    <3> SUFFICES ASSUME NEW s \in D PROVE \E i \in DOMAIN u : SlotOf(u[i]) = s
      OBVIOUS
    <3>1. output[s] \in S
      BY DEF S
    <3>2. PICK i \in DOMAIN u : u[i] = output[s]
      BY <1>5, <3>1
    <3> QED
      BY <1>2, <3>2
  <2> QED
    BY <2>1, <2>2
<1> DEFINE A == AggregateOutputs(u)
           B == PartOn(agg, chain)
<1>11. A \in SlotMap /\ DOMAIN A = D
  BY <1>7, <1>10, AggregateType, AggregateSlots
<1>12. B \in SlotMap /\ DOMAIN B = D /\ \A s \in D : B[s] = agg[s]
  <2>1. B = [s \in D |-> agg[s]]
    BY DEF PartOn
  <2> QED
    BY <2>1, PartIsMap
<1>13. ASSUME NEW s \in D
       PROVE  Filled(A, s) = Filled(B, s)
  <2>1. PICK i \in DOMAIN u : SlotOf(u[i]) = s
    BY <1>10
  <2>2. PICK t \in D : u[i] = output[t]
    BY <1>8
  <2>3. t = s
    BY <1>2, <2>1, <2>2
  <2>4. Filled(A, SlotOf(u[i])) = u[i].amount
    BY <1>7, <1>9, AggregateOfDistinct
  <2>5. u[i].amount = agg[s]
    BY <1>2, <2>2, <2>3
  <2>6. Filled(B, s) = agg[s]
    BY <1>12 DEF Filled
  <2> QED
    BY <2>1, <2>4, <2>5, <2>6
<1> HIDE DEF A, B, D
<1>14. A = B
  BY <1>11, <1>12, <1>13, MapsAreEqual
<1> QED
  BY <1>7, <1>14 DEF A, B, u

-----------------------------------------------------------------------------
(* The orders that can be signed, and the fills that are signed for some.  *)
SignedOrders == {SignOrder(i) : i \in DOMAIN Orders}

IsFill(f, orders, fills) ==
  LET agg == Aggregated(orders)
  IN  /\ TargetChainIds(agg) \subseteq {"ru", "host"}
      /\ DOMAIN fills = TargetChainIds(agg)
      /\ \A chain \in DOMAIN fills :
           /\ fills[chain].outputs = OutputsFor(agg, chain)
           /\ fills[chain].owner = f

FillPermits(fills, chain) ==
  IF chain \in DOMAIN fills THEN <<fills[chain]>> ELSE <<>>

LEMMA SignedOrdersListed ==
  /\ OutputsListed(SignedOrders)
  /\ \A p \in SignedOrders : p.signedFor = <<"ru", "ruOrders">>
<1> SUFFICES ASSUME NEW i \in DOMAIN Orders
             PROVE  /\ SignOrder(i).outputs \in Seq(AnyOutput)
                    /\ SignOrder(i).signedFor = <<"ru", "ruOrders">>
  BY DEF SignedOrders, OutputsListed
<1>1. SignOrder(i).outputs = Orders[i].outputs
      /\ SignOrder(i).signedFor = <<"ru", "ruOrders">>
  BY DEF SignOrder, Permit, Contracts
<1>2. Orders[i].outputs \in Seq(Output)
  BY FlowAssumption
<1>3. Output \subseteq AnyOutput
  BY DEF AnyOutput
<1>4. Orders[i].outputs \in Seq(AnyOutput)
  <2> HIDE DEF AnyOutput, Output
  <2> QED
    BY <1>2, <1>3
<1> QED
  BY <1>1, <1>4

(* The fill of a chain pays what is asked there, and no fill nothing.      *)
LEMMA FillPermitsPay ==
  ASSUME NEW f, NEW orders \in Seq(SignedOrders), NEW fills, IsFill(f, orders, fills),
         NEW chain \in {"ru", "host"}
  PROVE  /\ FillPermits(fills, chain) \in Seq({fills[c] : c \in DOMAIN fills})
         /\ Aggregated(FillPermits(fills, chain)) = PartOn(Aggregated(orders), chain)
<1> DEFINE agg == Aggregated(orders)
<1>1. agg \in SlotMap /\ IsFiniteSet(DOMAIN agg)
  BY SignedOrdersListed, AggregatedType
<1>2. DOMAIN fills = TargetChainIds(agg)
      /\ \A c \in DOMAIN fills : fills[c].outputs = OutputsFor(agg, c)
  BY DEF IsFill
<1> HIDE DEF agg
<1>3. CASE chain \in DOMAIN fills
  <2>1. FillPermits(fills, chain) = <<fills[chain]>>
    BY <1>3 DEF FillPermits
  <2>2. fills[chain].outputs = OutputsFor(agg, chain)
        /\ OutputsFor(agg, chain) \in Seq(AnyOutput)
        /\ AggregateOutputs(OutputsFor(agg, chain)) = PartOn(agg, chain)
    BY <1>1, <1>2, <1>3, OutputsForLists
  <2>3. Aggregated(<<fills[chain]>>) = AggregateOutputs(fills[chain].outputs)
    BY <2>2, AggregatedOne
  <2>4. <<fills[chain]>> \in Seq({fills[c] : c \in DOMAIN fills})
    BY <1>3
  <2> QED
    BY <2>1, <2>2, <2>3, <2>4 DEF agg
<1>4. CASE chain \notin DOMAIN fills
  <2>1. FillPermits(fills, chain) = <<>>
    BY <1>4 DEF FillPermits
  <2>2. {t \in DOMAIN agg : ChainOf[t[1]] = chain} = {}
    BY <1>2, <1>4 DEF TargetChainIds
  <2>3. PartOn(agg, chain) = EmptyMap
    BY <2>2 DEF PartOn, EmptyMap
  <2>4. <<>> \in Seq({fills[c] : c \in DOMAIN fills})
    OBVIOUS
  <2>5. Aggregated(FillPermits(fills, chain)) = EmptyMap
    BY <2>1, AggregatedNone, Zenon
  <2>6. FillPermits(fills, chain) \in Seq({fills[c] : c \in DOMAIN fills})
    BY <2>1, <2>4, Zenon
  <2> QED
    BY <2>3, <2>5, <2>6 DEF agg
<1> QED
  BY <1>3, <1>4

LEMMA FillsListed ==
  ASSUME NEW f, NEW orders \in Seq(SignedOrders), NEW fills, IsFill(f, orders, fills)
  PROVE  OutputsListed({fills[c] : c \in DOMAIN fills})
<1> DEFINE agg == Aggregated(orders)
<1>1. agg \in SlotMap /\ IsFiniteSet(DOMAIN agg)
  BY SignedOrdersListed, AggregatedType
<1>2. \A c \in DOMAIN fills : fills[c].outputs = OutputsFor(agg, c)
  BY DEF IsFill
<1> HIDE DEF agg
<1> QED
  BY <1>1, <1>2, OutputsForLists DEF OutputsListed

(* Together they pay all that is asked.                                    *)
LEMMA FillsPayAll ==
  ASSUME NEW f, NEW orders \in Seq(SignedOrders), NEW fills, IsFill(f, orders, fills)
  PROVE  Aggregated(FillPermits(fills, "host") \o FillPermits(fills, "ru")) = Aggregated(orders)
<1> DEFINE agg == Aggregated(orders)
           H == PartOn(agg, "host")
           R == PartOn(agg, "ru")
           S == {fills[c] : c \in DOMAIN fills}
           h == FillPermits(fills, "host")
           r == FillPermits(fills, "ru")
<1>1. agg \in SlotMap
  BY SignedOrdersListed, AggregatedType
<1>2. OutputsListed(S)
  BY FillsListed
<1>3. h \in Seq(S) /\ Aggregated(h) = H /\ r \in Seq(S) /\ Aggregated(r) = R
  BY FillPermitsPay
<1>4. TargetChainIds(agg) \subseteq {"ru", "host"}
  BY DEF IsFill
<1> HIDE DEF agg, h, r, S
<1>5. Aggregated(h \o r) = Absorb(H, R)
  BY <1>2, <1>3, AggregatedConcat
<1>6. H \in SlotMap /\ R \in SlotMap
  BY <1>1, PartIsMap
<1>7. \A s \in DOMAIN agg : ChainOf[s[1]] \in {"ru", "host"}
  BY <1>4 DEF TargetChainIds
<1>8. /\ DOMAIN H = {t \in DOMAIN agg : ChainOf[t[1]] = "host"}
      /\ DOMAIN R = {t \in DOMAIN agg : ChainOf[t[1]] = "ru"}
      /\ \A s \in DOMAIN H : H[s] = agg[s]
      /\ \A s \in DOMAIN R : R[s] = agg[s]
  BY DEF PartOn
<1> HIDE DEF H, R
<1>9. Absorb(H, R) \in SlotMap /\ DOMAIN Absorb(H, R) = DOMAIN agg
  <2>1. DOMAIN H \cup DOMAIN R = DOMAIN agg
    BY <1>7, <1>8
  <2> QED
    BY <1>6, <2>1, AbsorbFacts
<1>10. ASSUME NEW s \in DOMAIN agg
       PROVE  Filled(Absorb(H, R), s) = Filled(agg, s)
  <2>1. s \in Slot /\ agg[s] \in Amount /\ Filled(agg, s) = agg[s]
    BY <1>1, SlotMapMembers DEF Filled
  <2>2. Filled(Absorb(H, R), s) = SatAdd(Filled(H, s), Filled(R, s))
    BY <1>6, <2>1, AbsorbFacts
  <2>3. SatAdd(agg[s], 0) = agg[s] /\ SatAdd(0, agg[s]) = agg[s]
    BY <2>1, MaxAmountAssumption DEF SatAdd, Amount
  <2>4. CASE ChainOf[s[1]] = "host"
    <3>1. Filled(H, s) = agg[s] /\ Filled(R, s) = 0
      BY <1>8, <2>4 DEF Filled
    <3> QED
      BY <2>1, <2>2, <2>3, <3>1
  <2>5. CASE ChainOf[s[1]] = "ru"
    <3>1. Filled(H, s) = 0 /\ Filled(R, s) = agg[s]
      BY <1>8, <2>5 DEF Filled
    <3> QED
      BY <2>1, <2>2, <2>3, <3>1
  <2> QED
    BY <1>7, <2>4, <2>5
<1>11. Absorb(H, R) = agg
  BY <1>1, <1>9, <1>10, MapsAreEqual
<1> QED
  BY <1>5, <1>11 DEF agg, h, r

-----------------------------------------------------------------------------
(* A bundle that a filler made of orders and of the fills signed for them. *)
MadeOf(b, f, orders, fills) ==
  /\ b.hostTxs = FillTxs(fills, "host")
  /\ b.txs = RollupTxs(f, orders, fills)

GoodBundle(b) ==
  \E f \in Filler, orders \in Seq(SignedOrders) : \E fills :
    IsFill(f, orders, fills) /\ MadeOf(b, f, orders, fills)

InitiateTxs(f, orders) == [i \in DOMAIN orders |-> ToInitiateTx(orders[i], f)]

LEMMA FillTxsShape ==
  ASSUME NEW fills, NEW chain
  PROVE  /\ FillTxs(fills, chain) \in Seq({ToFillTx(fills[c]) : c \in DOMAIN fills})
         /\ Len(FillTxs(fills, chain)) \in {0, 1}
         /\ PermitsOf(FillTxs(fills, chain)) = FillPermits(fills, chain)
         /\ \A i \in DOMAIN FillTxs(fills, chain) : FillTxs(fills, chain)[i].kind = "fill"
<1> DEFINE T == {ToFillTx(fills[c]) : c \in DOMAIN fills}
<1>1. CASE chain \in DOMAIN fills
  <2>1. FillTxs(fills, chain) = <<ToFillTx(fills[chain])>>
        /\ FillPermits(fills, chain) = <<fills[chain]>>
    BY <1>1 DEF FillTxs, FillPermits
  <2>2. ToFillTx(fills[chain]) \in T
    BY <1>1
  <2>3. ToFillTx(fills[chain]).kind = "fill" /\ ToFillTx(fills[chain]).permit = fills[chain]
    BY DEF ToFillTx
  <2>4. PermitsOf(<<ToFillTx(fills[chain])>>) = <<fills[chain]>>
    BY <2>3 DEF PermitsOf
  <2> DEFINE x == ToFillTx(fills[chain])
             s == <<x>>
  <2> HIDE DEF T
  <2>5. s \in Seq(T) /\ Len(s) = 1 /\ DOMAIN s = {1} /\ s[1] = x
    BY <2>2
  <2> HIDE DEF x, s
  <2>6. FillTxs(fills, chain) = s /\ PermitsOf(s) = FillPermits(fills, chain)
        /\ x.kind = "fill"
    BY <2>1, <2>3, <2>4, Zenon DEF x, s
  <2>7. \A i \in DOMAIN s : s[i].kind = "fill"
    BY <2>5, <2>6
  <2>8. Len(s) \in {0, 1}
    BY <2>5
  <2> QED
    BY <2>5, <2>6, <2>7, <2>8, Zenon DEF T
<1>2. CASE chain \notin DOMAIN fills
  <2>1. FillTxs(fills, chain) = <<>> /\ FillPermits(fills, chain) = <<>>
    BY <1>2 DEF FillTxs, FillPermits
  <2>2. <<>> \in Seq(T) /\ Len(<<>>) = 0 /\ PermitsOf(<<>>) = <<>> /\ DOMAIN <<>> = {}
    BY DEF PermitsOf
  <2> HIDE DEF T
  <2>3. FillTxs(fills, chain) \in Seq(T)
    BY <2>1, <2>2, Zenon
  <2> QED
    BY <2>1, <2>2, <2>3
<1> QED
  BY <1>1, <1>2

LEMMA InitiateTxsShape ==
  ASSUME NEW f, NEW S, NEW orders \in Seq(S)
  PROVE  /\ InitiateTxs(f, orders) \in Seq({ToInitiateTx(p, f) : p \in S})
         /\ Len(InitiateTxs(f, orders)) = Len(orders)
         /\ \A i \in 1..Len(orders) :
              /\ InitiateTxs(f, orders)[i].kind = "initiate"
              /\ InitiateTxs(f, orders)[i].permit = orders[i]
              /\ InitiateTxs(f, orders)[i].tokenRecipient = f
<1> DEFINE T == {ToInitiateTx(p, f) : p \in S}
<1>1. Len(orders) \in Nat /\ DOMAIN orders = 1..Len(orders) /\ \A i \in 1..Len(orders) : orders[i] \in S
  OBVIOUS
<1>2. \A i \in 1..Len(orders) : InitiateTxs(f, orders)[i] = ToInitiateTx(orders[i], f)
  BY DEF InitiateTxs
<1>3. InitiateTxs(f, orders) \in [1..Len(orders) -> T]
  <2>1. \A i \in 1..Len(orders) : ToInitiateTx(orders[i], f) \in T
    BY <1>1
  <2> HIDE DEF T
  <2> QED
    BY <1>1, <2>1 DEF InitiateTxs
<1>4. \A p : /\ ToInitiateTx(p, f).kind = "initiate" /\ ToInitiateTx(p, f).permit = p
             /\ ToInitiateTx(p, f).tokenRecipient = f
  BY DEF ToInitiateTx
<1> HIDE DEF T
<1>5. InitiateTxs(f, orders) \in Seq(T) /\ Len(InitiateTxs(f, orders)) = Len(orders)
  BY <1>1, <1>3
<1> QED
  BY <1>2, <1>4, <1>5 DEF T

(* Its rollup fill comes first, if it has one, and then its orders.        *)
BundleTx(f, S, fills) ==
  {ToFillTx(fills[c]) : c \in DOMAIN fills} \cup {ToInitiateTx(p, f) : p \in S}

HasShape(b, f, S, orders, fills, k) ==
  /\ k \in {0, 1} /\ b.txs \in Seq(BundleTx(f, S, fills))
  /\ Len(b.txs) = k + Len(orders)
  /\ b.txs = FillTxs(fills, "ru") \o InitiateTxs(f, orders)
  /\ \A i \in 1..k : b.txs[i].kind = "fill" /\ b.txs[i] = FillTxs(fills, "ru")[i]
  /\ \A i \in (k + 1)..(k + Len(orders)) :
       /\ b.txs[i].kind = "initiate" /\ b.txs[i].permit = orders[i - k]
       /\ b.txs[i].tokenRecipient = f

LEMMA BundleShape ==
  ASSUME NEW b, NEW f, NEW S, NEW orders \in Seq(S), NEW fills, MadeOf(b, f, orders, fills),
         NEW k, k = Len(FillTxs(fills, "ru"))
  PROVE  HasShape(b, f, S, orders, fills, k)
<1> DEFINE F == {ToFillTx(fills[c]) : c \in DOMAIN fills}
           I == {ToInitiateTx(p, f) : p \in S}
           r == FillTxs(fills, "ru")
           u == InitiateTxs(f, orders)
<1>1. b.txs = r \o u
  BY DEF MadeOf, RollupTxs, InitiateTxs
<1>2. r \in Seq(F) /\ k \in {0, 1} /\ Len(r) = k /\ \A i \in 1..k : r[i].kind = "fill"
  <2>1. /\ FillTxs(fills, "ru") \in Seq({ToFillTx(fills[c]) : c \in DOMAIN fills})
        /\ Len(FillTxs(fills, "ru")) \in {0, 1}
        /\ \A i \in DOMAIN FillTxs(fills, "ru") : FillTxs(fills, "ru")[i].kind = "fill"
    BY FillTxsShape
  <2> HIDE DEF F, r
  <2>2. r \in Seq(F) /\ Len(r) = k
    BY <2>1 DEF r, F
  <2>3. DOMAIN r = 1..k
    BY <2>2
  <2>4. \A i \in DOMAIN r : r[i].kind = "fill"
    BY <2>1 DEF r
  <2> QED
    BY <2>1, <2>2, <2>3, <2>4
<1>3. /\ u \in Seq(I) /\ Len(u) = Len(orders) /\ Len(orders) \in Nat
      /\ \A i \in 1..Len(orders) : /\ u[i].kind = "initiate" /\ u[i].permit = orders[i]
                                   /\ u[i].tokenRecipient = f
  <2>1. Len(orders) \in Nat
    OBVIOUS
  <2> HIDE DEF u, I
  <2>2. u \in Seq(I)
    BY InitiateTxsShape DEF u, I
  <2>3. Len(u) = Len(orders)
    BY InitiateTxsShape DEF u
  <2>4. \A i \in DOMAIN orders : u[i] = ToInitiateTx(orders[i], f)
    BY DEF u, InitiateTxs
  <2>5. \A i \in 1..Len(orders) : u[i] = ToInitiateTx(orders[i], f)
    BY <2>4
  <2>6. \A p : /\ ToInitiateTx(p, f).kind = "initiate" /\ ToInitiateTx(p, f).permit = p
               /\ ToInitiateTx(p, f).tokenRecipient = f
    BY DEF ToInitiateTx
  <2> QED
    BY <2>1, <2>2, <2>3, <2>4, <2>5, <2>6
<1> HIDE DEF r, u, F, I
<1>4. r \in Seq(F \cup I) /\ u \in Seq(F \cup I)
  BY <1>2, <1>3
<1>5. /\ r \o u \in Seq(F \cup I) /\ Len(r \o u) = Len(r) + Len(u)
      /\ \A i \in 1..(Len(r) + Len(u)) :
            (r \o u)[i] = IF i <= Len(r) THEN r[i] ELSE u[i - Len(r)]
  BY ONLY <1>4, ConcatProperties
<1>6. b.txs \in Seq(F \cup I) /\ Len(b.txs) = k + Len(orders)
  BY <1>1, <1>2, <1>3, <1>5
<1>7. \A i \in 1..k : b.txs[i] = r[i]
  BY <1>1, <1>2, <1>3, <1>5
<1>8. ASSUME NEW i \in (k + 1)..(k + Len(orders))
      PROVE  b.txs[i] = u[i - k] /\ i - k \in 1..Len(orders)
  BY <1>1, <1>2, <1>3, <1>5
<1> QED
  BY <1>1, <1>2, <1>3, <1>6, <1>7, <1>8 DEF HasShape, BundleTx, r, u, F, I

LEMMA PermitsConcat ==
  ASSUME NEW S, NEW a \in Seq(S), NEW b \in Seq(S)
  PROVE  PermitsOf(a \o b) = PermitsOf(a) \o PermitsOf(b)
<1> DEFINE P == {x.permit : x \in S}
<1>1. Len(a) \in Nat /\ Len(b) \in Nat /\ DOMAIN a = 1..Len(a) /\ DOMAIN b = 1..Len(b)
      /\ a \o b \in Seq(S) /\ Len(a \o b) = Len(a) + Len(b)
      /\ \A i \in 1..(Len(a) + Len(b)) :
            (a \o b)[i] = IF i <= Len(a) THEN a[i] ELSE b[i - Len(a)]
  BY ConcatProperties
<1>2. ASSUME NEW s \in Seq(S)
      PROVE  /\ PermitsOf(s) \in Seq(P) /\ Len(PermitsOf(s)) = Len(s)
             /\ \A i \in 1..Len(s) : PermitsOf(s)[i] = s[i].permit
  <2>1. Len(s) \in Nat /\ DOMAIN s = 1..Len(s) /\ \A i \in 1..Len(s) : s[i] \in S
    OBVIOUS
  <2>2. \A i \in 1..Len(s) : s[i].permit \in P
    BY <2>1
  <2> HIDE DEF P
  <2> DEFINE p == PermitsOf(s)
             n == Len(s)
  <2>3. p \in [1..n -> P] /\ \A i \in 1..n : p[i] = s[i].permit
    BY <2>1, <2>2 DEF PermitsOf
  <2>4. n \in Nat
    BY <2>1
  <2> HIDE DEF p, n
  <2>5. p \in Seq(P) /\ Len(p) = n
    BY ONLY <2>3, <2>4
  <2> QED
    BY ONLY <2>3, <2>5 DEF p, n
<1> DEFINE A == PermitsOf(a)
           B == PermitsOf(b)
           C == PermitsOf(a \o b)
<1>3. A \in Seq(P) /\ Len(A) = Len(a) /\ \A i \in 1..Len(a) : A[i] = a[i].permit
  BY <1>2
<1>4. B \in Seq(P) /\ Len(B) = Len(b) /\ \A i \in 1..Len(b) : B[i] = b[i].permit
  BY <1>2
<1>5. C \in Seq(P) /\ Len(C) = Len(a) + Len(b)
      /\ \A i \in 1..(Len(a) + Len(b)) : C[i] = (a \o b)[i].permit
  BY <1>1, <1>2
<1> HIDE DEF A, B, C, P
<1>6. A \o B \in Seq(P) /\ Len(A \o B) = Len(a) + Len(b)
      /\ \A i \in 1..(Len(a) + Len(b)) :
            (A \o B)[i] = IF i <= Len(a) THEN A[i] ELSE B[i - Len(a)]
  <2>1. A \in Seq(P) /\ B \in Seq(P)
    BY <1>3, <1>4
  <2>2. /\ A \o B \in Seq(P) /\ Len(A \o B) = Len(A) + Len(B)
        /\ \A i \in 1..(Len(A) + Len(B)) :
              (A \o B)[i] = IF i <= Len(A) THEN A[i] ELSE B[i - Len(A)]
    BY ONLY <2>1, ConcatProperties
  <2> QED
    BY <1>3, <1>4, <2>2, Zenon
<1>7. ASSUME NEW i \in 1..(Len(a) + Len(b))
      PROVE  C[i] = (A \o B)[i]
  <2>1. CASE i <= Len(a)
    <3>1. i \in 1..Len(a)
      BY <1>1, <2>1
    <3> QED
      BY <1>1, <1>3, <1>5, <1>6, <2>1, <3>1
  <2>2. CASE ~(i <= Len(a))
    <3>1. i - Len(a) \in 1..Len(b)
      BY <1>1, <2>2
    <3> QED
      BY <1>1, <1>4, <1>5, <1>6, <2>2, <3>1
  <2> QED
    BY <2>1, <2>2
<1>8. C = A \o B
  BY <1>5, <1>6, <1>7, SeqEqual
<1> QED
  BY <1>8 DEF A, B, C

KindsParted(b, orders, fills, k, n) ==
  /\ OfKind(b, "fill", n) = FillTxs(fills, "ru")
  /\ OfKind(b, "initiate", n) = SubSeq(b.txs, k + 1, n)
  /\ PermitsOf(OfKind(b, "initiate", n)) = SubSeq(orders, 1, n - k)

LEMMA OfKindInBundle ==
  ASSUME NEW b, NEW f, NEW S, NEW orders \in Seq(S), NEW fills, NEW k, NEW n \in k..Len(b.txs),
         k = Len(FillTxs(fills, "ru")), HasShape(b, f, S, orders, fills, k)
  PROVE  KindsParted(b, orders, fills, k, n)
<1> DEFINE T == BundleTx(f, S, fills)
           r == FillTxs(fills, "ru")
           t == b.txs
<1>1. /\ k \in {0, 1} /\ t \in Seq(T) /\ Len(t) = k + Len(orders)
      /\ \A i \in 1..k : t[i].kind = "fill" /\ t[i] = r[i]
      /\ \A i \in (k + 1)..(k + Len(orders)) :
            t[i].kind = "initiate" /\ t[i].permit = orders[i - k]
  BY DEF HasShape
<1>2. Len(orders) \in Nat /\ DOMAIN orders = 1..Len(orders) /\ n \in Nat
      /\ \A i \in 1..Len(orders) : orders[i] \in S
  BY <1>1
<1>3. r \in Seq({ToFillTx(fills[c]) : c \in DOMAIN fills}) /\ Len(r) = k
  BY FillTxsShape
<1> HIDE DEF T, r, t
<1>4. DOMAIN t = 1..(k + Len(orders)) /\ n <= k + Len(orders) /\ k <= n
  BY <1>1, <1>2 DEF t
<1>5. OfKind(b, "fill", n) = r
  <2> DEFINE at == {i \in 1..n : t[i].kind = "fill"}
  <2>1. OfKind(b, "fill", n) = Kept(t, at)
    BY DEF OfKind, t
  <2>2. at \cap DOMAIN t = 1..k
    <3>1. \A i \in 1..n : i \in at => i <= k
      BY <1>1, <1>2, <1>4
    <3> QED
      BY <1>1, <1>2, <1>4, <3>1
  <2>3. Kept(t, at) = SubSeq(t, 1, k)
    <3>1. k \in Nat /\ k <= Len(t)
      BY <1>1, <1>2
    <3> HIDE DEF at
    <3> QED
      BY ONLY <1>1, <2>2, <3>1, KeptPrefix, Zenon
  <2>4. SubSeq(t, 1, k) = r
    <3>1. k \in Nat /\ k <= Len(t) /\ k \in Int /\ 1 \in Int
      BY <1>1, <1>2
    <3>2. /\ SubSeq(t, 1, k) \in Seq(T) /\ Len(SubSeq(t, 1, k)) = k
          /\ \A i \in 1..k : SubSeq(t, 1, k)[i] = t[i]
      BY <1>1, <3>1
    <3>3. \A i \in 1..k : SubSeq(t, 1, k)[i] = r[i]
      BY <1>1, <3>2
    <3> QED
      BY <1>3, <3>2, <3>3, SeqEqual
  <2> QED
    BY <2>1, <2>3, <2>4
<1>6. OfKind(b, "initiate", n) = SubSeq(t, k + 1, n)
  <2> DEFINE at == {i \in 1..n : t[i].kind = "initiate"}
  <2>1. OfKind(b, "initiate", n) = Kept(t, at)
    BY DEF OfKind, t
  <2>2. at \cap DOMAIN t = (k + 1)..n
    <3>1. \A i \in 1..n : i \in at <=> i >= k + 1
      <4> SUFFICES ASSUME NEW i \in 1..n PROVE t[i].kind = "initiate" <=> i >= k + 1
        OBVIOUS
      <4>1. CASE i <= k
        <5>1. t[i].kind = "fill"
          BY <1>1, <4>1
        <5>2. "fill" # "initiate"
          OBVIOUS
        <5> QED
          BY <1>1, <4>1, <5>1, <5>2
      <4>2. CASE ~(i <= k)
        <5>1. i \in (k + 1)..(k + Len(orders)) /\ i >= k + 1
          BY <1>1, <1>2, <1>4, <4>2
        <5> QED
          BY <1>1, <5>1
      <4> QED
        BY <4>1, <4>2
    <3> QED
      BY <1>1, <1>2, <1>4, <3>1
  <2> DEFINE a == k + 1
  <2>3. /\ t \in Seq(T) /\ a \in Nat /\ n \in Nat
        /\ a >= 1 /\ n <= Len(t) /\ a <= n + 1 /\ at \cap DOMAIN t = a..n
    BY <1>1, <1>2, <1>4, <2>2
  <2> HIDE DEF at, a
  <2>5. Kept(t, at) = SubSeq(t, a, n)
    BY ONLY <2>3, KeptSlice
  <2>4. Kept(t, at) = SubSeq(t, k + 1, n)
    BY ONLY <2>5 DEF a
  <2> QED
    BY <2>1, <2>4
<1>7. PermitsOf(SubSeq(t, k + 1, n)) = SubSeq(orders, 1, n - k)
  <2> DEFINE u == SubSeq(t, k + 1, n)
             v == SubSeq(orders, 1, n - k)
  <2>1. /\ u \in Seq(T) /\ Len(u) = n - k /\ n - k \in Nat
        /\ \A i \in 1..(n - k) : u[i] = t[k + i]
    <3>1. k + 1 \in 1..(Len(t) + 1) /\ n \in ((k + 1) - 1)..Len(t)
      BY <1>1, <1>2, <1>4
    <3>2. /\ u \in Seq(T) /\ Len(u) = n - (k + 1) + 1
          /\ \A i \in 1..(n - (k + 1) + 1) : u[i] = t[(k + 1) + i - 1]
      BY <1>1, <3>1, SubSeqProperties
    <3>3. n - (k + 1) + 1 = n - k /\ n - k \in Nat
          /\ \A i \in 1..(n - k) : (k + 1) + i - 1 = k + i
      BY <1>1, <1>2, <1>4
    <3> HIDE DEF u
    <3> QED
      BY <3>2, <3>3
  <2>2. /\ v \in Seq(S) /\ Len(v) = n - k
        /\ \A i \in 1..(n - k) : v[i] = orders[i]
    BY <1>1, <1>2, <1>4, <2>1
  <2> HIDE DEF u, v
  <2>3. ASSUME NEW i \in 1..(n - k)
        PROVE  u[i].permit = v[i]
    <3>1. k + i \in (k + 1)..(k + Len(orders)) /\ (k + i) - k = i
      BY <1>1, <1>2, <1>4
    <3>2. t[k + i].permit = orders[i]
      BY <1>1, <3>1
    <3> QED
      BY <2>1, <2>2, <3>2
  <2>4. DOMAIN u = 1..(n - k)
    BY <2>1
  <2>5. PermitsOf(u) = [i \in 1..(n - k) |-> u[i].permit]
    BY <2>4 DEF PermitsOf
  <2>6. v = [i \in 1..(n - k) |-> v[i]]
    BY <2>1, <2>2
  <2>7. PermitsOf(u) = v
    BY <2>3, <2>5, <2>6
  <2> QED
    BY <2>7 DEF u, v
<1> QED
  BY <1>5, <1>6, <1>7 DEF KindsParted, t, r

(* What the market sees of the bundle after its n-th transaction.          *)
AggregatesAre(b, orders, fills, k, n) ==
  /\ FillsUpTo(b, n) = Aggregated(orders)
  /\ OrdersUpTo(b, n) = Aggregated(SubSeq(orders, 1, n - k))
  /\ PermitsOf(b.hostTxs \o OfKind(b, "fill", n))
       = FillPermits(fills, "host") \o FillPermits(fills, "ru")

LEMMA BundleAggregates ==
  ASSUME NEW b, NEW f, NEW orders \in Seq(SignedOrders), NEW fills, NEW k, NEW n,
         IsFill(f, orders, fills), MadeOf(b, f, orders, fills),
         KindsParted(b, orders, fills, k, n)
  PROVE  AggregatesAre(b, orders, fills, k, n)
<1> DEFINE h == FillTxs(fills, "host")
           r == FillTxs(fills, "ru")
           F == {ToFillTx(fills[c]) : c \in DOMAIN fills}
<1>1. OfKind(b, "fill", n) = r /\ PermitsOf(OfKind(b, "initiate", n)) = SubSeq(orders, 1, n - k)
  BY DEF KindsParted
<1>2. b.hostTxs = h
  BY DEF MadeOf
<1>3. h \in Seq(F) /\ r \in Seq(F) /\ PermitsOf(h) = FillPermits(fills, "host")
      /\ PermitsOf(r) = FillPermits(fills, "ru")
  BY FillTxsShape
<1> HIDE DEF h, r, F
<1>4. PermitsOf(h \o r) = FillPermits(fills, "host") \o FillPermits(fills, "ru")
  BY <1>3, PermitsConcat
<1>5. PermitsOf(b.hostTxs \o OfKind(b, "fill", n))
        = FillPermits(fills, "host") \o FillPermits(fills, "ru")
  BY <1>1, <1>2, <1>4
<1>6. FillsUpTo(b, n) = Aggregated(orders)
  BY <1>5, FillsPayAll DEF FillsUpTo
<1>7. OrdersUpTo(b, n) = Aggregated(SubSeq(orders, 1, n - k))
  BY <1>1 DEF OrdersUpTo
<1> QED
  BY <1>5, <1>6, <1>7 DEF AggregatesAre

LEMMA GoodBundlePays ==
  ASSUME NEW b, GoodBundle(b)
  PROVE  CoveredBundle(b) /\ FillsUpTo(b, Len(b.txs)) = OrdersUpTo(b, Len(b.txs))
<1>1. PICK f \in Filler, orders \in Seq(SignedOrders) : \E fills :
        IsFill(f, orders, fills) /\ MadeOf(b, f, orders, fills)
  BY DEF GoodBundle
<1>2. PICK fills : IsFill(f, orders, fills) /\ MadeOf(b, f, orders, fills)
  BY <1>1
<1> DEFINE k == Len(FillTxs(fills, "ru"))
           m == Len(b.txs)
<1> HIDE DEF k
<1>0. HasShape(b, f, SignedOrders, orders, fills, k)
  <2>1. k = Len(FillTxs(fills, "ru"))
    BY DEF k
  <2> QED
    BY <1>2, <2>1, BundleShape
<1>3. k \in {0, 1} /\ m = k + Len(orders) /\ DOMAIN b.txs = 1..m /\ Len(orders) \in Nat
  BY <1>0 DEF HasShape
<1>4. \A n \in k..m : FillsUpTo(b, n) = Aggregated(orders)
                      /\ OrdersUpTo(b, n) = Aggregated(SubSeq(orders, 1, n - k))
  <2> SUFFICES ASSUME NEW n \in k..m
               PROVE  AggregatesAre(b, orders, fills, k, n)
    BY DEF AggregatesAre
  <2>1. n \in k..Len(b.txs) /\ k = Len(FillTxs(fills, "ru"))
    BY DEF k
  <2>2. KindsParted(b, orders, fills, k, n)
    BY <1>0, <2>1, OfKindInBundle
  <2> QED
    BY <1>2, <2>2, BundleAggregates
<1> HIDE DEF k, m
<1>5. ASSUME NEW n \in 1..m
      PROVE  CheckRuTxEvents(EmptyMap, FillsUpTo(b, n), OrdersUpTo(b, n))
  <2>1. n \in k..m /\ n - k \in 0..Len(orders)
    BY <1>3
  <2>2. FillsUpTo(b, n) = Aggregated(orders)
        /\ OrdersUpTo(b, n) = Aggregated(SubSeq(orders, 1, n - k))
    BY <1>4, <2>1
  <2> DEFINE agg == Aggregated(orders)
             part == Aggregated(SubSeq(orders, 1, n - k))
  <2>3. /\ SubSeq(orders, 1, n - k) \in Seq(SignedOrders)
        /\ \A s \in DOMAIN part : part[s] <= Filled(agg, s)
    BY <2>1, SignedOrdersListed, PrefixAsksLess
  <2>4. agg \in SlotMap /\ part \in SlotMap
    BY <2>3, SignedOrdersListed, AggregatedType
  <2> HIDE DEF agg, part
  <2>5. ASSUME NEW s \in DOMAIN part
        PROVE  part[s] <= SatAdd(Filled(EmptyMap, s), Filled(agg, s))
    <3>1. s \in Slot /\ part[s] \in Amount /\ Filled(agg, s) \in Amount
      BY <2>4, SlotMapMembers, FilledType
    <3>2. Filled(EmptyMap, s) = 0
      BY <3>1, EmptyMapFacts
    <3>3. SatAdd(0, Filled(agg, s)) = Filled(agg, s)
      BY <3>1, MaxAmountAssumption DEF SatAdd, Amount
    <3> QED
      BY <2>3, <3>2, <3>3
  <2> QED
    BY <2>2, <2>5 DEF CheckRuTxEvents, agg, part
<1>6. CoveredBundle(b)
  BY <1>3, <1>5 DEF CoveredBundle
<1>7. FillsUpTo(b, m) = OrdersUpTo(b, m)
  <2>1. m \in k..m /\ m - k = Len(orders)
    BY <1>3
  <2>2. SubSeq(orders, 1, Len(orders)) = orders
    BY SubSeqFull
  <2> QED
    BY <1>4, <2>1, <2>2
<1> QED
  BY <1>6, <1>7 DEF m

-----------------------------------------------------------------------------
(* What is known of a filler, as far as its bundles go.                    *)
Progress ==
  {"at", "cursor", "before", "orders", "complete", "count", "fills", "signed", "bundle",
   "targets", "stored", "result"}
IsProgress(p) == DOMAIN p = Progress /\ p = [x \in Progress |-> p[x]]

WellMade(b) ==
  /\ b = [txs |-> b.txs, hostTxs |-> b.hostTxs, blockNumber |-> b.blockNumber]
  /\ GoodBundle(b)

FillerOK(f, p, bs) ==
  /\ IsProgress(p)
  /\ p.at \in {"idle", "streaming", "got", "signed", "submitting"}
  /\ p.fills \in 0..MaxFills[f]
  /\ p.orders \in Seq(SignedOrders)
  /\ p.stored \subseteq p.targets
  /\ p.at = "signed" => p.stored = {} /\ p.result = {}
  /\ p.at # "signed" => p.signed = {}
  /\ \A fills \in p.signed : IsFill(f, p.orders, fills)
  /\ \A b \in p.bundle : WellMade(b)
  /\ p.result = {TRUE} => p.stored = p.targets
  /\ \A t \in p.stored, b \in p.bundle : ForTarget(b, t) \in bs

(* And as far as its stream goes: when the pages before a cursor have been *)
(* read, the orders that it wants of them are there, each of them once.    *)
WantedAt(f, order, time) ==
  ~ExpiredAt(order, time) /\ HasOutputChain(order, Options[f].serves)

Found(p, order) == \E j \in DOMAIN p.orders : p.orders[j] = order

Yielded(f, p, s, at, time, c) ==
  /\ c \in 0..Len(s)
  /\ Distinct(p.orders)
  /\ \A j \in DOMAIN p.orders : \E k \in 1..c : p.orders[j] = s[k]
  /\ \A i \in p.before \cap at : i <= c /\ WantedAt(f, s[i], time) => Found(p, s[i])

YieldedAll(f, p, s, at, time) ==
  /\ Distinct(p.orders)
  /\ \A i \in p.before \cap at : WantedAt(f, s[i], time) => Found(p, s[i])

StreamOK(f, p, s, at, time) ==
  /\ p.before \subseteq DOMAIN s
  /\ p.at = "streaming" => \A c \in p.cursor : Yielded(f, p, s, at, time, c)
  /\ p.complete => YieldedAll(f, p, s, at, time)

LEMMA FillerOKGrows ==
  ASSUME NEW f, NEW p, NEW bs, NEW more, FillerOK(f, p, bs), bs \subseteq more
  PROVE  FillerOK(f, p, more)
BY DEF FillerOK

LEMMA StreamOKGrows ==
  ASSUME NEW f, NEW p, NEW s \in Seq(SignedOrders), NEW at, at \subseteq DOMAIN s, NEW time,
         NEW x \in SignedOrders, StreamOK(f, p, s, at, time)
  PROVE  StreamOK(f, p, Append(s, x), at \cup {Len(s) + 1}, time)
<1> DEFINE u == Append(s, x)
           m == Len(s) + 1
<1>1. /\ Len(s) \in Nat /\ DOMAIN s = 1..Len(s) /\ DOMAIN u = 1..m /\ Len(u) = m
      /\ \A i \in 1..Len(s) : u[i] = s[i]
  BY AppendProperties
<1> HIDE DEF u
<1>2. p.before \subseteq DOMAIN s
  BY DEF StreamOK
<1>3. \A i \in p.before \cap (at \cup {m}) : i \in p.before \cap at /\ u[i] = s[i]
  BY <1>1, <1>2
<1>4. ASSUME NEW c, Yielded(f, p, s, at, time, c)
      PROVE  Yielded(f, p, u, at \cup {m}, time, c)
  <2>1. c \in 0..Len(s) /\ c \in 0..Len(u) /\ \A k \in 1..c : u[k] = s[k]
    BY <1>1, <1>4 DEF Yielded
  <2> QED
    BY <1>3, <1>4, <2>1 DEF Yielded
<1>5. ASSUME YieldedAll(f, p, s, at, time)
      PROVE  YieldedAll(f, p, u, at \cup {m}, time)
  BY <1>3, <1>5 DEF YieldedAll
<1>6. p.before \subseteq DOMAIN u
  BY <1>1, <1>2
<1> QED
  BY <1>4, <1>5, <1>6 DEF StreamOK, u

(* Orders that go, or expire, are no longer missed.                        *)
LEMMA StreamOKShrinks ==
  ASSUME NEW f, NEW p, NEW s \in Seq(SignedOrders), NEW at, at \subseteq DOMAIN s,
         NEW fewer, fewer \subseteq at, NEW time \in Int, NEW later \in Int, time <= later,
         StreamOK(f, p, s, at, time)
  PROVE  StreamOK(f, p, s, fewer, later)
<1>1. \A q \in SignedOrders : q.deadline \in Int
  BY FlowAssumption DEF SignedOrders, SignOrder, Permit
<1>2. ASSUME NEW i \in at, WantedAt(f, s[i], later)
      PROVE  WantedAt(f, s[i], time)
  <2>1. s[i] \in SignedOrders
    OBVIOUS
  <2>2. s[i].deadline \in Int
    BY <1>1, <2>1
  <2> QED
    BY <1>2, <2>2 DEF WantedAt, ExpiredAt
<1>3. ASSUME NEW c, Yielded(f, p, s, at, time, c)
      PROVE  Yielded(f, p, s, fewer, later, c)
  BY <1>2, <1>3 DEF Yielded
<1>4. ASSUME YieldedAll(f, p, s, at, time)
      PROVE  YieldedAll(f, p, s, fewer, later)
  BY <1>2, <1>4 DEF YieldedAll
<1> QED
  BY <1>3, <1>4 DEF StreamOK

(* A stream that has ended, whatever becomes of the rest.                  *)
LEMMA StreamOKEnded ==
  ASSUME NEW f, NEW p, NEW q, NEW s, NEW at, NEW time, StreamOK(f, p, s, at, time),
         q.before = p.before, q.orders = p.orders, q.complete = p.complete,
         q.at # "streaming"
  PROVE  StreamOK(f, q, s, at, time)
BY DEF StreamOK, YieldedAll, Found

-----------------------------------------------------------------------------
(* A page is a run of what is listed after the cursor, and there is a next *)
(* cursor unless that is all.                                              *)
LEMMA PageFacts ==
  ASSUME NEW m \in Nat, listed \subseteq 1..m, NEW c \in 0..m
  PROVE  /\ Page(c) \subseteq listed /\ \A i \in Page(c) : i > c
         /\ \A i \in listed, k \in Page(c) : c < i /\ i <= k => i \in Page(c)
         /\ \A k \in NextCursor(c) : k \in Page(c) /\ \A i \in Page(c) : i <= k
         /\ NextCursor(c) = {} => \A i \in listed : i > c => i \in Page(c)
<1> DEFINE between(i) == {j \in listed : c < j /\ j < i}
<1>1. IsFiniteSet(listed)
  <2>1. IsFiniteSet(1..m)
    BY FS_Interval
  <2> QED
    BY <2>1, FS_Subset
<1>2. \A i : IsFiniteSet(between(i)) /\ Cardinality(between(i)) \in Nat
  <2> SUFFICES ASSUME NEW i PROVE IsFiniteSet(between(i)) /\ Cardinality(between(i)) \in Nat
    OBVIOUS
  <2>1. between(i) \subseteq listed
    OBVIOUS
  <2> QED
    BY <1>1, <2>1, FS_Subset, FS_CardinalityType
<1>3. \A i : i \in Page(c) <=> i \in listed /\ i > c /\ Cardinality(between(i)) < PageSize
  BY DEF Page
<1>4. m \in Int /\ \A i \in listed : i \in Int /\ i <= m /\ i >= 1
  OBVIOUS
<1>5. PageSize \in Nat /\ PageSize > 0 /\ c \in Int /\ c >= 0
  BY FlowAssumption
<1>6. ASSUME NEW i \in listed, NEW k \in Page(c), c < i, i <= k
      PROVE  i \in Page(c)
  <2>1. k \in listed /\ Cardinality(between(k)) < PageSize
    BY <1>3
  <2>2. between(i) \subseteq between(k)
    <3> SUFFICES ASSUME NEW j \in listed, c < j, j < i PROVE j < k
      OBVIOUS
    <3>1. j \in Int /\ i \in Int /\ k \in Int
      BY <1>4, <2>1
    <3> QED
      BY <1>6, <3>1
  <2>3. Cardinality(between(i)) <= Cardinality(between(k))
    <3> HIDE DEF between
    <3> QED
      BY <1>2, <2>2, FS_Subset
  <2>4. Cardinality(between(i)) < PageSize
    <3> HIDE DEF between
    <3> QED
      BY <1>2, <1>5, <2>1, <2>3
  <2>5. i > c
    BY <1>4, <1>5, <1>6
  <2> QED
    BY <1>3, <2>4, <2>5
<1>7. \A k \in NextCursor(c) : k \in Page(c) /\ \A i \in Page(c) : i <= k
  <2> SUFFICES ASSUME NEW k \in NextCursor(c), NEW i \in Page(c)
               PROVE  k \in Page(c) /\ i <= k
    <3>1. \A k \in NextCursor(c) : k \in Page(c)
      BY DEF NextCursor, PageCursor
    <3> QED
      BY <3>1
  <2>1. k \in Page(c) /\ k >= i
    BY DEF NextCursor, PageCursor
  <2>2. k \in Int /\ i \in Int
    BY <1>3, <1>4, <2>1
  <2> QED
    BY <2>1, <2>2
<1>8. ASSUME NextCursor(c) = {}, NEW i \in listed, i > c, i \notin Page(c)
      PROVE  FALSE
  <2>1. \A k \in Page(c) : k < i
    <3> SUFFICES ASSUME NEW k \in Page(c), ~(k < i) PROVE FALSE
      OBVIOUS
    <3>1. k \in Int /\ i \in Int /\ c < i
      BY <1>3, <1>4, <1>5, <1>8
    <3>2. i <= k
      BY <3>1
    <3> QED
      BY <1>6, <1>8, <3>1, <3>2
  <2> DEFINE after == {j \in listed : j > c}
  <2>2. PICK least \in after : \A j \in after : least <= j
    <3>1. after \in SUBSET Nat /\ after # {}
      <4>1. listed \subseteq Nat
        BY <1>4
      <4>3. after \subseteq listed
        OBVIOUS
      <4>2. i \in after
        BY <1>8
      <4> HIDE DEF after
      <4> QED
        BY <4>1, <4>2, <4>3
    <3> HIDE DEF after
    <3> QED
      BY <3>1, LeastNatural
  <2>3. between(least) = {}
    <3>1. least \in Int
      BY <1>4
    <3> SUFFICES ASSUME NEW j \in listed, c < j, j < least PROVE FALSE
      OBVIOUS
    <3>2. j \in Int /\ j > c
      BY <1>4, <1>5
    <3>3. least <= j
      BY <2>2, <3>2
    <3> QED
      BY <3>1, <3>2, <3>3
  <2>4. least \in Page(c)
    BY <1>3, <1>5, <2>2, <2>3, FS_EmptySet
  <2> DEFINE gaps == {m - k : k \in Page(c)}
  <2>5. PICK gap \in gaps : \A g \in gaps : gap <= g
    <3>1. \A k \in Page(c) : m - k \in Nat
      <4> SUFFICES ASSUME NEW k \in Page(c) PROVE m - k \in Nat
        OBVIOUS
      <4>1. k \in listed
        BY <1>3
      <4>2. k \in Int /\ k <= m
        BY <1>4, <4>1
      <4> QED
        BY <1>4, <4>2
    <3>2. gaps \in SUBSET Nat /\ gaps # {}
      BY <2>4, <3>1
    <3> HIDE DEF gaps
    <3> QED
      BY <3>2, LeastNatural
  <2>6. PICK last \in Page(c) : gap = m - last
    OBVIOUS
  <2>7. \A k \in Page(c) : last >= k
    <3> SUFFICES ASSUME NEW k \in Page(c) PROVE last >= k
      OBVIOUS
    <3>1. m - last <= m - k
      BY <2>5, <2>6
    <3>2. k \in listed /\ last \in listed
      BY <1>3
    <3>3. k \in Int /\ last \in Int
      BY <1>4, <3>2
    <3> QED
      BY <1>4, <3>1, <3>3
  <2>8. \A k \in Page(c) : i > k
    BY <1>3, <1>4, <2>1
  <2>9. last \in NextCursor(c)
    BY <2>7, <2>8, <1>8 DEF NextCursor, PageCursor
  <2> QED
    BY <1>8, <2>9
<1> QED
  BY <1>3, <1>6, <1>7, <1>8

LEMMA PageYields ==
  ASSUME NEW f, NEW s \in Seq(SignedOrders), Distinct(s), NEW at, at \subseteq DOMAIN s,
         NEW time, NEW p, p.orders \in Seq(SignedOrders), NEW c, Yielded(f, p, s, at, time, c),
         NEW page, page \subseteq at, \A i \in page : i > c,
         NEW q, q.before = p.before,
         q.orders = p.orders \o Kept(s, {i \in page : WantedAt(f, s[i], time)})
  PROVE  /\ q.orders \in Seq(SignedOrders)
         /\ \A d \in 0..Len(s) :
              /\ c <= d /\ \A i \in page : i <= d
              /\ \A i \in at : c < i /\ i <= d => i \in page
              => Yielded(f, q, s, at, time, d)
         /\ (\A i \in at : i > c => i \in page) => YieldedAll(f, q, s, at, time)
<1> DEFINE wanted == {i \in page : WantedAt(f, s[i], time)}
           a == p.orders
           b == Kept(s, wanted)
           o == q.orders
<1>1. b \in Seq(SignedOrders) /\ Distinct(b)
  <2> HIDE DEF wanted
  <2> QED
    BY KeptType, KeptDistinct
<1>2. /\ \A j \in DOMAIN b : \E i \in DOMAIN s : i \in wanted /\ b[j] = s[i]
      /\ \A i \in DOMAIN s : i \in wanted => \E j \in DOMAIN b : b[j] = s[i]
  <2>1. s \in Seq(SignedOrders) /\ b = Kept(s, wanted)
    OBVIOUS
  <2> HIDE DEF wanted, b
  <2> QED
    BY ONLY <2>1, KeptElements
<1>3. o = a \o b
  OBVIOUS
<1> HIDE DEF b, o
<1> DEFINE n == Len(a)
           l == Len(b)
<1>4. /\ a \in Seq(SignedOrders) /\ n \in Nat /\ DOMAIN a = 1..n
      /\ l \in Nat /\ DOMAIN b = 1..l
      /\ o \in Seq(SignedOrders) /\ Len(o) = n + l /\ DOMAIN o = 1..(n + l)
      /\ \A j \in 1..(n + l) : o[j] = IF j <= n THEN a[j] ELSE b[j - n]
  BY <1>1, <1>3, ConcatProperties
<1> HIDE DEF a, n, l
<1>5. /\ c \in 0..Len(s) /\ Distinct(a)
      /\ \A j \in DOMAIN a : \E k \in 1..c : a[j] = s[k]
      /\ \A i \in p.before \cap at : i <= c /\ WantedAt(f, s[i], time) => Found(p, s[i])
  BY DEF Yielded, a
<1>6. /\ \A j \in 1..n : j \in DOMAIN o /\ o[j] = a[j]
      /\ \A j \in 1..l : n + j \in DOMAIN o /\ o[n + j] = b[j]
  BY <1>4
<1>7. DOMAIN s = 1..Len(s) /\ Len(s) \in Nat
  OBVIOUS
<1>8. ASSUME NEW i \in page, WantedAt(f, s[i], time)
      PROVE  Found(q, s[i])
  <2>1. PICK j \in DOMAIN b : b[j] = s[i]
    BY <1>2, <1>8
  <2>2. n + j \in DOMAIN o /\ o[n + j] = s[i]
    BY <1>4, <1>6, <2>1
  <2> QED
    BY <2>2 DEF Found, o
<1>9. ASSUME NEW x, Found(p, x)
      PROVE  Found(q, x)
  <2>1. PICK j \in DOMAIN a : a[j] = x
    BY <1>9 DEF Found, a
  <2>2. j \in DOMAIN o /\ o[j] = x
    BY <1>4, <1>6, <2>1
  <2> QED
    BY <2>2 DEF Found, o
<1>10. \A j \in DOMAIN o : \/ j \in DOMAIN a /\ o[j] = a[j]
                           \/ j - n \in DOMAIN b /\ o[j] = b[j - n] /\ j > n
  BY <1>4
<1>11. \A j \in DOMAIN a, l1 \in DOMAIN b : a[j] # b[l1]
  <2> SUFFICES ASSUME NEW j \in DOMAIN a, NEW l1 \in DOMAIN b, a[j] = b[l1] PROVE FALSE
    OBVIOUS
  <2>1. PICK k \in 1..c : a[j] = s[k]
    BY <1>5
  <2>2. PICK i \in DOMAIN s : i \in wanted /\ b[l1] = s[i]
    BY <1>2
  <2>3. k \in DOMAIN s /\ k <= c
    BY <1>5, <1>7
  <2>4. k = i
    BY <2>1, <2>2, <2>3 DEF Distinct
  <2>5. i > c
    BY <2>2
  <2> QED
    BY <1>5, <1>7, <2>3, <2>4, <2>5
<1>12. Distinct(o)
  <2> SUFFICES ASSUME NEW i \in DOMAIN o, NEW j \in DOMAIN o, o[i] = o[j] PROVE i = j
    BY DEF Distinct
  <2>1. CASE i \in DOMAIN a /\ o[i] = a[i] /\ j \in DOMAIN a /\ o[j] = a[j]
    BY <1>5, <2>1 DEF Distinct
  <2>2. CASE i - n \in DOMAIN b /\ o[i] = b[i - n] /\ j - n \in DOMAIN b /\ o[j] = b[j - n]
    <3>1. i - n = j - n
      BY <1>1, <2>2 DEF Distinct
    <3> QED
      BY <1>4, <3>1
  <2> QED
    BY <1>10, <1>11, <2>1, <2>2
<1>13. \A j \in DOMAIN o : \/ \E k \in 1..c : o[j] = s[k]
                           \/ \E k \in page : o[j] = s[k]
  <2> SUFFICES ASSUME NEW j \in DOMAIN o
               PROVE  (\E k \in 1..c : o[j] = s[k]) \/ \E k \in page : o[j] = s[k]
    OBVIOUS
  <2>1. CASE j \in DOMAIN a /\ o[j] = a[j]
    BY <1>5, <2>1
  <2>2. CASE j - n \in DOMAIN b /\ o[j] = b[j - n]
    <3>1. PICK i \in DOMAIN s : i \in wanted /\ b[j - n] = s[i]
      BY <1>2, <2>2
    <3> QED
      BY <2>2, <3>1
  <2> QED
    BY <1>10, <2>1, <2>2
<1>14. ASSUME NEW d \in 0..Len(s), c <= d, \A i \in page : i <= d,
              \A i \in at : c < i /\ i <= d => i \in page
       PROVE  Yielded(f, q, s, at, time, d)
  <2>1. ASSUME NEW j \in DOMAIN o
        PROVE  \E k \in 1..d : o[j] = s[k]
    <3>1. CASE \E k \in 1..c : o[j] = s[k]
      <4>1. \A k \in 1..c : k \in 1..d
        BY <1>5, <1>7, <1>14
      <4> QED
        BY <3>1, <4>1
    <3>2. CASE \E k \in page : o[j] = s[k]
      <4>1. \A k \in page : k \in 1..d
        BY <1>7, <1>14
      <4> QED
        BY <3>2, <4>1
    <3> QED
      BY <1>13, <3>1, <3>2
  <2>2. ASSUME NEW i \in p.before \cap at, i <= d, WantedAt(f, s[i], time)
        PROVE  Found(q, s[i])
    <3>1. CASE i <= c
      BY <1>5, <1>9, <2>2, <3>1
    <3>2. CASE ~(i <= c)
      <4>1. i \in at /\ c < i
        BY <1>5, <1>7, <3>2
      <4> QED
        BY <1>8, <1>14, <2>2, <4>1
    <3> QED
      BY <3>1, <3>2
  <2> QED
    BY <1>12, <2>1, <2>2 DEF Yielded, o
<1>15. ASSUME \A i \in at : i > c => i \in page
       PROVE  YieldedAll(f, q, s, at, time)
  <2>1. ASSUME NEW i \in p.before \cap at, WantedAt(f, s[i], time)
        PROVE  Found(q, s[i])
    <3>1. CASE i <= c
      BY <1>5, <1>9, <2>1, <3>1
    <3>2. CASE ~(i <= c)
      <4>1. i \in at /\ i > c
        BY <1>5, <1>7, <3>2
      <4> QED
        BY <1>8, <1>15, <2>1, <4>1
    <3> QED
      BY <3>1, <3>2
  <2> QED
    BY <1>12, <2>1 DEF YieldedAll, o
<1> QED
  BY <1>4, <1>14, <1>15 DEF o

-----------------------------------------------------------------------------
(* What a bundle pays and takes, once it is in a block.                    *)
KeyOf(p) == <<p.signedFor[1], p.owner, p.nonce>>

LEMMA BundlePays ==
  ASSUME NEW b, NEW by, NEW orders \in Seq(SignedOrders), NEW fills, NEW k,
         IsFill(by, orders, fills), AggregatesAre(b, orders, fills, k, Len(b.txs)), NEW f
  PROVE  Aggregated(PaidBy(b, f)) = IF f = by THEN Aggregated(orders) ELSE EmptyMap
<1> DEFINE S == {fills[c] : c \in DOMAIN fills}
           h == FillPermits(fills, "host")
           r == FillPermits(fills, "ru")
           P == h \o r
           at == {i \in DOMAIN P : P[i].owner = f}
<1>1. PermitsOf(b.hostTxs \o OfKind(b, "fill", Len(b.txs))) = P
  BY DEF AggregatesAre
<1>2. PaidBy(b, f) = Kept(P, at)
  BY <1>1 DEF PaidBy
<1>3. h \in Seq(S) /\ r \in Seq(S)
  BY FillPermitsPay
<1>4. Aggregated(P) = Aggregated(orders)
  BY FillsPayAll
<1>5. \A p \in S : p.owner = by
  BY DEF IsFill
<1> HIDE DEF h, r, S
<1>6. P \in Seq(S)
  BY <1>3, ConcatProperties
<1> HIDE DEF P
<1>7. \A i \in DOMAIN P : P[i].owner = by
  BY <1>5, <1>6
<1>8. CASE f = by
  <2>1. DOMAIN P \subseteq at
    BY <1>7, <1>8
  <2> HIDE DEF at
  <2>2. Kept(P, at) = P
    BY <1>6, <2>1, KeptAll
  <2> QED
    BY <1>2, <1>4, <1>8, <2>2
<1>9. CASE f # by
  <2>1. at \cap DOMAIN P = {}
    BY <1>7, <1>9
  <2> HIDE DEF at
  <2>2. Kept(P, at) = <<>>
    BY <1>6, <2>1, KeptNone
  <2> QED
    BY <1>2, <1>9, <2>2, AggregatedNone, Zenon
<1> QED
  BY <1>8, <1>9

LEMMA BundleTakes ==
  ASSUME NEW b, NEW by, NEW orders \in Seq(SignedOrders), NEW fills, NEW k,
         HasShape(b, by, SignedOrders, orders, fills, k),
         KindsParted(b, orders, fills, k, Len(b.txs)), NEW f
  PROVE  TakenBy(b, f) = IF f = by THEN orders ELSE <<>>
<1> DEFINE T == BundleTx(by, SignedOrders, fills)
           t == b.txs
           m == Len(orders)
           I == SubSeq(t, k + 1, k + m)
           at == {i \in DOMAIN I : I[i].tokenRecipient = f}
<1>1. /\ k \in {0, 1} /\ t \in Seq(T) /\ Len(t) = k + m /\ m \in Nat
      /\ \A i \in (k + 1)..(k + m) : t[i].tokenRecipient = by
  BY DEF HasShape
<1>2. OfKind(b, "initiate", k + m) = I /\ PermitsOf(I) = SubSeq(orders, 1, m)
  <2>1. ASSUME NEW n, n = k + m
        PROVE  /\ OfKind(b, "initiate", n) = SubSeq(b.txs, k + 1, n)
               /\ PermitsOf(OfKind(b, "initiate", n)) = SubSeq(orders, 1, m)
    <3>1. KindsParted(b, orders, fills, k, n)
      BY <1>1, <2>1
    <3>2. /\ OfKind(b, "initiate", n) = SubSeq(b.txs, k + 1, n)
          /\ PermitsOf(OfKind(b, "initiate", n)) = SubSeq(orders, 1, n - k)
      BY ONLY <3>1 DEF KindsParted
    <3>3. n - k = m
      BY <1>1, <2>1
    <3> QED
      BY <3>2, <3>3, Zenon
  <2> HIDE DEF m, I
  <2>2. OfKind(b, "initiate", k + m) = I
    BY <2>1, Zenon DEF I
  <2>3. PermitsOf(OfKind(b, "initiate", k + m)) = SubSeq(orders, 1, m)
    BY <2>1, Zenon
  <2> QED
    BY <2>2, <2>3, Zenon
<1>3. TakenBy(b, f) = PermitsOf(Kept(I, at))
  BY <1>1, <1>2 DEF TakenBy
<1>4. PermitsOf(I) = orders
  <2>1. SubSeq(orders, 1, Len(orders)) = orders
    BY SubSeqFull
  <2> QED
    BY <1>2, <2>1
<1> HIDE DEF T, t, m
<1>5. I \in Seq(T) /\ \A i \in DOMAIN I : I[i].tokenRecipient = by
  <2>1. k + 1 \in 1..(Len(t) + 1) /\ k + m \in ((k + 1) - 1)..Len(t)
    BY <1>1
  <2>2. /\ I \in Seq(T) /\ Len(I) = (k + m) - (k + 1) + 1
        /\ \A i \in 1..((k + m) - (k + 1) + 1) : I[i] = t[(k + 1) + i - 1]
    BY <1>1, <2>1, SubSeqProperties
  <2>3. (k + m) - (k + 1) + 1 = m /\ \A i \in 1..m : (k + 1) + i - 1 \in (k + 1)..(k + m)
    BY <1>1
  <2> HIDE DEF I
  <2>4. DOMAIN I = 1..m
    BY <1>1, <2>2, <2>3
  <2>5. ASSUME NEW i \in 1..m
        PROVE  I[i].tokenRecipient = by
    <3>1. I[i] = t[(k + 1) + i - 1]
      BY ONLY <2>2, <2>3
    <3>2. (k + 1) + i - 1 \in (k + 1)..(k + m)
      BY ONLY <2>3
    <3> QED
      BY <1>1, <3>1, <3>2, Zenon
  <2> QED
    BY <2>2, <2>4, <2>5
<1> HIDE DEF I
<1>6. CASE f = by
  <2>1. DOMAIN I \subseteq at
    BY <1>5, <1>6
  <2> HIDE DEF at
  <2>2. Kept(I, at) = I
    BY <1>5, <2>1, KeptAll
  <2> QED
    BY <1>3, <1>4, <1>6, <2>2
<1>7. CASE f # by
  <2>1. at \cap DOMAIN I = {}
    BY <1>5, <1>7
  <2> HIDE DEF at
  <2>2. Kept(I, at) = <<>>
    BY <1>5, <2>1, KeptNone
  <2>3. PermitsOf(<<>>) = <<>>
    BY DEF PermitsOf
  <2> QED
    BY <1>3, <1>7, <2>2, <2>3, Zenon
<1> QED
  BY <1>6, <1>7

(* It spends the nonce of every order that it takes.                       *)
SpendsEach(b, orders) ==
  \E place \in [DOMAIN orders -> DOMAIN (b.hostTxs \o b.txs)] :
    \A i, j \in DOMAIN orders :
      /\ Spends(b)[place[i]] = KeyOf(orders[i])
      /\ place[i] = place[j] => i = j

LEMMA BundleSpends ==
  ASSUME NEW b, NEW by, NEW orders \in Seq(SignedOrders), NEW fills, NEW k,
         MadeOf(b, by, orders, fills), HasShape(b, by, SignedOrders, orders, fills, k)
  PROVE  SpendsEach(b, orders)
<1> DEFINE T == BundleTx(by, SignedOrders, fills)
           F == {ToFillTx(fills[c]) : c \in DOMAIN fills}
           t == b.txs
           h == b.hostTxs
           l == Len(h)
           m == Len(orders)
           u == h \o t
<1>1. /\ k \in {0, 1} /\ t \in Seq(T) /\ Len(t) = k + m /\ m \in Nat /\ DOMAIN orders = 1..m
      /\ \A i \in (k + 1)..(k + m) : t[i].permit = orders[i - k]
  BY DEF HasShape
<1>2. h \in Seq(F)
  BY FillTxsShape DEF MadeOf
<1>3. F \subseteq T
  BY DEF BundleTx
<1>4. Spends(b) = [i \in DOMAIN u |-> KeyOf(u[i].permit)]
  BY DEF Spends, KeyOf
<1> HIDE DEF T, F, t, h
<1>5. h \in Seq(T)
  BY <1>2, <1>3
<1>6. /\ l \in Nat /\ Len(u) = l + (k + m) /\ DOMAIN u = 1..(l + (k + m))
      /\ \A i \in 1..(l + (k + m)) : u[i] = IF i <= l THEN h[i] ELSE t[i - l]
  <2>1. u \in Seq(T) /\ Len(u) = l + Len(t) /\ l \in Nat
        /\ \A i \in 1..(l + Len(t)) : u[i] = IF i <= l THEN h[i] ELSE t[i - l]
    <3>1. h \in Seq(T) /\ t \in Seq(T)
      BY <1>1, <1>5
    <3>2. /\ h \o t \in Seq(T) /\ Len(h \o t) = Len(h) + Len(t) /\ Len(h) \in Nat
          /\ \A i \in 1..(Len(h) + Len(t)) :
                (h \o t)[i] = IF i <= Len(h) THEN h[i] ELSE t[i - Len(h)]
      BY ONLY <3>1, ConcatProperties
    <3> QED
      BY <3>2, Zenon
  <2>2. DOMAIN u = 1..Len(u)
    BY <2>1
  <2> QED
    BY <1>1, <2>1, <2>2
<1> HIDE DEF u, l, m
<1> DEFINE place == [i \in 1..m |-> l + k + i]
<1>7. place \in [DOMAIN orders -> DOMAIN u]
  <2>1. \A i \in 1..m : l + k + i \in 1..(l + (k + m))
    BY <1>1, <1>6
  <2> QED
    BY <1>1, <1>6, <2>1
<1>8. ASSUME NEW i \in 1..m
      PROVE  Spends(b)[place[i]] = KeyOf(orders[i])
  <2>1. place[i] = l + k + i /\ l + k + i \in 1..(l + (k + m)) /\ ~(l + k + i <= l)
        /\ (l + k + i) - l = k + i /\ k + i \in (k + 1)..(k + m) /\ (k + i) - k = i
    BY <1>1, <1>6
  <2>2. u[l + k + i] = t[k + i]
    BY <1>6, <2>1
  <2>3. t[k + i].permit = orders[i]
    BY <1>1, <2>1
  <2>4. Spends(b)[l + k + i] = KeyOf(u[l + k + i].permit)
    BY <1>4, <1>6, <2>1
  <2> QED
    BY <2>1, <2>2, <2>3, <2>4
<1>9. \A i, j \in 1..m : place[i] = place[j] => i = j
  BY <1>1, <1>6
<1> HIDE DEF place
<1> QED
  BY <1>1, <1>7, <1>8, <1>9 DEF SpendsEach, u, h, t

-----------------------------------------------------------------------------
(* The inductive invariant.                                                *)
CacheOK ==
  cached \in Seq(SignedOrders) /\ Distinct(cached) /\ listed \subseteq DOMAIN cached
BundlesOK == \A b \in bundles : WellMade(b)
FillersOK ==
  /\ filling = [f \in Filler |-> filling[f]]
  /\ \A f \in Filler : FillerOK(f, filling[f], bundles)
StreamsOK == \A f \in Filler : StreamOK(f, filling[f], cached, listed, Now)
TakenOnce ==
  \A f, g \in Filler : \A i \in DOMAIN taken[f], j \in DOMAIN taken[g] :
    taken[f][i] = taken[g][j] => f = g /\ i = j
PaymentsOK ==
  /\ paid \in [Filler -> SlotMap] /\ taken \in [Filler -> Seq(SignedOrders)]
  /\ \A f \in Filler : paid[f] = Aggregated(taken[f])
  /\ \A f \in Filler : \A i \in DOMAIN taken[f] : KeyOf(taken[f][i]) \in spent
  /\ TakenOnce
FlowInv ==
  height \in 0..MaxHeight /\ CacheOK /\ BundlesOK /\ FillersOK /\ StreamsOK /\ PaymentsOK

LEMMA FlowInitInv == FlowInit => FlowInv
<1> SUFFICES ASSUME FlowInit PROVE FlowInv
  OBVIOUS
<1>1. /\ height = 0 /\ cached = <<>> /\ listed = {} /\ bundles = {} /\ spent = {}
      /\ filling = [f \in Filler |-> Resting]
      /\ paid = [f \in Filler |-> EmptyMap] /\ taken = [f \in Filler |-> <<>>]
  BY DEF FlowInit
<1>2. height \in 0..MaxHeight
  BY <1>1, FlowAssumption
<1>3. CacheOK /\ BundlesOK
  BY <1>1 DEF CacheOK, BundlesOK, Distinct
<1>4. ASSUME NEW f \in Filler
      PROVE  FillerOK(f, Resting, bundles) /\ StreamOK(f, Resting, cached, listed, Now)
  <2>1. IsProgress(Resting)
    BY DEF IsProgress, Progress, Resting
  <2>2. /\ Resting.at = "idle" /\ Resting.fills = 0 /\ Resting.orders = <<>>
        /\ Resting.stored = {} /\ Resting.targets = {} /\ Resting.signed = {}
        /\ Resting.bundle = {} /\ Resting.before = {} /\ Resting.complete = FALSE
        /\ Resting.result = {}
    BY DEF Resting
  <2>3. MaxFills[f] \in Nat
    BY FlowAssumption
  <2> HIDE DEF Resting
  <2>4. Resting.orders \in Seq(SignedOrders)
    BY <2>2
  <2>5. FillerOK(f, Resting, bundles)
    BY <2>1, <2>2, <2>3, <2>4 DEF FillerOK
  <2>6. StreamOK(f, Resting, cached, listed, Now)
    BY <2>2 DEF StreamOK
  <2> QED
    BY <2>5, <2>6
<1>5. FillersOK /\ StreamsOK
  <2>1. \A f \in Filler : filling[f] = Resting
    BY <1>1
  <2> QED
    BY <1>1, <1>4, <2>1 DEF FillersOK, StreamsOK
<1>6. PaymentsOK
  <2>1. paid \in [Filler -> SlotMap]
    BY <1>1, EmptyMapFacts
  <2>2. \A f \in Filler : taken[f] = <<>> /\ paid[f] = EmptyMap
    BY <1>1
  <2>3. taken \in [Filler -> Seq(SignedOrders)]
    BY <1>1
  <2>4. \A f \in Filler : paid[f] = Aggregated(taken[f])
    BY <2>2, AggregatedNone, Zenon
  <2>5. \A f \in Filler : DOMAIN taken[f] = {}
    BY <2>2
  <2> QED
    BY <2>1, <2>3, <2>4, <2>5 DEF PaymentsOK, TakenOnce
<1> QED
  BY <1>2, <1>3, <1>5, <1>6 DEF FlowInv

(* A step of one filler, which may give the cache bundles.                 *)
LEMMA FillerMoves ==
  ASSUME FlowInv, NEW f \in Filler, UNCHANGED <<height, cached, listed, spent, paid, taken>>,
         bundles \subseteq bundles', \A b \in bundles' : WellMade(b),
         filling' = [filling EXCEPT ![f] = filling'[f]],
         FillerOK(f, filling'[f], bundles'),
         StreamOK(f, filling'[f], cached, listed, Now)
  PROVE  FlowInv'
<1>1. \A g \in Filler : g # f => filling'[g] = filling[g]
  BY DEF FlowInv, FillersOK
<1>2. filling' = [g \in Filler |-> filling'[g]]
  BY DEF FlowInv, FillersOK
<1>3. ASSUME NEW g \in Filler
      PROVE  FillerOK(g, filling'[g], bundles')
             /\ StreamOK(g, filling'[g], cached, listed, Now)
  <2>1. CASE g = f
    BY <2>1
  <2>2. CASE g # f
    <3>1. FillerOK(g, filling[g], bundles) /\ StreamOK(g, filling[g], cached, listed, Now)
      BY DEF FlowInv, FillersOK, StreamsOK
    <3>2. FillerOK(g, filling[g], bundles')
      BY <3>1, FillerOKGrows
    <3> QED
      BY <1>1, <2>2, <3>1, <3>2
  <2> QED
    BY <2>1, <2>2
<1>4. Now' = Now
  BY DEF Now
<1>5. FillersOK'
  BY <1>2, <1>3 DEF FillersOK
<1>6. StreamsOK'
  BY <1>3, <1>4 DEF StreamsOK
<1>7. BundlesOK'
  BY DEF BundlesOK
<1>8. CacheOK' /\ PaymentsOK' /\ (height \in 0..MaxHeight)'
  BY DEF FlowInv, CacheOK, PaymentsOK, TakenOnce
<1> QED
  BY <1>5, <1>6, <1>7, <1>8 DEF FlowInv

LEMMA FillerFacts ==
  ASSUME FlowInv, NEW f \in Filler
  PROVE  /\ FillerOK(f, filling[f], bundles) /\ IsProgress(filling[f])
         /\ StreamOK(f, filling[f], cached, listed, Now)
         /\ f \in DOMAIN filling /\ CacheOK /\ BundlesOK
<1>1. filling = [g \in Filler |-> filling[g]]
  BY DEF FlowInv, FillersOK
<1>2. f \in DOMAIN filling
  BY <1>1
<1> QED
  BY <1>2 DEF FlowInv, FillersOK, StreamsOK, FillerOK

LEMMA StartStreamInv ==
  ASSUME FlowInv, NEW f \in Filler, StartStream(f)
  PROVE  FlowInv'
<1> DEFINE q == filling'[f]
<1>1. /\ FillerOK(f, filling[f], bundles) /\ f \in DOMAIN filling /\ CacheOK /\ BundlesOK
  BY FillerFacts
<1>2. /\ q = [Resting EXCEPT !.at = "streaming", !.cursor = {0}, !.before = listed]
      /\ filling' = [filling EXCEPT ![f] = q]
      /\ UNCHANGED <<height, cached, listed, bundles, spent, paid, taken>>
  BY <1>1 DEF StartStream, cacheVars, chainVars
<1> HIDE DEF q
<1>3. /\ IsProgress(q) /\ q.at = "streaming" /\ q.cursor = {0} /\ q.before = listed
      /\ q.orders = <<>> /\ q.complete = FALSE /\ q.fills = 0 /\ q.stored = {}
      /\ q.targets = {} /\ q.signed = {} /\ q.bundle = {} /\ q.result = {}
  BY <1>2 DEF IsProgress, Progress, Resting
<1>4. q.orders \in Seq(SignedOrders) /\ DOMAIN q.orders = {}
  BY <1>3
<1>5. MaxFills[f] \in Nat
  BY FlowAssumption
<1>6. FillerOK(f, q, bundles')
  BY <1>3, <1>4, <1>5 DEF FillerOK
<1>7. Yielded(f, q, cached, listed, Now, 0)
  <2>1. Len(cached) \in Nat /\ \A i \in listed : ~(i <= 0)
    BY <1>1 DEF CacheOK
  <2> QED
    BY <1>3, <1>4, <2>1 DEF Yielded, Distinct
<1>8. StreamOK(f, q, cached, listed, Now)
  BY <1>1, <1>3, <1>7 DEF StreamOK, CacheOK
<1>9. bundles \subseteq bundles' /\ \A b \in bundles' : WellMade(b)
  BY <1>1, <1>2 DEF BundlesOK
<1> QED
  BY <1>2, <1>6, <1>8, <1>9, FillerMoves DEF q

Read(p, new, next) ==
  [p EXCEPT !.orders = p.orders \o new, !.cursor = next,
            !.at = IF next = {} THEN "got" ELSE "streaming", !.complete = (next = {})]

LEMMA FetchPageInv ==
  ASSUME FlowInv, NEW f \in Filler, FetchPage(f)
  PROVE  FlowInv'
<1> DEFINE p == filling[f]
           q == filling'[f]
<1>1. /\ FillerOK(f, p, bundles) /\ IsProgress(p) /\ StreamOK(f, p, cached, listed, Now)
      /\ f \in DOMAIN filling /\ CacheOK /\ BundlesOK
  BY FillerFacts
<1>2. PICK c \in p.cursor :
        filling' = [filling EXCEPT ![f] =
          Read(p, Kept(cached, {i \in Page(c) : Wanted(f, cached[i])}), NextCursor(c))]
  BY DEF FetchPage, Read
<1> DEFINE new == Kept(cached, {i \in Page(c) : Wanted(f, cached[i])})
<1>3. new = Kept(cached, {i \in Page(c) : WantedAt(f, cached[i], Now)})
  BY DEF Wanted, WantedAt
<1>4. /\ p.at = "streaming" /\ UNCHANGED <<height, cached, listed, bundles, spent, paid, taken>>
  BY DEF FetchPage, cacheVars, chainVars
<1>5. q = Read(p, new, NextCursor(c)) /\ filling' = [filling EXCEPT ![f] = q]
  <2>1. filling' = [filling EXCEPT ![f] = Read(p, new, NextCursor(c))]
    BY <1>2
  <2> HIDE DEF new
  <2> QED
    BY <1>1, <2>1
<1> HIDE DEF p, q, new
<1>6. /\ IsProgress(q) /\ q.orders = p.orders \o new /\ q.cursor = NextCursor(c)
      /\ q.at = (IF NextCursor(c) = {} THEN "got" ELSE "streaming")
      /\ q.complete = (NextCursor(c) = {}) /\ q.before = p.before /\ q.fills = p.fills
      /\ q.stored = p.stored /\ q.targets = p.targets /\ q.signed = p.signed
      /\ q.bundle = p.bundle /\ q.result = p.result
  BY <1>1, <1>5 DEF IsProgress, Progress, Read
<1> DEFINE m == Len(cached)
<1>7. /\ cached \in Seq(SignedOrders) /\ Distinct(cached) /\ listed \subseteq DOMAIN cached
      /\ m \in Nat /\ DOMAIN cached = 1..m
  BY <1>1 DEF CacheOK
<1>8. Yielded(f, p, cached, listed, Now, c) /\ c \in 0..m
  BY <1>1, <1>4 DEF StreamOK, Yielded
<1>9. /\ Page(c) \subseteq listed /\ \A i \in Page(c) : i > c
      /\ \A i \in listed, k \in Page(c) : c < i /\ i <= k => i \in Page(c)
      /\ \A k \in NextCursor(c) : k \in Page(c) /\ \A i \in Page(c) : i <= k
      /\ NextCursor(c) = {} => \A i \in listed : i > c => i \in Page(c)
  <2> HIDE DEF m
  <2> QED
    BY <1>7, <1>8, PageFacts
<1>10. p.orders \in Seq(SignedOrders)
  BY <1>1 DEF FillerOK
<1>11. /\ q.orders \in Seq(SignedOrders)
       /\ \A d \in 0..m :
            /\ c <= d /\ \A i \in Page(c) : i <= d
            /\ \A i \in listed : c < i /\ i <= d => i \in Page(c)
            => Yielded(f, q, cached, listed, Now, d)
       /\ (\A i \in listed : i > c => i \in Page(c)) => YieldedAll(f, q, cached, listed, Now)
  <2>1. q.orders = p.orders \o Kept(cached, {i \in Page(c) : WantedAt(f, cached[i], Now)})
    BY <1>3, <1>6
  <2> DEFINE time == Now
             at == listed
             s == cached
  <2>2. /\ Yielded(f, p, s, at, time, c) /\ Page(c) \subseteq at /\ at \subseteq DOMAIN s
        /\ \A i \in Page(c) : i > c
        /\ s \in Seq(SignedOrders) /\ Distinct(s) /\ p.orders \in Seq(SignedOrders)
        /\ q.before = p.before
        /\ q.orders = p.orders \o Kept(s, {i \in Page(c) : WantedAt(f, s[i], time)})
    BY <1>6, <1>7, <1>8, <1>9, <1>10, <2>1
  <2> HIDE DEF time, at, s
  <2>3. /\ q.orders \in Seq(SignedOrders)
        /\ \A d \in 0..Len(s) :
             /\ c <= d /\ \A i \in Page(c) : i <= d
             /\ \A i \in at : c < i /\ i <= d => i \in Page(c)
             => Yielded(f, q, s, at, time, d)
        /\ (\A i \in at : i > c => i \in Page(c)) => YieldedAll(f, q, s, at, time)
    BY ONLY <2>2, PageYields
  <2> QED
    BY <2>3 DEF s, at, time
<1>12. ASSUME NEW d \in NextCursor(c)
       PROVE  Yielded(f, q, cached, listed, Now, d)
  <2>1. d \in Page(c) /\ d \in 1..m /\ d > c /\ c \in Int /\ d \in Int
    BY <1>7, <1>8, <1>9, <1>12
  <2>2. d \in 0..m /\ c <= d
    BY <2>1
  <2> HIDE DEF m
  <2> QED
    BY <1>9, <1>11, <2>1, <2>2
<1>13. NextCursor(c) = {} => YieldedAll(f, q, cached, listed, Now)
  BY <1>9, <1>11
<1>14. StreamOK(f, q, cached, listed, Now)
  BY <1>1, <1>6, <1>12, <1>13 DEF StreamOK
<1>15. FillerOK(f, q, bundles')
  <2>1. q.signed = {} /\ q.at \in {"streaming", "got"}
    BY <1>1, <1>4, <1>6 DEF FillerOK
  <2> QED
    BY <1>1, <1>4, <1>6, <1>11, <2>1 DEF FillerOK
<1>16. bundles \subseteq bundles' /\ \A b \in bundles' : WellMade(b)
  BY <1>1, <1>4 DEF BundlesOK
<1> QED
  BY <1>4, <1>5, <1>14, <1>15, <1>16, FillerMoves DEF q

LEMMA StreamFailsInv ==
  ASSUME FlowInv, NEW f \in Filler, StreamFails(f)
  PROVE  FlowInv'
<1> DEFINE p == filling[f]
           q == filling'[f]
<1>1. /\ FillerOK(f, p, bundles) /\ IsProgress(p) /\ StreamOK(f, p, cached, listed, Now)
      /\ f \in DOMAIN filling /\ BundlesOK
  BY FillerFacts
<1>2. /\ q = [p EXCEPT !.at = "got", !.cursor = {}]
      /\ filling' = [filling EXCEPT ![f] = q]
      /\ p.at = "streaming" /\ UNCHANGED <<height, cached, listed, bundles, spent, paid, taken>>
  BY <1>1 DEF StreamFails, cacheVars, chainVars
<1> HIDE DEF p, q
<1>3. /\ IsProgress(q) /\ q.at = "got" /\ q.orders = p.orders /\ q.before = p.before
      /\ q.complete = p.complete /\ q.fills = p.fills /\ q.stored = p.stored
      /\ q.targets = p.targets /\ q.signed = p.signed /\ q.bundle = p.bundle
      /\ q.result = p.result
  BY <1>1, <1>2 DEF IsProgress, Progress
<1>4. FillerOK(f, q, bundles')
  BY <1>1, <1>2, <1>3 DEF FillerOK
<1>5. StreamOK(f, q, cached, listed, Now)
  BY <1>1, <1>3, StreamOKEnded
<1>6. bundles \subseteq bundles' /\ \A b \in bundles' : WellMade(b)
  BY <1>1, <1>2 DEF BundlesOK
<1> QED
  BY <1>2, <1>4, <1>5, <1>6, FillerMoves DEF q

LEMMA SignedAreFills ==
  ASSUME NEW f, NEW orders, NEW n, NEW fills \in SignFills(f, orders, n)
  PROVE  IsFill(f, orders, fills)
<1> DEFINE agg == Aggregated(orders)
           chains == TargetChainIds(agg)
           deadline == Given({Now + o : o \in Options[f].deadlineOffset}, Now + 12)
           Fill(chain) ==
             Permit(OutputsFor(agg, chain), Permitted(OutputsFor(agg, chain)),
                    deadline, Given(Options[f].nonce, n), chain, f)
<1>1. DOMAIN Contracts = {"ru", "host"}
  BY DEF Contracts
<1>2. SignFills(f, orders, n) =
        IF chains \subseteq DOMAIN Contracts THEN {[chain \in chains |-> Fill(chain)]} ELSE {}
  BY DEF SignFills
<1>3. chains \subseteq {"ru", "host"} /\ fills = [chain \in chains |-> Fill(chain)]
  <2> HIDE DEF chains, Fill
  <2> QED
    BY <1>1, <1>2
<1>4. \A chain : Fill(chain).outputs = OutputsFor(agg, chain) /\ Fill(chain).owner = f
  BY DEF Permit
<1> HIDE DEF Fill
<1>5. DOMAIN fills = chains /\ \A chain \in chains : fills[chain] = Fill(chain)
  BY <1>3
<1> QED
  BY <1>3, <1>4, <1>5 DEF IsFill

(* Filler::fill, once the fills are signed, or not.                        *)
Signing(p, signed, count) ==
  [p EXCEPT !.at = IF signed = {} THEN "got" ELSE "signed",
            !.before = {}, !.complete = FALSE, !.bundle = {}, !.targets = {}, !.stored = {},
            !.signed = signed, !.count = count, !.fills = p.fills + 1,
            !.result = IF signed = {} THEN {FALSE} ELSE {}]

LEMMA FillOrdersInv ==
  ASSUME FlowInv, NEW f \in Filler, NEW count, FillOrders(f, count)
  PROVE  FlowInv'
<1> DEFINE p == filling[f]
           q == filling'[f]
           signed == IF p.orders = <<>> \/ count = 0 THEN {}
                     ELSE SignFills(f, p.orders, p.fills) \ {<<>>}
<1>1. /\ FillerOK(f, p, bundles) /\ IsProgress(p) /\ f \in DOMAIN filling /\ BundlesOK
      /\ CacheOK
  BY FillerFacts
<1>2. filling' = [filling EXCEPT ![f] = Signing(p, signed, count)]
  BY DEF FillOrders, Signing
<1>3. /\ p.fills < MaxFills[f]
      /\ UNCHANGED <<height, cached, listed, bundles, spent, paid, taken>>
  BY DEF FillOrders, cacheVars, chainVars
<1>4. \A fills \in signed : IsFill(f, p.orders, fills)
  <2> SUFFICES ASSUME NEW fills \in signed PROVE IsFill(f, p.orders, fills)
    OBVIOUS
  <2>1. fills \in SignFills(f, p.orders, p.fills)
    OBVIOUS
  <2> HIDE DEF p
  <2> QED
    BY <2>1, SignedAreFills
<1> HIDE DEF signed
<1>5. q = Signing(p, signed, count) /\ filling' = [filling EXCEPT ![f] = q]
  BY <1>1, <1>2
<1> HIDE DEF p, q
<1>6. /\ IsProgress(q) /\ q.at = (IF signed = {} THEN "got" ELSE "signed")
      /\ q.before = {} /\ q.complete = FALSE /\ q.bundle = {} /\ q.targets = {}
      /\ q.stored = {} /\ q.signed = signed /\ q.fills = p.fills + 1 /\ q.orders = p.orders
      /\ q.result = (IF signed = {} THEN {FALSE} ELSE {})
  BY <1>1, <1>5 DEF IsProgress, Progress, Signing
<1>7. q.fills \in 0..MaxFills[f]
  <2>1. MaxFills[f] \in Nat /\ p.fills \in 0..MaxFills[f]
    BY <1>1, FlowAssumption DEF FillerOK
  <2> QED
    BY <1>3, <1>6, <2>1
<1>8. FillerOK(f, q, bundles')
  BY <1>1, <1>4, <1>6, <1>7 DEF FillerOK
<1>9. q.at # "streaming"
  BY <1>6
<1>10. StreamOK(f, q, cached, listed, Now)
  BY <1>6, <1>9 DEF StreamOK
<1>11. bundles \subseteq bundles' /\ \A b \in bundles' : WellMade(b)
  BY <1>1, <1>3 DEF BundlesOK
<1> QED
  BY <1>3, <1>5, <1>8, <1>10, <1>11, FillerMoves DEF q

LEMMA MadeBundle ==
  ASSUME NEW f \in Filler, NEW orders \in Seq(SignedOrders), NEW fills, NEW n,
         IsFill(f, orders, fills)
  PROVE  WellMade(BaseBundle(f, orders, fills, n))
<1> DEFINE b == BaseBundle(f, orders, fills, n)
<1>1. /\ b = [txs |-> RollupTxs(f, orders, fills), hostTxs |-> FillTxs(fills, "host"),
              blockNumber |-> n]
  BY DEF BaseBundle
<1>2. /\ b.txs = RollupTxs(f, orders, fills) /\ b.hostTxs = FillTxs(fills, "host")
      /\ b.blockNumber = n
  BY DEF BaseBundle
<1> HIDE DEF b
<1>3. MadeOf(b, f, orders, fills)
  BY <1>2 DEF MadeOf
<1>4. GoodBundle(b)
  BY <1>3 DEF GoodBundle
<1>5. b = [txs |-> b.txs, hostTxs |-> b.hostTxs, blockNumber |-> b.blockNumber]
  BY <1>1, <1>2
<1> QED
  BY <1>4, <1>5 DEF WellMade, b

LEMMA BundleForTarget ==
  ASSUME NEW b, WellMade(b), NEW t
  PROVE  WellMade(ForTarget(b, t))
<1> DEFINE c == ForTarget(b, t)
<1>1. b = [txs |-> b.txs, hostTxs |-> b.hostTxs, blockNumber |-> b.blockNumber]
  BY DEF WellMade
<1>2. c = [txs |-> b.txs, hostTxs |-> b.hostTxs, blockNumber |-> t]
  BY <1>1 DEF ForTarget
<1> HIDE DEF c
<1>3. c.txs = b.txs /\ c.hostTxs = b.hostTxs /\ c.blockNumber = t
  BY <1>2
<1>4. GoodBundle(c)
  BY <1>3 DEF WellMade, GoodBundle, MadeOf
<1>5. c = [txs |-> c.txs, hostTxs |-> c.hostTxs, blockNumber |-> c.blockNumber]
  BY <1>2, <1>3
<1> QED
  BY <1>4, <1>5 DEF WellMade, c

LEMMA SubmitFillsInv ==
  ASSUME FlowInv, NEW f \in Filler, SubmitFills(f)
  PROVE  FlowInv'
<1> DEFINE p == filling[f]
           q == filling'[f]
<1>1. /\ FillerOK(f, p, bundles) /\ IsProgress(p) /\ StreamOK(f, p, cached, listed, Now)
      /\ f \in DOMAIN filling /\ BundlesOK
  BY FillerFacts
<1>2. PICK fills \in p.signed :
        filling' = [filling EXCEPT ![f] =
          [filling[f] EXCEPT !.at = "submitting", !.signed = {},
                             !.bundle = {BaseBundle(f, p.orders, fills, height + 1)},
                             !.targets = (height + 1)..(height + p.count)]]
  BY DEF SubmitFills
<1>3. p.at = "signed" /\ UNCHANGED <<height, cached, listed, bundles, spent, paid, taken>>
  BY DEF SubmitFills, cacheVars, chainVars
<1> DEFINE b == BaseBundle(f, p.orders, fills, height + 1)
<1>4. /\ q = [p EXCEPT !.at = "submitting", !.signed = {}, !.bundle = {b},
                       !.targets = (height + 1)..(height + p.count)]
      /\ filling' = [filling EXCEPT ![f] = q]
  BY <1>1, <1>2
<1>5. WellMade(b)
  <2>1. p.orders \in Seq(SignedOrders) /\ IsFill(f, p.orders, fills)
    BY <1>1 DEF FillerOK
  <2> HIDE DEF p
  <2> QED
    BY <2>1, MadeBundle
<1> HIDE DEF p, q, b
<1>6. /\ IsProgress(q) /\ q.at = "submitting" /\ q.orders = p.orders /\ q.before = p.before
      /\ q.complete = p.complete /\ q.fills = p.fills /\ q.stored = p.stored
      /\ q.signed = {} /\ q.bundle = {b} /\ q.result = p.result
  BY <1>1, <1>4 DEF IsProgress, Progress
<1>7. p.stored = {} /\ p.result = {}
  BY <1>1, <1>3 DEF FillerOK
<1>8. FillerOK(f, q, bundles')
  BY <1>1, <1>5, <1>6, <1>7 DEF FillerOK
<1>9. StreamOK(f, q, cached, listed, Now)
  BY <1>1, <1>6, StreamOKEnded
<1>10. bundles \subseteq bundles' /\ \A c \in bundles' : WellMade(c)
  BY <1>1, <1>3 DEF BundlesOK
<1> QED
  BY <1>3, <1>4, <1>8, <1>9, <1>10, FillerMoves DEF q

LEMMA ProviderFailsInv ==
  ASSUME FlowInv, NEW f \in Filler, ProviderFails(f)
  PROVE  FlowInv'
<1> DEFINE p == filling[f]
           q == filling'[f]
<1>1. /\ FillerOK(f, p, bundles) /\ IsProgress(p) /\ StreamOK(f, p, cached, listed, Now)
      /\ f \in DOMAIN filling /\ BundlesOK
  BY FillerFacts
<1>2. /\ q = [p EXCEPT !.at = "got", !.signed = {}, !.result = {FALSE}]
      /\ filling' = [filling EXCEPT ![f] = q]
      /\ UNCHANGED <<height, cached, listed, bundles, spent, paid, taken>>
  BY <1>1 DEF ProviderFails, cacheVars, chainVars
<1> HIDE DEF p, q
<1>3. /\ IsProgress(q) /\ q.at = "got" /\ q.orders = p.orders /\ q.before = p.before
      /\ q.complete = p.complete /\ q.fills = p.fills /\ q.stored = p.stored
      /\ q.targets = p.targets /\ q.signed = {} /\ q.bundle = p.bundle
      /\ q.result = {FALSE}
  BY <1>1, <1>2 DEF IsProgress, Progress
<1>4. FillerOK(f, q, bundles')
  BY <1>1, <1>2, <1>3 DEF FillerOK
<1>5. StreamOK(f, q, cached, listed, Now)
  BY <1>1, <1>3, StreamOKEnded
<1>6. bundles \subseteq bundles' /\ \A b \in bundles' : WellMade(b)
  BY <1>1, <1>2 DEF BundlesOK
<1> QED
  BY <1>2, <1>4, <1>5, <1>6, FillerMoves DEF q

LEMMA StoreBundleInv ==
  ASSUME FlowInv, NEW f \in Filler, NEW target, StoreBundle(f, target)
  PROVE  FlowInv'
<1> DEFINE p == filling[f]
           q == filling'[f]
<1>1. /\ FillerOK(f, p, bundles) /\ IsProgress(p) /\ StreamOK(f, p, cached, listed, Now)
      /\ f \in DOMAIN filling /\ BundlesOK
  BY FillerFacts
<1>2. /\ q = [p EXCEPT !.stored = p.stored \cup {target}]
      /\ filling' = [filling EXCEPT ![f] = q]
      /\ p.at = "submitting" /\ target \in p.targets \ p.stored
      /\ bundles' = bundles \cup {ForTarget(b, target) : b \in p.bundle}
      /\ UNCHANGED <<height, cached, listed, spent, paid, taken>>
  BY <1>1 DEF StoreBundle, chainVars
<1> HIDE DEF p, q
<1>3. /\ IsProgress(q) /\ q.at = "submitting" /\ q.orders = p.orders /\ q.before = p.before
      /\ q.complete = p.complete /\ q.fills = p.fills /\ q.stored = p.stored \cup {target}
      /\ q.targets = p.targets /\ q.signed = p.signed /\ q.bundle = p.bundle
      /\ q.result = p.result
  BY <1>1, <1>2 DEF IsProgress, Progress
<1>4. \A t \in q.stored, b \in q.bundle : ForTarget(b, t) \in bundles'
  BY <1>1, <1>2, <1>3 DEF FillerOK
<1>5. q.result = {TRUE} => q.stored = q.targets
  BY <1>1, <1>2, <1>3 DEF FillerOK
<1>6. FillerOK(f, q, bundles')
  <2> HIDE DEF ForTarget
  <2> QED
    BY <1>1, <1>2, <1>3, <1>4, <1>5 DEF FillerOK
<1>7. StreamOK(f, q, cached, listed, Now)
  BY <1>1, <1>3, StreamOKEnded
<1>8. bundles \subseteq bundles' /\ \A b \in bundles' : WellMade(b)
  <2>1. \A b \in p.bundle : WellMade(ForTarget(b, target))
    BY <1>1, BundleForTarget DEF FillerOK
  <2> QED
    BY <1>1, <1>2, <2>1 DEF BundlesOK
<1> QED
  BY <1>2, <1>6, <1>7, <1>8, FillerMoves DEF q

LEMMA SubmittedFillsInv ==
  ASSUME FlowInv, NEW f \in Filler, SubmittedFills(f)
  PROVE  FlowInv'
<1> DEFINE p == filling[f]
           q == filling'[f]
<1>1. /\ FillerOK(f, p, bundles) /\ IsProgress(p) /\ StreamOK(f, p, cached, listed, Now)
      /\ f \in DOMAIN filling /\ BundlesOK
  BY FillerFacts
<1>2. /\ q = [p EXCEPT !.at = "got", !.result = {TRUE}]
      /\ filling' = [filling EXCEPT ![f] = q]
      /\ p.at = "submitting" /\ p.stored = p.targets
      /\ UNCHANGED <<height, cached, listed, bundles, spent, paid, taken>>
  BY <1>1 DEF SubmittedFills, AllStored, cacheVars, chainVars
<1> HIDE DEF p, q
<1>3. /\ IsProgress(q) /\ q.at = "got" /\ q.orders = p.orders /\ q.before = p.before
      /\ q.complete = p.complete /\ q.fills = p.fills /\ q.stored = p.stored
      /\ q.targets = p.targets /\ q.signed = p.signed /\ q.bundle = p.bundle
  BY <1>1, <1>2 DEF IsProgress, Progress
<1>4. FillerOK(f, q, bundles')
  BY <1>1, <1>2, <1>3 DEF FillerOK
<1>5. StreamOK(f, q, cached, listed, Now)
  BY <1>1, <1>3, StreamOKEnded
<1>6. bundles \subseteq bundles' /\ \A b \in bundles' : WellMade(b)
  BY <1>1, <1>2 DEF BundlesOK
<1> QED
  BY <1>2, <1>4, <1>5, <1>6, FillerMoves DEF q

LEMMA SubmissionFailsInv ==
  ASSUME FlowInv, NEW f \in Filler, SubmissionFails(f)
  PROVE  FlowInv'
<1> DEFINE p == filling[f]
           q == filling'[f]
<1>1. /\ FillerOK(f, p, bundles) /\ IsProgress(p) /\ StreamOK(f, p, cached, listed, Now)
      /\ f \in DOMAIN filling /\ BundlesOK
  BY FillerFacts
<1>2. /\ q = [p EXCEPT !.at = "got", !.bundle = {}, !.targets = {}, !.stored = {},
                       !.result = {FALSE}]
      /\ filling' = [filling EXCEPT ![f] = q]
      /\ p.at = "submitting"
      /\ UNCHANGED <<height, cached, listed, spent, paid, taken>>
  BY <1>1 DEF SubmissionFails, chainVars
<1>3. PICK late : bundles' = bundles \cup {ForTarget(b, t) : b \in p.bundle, t \in late}
  BY DEF SubmissionFails
<1> HIDE DEF p, q
<1>4. /\ IsProgress(q) /\ q.at = "got" /\ q.orders = p.orders /\ q.before = p.before
      /\ q.complete = p.complete /\ q.fills = p.fills /\ q.stored = {}
      /\ q.targets = {} /\ q.signed = p.signed /\ q.bundle = {} /\ q.result = {FALSE}
  BY <1>1, <1>2 DEF IsProgress, Progress
<1>5. FillerOK(f, q, bundles')
  BY <1>1, <1>2, <1>4 DEF FillerOK
<1>6. StreamOK(f, q, cached, listed, Now)
  BY <1>1, <1>4, StreamOKEnded
<1>7. bundles \subseteq bundles' /\ \A b \in bundles' : WellMade(b)
  <2>1. \A b \in p.bundle, t \in late : WellMade(ForTarget(b, t))
    BY <1>1, BundleForTarget DEF FillerOK
  <2> QED
    BY <1>1, <1>3, <2>1 DEF BundlesOK
<1> QED
  BY <1>2, <1>5, <1>6, <1>7, FillerMoves DEF q

-----------------------------------------------------------------------------
(* The cache and the chain.                                                *)
LEMMA SendOrderInv ==
  ASSUME FlowInv, NEW i \in DOMAIN Orders, SendOrder(i)
  PROVE  FlowInv'
<1> DEFINE x == SignOrder(i)
           s == cached
           at == listed
<1>1. s \in Seq(SignedOrders) /\ Distinct(s) /\ at \subseteq DOMAIN s
  BY DEF FlowInv, CacheOK
<1>2. /\ x \notin {s[k] : k \in DOMAIN s}
      /\ cached' = Append(s, x) /\ listed' = at \cup {Len(s) + 1}
      /\ UNCHANGED <<height, bundles, filling, spent, paid, taken>>
  BY DEF SendOrder, ToSet, chainVars
<1>3. x \in SignedOrders
  BY DEF SignedOrders
<1>4. Now' = Now
  BY <1>2 DEF Now
<1>5. CacheOK'
  <2> HIDE DEF x, s, at
  <2>1. /\ Append(s, x) \in Seq(SignedOrders) /\ Len(s) \in Nat
        /\ DOMAIN s = 1..Len(s) /\ DOMAIN Append(s, x) = 1..(Len(s) + 1)
        /\ Append(s, x)[Len(s) + 1] = x /\ \A k \in 1..Len(s) : Append(s, x)[k] = s[k]
    BY <1>1, <1>3, AppendProperties
  <2> DEFINE u == Append(s, x)
  <2>2. Distinct(u)
    <3> HIDE DEF u
    <3>1. \A k \in DOMAIN u : (k = Len(s) + 1 /\ u[k] = x)
                               \/ (k \in DOMAIN s /\ u[k] = s[k])
      BY <2>1 DEF u
    <3> QED
      BY <1>1, <1>2, <3>1 DEF Distinct
  <2>3. at \cup {Len(s) + 1} \subseteq DOMAIN u
    BY <1>1, <2>1
  <2>4. cached' = u /\ u \in Seq(SignedOrders) /\ listed' = at \cup {Len(s) + 1}
    BY <1>2, <2>1
  <2> HIDE DEF u
  <2> QED
    BY <2>2, <2>3, <2>4 DEF CacheOK
<1>6. StreamsOK'
  <2> SUFFICES ASSUME NEW f \in Filler
               PROVE  StreamOK(f, filling[f], Append(s, x), at \cup {Len(s) + 1}, Now)
    BY <1>2, <1>4 DEF StreamsOK
  <2> DEFINE p == filling[f]
             time == Now
  <2>1. StreamOK(f, p, s, at, time)
    BY DEF FlowInv, StreamsOK
  <2> HIDE DEF p, time, s, at, x
  <2> QED
    BY <1>1, <1>3, <2>1, StreamOKGrows DEF p, time
<1>7. (height \in 0..MaxHeight)' /\ BundlesOK' /\ FillersOK' /\ PaymentsOK'
  BY <1>2 DEF FlowInv, BundlesOK, FillersOK, PaymentsOK, TakenOnce
<1> QED
  BY <1>5, <1>6, <1>7 DEF FlowInv

(* An order goes, or a block comes: less is to be streamed.                *)
LEMMA LessIsWanted ==
  ASSUME FlowInv, listed' \subseteq listed, height' \in Int, height <= height',
         UNCHANGED <<cached, filling>>
  PROVE  StreamsOK' /\ CacheOK'
<1>1. cached \in Seq(SignedOrders) /\ listed \subseteq DOMAIN cached /\ height \in Int
  BY DEF FlowInv, CacheOK
<1>2. CacheOK'
  BY DEF FlowInv, CacheOK
<1>3. Now \in Int /\ Now' \in Int /\ Now <= Now'
  <2>1. Now = 12 * height /\ Now' = 12 * height'
    BY DEF Now
  <2>2. \A a, b \in Int : a <= b => 12 * a \in Int /\ 12 * b \in Int /\ 12 * a <= 12 * b
    OBVIOUS
  <2>3. height \in Int /\ height' \in Int /\ height <= height'
    BY <1>1
  <2> QED
    BY <2>1, <2>2, <2>3
<1>4. ASSUME NEW f \in Filler
      PROVE  StreamOK(f, filling[f], cached, listed', Now')
  <2>1. StreamOK(f, filling[f], cached, listed, Now)
    BY DEF FlowInv, StreamsOK
  <2> DEFINE time == Now
             later == Now'
             fewer == listed'
  <2>2. time \in Int /\ later \in Int /\ time <= later /\ fewer \subseteq listed
        /\ StreamOK(f, filling[f], cached, listed, time)
    BY <1>3, <2>1
  <2> HIDE DEF time, later, fewer
  <2>3. StreamOK(f, filling[f], cached, fewer, later)
    BY <1>1, <2>2, StreamOKShrinks
  <2> QED
    BY <2>3 DEF later, fewer
<1> QED
  BY <1>2, <1>4 DEF StreamsOK

LEMMA ForgetOrderInv ==
  ASSUME FlowInv, NEW i, ForgetOrder(i)
  PROVE  FlowInv'
<1>1. listed' \subseteq listed
      /\ UNCHANGED <<height, cached, bundles, filling, spent, paid, taken>>
  BY DEF ForgetOrder, chainVars
<1>2. height \in Int /\ height <= height
  BY DEF FlowInv
<1>3. StreamsOK' /\ CacheOK'
  BY <1>1, <1>2, LessIsWanted
<1>4. (height \in 0..MaxHeight)' /\ BundlesOK' /\ FillersOK' /\ PaymentsOK'
  BY <1>1 DEF FlowInv, BundlesOK, FillersOK, PaymentsOK, TakenOnce
<1> QED
  BY <1>3, <1>4 DEF FlowInv

LEMMA NewBlockInv ==
  ASSUME FlowInv, NewBlock
  PROVE  FlowInv'
<1>1. /\ height < MaxHeight /\ height' = height + 1 /\ height \in 0..MaxHeight
      /\ UNCHANGED <<cached, listed, bundles, filling, spent, paid, taken>>
  BY DEF FlowInv, NewBlock, cacheVars
<1>2. MaxHeight \in Nat
  BY FlowAssumption
<1>3. height' \in 0..MaxHeight /\ height' \in Int /\ height <= height'
  BY <1>1, <1>2
<1>4. StreamsOK' /\ CacheOK'
  BY <1>1, <1>3, LessIsWanted
<1>5. BundlesOK' /\ FillersOK' /\ PaymentsOK'
  BY <1>1 DEF FlowInv, BundlesOK, FillersOK, PaymentsOK, TakenOnce
<1> QED
  BY <1>3, <1>4, <1>5 DEF FlowInv

LEMMA IncludeBundlePaymentsOK ==
  ASSUME FlowInv, NEW b, b \in bundles, IncludeBundle(b)
  PROVE  PaymentsOK'
<1>1. PICK by \in Filler, orders \in Seq(SignedOrders) : \E fills :
        IsFill(by, orders, fills) /\ MadeOf(b, by, orders, fills)
  BY DEF FlowInv, BundlesOK, WellMade, GoodBundle
<1>2. PICK fills : IsFill(by, orders, fills) /\ MadeOf(b, by, orders, fills)
  BY <1>1
<1> DEFINE k == Len(FillTxs(fills, "ru"))
           n == Len(b.txs)
<1> HIDE DEF k, n
<1>3. HasShape(b, by, SignedOrders, orders, fills, k)
  <2>1. k = Len(FillTxs(fills, "ru"))
    BY DEF k
  <2> QED
    BY <1>2, <2>1, BundleShape
<1>4. KindsParted(b, orders, fills, k, Len(b.txs))
  <2>1. Len(b.txs) \in k..Len(b.txs) /\ k = Len(FillTxs(fills, "ru"))
    BY <1>3 DEF HasShape, k
  <2> QED
    BY <1>3, <2>1, OfKindInBundle
<1>5. AggregatesAre(b, orders, fills, k, Len(b.txs))
  BY <1>2, <1>4, BundleAggregates
<1>6. \A f : Aggregated(PaidBy(b, f)) = IF f = by THEN Aggregated(orders) ELSE EmptyMap
  BY <1>2, <1>5, BundlePays
<1>7. \A f : TakenBy(b, f) = IF f = by THEN orders ELSE <<>>
  BY <1>3, <1>4, BundleTakes
<1>8. PICK place \in [DOMAIN orders -> DOMAIN (b.hostTxs \o b.txs)] :
        \A i, j \in DOMAIN orders :
          /\ Spends(b)[place[i]] = KeyOf(orders[i])
          /\ place[i] = place[j] => i = j
  <2>1. SpendsEach(b, orders)
    BY <1>2, <1>3, BundleSpends
  <2> QED
    BY <2>1 DEF SpendsEach
<1> DEFINE D == DOMAIN (b.hostTxs \o b.txs)
           key == Spends(b)
<1>9. /\ \A i, j \in D : key[i] = key[j] => i = j
      /\ ToSet(key) \cap spent = {}
      /\ spent' = spent \cup ToSet(key)
      /\ paid' = [f \in Filler |-> Absorb(paid[f], Aggregated(PaidBy(b, f)))]
      /\ taken' = [f \in Filler |-> taken[f] \o TakenBy(b, f)]
  BY DEF IncludeBundle, Executable
<1>10. ToSet(key) = {key[i] : i \in D}
  BY DEF ToSet, Spends
<1> HIDE DEF D, key
<1>11. \A i \in DOMAIN orders : place[i] \in D /\ key[place[i]] = KeyOf(orders[i])
  BY <1>8 DEF D, key
<1>12. \A i \in DOMAIN orders : KeyOf(orders[i]) \in ToSet(key) /\ KeyOf(orders[i]) \notin spent
                                /\ KeyOf(orders[i]) \in spent'
  BY <1>9, <1>10, <1>11
<1>13. ASSUME NEW i \in DOMAIN orders, NEW j \in DOMAIN orders, orders[i] = orders[j]
       PROVE  i = j
  <2>1. key[place[i]] = key[place[j]]
    BY <1>11, <1>13
  <2>2. place[i] = place[j]
    BY <1>9, <1>11, <2>1
  <2> QED
    BY <1>8, <2>2
<1>14. /\ paid \in [Filler -> SlotMap] /\ taken \in [Filler -> Seq(SignedOrders)]
       /\ \A f \in Filler : paid[f] = Aggregated(taken[f])
       /\ \A f \in Filler : \A i \in DOMAIN taken[f] : KeyOf(taken[f][i]) \in spent
       /\ TakenOnce
  BY DEF FlowInv, PaymentsOK
<1>15. taken'[by] = taken[by] \o orders /\ paid'[by] = Absorb(paid[by], Aggregated(orders))
  BY <1>6, <1>7, <1>9
<1>16. ASSUME NEW f \in Filler, f # by
       PROVE  taken'[f] = taken[f] /\ paid'[f] = paid[f]
  <2>1. taken'[f] = taken[f] \o TakenBy(b, f)
        /\ paid'[f] = Absorb(paid[f], Aggregated(PaidBy(b, f)))
    BY <1>9
  <2>2. TakenBy(b, f) = <<>> /\ Aggregated(PaidBy(b, f)) = EmptyMap
    BY <1>6, <1>7, <1>16
  <2>3. taken[f] \in Seq(SignedOrders) /\ paid[f] \in SlotMap
    BY <1>14
  <2>4. taken[f] \o <<>> = taken[f]
    BY <2>3, ConcatEmptySeq
  <2>5. Absorb(paid[f], EmptyMap) = paid[f]
    BY <2>3, AbsorbEmpty
  <2> QED
    BY <2>1, <2>2, <2>4, <2>5, Zenon
<1> DEFINE old == taken[by]
           new == taken'[by]
           l == Len(old)
           m == Len(orders)
<1>17. /\ new \in Seq(SignedOrders) /\ l \in Nat /\ m \in Nat
       /\ DOMAIN old = 1..l /\ DOMAIN orders = 1..m /\ DOMAIN new = 1..(l + m)
       /\ \A i \in 1..(l + m) : new[i] = IF i <= l THEN old[i] ELSE orders[i - l]
  <2>1. old \in Seq(SignedOrders)
    BY <1>14
  <2> DEFINE c == old \o orders
  <2>2. new = c
    BY <1>15
  <2>3. /\ c \in Seq(SignedOrders) /\ Len(c) = l + m /\ l \in Nat /\ m \in Nat
        /\ DOMAIN old = 1..l /\ DOMAIN orders = 1..m /\ DOMAIN c = 1..(l + m)
        /\ \A i \in 1..(l + m) : c[i] = IF i <= l THEN old[i] ELSE orders[i - l]
    <3> HIDE DEF old
    <3> QED
      BY <2>1, ConcatProperties
  <2> HIDE DEF c, old, new, l, m
  <2> QED
    BY <2>2, <2>3
<1> HIDE DEF old, new, l, m
<1>18. \A i \in DOMAIN new : \/ i \in DOMAIN old /\ new[i] = old[i]
                             \/ i - l \in DOMAIN orders /\ new[i] = orders[i - l]
  BY <1>17
<1>19. /\ paid' \in [Filler -> SlotMap] /\ taken' \in [Filler -> Seq(SignedOrders)]
  <2>1. \A f \in Filler : paid'[f] \in SlotMap
    <3>1. paid'[by] \in SlotMap
      <4>1. paid[by] \in SlotMap /\ Aggregated(orders) \in SlotMap
        BY <1>14, SignedOrdersListed, AggregatedType
      <4> QED
        BY <1>15, <4>1, AbsorbFacts
    <3> QED
      BY <1>14, <1>16, <3>1
  <2>2. \A f \in Filler : taken'[f] \in Seq(SignedOrders)
    BY <1>14, <1>16, <1>17 DEF new
  <2> QED
    BY <1>9, <2>1, <2>2
<1>20. ASSUME NEW f \in Filler
       PROVE  paid'[f] = Aggregated(taken'[f])
  <2>1. CASE f = by
    <3>1. taken[by] \in Seq(SignedOrders) /\ paid[by] = Aggregated(taken[by])
      BY <1>14
    <3>2. Aggregated(taken[by] \o orders) = Absorb(Aggregated(taken[by]), Aggregated(orders))
      BY <3>1, SignedOrdersListed, AggregatedConcat
    <3> QED
      BY <1>15, <2>1, <3>1, <3>2
  <2>2. CASE f # by
    BY <1>14, <1>16, <2>2
  <2> QED
    BY <2>1, <2>2
<1>21. ASSUME NEW f \in Filler, NEW i \in DOMAIN taken'[f]
       PROVE  \/ i \in DOMAIN taken[f] /\ taken'[f][i] = taken[f][i]
              \/ f = by /\ i - l \in DOMAIN orders /\ taken'[f][i] = orders[i - l]
  BY <1>16, <1>18 DEF new, old
<1>22. \A f \in Filler : \A i \in DOMAIN taken'[f] : KeyOf(taken'[f][i]) \in spent'
  <2> HIDE DEF KeyOf
  <2> QED
    BY <1>9, <1>12, <1>14, <1>21
<1>23. ASSUME NEW f \in Filler, NEW i \in DOMAIN taken[f], NEW j \in DOMAIN orders
       PROVE  taken[f][i] # orders[j]
  <2>1. KeyOf(taken[f][i]) \in spent /\ KeyOf(orders[j]) \notin spent
    BY <1>12, <1>14
  <2> QED
    BY <2>1
<1>24. ASSUME NEW f \in Filler, NEW g \in Filler,
              NEW i \in DOMAIN taken'[f], NEW j \in DOMAIN taken'[g],
              taken'[f][i] = taken'[g][j]
       PROVE  f = g /\ i = j
  <2>1. CASE i \in DOMAIN taken[f] /\ taken'[f][i] = taken[f][i]
    <3>1. CASE j \in DOMAIN taken[g] /\ taken'[g][j] = taken[g][j]
      <4>1. taken[f][i] = taken[g][j] /\ i \in DOMAIN taken[f] /\ j \in DOMAIN taken[g]
        BY <1>24, <2>1, <3>1
      <4>2. TakenOnce
        BY <1>14
      <4>3. \A p, q \in Filler : \A ip \in DOMAIN taken[p], iq \in DOMAIN taken[q] :
              taken[p][ip] = taken[q][iq] => p = q /\ ip = iq
        BY ONLY <4>2 DEF TakenOnce
      <4> QED
        BY ONLY <4>1, <4>3, f \in Filler, g \in Filler, ZenonT(30)
    <3>2. CASE g = by /\ j - l \in DOMAIN orders /\ taken'[g][j] = orders[j - l]
      BY <1>23, <1>24, <2>1, <3>2
    <3> QED
      BY <1>21, <3>1, <3>2
  <2>2. CASE f = by /\ i - l \in DOMAIN orders /\ taken'[f][i] = orders[i - l]
    <3>1. CASE j \in DOMAIN taken[g] /\ taken'[g][j] = taken[g][j]
      BY <1>23, <1>24, <2>2, <3>1
    <3>2. CASE g = by /\ j - l \in DOMAIN orders /\ taken'[g][j] = orders[j - l]
      <4>1. i - l = j - l
        BY <1>13, <1>24, <2>2, <3>2
      <4>2. i \in DOMAIN new /\ j \in DOMAIN new
        BY <2>2, <3>2 DEF new
      <4>3. i \in Int /\ j \in Int
        BY <1>17, <4>2
      <4> QED
        BY <1>17, <2>2, <3>2, <4>1, <4>3
    <3> QED
      BY <1>21, <3>1, <3>2
  <2> QED
    BY <1>21, <2>1, <2>2
<1>25. TakenOnce'
  BY <1>24 DEF TakenOnce
<1> QED
  BY <1>19, <1>20, <1>22, <1>25 DEF PaymentsOK

LEMMA IncludeBundleInv ==
  ASSUME FlowInv, NEW b, b \in bundles, IncludeBundle(b)
  PROVE  FlowInv'
<1>1. PaymentsOK'
  BY IncludeBundlePaymentsOK
<1>2. UNCHANGED <<height, cached, listed, bundles, filling>>
  BY DEF IncludeBundle, cacheVars
<1>3. Now' = Now
  BY <1>2 DEF Now
<1>4. (height \in 0..MaxHeight)' /\ CacheOK' /\ BundlesOK' /\ FillersOK' /\ StreamsOK'
  BY <1>2, <1>3 DEF FlowInv, CacheOK, BundlesOK, FillersOK, StreamsOK
<1> QED
  BY <1>1, <1>4 DEF FlowInv

LEMMA FlowStep ==
  ASSUME FlowInv, [FlowNext]_flowVars
  PROVE  FlowInv'
<1>1. CASE \E i \in DOMAIN Orders : SendOrder(i)
  BY <1>1, SendOrderInv
<1>2. CASE \E i \in listed : ForgetOrder(i)
  BY <1>2, ForgetOrderInv
<1>3. ASSUME NEW f \in Filler,
             \/ StartStream(f) \/ FetchPage(f) \/ StreamFails(f)
             \/ \E count \in TargetCounts : FillOrders(f, count)
             \/ SubmitFills(f) \/ ProviderFails(f)
             \/ \E target \in filling[f].targets : StoreBundle(f, target)
             \/ SubmittedFills(f) \/ SubmissionFails(f)
      PROVE  FlowInv'
  BY <1>3, StartStreamInv, FetchPageInv, StreamFailsInv, FillOrdersInv, SubmitFillsInv,
     ProviderFailsInv, StoreBundleInv, SubmittedFillsInv, SubmissionFailsInv
<1>4. CASE \E b \in bundles : IncludeBundle(b)
  BY <1>4, IncludeBundleInv
<1>5. CASE NewBlock
  BY <1>5, NewBlockInv
<1>6. CASE UNCHANGED flowVars
  <2>1. UNCHANGED <<height, cached, listed, bundles, filling, spent, paid, taken>>
    BY <1>6 DEF flowVars
  <2>2. Now' = Now
    BY <2>1 DEF Now
  <2> QED
    BY <2>1, <2>2 DEF FlowInv, CacheOK, BundlesOK, FillersOK, StreamsOK, PaymentsOK, TakenOnce
<1> QED
  BY <1>1, <1>2, <1>3, <1>4, <1>5, <1>6 DEF FlowNext

LEMMA FlowInvariance == FlowSpec => []FlowInv
<1>1. FlowInit => FlowInv
  BY FlowInitInv
<1>2. FlowInv /\ [FlowNext]_flowVars => FlowInv'
  BY FlowStep
<1> QED
  BY <1>1, <1>2, PTL DEF FlowSpec

(* The types of the flow: heights and numbers of fills are in bounds, the  *)
(* cache lists what it got, and payments are amounts of slots.             *)
THEOREM FlowTypes == FlowSpec => []FlowTypeOK
<1>1. FlowInv => FlowTypeOK
  BY DEF FlowInv, FlowTypeOK, CacheOK, FillersOK, FillerOK, PaymentsOK
<1> QED
  BY <1>1, FlowInvariance, PTL

(* OrderFlow's stream_orders, for any cache, pages, filters and times: a   *)
(* stream that ends without an error has yielded, once, every order that   *)
(* the cache had all along and that the filler wants.                      *)
THEOREM StreamsAreWhole == FlowSpec => []StreamedAll
<1>1. ASSUME FlowInv, NEW f \in Filler, filling[f].complete,
             NEW i \in filling[f].before \cap listed, Wanted(f, cached[i])
      PROVE  Cardinality({j \in DOMAIN filling[f].orders :
                            filling[f].orders[j] = cached[i]}) = 1
  <2> DEFINE p == filling[f]
             S == {j \in DOMAIN p.orders : p.orders[j] = cached[i]}
  <2>1. StreamOK(f, p, cached, listed, Now)
    BY <1>1, FillerFacts
  <2>2. WantedAt(f, cached[i], Now)
    BY <1>1 DEF Wanted, WantedAt
  <2>3. Distinct(p.orders) /\ Found(p, cached[i])
    BY <1>1, <2>1, <2>2 DEF StreamOK, YieldedAll
  <2>4. PICK j \in DOMAIN p.orders : p.orders[j] = cached[i]
    BY <2>3 DEF Found
  <2>5. S = {j}
    BY <2>3, <2>4 DEF Distinct
  <2> HIDE DEF S
  <2>6. Cardinality(S) = 1
    BY <2>5, FS_Singleton
  <2> QED
    BY <2>6 DEF S
<1>2. FlowInv => StreamedAll
  BY <1>1 DEF StreamedAll
<1> QED
  BY <1>2, FlowInvariance, PTL

(* What FeePolicySubmitter submits, for any orders and any fillers: the    *)
(* market lets each transaction of a bundle pass in its turn, the fills of *)
(* both chains pay exactly what the orders ask for, and success means that *)
(* the bundle is in the cache for every block that was asked for.          *)
THEOREM FillsPayTheirOrders == FlowSpec => []FillsPayOrders
<1>1. ASSUME FlowInv, NEW b \in bundles
      PROVE  CoveredBundle(b) /\ FillsUpTo(b, Len(b.txs)) = OrdersUpTo(b, Len(b.txs))
  <2>1. GoodBundle(b)
    BY <1>1 DEF FlowInv, BundlesOK, WellMade
  <2> QED
    BY <2>1, GoodBundlePays
<1>2. ASSUME FlowInv, NEW f \in Filler, filling[f].result = {TRUE},
             NEW t \in filling[f].targets, NEW b \in filling[f].bundle
      PROVE  ForTarget(b, t) \in bundles
  BY <1>2, FillerFacts DEF FillerOK
<1>3. FlowInv => FillsPayOrders
  BY <1>1, <1>2 DEF FillsPayOrders
<1> QED
  BY <1>3, FlowInvariance, PTL

(* However many bundles there are of an order, for several blocks, of      *)
(* repeated calls or of fillers that race for it, its inputs are taken     *)
(* once, and a filler has paid exactly for the orders whose inputs it got. *)
THEOREM NobodyPaysTwice == FlowSpec => []NothingPaidTwice
<1>1. FlowInv => NothingPaidTwice
  BY DEF FlowInv, PaymentsOK, TakenOnce, NothingPaidTwice
<1> QED
  BY <1>1, FlowInvariance, PTL
=============================================================================
