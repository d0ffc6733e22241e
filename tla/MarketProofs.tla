---------------------------- MODULE MarketProofs ----------------------------
(***************************************************************************)
(* Lemmas about the operators of Market: what absorbing and removing do to *)
(* the balance of a slot.                                                  *)
(***************************************************************************)
EXTENDS Market, TLAPS

(* A map of slots is a function from a set of slots to amounts.            *)
LEMMA SlotMapMembers ==
  ASSUME NEW m
  PROVE  m \in SlotMap <=> /\ DOMAIN m \subseteq Slot
                           /\ m \in [DOMAIN m -> Amount]
BY DEF SlotMap

(* The empty map is a map of slots and reads as zero everywhere.           *)
LEMMA EmptyMapFacts ==
  /\ EmptyMap \in SlotMap
  /\ \A s \in Slot : Filled(EmptyMap, s) = 0
<1>1. EmptyMap \in [{} -> Amount]
  BY DEF EmptyMap
<1>2. DOMAIN EmptyMap = {}
  BY DEF EmptyMap
<1> QED
  BY <1>1, <1>2, SlotMapMembers DEF Filled

(* The filled amount of a slot is an amount.                               *)
LEMMA FilledType ==
  ASSUME NEW m \in SlotMap, NEW s
  PROVE  Filled(m, s) \in Amount
<1>1. 0 \in Amount
  BY MaxAmountAssumption DEF Amount
<1> QED
  BY <1>1, SlotMapMembers DEF Filled

(* Saturating addition stays in range and below the exact sum.             *)
LEMMA SatAddBounds ==
  ASSUME NEW a \in Amount, NEW b \in Amount
  PROVE  /\ SatAdd(a, b) \in Amount
         /\ SatAdd(a, b) <= a + b
         /\ a <= SatAdd(a, b)
BY MaxAmountAssumption DEF Amount, SatAdd

(* absorb adds the filled amounts, with saturation, in every slot.         *)
LEMMA AbsorbFacts ==
  ASSUME NEW c \in SlotMap, NEW f \in SlotMap
  PROVE  /\ Absorb(c, f) \in SlotMap
         /\ \A s \in Slot : Filled(Absorb(c, f), s) <= Filled(c, s) + Filled(f, s)
         /\ DOMAIN Absorb(c, f) = DOMAIN c \cup DOMAIN f
         /\ \A s \in Slot : Filled(Absorb(c, f), s) = SatAdd(Filled(c, s), Filled(f, s))
<1> DEFINE D == DOMAIN c \cup DOMAIN f
           A == Absorb(c, f)
<1>1. A = [s \in D |-> SatAdd(Filled(c, s), Filled(f, s))]
  BY DEF Absorb
<1>2. D \subseteq Slot
  BY SlotMapMembers
<1>3. \A s : SatAdd(Filled(c, s), Filled(f, s)) \in Amount
  BY FilledType, SatAddBounds
<1>4. A \in [D -> Amount] /\ DOMAIN A = D
  BY <1>1, <1>3
<1>5. A \in SlotMap
  BY <1>2, <1>4, SlotMapMembers
<1>6. ASSUME NEW s \in Slot
      PROVE  Filled(A, s) = SatAdd(Filled(c, s), Filled(f, s))
  <2>1. CASE s \in D
    BY <2>1, <1>1, <1>4 DEF Filled
  <2>2. CASE s \notin D
    <3>1. Filled(A, s) = 0 /\ Filled(c, s) = 0 /\ Filled(f, s) = 0
      BY <2>2, <1>4 DEF Filled
    <3> QED
      BY <3>1, MaxAmountAssumption DEF SatAdd
  <2> QED
    BY <2>1, <2>2
<1>7. ASSUME NEW s \in Slot
      PROVE  Filled(A, s) <= Filled(c, s) + Filled(f, s)
  BY <1>6, FilledType, SatAddBounds
<1> QED
  BY <1>4, <1>5, <1>6, <1>7

(* Two maps with the same slots and balances are the same.                 *)
LEMMA MapsAreEqual ==
  ASSUME NEW c \in SlotMap, NEW d \in SlotMap, DOMAIN c = DOMAIN d,
         \A s \in DOMAIN c : Filled(c, s) = Filled(d, s)
  PROVE  c = d
<1>1. c \in [DOMAIN c -> Amount] /\ d \in [DOMAIN c -> Amount]
  BY SlotMapMembers
<1>2. \A s \in DOMAIN c : c[s] = d[s]
  BY DEF Filled
<1> QED
  BY <1>1, <1>2

(* Saturating addition is associative, and so is absorbing.                *)
LEMMA SatAddAssociative ==
  ASSUME NEW a \in Amount, NEW b \in Amount, NEW c \in Amount
  PROVE  SatAdd(SatAdd(a, b), c) = SatAdd(a, SatAdd(b, c))
BY MaxAmountAssumption DEF Amount, SatAdd

LEMMA AbsorbAssociative ==
  ASSUME NEW c \in SlotMap, NEW d \in SlotMap, NEW e \in SlotMap
  PROVE  Absorb(Absorb(c, d), e) = Absorb(c, Absorb(d, e))
<1> DEFINE left == Absorb(Absorb(c, d), e)
           right == Absorb(c, Absorb(d, e))
<1>1. Absorb(c, d) \in SlotMap /\ Absorb(d, e) \in SlotMap
  BY AbsorbFacts
<1>2. left \in SlotMap /\ right \in SlotMap
  BY <1>1, AbsorbFacts
<1>3. DOMAIN left = DOMAIN right
  <2>1. DOMAIN Absorb(c, d) = DOMAIN c \cup DOMAIN d /\ DOMAIN Absorb(d, e) = DOMAIN d \cup DOMAIN e
    BY AbsorbFacts
  <2>2. DOMAIN left = DOMAIN Absorb(c, d) \cup DOMAIN e
        /\ DOMAIN right = DOMAIN c \cup DOMAIN Absorb(d, e)
    BY <1>1, AbsorbFacts
  <2> QED
    BY <2>1, <2>2
<1>4. ASSUME NEW s \in DOMAIN left
      PROVE  Filled(left, s) = Filled(right, s)
  <2>1. s \in Slot
    BY <1>2, SlotMapMembers
  <2>2. Filled(left, s) = SatAdd(Filled(Absorb(c, d), s), Filled(e, s))
        /\ Filled(right, s) = SatAdd(Filled(c, s), Filled(Absorb(d, e), s))
    <3> DEFINE cd == Absorb(c, d)
               de == Absorb(d, e)
    <3>1. cd \in SlotMap /\ de \in SlotMap
      BY <1>1
    <3> HIDE DEF cd, de
    <3>2. Filled(Absorb(cd, e), s) = SatAdd(Filled(cd, s), Filled(e, s))
      BY ONLY <2>1, <3>1, e \in SlotMap, AbsorbFacts, ZenonT(30)
    <3>3. Filled(Absorb(c, de), s) = SatAdd(Filled(c, s), Filled(de, s))
      BY ONLY <2>1, <3>1, c \in SlotMap, AbsorbFacts, ZenonT(30)
    <3> QED
      BY <3>2, <3>3 DEF cd, de
  <2>3. Filled(Absorb(c, d), s) = SatAdd(Filled(c, s), Filled(d, s))
        /\ Filled(Absorb(d, e), s) = SatAdd(Filled(d, s), Filled(e, s))
    BY <2>1, AbsorbFacts
  <2>4. Filled(c, s) \in Amount /\ Filled(d, s) \in Amount /\ Filled(e, s) \in Amount
    BY FilledType
  <2> QED
    BY <2>2, <2>3, <2>4, SatAddAssociative
<1> HIDE DEF left, right
<1>5. left = right
  BY <1>2, <1>3, <1>4, MapsAreEqual
<1> QED
  BY <1>5 DEF left, right

(* Nothing is absorbed of the empty map.                                   *)
LEMMA AbsorbEmpty ==
  ASSUME NEW c \in SlotMap
  PROVE  Absorb(c, EmptyMap) = c
<1>1. DOMAIN EmptyMap = {}
  BY DEF EmptyMap
<1>2. DOMAIN Absorb(c, EmptyMap) = DOMAIN c /\ Absorb(c, EmptyMap) \in SlotMap
  BY <1>1, AbsorbFacts, EmptyMapFacts
<1>3. ASSUME NEW s \in DOMAIN c
      PROVE  Filled(Absorb(c, EmptyMap), s) = Filled(c, s)
  <2>1. s \in Slot /\ Filled(EmptyMap, s) = 0 /\ Filled(c, s) \in Amount
    BY SlotMapMembers, EmptyMapFacts, FilledType
  <2>2. Filled(Absorb(c, EmptyMap), s) = SatAdd(Filled(c, s), 0)
    BY <2>1, AbsorbFacts, EmptyMapFacts
  <2> QED
    BY <2>1, <2>2, MaxAmountAssumption DEF SatAdd, Amount
<1> QED
  BY <1>2, <1>3, MapsAreEqual

(* A detector that holds nothing reports exactly what it detects.          *)
LEMMA AbsorbIntoEmpty ==
  ASSUME NEW m \in SlotMap
  PROVE  Absorb(EmptyMap, m) = m
<1> DEFINE A == Absorb(EmptyMap, m)
<1>1. A = [s \in DOMAIN m |-> SatAdd(Filled(EmptyMap, s), Filled(m, s))]
  BY DEF Absorb, EmptyMap
<1>2. ASSUME NEW s \in DOMAIN m
      PROVE  SatAdd(Filled(EmptyMap, s), Filled(m, s)) = m[s]
  <2>1. m[s] \in Amount /\ s \in Slot
    BY SlotMapMembers
  <2>2. Filled(EmptyMap, s) = 0 /\ Filled(m, s) = m[s]
    BY <2>1, EmptyMapFacts DEF Filled
  <2> QED
    BY <2>1, <2>2, MaxAmountAssumption DEF SatAdd, Amount
<1>3. m = [s \in DOMAIN m |-> m[s]]
  BY SlotMapMembers
<1> QED
  BY <1>1, <1>2, <1>3

(* Deducting what is there leaves a map of slots, and takes exactly the    *)
(* ordered amount from the slots that are deducted.                        *)
LEMMA DeductFacts ==
  ASSUME NEW c \in SlotMap, NEW o \in SlotMap,
         NEW d \in SUBSET (DOMAIN o \ Shortfall(c, o))
  PROVE  /\ Deduct(c, o, d) \in SlotMap
         /\ \A s \in d : Filled(Deduct(c, o, d), s) + Filled(o, s) = Filled(c, s)
         /\ \A s \in Slot \ d : Filled(Deduct(c, o, d), s) = Filled(c, s)
<1> DEFINE R == Deduct(c, o, d)
<1>1. ASSUME NEW s \in d
      PROVE  /\ s \in DOMAIN c /\ s \in DOMAIN o
             /\ c[s] \in Amount /\ o[s] \in Amount /\ o[s] <= c[s]
  <2>1. s \in DOMAIN o /\ s \in DOMAIN c /\ ~(c[s] < o[s])
    BY DEF Shortfall
  <2>2. c[s] \in Amount /\ o[s] \in Amount
    BY <2>1, SlotMapMembers
  <2> QED
    BY <2>1, <2>2, MaxAmountAssumption DEF Amount
<1>2. R = [s \in DOMAIN c |-> IF s \in d THEN c[s] - o[s] ELSE c[s]]
  BY DEF Deduct
<1>3. ASSUME NEW s \in DOMAIN c
      PROVE  (IF s \in d THEN c[s] - o[s] ELSE c[s]) \in Amount
  <2>1. CASE s \in d
    BY <2>1, <1>1, MaxAmountAssumption DEF Amount
  <2>2. CASE s \notin d
    BY <2>2, SlotMapMembers
  <2> QED
    BY <2>1, <2>2
<1>4. R \in [DOMAIN c -> Amount] /\ DOMAIN R = DOMAIN c
  BY <1>2, <1>3
<1>5. R \in SlotMap
  BY <1>4, SlotMapMembers
<1>6. ASSUME NEW s \in d
      PROVE  Filled(R, s) + Filled(o, s) = Filled(c, s)
  <2>1. Filled(R, s) = c[s] - o[s] /\ Filled(o, s) = o[s] /\ Filled(c, s) = c[s]
    BY <1>1, <1>2, <1>4 DEF Filled
  <2> QED
    BY <2>1, <1>1, MaxAmountAssumption DEF Amount
<1>7. ASSUME NEW s \in Slot \ d
      PROVE  Filled(R, s) = Filled(c, s)
  BY <1>2, <1>4 DEF Filled
<1> QED
  BY <1>5, <1>6, <1>7

(* Whatever checked_remove_ru_tx_events does, it leaves a map of slots.    *)
LEMMA CheckedRemoveType ==
  ASSUME NEW c \in SlotMap, NEW f \in SlotMap, NEW o \in SlotMap,
         NEW r \in CheckedRemove(c, f, o)
  PROVE  r.ctx \in SlotMap /\ r.ok \in BOOLEAN
<1> DEFINE A == Absorb(c, f)
<1>1. A \in SlotMap
  BY AbsorbFacts
<1>2. CASE ~CheckRuTxEvents(c, f, o)
  <2>1. r = [ok |-> FALSE, ctx |-> c]
    BY <1>2 DEF CheckedRemove
  <2> QED
    BY <2>1
<1>3. CASE CheckRuTxEvents(c, f, o) /\ Shortfall(A, o) = {}
  <2>1. r = [ok |-> TRUE, ctx |-> Deduct(A, o, DOMAIN o)]
    BY <1>3 DEF CheckedRemove, UncheckedRemove
  <2>2. Deduct(A, o, DOMAIN o) \in SlotMap
    BY <1>1, <1>3, DeductFacts
  <2> QED
    BY <2>1, <2>2
<1>4. CASE CheckRuTxEvents(c, f, o) /\ Shortfall(A, o) # {}
  <2>1. PICK d \in DeductedBeforeError(A, o) :
             r = [ok |-> FALSE, ctx |-> Deduct(A, o, d)]
    BY <1>4 DEF CheckedRemove, UncheckedRemove
  <2>2. d \in SUBSET (DOMAIN o \ Shortfall(A, o))
    BY DEF DeductedBeforeError
  <2>3. Deduct(A, o, d) \in SlotMap
    BY <1>1, <2>2, DeductFacts
  <2> QED
    BY <2>1, <2>3
<1> QED
  BY <1>2, <1>3, <1>4

(* When every ordered amount is positive the check decides: a call that    *)
(* fails it leaves the context alone, and one that passes it succeeds, and *)
(* takes exactly the ordered amounts out of what the context and the fills *)
(* held together.                                                          *)
LEMMA CheckedRemoveExact ==
  ASSUME NEW c \in SlotMap, NEW f \in SlotMap, NEW o \in SlotMap,
         \A s \in DOMAIN o : o[s] > 0,
         NEW r \in CheckedRemove(c, f, o)
  PROVE  /\ ~CheckRuTxEvents(c, f, o) => ~r.ok /\ r.ctx = c
         /\ CheckRuTxEvents(c, f, o) =>
              /\ r.ok
              /\ \A s \in Slot : Filled(r.ctx, s) + Filled(o, s)
                                   = SatAdd(Filled(c, s), Filled(f, s))
<1> DEFINE A == Absorb(c, f)
<1>1. CASE ~CheckRuTxEvents(c, f, o)
  <2>1. r = [ok |-> FALSE, ctx |-> c]
    BY <1>1 DEF CheckedRemove
  <2> QED
    BY <1>1, <2>1
<1>2. CASE CheckRuTxEvents(c, f, o)
  <2>1. A \in SlotMap /\ \A s \in Slot : Filled(A, s) = SatAdd(Filled(c, s), Filled(f, s))
    BY AbsorbFacts
  <2>2. ASSUME NEW s \in DOMAIN o
        PROVE  s \in DOMAIN A /\ ~(A[s] < o[s])
    <3>1. s \in Slot /\ o[s] \in Amount /\ o[s] > 0
      BY SlotMapMembers
    <3>2. o[s] <= Filled(A, s)
      BY <1>2, <2>1, <3>1 DEF CheckRuTxEvents
    <3>3. s \in DOMAIN A
      BY <3>1, <3>2, MaxAmountAssumption DEF Filled, Amount
    <3>4. A[s] \in Amount /\ Filled(A, s) = A[s]
      BY <2>1, <3>3, SlotMapMembers DEF Filled
    <3> QED
      BY <3>1, <3>2, <3>3, <3>4, MaxAmountAssumption DEF Amount
  <2>3. Shortfall(A, o) = {}
    BY <2>2 DEF Shortfall
  <2>4. r = [ok |-> TRUE, ctx |-> Deduct(A, o, DOMAIN o)]
    BY <1>2, <2>3 DEF CheckedRemove, UncheckedRemove
  <2>5. ASSUME NEW s \in Slot
        PROVE  Filled(Deduct(A, o, DOMAIN o), s) + Filled(o, s) = Filled(A, s)
    <3>1. CASE s \in DOMAIN o
      BY <2>1, <2>3, <3>1, DeductFacts
    <3>2. CASE s \notin DOMAIN o
      <4>1. Filled(Deduct(A, o, DOMAIN o), s) = Filled(A, s) /\ Filled(o, s) = 0
        BY <2>1, <2>3, <3>2, DeductFacts DEF Filled
      <4>2. Filled(A, s) \in Amount
        BY <2>1, FilledType
      <4> QED
        BY <4>1, <4>2, MaxAmountAssumption DEF Amount
    <3> QED
      BY <3>1, <3>2
  <2> QED
    BY <1>2, <2>1, <2>4, <2>5
<1> QED
  BY <1>1, <1>2

(* Whether it fails or succeeds, and takes no more out of a slot than the  *)
(* context and the fills held: checked_remove_ru_tx_events is atomic.      *)
THEOREM CheckedRemoveAtomic ==
  ASSUME NEW c \in SlotMap, NEW f \in SlotMap, NEW o \in SlotMap,
         \A s \in DOMAIN o : o[s] > 0,
         NEW r \in CheckedRemove(c, f, o)
  PROVE  /\ ~r.ok => r.ctx = c
         /\ r.ok => \A s \in Slot :
              Filled(r.ctx, s) + Filled(o, s) <= Filled(c, s) + Filled(f, s)
<1>1. \A s \in Slot : SatAdd(Filled(c, s), Filled(f, s)) <= Filled(c, s) + Filled(f, s)
  BY FilledType, SatAddBounds
<1> QED
  BY <1>1, CheckedRemoveExact
=============================================================================
