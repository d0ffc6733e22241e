---------------------------- MODULE ChainProofs ----------------------------
(***************************************************************************)
(* Proofs about what a node keeps of the chain it follows: the journals,   *)
(* for any branches and any width of the heights, in builds with and       *)
(* without overflow checks, and the data of a block, for any transactions  *)
(* and any data of others.                                                 *)
(***************************************************************************)
EXTENDS JournalSet, ZenithBlock, RollupChain, ListProofs

(* The invariant is inductive as it stands: the heights are counted from   *)
(* the first journal, so that a lookup needs no walk along the chain.      *)
IndInv == TypeOK /\ Chained

-----------------------------------------------------------------------------
(* Appending a journal that links to the last one gives a chain.           *)
LEMMA AppendKeepsChain ==
  ASSUME NEW s \in Seq(Journal), IsChain(s), NEW j \in Journal,
         s # <<>> => /\ HeightOf[j] = HeightOf[s[Len(s)]] + 1
                     /\ PrevOf[j] = s[Len(s)]
  PROVE  IsChain(Append(s, j)) /\ Append(s, j) \in Seq(Journal)
<1>1. Append(s, j) \in Seq(Journal)
  OBVIOUS
<1>2. /\ Len(Append(s, j)) = Len(s) + 1
      /\ Append(s, j)[Len(s) + 1] = j
      /\ \A i \in 1..Len(s) : Append(s, j)[i] = s[i]
  OBVIOUS
<1>3. ASSUME NEW i \in 1..Len(Append(s, j))
      PROVE  /\ HeightOf[Append(s, j)[i]] = HeightOf[Append(s, j)[1]] + i - 1
             /\ i > 1 => PrevOf[Append(s, j)[i]] = Append(s, j)[i - 1]
  <2>1. CASE i \in 1..Len(s)
    BY <2>1, <1>2 DEF IsChain
  <2>2. CASE i = Len(s) + 1 /\ s = <<>>
    BY <2>2, <1>2, JournalAssumption
  <2>3. CASE i = Len(s) + 1 /\ s # <<>>
    <3>1. Len(s) \in 1..Len(s)
      BY <2>3
    <3>2. HeightOf[s[Len(s)]] = HeightOf[s[1]] + Len(s) - 1
      BY <3>1 DEF IsChain
    <3>3. HeightOf[s[1]] \in Nat /\ HeightOf[s[Len(s)]] \in Nat
      BY <3>1, JournalAssumption
    <3> QED
      BY <2>3, <3>1, <3>2, <3>3, <1>2
  <2> QED
    BY <2>1, <2>2, <2>3, <1>2
<1> QED
  BY <1>1, <1>3 DEF IsChain

(* A prefix of a chain is a chain.                                         *)
LEMMA PrefixIsChain ==
  ASSUME NEW s \in Seq(Journal), IsChain(s), NEW n \in 0..Len(s)
  PROVE  /\ SubSeq(s, 1, n) \in Seq(Journal)
         /\ Len(SubSeq(s, 1, n)) = n
         /\ \A i \in 1..n : SubSeq(s, 1, n)[i] = s[i]
         /\ IsChain(SubSeq(s, 1, n))
<1>1. /\ SubSeq(s, 1, n) \in Seq(Journal)
      /\ Len(SubSeq(s, 1, n)) = n
      /\ \A i \in 1..n : SubSeq(s, 1, n)[i] = s[i]
  OBVIOUS
<1> QED
  BY <1>1 DEF IsChain

(* What is left of a chain without its first journal is a chain.           *)
LEMMA TailIsChain ==
  ASSUME NEW s \in Seq(Journal), IsChain(s), s # <<>>
  PROVE  /\ Tail(s) \in Seq(Journal)
         /\ Len(Tail(s)) = Len(s) - 1
         /\ \A i \in 1..(Len(s) - 1) : Tail(s)[i] = s[i + 1]
         /\ IsChain(Tail(s))
<1>1. /\ Tail(s) \in Seq(Journal)
      /\ Len(Tail(s)) = Len(s) - 1
      /\ \A i \in 1..(Len(s) - 1) : Tail(s)[i] = s[i + 1]
  OBVIOUS
<1>2. ASSUME NEW i \in 1..Len(Tail(s))
      PROVE  /\ HeightOf[Tail(s)[i]] = HeightOf[Tail(s)[1]] + i - 1
             /\ i > 1 => PrevOf[Tail(s)[i]] = Tail(s)[i - 1]
  <2>1. /\ i + 1 \in 1..Len(s) /\ 2 \in 1..Len(s)
        /\ Tail(s)[i] = s[i + 1] /\ Tail(s)[1] = s[2]
        /\ i > 1 => Tail(s)[i - 1] = s[i]
    BY <1>1
  <2>2. /\ HeightOf[s[i + 1]] = HeightOf[s[1]] + (i + 1) - 1
        /\ HeightOf[s[2]] = HeightOf[s[1]] + 2 - 1
        /\ PrevOf[s[i + 1]] = s[i]
    BY <2>1 DEF IsChain
  <2>3. HeightOf[s[1]] \in Nat
    BY <2>1, JournalAssumption
  <2> QED
    BY <2>1, <2>2, <2>3
<1> QED
  BY <1>1, <1>2 DEF IsChain

(* In a chain the index computed from a height is that of its journal.     *)
LEMMA IndexOfHeight ==
  ASSUME TypeOK, Chained, NEW i \in 1..Size
  PROVE  IndexOf(HeightOf[journals[i]]) = i
<1>1. Size \in 1..Size /\ 1 \in 1..Size
  BY DEF TypeOK, Size
<1>2. /\ HeightOf[journals[i]] = HeightOf[journals[1]] + i - 1
      /\ HeightOf[journals[Size]] = HeightOf[journals[1]] + Size - 1
  BY <1>1 DEF Chained, IsChain, Size
<1>3. HeightOf[journals[1]] \in Nat
  BY <1>1, JournalAssumption DEF TypeOK, Size
<1>4. latestHeight = {HeightOf[journals[Size]]}
  BY <1>1 DEF Chained, Some, Back
<1> QED
  BY <1>1, <1>2, <1>3, <1>4 DEF IndexOf, Earliest, TypeOK, Size

(* A journal found by its height is in the set, at the computed index.     *)
LEMMA FoundAtIndex ==
  ASSUME TypeOK, Chained, NEW height \in Nat, NEW old \in ByHeight(height)
  PROVE  /\ IndexOf(height) \in 1..Size
         /\ old = journals[IndexOf(height)]
         /\ old \in Journal
         /\ height = HeightOf[old]
<1>1. IndexOf(height) \in 1..Size /\ old = journals[IndexOf(height)]
  BY DEF ByHeight
<1>2. old \in Journal
  BY <1>1 DEF TypeOK, Size
<1>3. HeightOf[old] = HeightOf[journals[1]] + IndexOf(height) - 1
  BY <1>1 DEF Chained, IsChain, Size
<1>4. 1 \in 1..Size /\ HeightOf[journals[1]] \in Nat
  BY <1>1, JournalAssumption DEF TypeOK, Size
<1>5. IndexOf(height) = height - HeightOf[journals[1]] + 1
  BY <1>1, <1>4 DEF IndexOf, Earliest
<1> QED
  BY <1>1, <1>2, <1>3, <1>4, <1>5

-----------------------------------------------------------------------------
LEMMA InitEstablishes == Init => IndInv
<1> SUFFICES ASSUME Init PROVE IndInv
  OBVIOUS
<1>1. journals = <<>> /\ Len(journals) = 0
  BY DEF Init
<1>2. journals \in Seq(Journal) /\ popped \in Seq(Journal)
  BY DEF Init
<1>3. TypeOK
  BY <1>2 DEF Init, TypeOK
<1>4. Chained
  BY <1>1 DEF Chained, IsChain, Size
<1> QED
  BY <1>3, <1>4 DEF IndInv

(* Appending j to a chain it links to, with the latest height and hash.    *)
LEMMA AppendInnerKeeps ==
  ASSUME IndInv, NEW kept \in Seq(Journal), IsChain(kept), NEW j \in Journal,
         kept # <<>> => /\ HeightOf[j] = HeightOf[kept[Len(kept)]] + 1
                        /\ PrevOf[j] = kept[Len(kept)],
         AppendInner(kept, j), UNCHANGED <<panicked, popped>>
  PROVE  IndInv'
<1>1. IsChain(Append(kept, j)) /\ Append(kept, j) \in Seq(Journal)
  BY AppendKeepsChain
<1>2. Len(Append(kept, j)) = Len(kept) + 1 /\ Append(kept, j)[Len(kept) + 1] = j
  OBVIOUS
<1>3. HeightOf[j] \in 0..(Width - 1) /\ j \in Hash
  BY JournalAssumption
<1>4. TypeOK'
  BY <1>1, <1>3 DEF IndInv, TypeOK, AppendInner, Some
<1>5. Chained'
  BY <1>1, <1>2 DEF AppendInner, Chained, IsChain, Size, Back
<1> QED
  BY <1>4, <1>5 DEF IndInv

LEMMA TryAppendKeeps ==
  ASSUME IndInv, NEW j \in Journal, TryAppend(j)
  PROVE  IndInv'
<1>1. journals \in Seq(Journal) /\ IsChain(journals)
  BY DEF IndInv, TypeOK, Chained
<1>2. ASSUME journals # <<>>
      PROVE  /\ HeightOf[j] = HeightOf[journals[Len(journals)]] + 1
             /\ PrevOf[j] = journals[Len(journals)]
  <2>1. Size > 0 /\ Back \in Journal
    BY <1>2, <1>1 DEF Size, Back
  <2>2. latestHeight = {HeightOf[Back]} /\ latestHash = {Back}
    BY <2>1 DEF IndInv, Chained, Some
  <2>3. HeightOf[j] = (HeightOf[Back] + 1) % Width
    BY <2>2 DEF TryAppend, HeightFits
  <2>4. HeightOf[Back] \in Nat /\ HeightOf[Back] + 1 < Width /\ Width \in Nat
    BY <2>1, JournalAssumption
  <2>5. (HeightOf[Back] + 1) % Width = HeightOf[Back] + 1
    BY <2>4
  <2>6. PrevOf[j] = Back
    BY <2>2 DEF TryAppend, PrevFits
  <2> QED
    BY <2>3, <2>5, <2>6 DEF Back, Size
<1> QED
  BY <1>1, <1>2, AppendInnerKeeps DEF TryAppend

LEMMA AppendOverwriteKeeps ==
  ASSUME IndInv, NEW j \in Journal, AppendOverwrite(j)
  PROVE  IndInv'
<1>1. PICK old \in ByHeight(HeightOf[j]) :
        /\ PrevOf[old] = PrevOf[j]
        /\ IF Overflows(old)
           THEN panicked' = TRUE /\ UNCHANGED <<journals, latestHeight, latestHash>>
           ELSE AppendInner(KeptBelow(HeightOf[j]), j) /\ UNCHANGED panicked
  BY DEF AppendOverwrite
<1> DEFINE n == IndexOf(HeightOf[j])
<1>2. UNCHANGED popped
  BY DEF AppendOverwrite
<1>3. HeightOf[j] \in Nat
  BY JournalAssumption
<1>4. n \in 1..Size /\ old = journals[n] /\ old \in Journal /\ HeightOf[j] = HeightOf[old]
  BY <1>3, FoundAtIndex DEF IndInv
<1>5. CASE Overflows(old)
  BY <1>1, <1>2, <1>5 DEF IndInv, TypeOK, Chained, IsChain, Size, Back
<1>6. CASE ~Overflows(old)
  <2>1. journals \in Seq(Journal) /\ IsChain(journals) /\ n - 1 \in 0..Len(journals)
    BY <1>4 DEF IndInv, TypeOK, Chained, Size
  <2> DEFINE kept == SubSeq(journals, 1, n - 1)
  <2>2. /\ kept \in Seq(Journal) /\ Len(kept) = n - 1 /\ IsChain(kept)
        /\ \A i \in 1..(n - 1) : kept[i] = journals[i]
    BY <2>1, PrefixIsChain
  <2>3. ASSUME kept # <<>>
        PROVE  /\ HeightOf[j] = HeightOf[kept[Len(kept)]] + 1
               /\ PrevOf[j] = kept[Len(kept)]
    <3>1. n - 1 \in 1..Size /\ n > 1
      <4>1. Size \in Nat /\ n \in 1..Size
        BY <1>4, <2>1 DEF Size
      <4>2. Len(kept) # 0
        BY <2>2, <2>3
      <4> HIDE DEF n, kept
      <4> QED
        BY <2>2, <4>1, <4>2
    <3>2. kept[Len(kept)] = journals[n - 1]
      BY <3>1, <2>2
    <3>3. /\ HeightOf[journals[n]] = HeightOf[journals[1]] + n - 1
          /\ HeightOf[journals[n - 1]] = HeightOf[journals[1]] + (n - 1) - 1
          /\ PrevOf[journals[n]] = journals[n - 1]
      BY <3>1, <1>4, <2>1 DEF IsChain, Size
    <3>4. HeightOf[journals[1]] \in Nat
      BY <3>1, <2>1, JournalAssumption DEF Size
    <3> QED
      BY <3>1, <3>2, <3>3, <3>4, <1>1, <1>4
  <2>4. AppendInner(kept, j) /\ UNCHANGED <<panicked, popped>>
    BY <1>1, <1>2, <1>6 DEF KeptBelow
  <2> HIDE DEF kept
  <2> QED
    BY <2>2, <2>3, <2>4, AppendInnerKeeps
<1> QED
  BY <1>5, <1>6

LEMMA PopFrontKeeps ==
  ASSUME IndInv, PopFront
  PROVE  IndInv'
<1>1. journals \in Seq(Journal) /\ IsChain(journals) /\ journals # <<>> /\ Size > 0
  BY DEF IndInv, TypeOK, Chained, PopFront, Size
<1>2. /\ Tail(journals) \in Seq(Journal) /\ IsChain(Tail(journals))
      /\ Len(Tail(journals)) = Size - 1
      /\ \A i \in 1..(Size - 1) : Tail(journals)[i] = journals[i + 1]
  BY <1>1, TailIsChain DEF Size
<1>3. journals[1] \in Journal
  BY <1>1 DEF Size
<1>4. TypeOK'
  BY <1>2, <1>3 DEF IndInv, TypeOK, PopFront
<1>5. Size' > 0 => Back' = Back
  BY <1>1, <1>2 DEF PopFront, Size, Back
<1>6. Chained'
  BY <1>1, <1>2, <1>5 DEF IndInv, Chained, IsChain, PopFront
<1> QED
  BY <1>4, <1>6 DEF IndInv

LEMMA PopBackKeeps ==
  ASSUME IndInv, PopBack
  PROVE  IndInv'
<1>1. journals \in Seq(Journal) /\ IsChain(journals) /\ Size \in 1..Size
  BY DEF IndInv, TypeOK, Chained, PopBack, Size
<1>2. Back \in Journal
  BY <1>1 DEF Size, Back
<1>3. CASE Overflows(Back)
  BY <1>3 DEF PopBack, IndInv, TypeOK, Chained, IsChain, Size, Back
<1>4. CASE ~Overflows(Back)
  <2>1. /\ journals' = SubSeq(journals, 1, Size - 1)
        /\ latestHeight' = {HeightBelow(Back)}
        /\ latestHash' = {PrevOf[Back]}
        /\ UNCHANGED <<panicked, popped>>
    BY <1>4 DEF PopBack, Some
  <2>2. /\ journals' \in Seq(Journal) /\ Len(journals') = Size - 1 /\ IsChain(journals')
        /\ \A i \in 1..(Size - 1) : journals'[i] = journals[i]
    <3>1. Size - 1 \in 0..Len(journals)
      BY <1>1 DEF Size
    <3> HIDE DEF Size
    <3>2. /\ SubSeq(journals, 1, Size - 1) \in Seq(Journal)
          /\ Len(SubSeq(journals, 1, Size - 1)) = Size - 1
          /\ \A i \in 1..(Size - 1) : SubSeq(journals, 1, Size - 1)[i] = journals[i]
          /\ IsChain(SubSeq(journals, 1, Size - 1))
      BY <1>1, <3>1, PrefixIsChain
    <3> QED
      BY <2>1, <3>2
  <2>3. HeightOf[Back] \in Nat /\ HeightOf[Back] + 1 < Width /\ PrevOf[Back] \in Hash
    BY <1>2, JournalAssumption
  <2>4. Width \in Nat
    BY JournalAssumption
  <2>5. /\ HeightBelow(Back) \in 0..(Width - 1)
        /\ HeightOf[Back] > 0 => HeightBelow(Back) = HeightOf[Back] - 1
    <3>1. CASE HeightOf[Back] = 0
      <4>1. HeightBelow(Back) = (Width - 1) % Width
        BY <3>1, <2>4 DEF HeightBelow
      <4> QED
        BY <4>1, <3>1, <2>3, <2>4
    <3>2. CASE HeightOf[Back] > 0
      <4> DEFINE below == HeightOf[Back] - 1
      <4>1. below \in 0..(Width - 1)
        BY <3>2, <2>3, <2>4
      <4>2. HeightOf[Back] + Width - 1 = Width + below
        BY <2>3, <2>4
      <4>3. (Width + below) % Width = below
        BY <4>1, <2>4
      <4> QED
        BY <4>1, <4>2, <4>3 DEF HeightBelow
    <3> QED
      BY <3>1, <3>2, <2>3
  <2>6. TypeOK'
    BY <2>1, <2>2, <2>3, <2>5 DEF IndInv, TypeOK, Some
  <2>7. ASSUME Size' > 0
        PROVE  latestHeight' = Some(HeightOf[Back])' /\ latestHash' = Some(Back)'
    <3>1. Size > 1 /\ Size - 1 \in 1..Size /\ Back' = journals[Size - 1]
      BY <2>7, <2>2, <1>1 DEF Size, Back
    <3>2. /\ HeightOf[Back] = HeightOf[journals[1]] + Size - 1
          /\ HeightOf[journals[Size - 1]] = HeightOf[journals[1]] + (Size - 1) - 1
          /\ PrevOf[Back] = journals[Size - 1]
      BY <1>1, <3>1 DEF IsChain, Size, Back
    <3>3. HeightOf[journals[1]] \in Nat
      BY <1>1, <3>1, JournalAssumption DEF Size
    <3>4. HeightBelow(Back) = HeightOf[journals[Size - 1]]
      BY <3>1, <3>2, <3>3, <2>5
    <3> QED
      BY <2>1, <3>1, <3>2, <3>4 DEF Some
  <2> QED
    BY <2>2, <2>6, <2>7 DEF IndInv, Chained, IsChain
<1> QED
  BY <1>3, <1>4

LEMMA StepKeeps == IndInv /\ [Next]_vars => IndInv'
<1> SUFFICES ASSUME IndInv, [Next]_vars PROVE IndInv'
  OBVIOUS
<1>1. ASSUME NEW j \in Journal, TryAppend(j) PROVE IndInv'
  BY <1>1, TryAppendKeeps
<1>2. ASSUME NEW j \in Journal, AppendOverwrite(j) PROVE IndInv'
  BY <1>2, AppendOverwriteKeeps
<1>3. CASE PopFront
  BY <1>3, PopFrontKeeps
<1>4. CASE PopBack
  BY <1>4, PopBackKeeps
<1>5. CASE UNCHANGED vars
  BY <1>5 DEF vars, IndInv, TypeOK, Chained, IsChain, Size, Back
<1> QED
  BY <1>1, <1>2, <1>3, <1>4, <1>5 DEF Next

(* The journals always form one chain by height and hash, which ends at    *)
(* the recorded latest height and hash: what try_append checks against.    *)
THEOREM JournalsAreChained == Spec => []Chained
<1>1. Init => IndInv
  BY InitEstablishes
<1>2. IndInv /\ [Next]_vars => IndInv'
  BY StepKeeps
<1>3. IndInv => Chained
  BY DEF IndInv
<1> QED
  BY <1>1, <1>2, <1>3, PTL DEF Spec

(* Every journal held is found at its height by index_of's subtraction.    *)
THEOREM LookupIsRight == Spec => []LookupRight
<1>1. Init => IndInv
  BY InitEstablishes
<1>2. IndInv /\ [Next]_vars => IndInv'
  BY StepKeeps
<1>3. IndInv => LookupRight
  <2> SUFFICES ASSUME IndInv, NEW i \in 1..Size
               PROVE  ByHeight(HeightOf[journals[i]]) = {journals[i]}
    BY DEF LookupRight
  <2>1. IndexOf(HeightOf[journals[i]]) = i
    BY IndexOfHeight DEF IndInv
  <2> QED
    BY <2>1 DEF ByHeight
<1> QED
  BY <1>1, <1>2, <1>3, PTL DEF Spec

-----------------------------------------------------------------------------
(* Sequences of which a prefix has been handed out.                        *)
LEMMA ConcatAppend ==
  ASSUME NEW S, NEW s \in Seq(S), NEW t \in Seq(S), NEW e \in S
  PROVE  s \o Append(t, e) = Append(s \o t, e)
<1>1. Append(t, e) = t \o <<e>> /\ <<e>> \in Seq(S)
  BY AppendIsConcat
<1>2. s \o t \in Seq(S)
  BY ConcatProperties
<1>3. Append(s \o t, e) = (s \o t) \o <<e>>
  BY <1>2, AppendIsConcat
<1> QED
  BY <1>1, <1>3, ConcatAssociative

LEMMA ConcatPrefix ==
  ASSUME NEW S, NEW s \in Seq(S), NEW t \in Seq(S), NEW n \in 0..Len(t)
  PROVE  SubSeq(s \o t, 1, Len(s) + n) = s \o SubSeq(t, 1, n)
<1> DEFINE a == SubSeq(s \o t, 1, Len(s) + n)
           p == SubSeq(t, 1, n)
<1>1. /\ s \o t \in Seq(S) /\ Len(s \o t) = Len(s) + Len(t)
      /\ Len(s) \in Nat /\ Len(t) \in Nat /\ n \in Nat /\ n <= Len(t)
      /\ \A i \in 1..(Len(s) + Len(t)) :
           (s \o t)[i] = IF i <= Len(s) THEN s[i] ELSE t[i - Len(s)]
  BY ConcatProperties, LenProperties
<1>2. /\ p \in Seq(S) /\ Len(p) = n /\ \A i \in 1..n : p[i] = t[i]
  BY <1>1
<1>3. /\ a \in Seq(S) /\ Len(a) = Len(s) + n
      /\ \A i \in 1..(Len(s) + n) : a[i] = (s \o t)[i]
  BY <1>1
<1> HIDE DEF a, p
<1>4. /\ s \o p \in Seq(S) /\ Len(s \o p) = Len(s) + n
      /\ \A i \in 1..(Len(s) + n) :
           (s \o p)[i] = IF i <= Len(s) THEN s[i] ELSE p[i - Len(s)]
  BY <1>2, ConcatProperties
<1>5. ASSUME NEW i \in 1..(Len(s) + n)
      PROVE  a[i] = (s \o p)[i]
  <2>1. i \in 1..(Len(s) + Len(t)) /\ (~(i <= Len(s)) => i - Len(s) \in 1..n)
    BY <1>1
  <2>2. CASE i <= Len(s)
    BY <1>1, <1>3, <1>4, <2>1, <2>2
  <2>3. CASE ~(i <= Len(s))
    BY <1>1, <1>2, <1>3, <1>4, <2>1, <2>3
  <2> QED
    BY <2>2, <2>3
<1>6. a = s \o p
  BY <1>3, <1>4, <1>5, SeqEqual
<1> QED
  BY <1>6 DEF a, p

LEMMA ConcatShift ==
  ASSUME NEW S, NEW s \in Seq(S), NEW t \in Seq(S), t # <<>>
  PROVE  Append(s, t[1]) \o Tail(t) = s \o t
<1>1. Len(t) \in Nat \ {0} /\ t[1] \in S
  BY EmptySeq, ElementOfSeq
<1>2. Tail(t) \in Seq(S) /\ Tail(t) = SubSeq(t, 2, Len(t))
  BY HeadTailProperties, TailIsSubSeq
<1>3. SubSeq(t, 1, Len(t)) = <<t[1]>> \o SubSeq(t, 2, Len(t))
  BY <1>1, SubSeqRecursiveFirst
<1>4. t = <<t[1]>> \o Tail(t) /\ <<t[1]>> \in Seq(S)
  BY <1>1, <1>2, <1>3, SubSeqFull
<1>5. Append(s, t[1]) = s \o <<t[1]>>
  BY <1>1, AppendIsConcat
<1>6. (s \o <<t[1]>>) \o Tail(t) = s \o (<<t[1]>> \o Tail(t))
  BY <1>2, <1>4, ConcatAssociative
<1> QED
  BY <1>4, <1>5, <1>6

-----------------------------------------------------------------------------
(* The journal handed out last, and the point where the set takes over: the*)
(* first journal held links to it, or, when the set was drained, the       *)
(* recorded latest height and hash are its own.                            *)
LastPopped == popped[Len(popped)]

Joined ==
  popped # <<>> =>
    /\ Size > 0 => /\ PrevOf[journals[1]] = LastPopped
                   /\ HeightOf[journals[1]] = HeightOf[LastPopped] + 1
    /\ Size = 0 => latestHeight = Some(HeightOf[LastPopped]) /\ latestHash = Some(LastPopped)

LEMMA ConcatEnd ==
  ASSUME NEW S, NEW s \in Seq(S), NEW t \in Seq(S), s \o t # <<>>
  PROVE  /\ t # <<>> => (s \o t)[Len(s \o t)] = t[Len(t)]
         /\ t = <<>> => s # <<>> /\ (s \o t)[Len(s \o t)] = s[Len(s)]
<1>1. /\ s \o t \in Seq(S) /\ Len(s \o t) = Len(s) + Len(t)
      /\ Len(s) \in Nat /\ Len(t) \in Nat
      /\ \A i \in 1..(Len(s) + Len(t)) :
           (s \o t)[i] = IF i <= Len(s) THEN s[i] ELSE t[i - Len(s)]
  BY ConcatProperties, LenProperties
<1>2. CASE t # <<>>
  <2>1. Len(t) > 0
    BY <1>2, EmptySeq
  <2>2. /\ Len(s) + Len(t) \in 1..(Len(s) + Len(t)) /\ ~(Len(s) + Len(t) <= Len(s))
        /\ (Len(s) + Len(t)) - Len(s) = Len(t)
    BY <1>1, <2>1
  <2> QED
    BY <1>1, <1>2, <2>2
<1>3. CASE t = <<>>
  BY <1>3, ConcatEmptySeq
<1> QED
  BY <1>2, <1>3

(* A journal that links to what is handed out and what is kept of the set  *)
(* continues the chain.                                                    *)
LEMMA Continues ==
  ASSUME NEW s \in Seq(Journal), NEW t \in Seq(Journal), NEW j \in Journal,
         t # <<>> => PrevOf[j] = t[Len(t)] /\ HeightOf[j] = HeightOf[t[Len(t)]] + 1,
         t = <<>> /\ s # <<>> =>
           PrevOf[j] = s[Len(s)] /\ HeightOf[j] = HeightOf[s[Len(s)]] + 1
  PROVE  ChainView!Links(s \o t, j)
<1>1. CASE s \o t # <<>>
  BY <1>1, ConcatEnd DEF ChainView!Links
<1>2. CASE s \o t = <<>>
  BY <1>2 DEF ChainView!Links
<1> QED
  BY <1>1, <1>2

(* An empty set that something was handed out of takes only the successor. *)
LEMMA DrainedAppend ==
  ASSUME IndInv, Joined, NEW j \in Journal, HeightFits(j), PrevFits(j),
         popped # <<>>, Size = 0
  PROVE  PrevOf[j] = LastPopped /\ HeightOf[j] = HeightOf[LastPopped] + 1
<1>1. LastPopped \in Journal
  <2>1. popped \in Seq(Journal) /\ Len(popped) \in 1..Len(popped)
    BY EmptySeq DEF IndInv, TypeOK
  <2> QED
    BY <2>1, ElementOfSeq DEF LastPopped
<1>2. latestHeight = {HeightOf[LastPopped]} /\ latestHash = {LastPopped}
  BY DEF Joined, Some
<1>3. HeightOf[j] = (HeightOf[LastPopped] + 1) % Width /\ PrevOf[j] = LastPopped
  BY <1>2 DEF HeightFits, PrevFits
<1>4. HeightOf[LastPopped] \in Nat /\ HeightOf[LastPopped] + 1 < Width /\ Width \in Nat
  BY <1>1, JournalAssumption
<1> QED
  BY <1>3, <1>4

(* The same for a set that holds journals: the step shared with the proof  *)
(* of the invariant.                                                       *)
LEMMA HeldAppend ==
  ASSUME IndInv, NEW j \in Journal, HeightFits(j), PrevFits(j), Size > 0
  PROVE  PrevOf[j] = Back /\ HeightOf[j] = HeightOf[Back] + 1
<1>1. Back \in Journal
  BY DEF IndInv, TypeOK, Size, Back
<1>2. latestHeight = {HeightOf[Back]} /\ latestHash = {Back}
  BY DEF IndInv, Chained, Some
<1>3. HeightOf[j] = (HeightOf[Back] + 1) % Width /\ PrevOf[j] = Back
  BY <1>2 DEF HeightFits, PrevFits
<1>4. HeightOf[Back] \in Nat /\ HeightOf[Back] + 1 < Width /\ Width \in Nat
  BY <1>1, JournalAssumption
<1> QED
  BY <1>3, <1>4

(* What an overwrite replaces is a journal of the same height on the same  *)
(* predecessor, and what it keeps is what lies below.                      *)
LEMMA OverwriteEffect ==
  ASSUME IndInv, NEW j \in Journal, AppendOverwrite(j)
  PROVE  \/ UNCHANGED <<journals, popped, latestHeight, latestHash>>
         \/ \E n \in 1..Size :
              /\ PrevOf[j] = PrevOf[journals[n]] /\ HeightOf[j] = HeightOf[journals[n]]
              /\ journals' = Append(SubSeq(journals, 1, n - 1), j)
              /\ UNCHANGED popped
<1>1. PICK old \in ByHeight(HeightOf[j]) :
        /\ PrevOf[old] = PrevOf[j]
        /\ IF Overflows(old)
           THEN panicked' = TRUE /\ UNCHANGED <<journals, latestHeight, latestHash>>
           ELSE AppendInner(KeptBelow(HeightOf[j]), j) /\ UNCHANGED panicked
  BY DEF AppendOverwrite
<1> DEFINE n == IndexOf(HeightOf[j])
<1>2. UNCHANGED popped
  BY DEF AppendOverwrite
<1>3. HeightOf[j] \in Nat
  BY JournalAssumption
<1>4. n \in 1..Size /\ old = journals[n] /\ HeightOf[j] = HeightOf[old]
  BY <1>3, FoundAtIndex DEF IndInv
<1> QED
  BY <1>1, <1>2, <1>4 DEF AppendInner, KeptBelow

-----------------------------------------------------------------------------
(* The set continues where it was drained.                                 *)
LEMMA JoinedStep == IndInv /\ Joined /\ [Next]_vars => Joined'
<1> SUFFICES ASSUME IndInv, Joined, [Next]_vars PROVE Joined'
  OBVIOUS
<1>1. journals \in Seq(Journal) /\ popped \in Seq(Journal) /\ Size \in Nat
  BY DEF IndInv, TypeOK, Size
<1>2. CASE UNCHANGED <<journals, popped, latestHeight, latestHash>>
  BY <1>2 DEF Joined, Size, LastPopped
<1>3. ASSUME NEW j \in Journal, TryAppend(j)
      PROVE  Joined'
  <2>1. journals' = Append(journals, j) /\ popped' = popped /\ HeightFits(j) /\ PrevFits(j)
    BY <1>3 DEF TryAppend, AppendInner
  <2>2. Size' = Size + 1 /\ (Size > 0 => journals'[1] = journals[1])
        /\ (Size = 0 => journals'[1] = j)
    BY <1>1, <2>1 DEF Size
  <2>3. Size = 0 /\ popped # <<>> =>
          PrevOf[j] = LastPopped /\ HeightOf[j] = HeightOf[LastPopped] + 1
    BY <2>1, DrainedAppend
  <2> QED
    BY <1>1, <2>1, <2>2, <2>3 DEF Joined, LastPopped
<1>4. ASSUME NEW j \in Journal, AppendOverwrite(j)
      PROVE  Joined'
  <2>1. CASE ~UNCHANGED <<journals, popped, latestHeight, latestHash>>
    <3> PICK n \in 1..Size :
          /\ PrevOf[j] = PrevOf[journals[n]] /\ HeightOf[j] = HeightOf[journals[n]]
          /\ journals' = Append(SubSeq(journals, 1, n - 1), j)
          /\ UNCHANGED popped
      BY <1>4, <2>1, OverwriteEffect
    <3>1. Size > 0 /\ n - 1 \in 0..Len(journals)
      BY <1>1 DEF Size
    <3> DEFINE kept == SubSeq(journals, 1, n - 1)
    <3>2. kept \in Seq(Journal) /\ Len(kept) = n - 1 /\ \A i \in 1..(n - 1) : kept[i] = journals[i]
      BY <1>1, <3>1
    <3> HIDE DEF kept
    <3>3. journals' = Append(kept, j)
      BY DEF kept
    <3>4. Size' = n /\ (n > 1 => journals'[1] = journals[1]) /\ (n = 1 => journals'[1] = j)
      BY <3>1, <3>2, <3>3 DEF Size
    <3> QED
      BY <3>1, <3>4 DEF Joined, LastPopped
  <2> QED
    BY <1>2, <2>1
<1>5. CASE PopFront
  <2>1. Size > 0 /\ journals # <<>>
    BY <1>1, <1>5 DEF PopFront, Size
  <2>2. /\ journals' = Tail(journals) /\ Len(journals') = Size - 1
        /\ \A i \in 1..(Size - 1) : journals'[i] = journals[i + 1]
    BY <1>1, <1>5, <2>1, HeadTailProperties DEF PopFront, Size
  <2>3. popped' = Append(popped, journals[1]) /\ journals[1] \in Journal
    BY <1>1, <1>5, <2>1 DEF PopFront, Size
  <2>4. popped' # <<>> /\ LastPopped' = journals[1]
    BY <1>1, <2>3, AppendProperties DEF LastPopped
  <2>5. CASE Size = 1
    <3>1. latestHeight = Some(HeightOf[Back]) /\ latestHash = Some(Back) /\ Back = journals[1]
      BY <2>5 DEF IndInv, Chained, Back
    <3>2. Size' = 0
      BY <2>2, <2>5 DEF Size
    <3>3. latestHeight' = Some(HeightOf[journals[1]]) /\ latestHash' = Some(journals[1])
      BY <1>5, <3>1 DEF PopFront
    <3> QED
      BY <2>4, <3>2, <3>3 DEF Joined
  <2>6. CASE Size > 1
    <3>1. 2 \in 1..Size /\ 1 \in 1..(Size - 1)
      BY <1>1, <2>6
    <3>2. HeightOf[journals[2]] = HeightOf[journals[1]] + 2 - 1 /\ PrevOf[journals[2]] = journals[1]
      BY <3>1 DEF IndInv, Chained, IsChain, Size
    <3>3. HeightOf[journals[1]] \in Nat
      BY <2>3, JournalAssumption
    <3>4. Size' > 0 /\ journals'[1] = journals[2]
      BY <1>1, <2>2, <2>6, <3>1 DEF Size
    <3> QED
      BY <2>4, <3>2, <3>3, <3>4 DEF Joined
  <2> QED
    BY <1>1, <2>1, <2>5, <2>6
<1>6. CASE PopBack
  <2>1. Size > 0 /\ popped' = popped
    BY <1>6 DEF PopBack
  <2>2. CASE Overflows(Back)
    BY <1>2, <1>6, <2>2 DEF PopBack
  <2>3. CASE ~Overflows(Back)
    <3>1. /\ journals' = SubSeq(journals, 1, Size - 1)
          /\ latestHeight' = {HeightBelow(Back)} /\ latestHash' = {PrevOf[Back]}
      BY <1>6, <2>3 DEF PopBack, Some
    <3>2. Size' = Size - 1 /\ (Size > 1 => journals'[1] = journals[1])
      <4>1. Size - 1 \in 0..Len(journals)
        BY <1>1, <2>1 DEF Size
      <4>2. /\ Len(SubSeq(journals, 1, Size - 1)) = Size - 1
            /\ \A i \in 1..(Size - 1) : SubSeq(journals, 1, Size - 1)[i] = journals[i]
        BY <1>1, <4>1
      <4>3. Size > 1 => 1 \in 1..(Size - 1)
        BY <1>1
      <4> QED
        BY <3>1, <4>2, <4>3 DEF Size
    <3>3. CASE Size > 1
      BY <2>1, <3>2, <3>3 DEF Joined, LastPopped
    <3>4. CASE Size = 1 /\ popped # <<>>
      <4>1. /\ Back = journals[1] /\ Back \in Journal
            /\ PrevOf[Back] = LastPopped /\ HeightOf[Back] = HeightOf[LastPopped] + 1
        <5>1. Back = journals[1]
          BY <3>4 DEF Back
        <5>2. journals[1] \in Journal
          <6>1. 1 \in 1..Len(journals)
            BY <3>4 DEF Size
          <6> QED
            BY <1>1, <6>1, ElementOfSeq
        <5> QED
          BY <3>4, <5>1, <5>2 DEF Joined
      <4>2. LastPopped \in Journal
        <5>1. Len(popped) \in 1..Len(popped)
          BY <1>1, <3>4, EmptySeq
        <5> QED
          BY <1>1, <5>1, ElementOfSeq DEF LastPopped
      <4>3. HeightBelow(Back) = HeightOf[LastPopped]
        <5> DEFINE h == HeightOf[LastPopped]
        <5>1. h \in Nat /\ Width \in Nat /\ h + 1 < Width /\ HeightOf[Back] = h + 1
          BY <4>1, <4>2, JournalAssumption
        <5> HIDE DEF h
        <5>2. (h + 1) + Width - 1 = Width + h /\ (Width + h) % Width = h
          BY <5>1
        <5> QED
          BY <5>1, <5>2 DEF HeightBelow, h
      <4> QED
        BY <2>1, <3>1, <3>2, <3>4, <4>1, <4>3 DEF Joined, LastPopped, Some
    <3> QED
      BY <1>1, <2>1, <3>3, <3>4 DEF Joined
  <2> QED
    BY <2>2, <2>3
<1>7. CASE UNCHANGED vars
  BY <1>2, <1>7 DEF vars
<1> QED
  BY <1>3, <1>4, <1>5, <1>6, <1>7 DEF Next

(* Every operation is one of the chain's, or none.                         *)
LEMMA StepOfChain ==
  ASSUME IndInv, Joined, [Next]_vars
  PROVE  [ChainView!Next]_<<popped \o journals, Len(popped)>>
<1> DEFINE chain == popped \o journals
           gone == Len(popped)
<1>1. /\ journals \in Seq(Journal) /\ popped \in Seq(Journal)
      /\ Size \in Nat /\ gone \in Nat /\ Len(chain) = gone + Size /\ chain \in Seq(Journal)
  BY ConcatProperties DEF IndInv, TypeOK, Size
<1>2. CASE UNCHANGED <<journals, popped>>
  BY <1>2
<1>3. ASSUME NEW j \in Journal, NEW n \in 0..Size, UNCHANGED popped,
             journals' = Append(SubSeq(journals, 1, n), j),
             n > 0 => PrevOf[j] = journals[n] /\ HeightOf[j] = HeightOf[journals[n]] + 1,
             n = 0 /\ popped # <<>> =>
               PrevOf[j] = LastPopped /\ HeightOf[j] = HeightOf[LastPopped] + 1
      PROVE  ChainView!Next
  <2> DEFINE kept == SubSeq(journals, 1, n)
  <2>1. /\ kept \in Seq(Journal) /\ Len(kept) = n /\ \A i \in 1..n : kept[i] = journals[i]
    BY <1>1 DEF Size
  <2>2. SubSeq(chain, 1, gone + n) = popped \o kept
    BY <1>1, ConcatPrefix DEF Size
  <2> HIDE DEF kept
  <2>3. kept # <<>> => n > 0 /\ kept[Len(kept)] = journals[n]
    BY <2>1, EmptySeq
  <2>4. kept = <<>> => n = 0
    BY <2>1
  <2>5. ChainView!Links(popped \o kept, j)
    <3>1. kept # <<>> =>
            PrevOf[j] = kept[Len(kept)] /\ HeightOf[j] = HeightOf[kept[Len(kept)]] + 1
      BY <1>3, <2>3
    <3>2. kept = <<>> /\ popped # <<>> =>
            /\ PrevOf[j] = popped[Len(popped)]
            /\ HeightOf[j] = HeightOf[popped[Len(popped)]] + 1
      BY <1>3, <2>4 DEF LastPopped
    <3> QED
      BY <1>1, <2>1, <3>1, <3>2, Continues
  <2>6. chain' = Append(popped \o kept, j)
    <3>1. journals' = Append(kept, j)
      BY <1>3 DEF kept
    <3>2. popped \o Append(kept, j) = Append(popped \o kept, j)
      BY <1>1, <2>1, ConcatAppend
    <3> QED
      BY <1>3, <3>1, <3>2
  <2>7. gone + n \in gone..Len(chain) /\ gone + n \in 0..Len(chain)
    BY <1>1
  <2>8. ChainView!Extend(gone + n, j)
    BY <1>3, <2>2, <2>5, <2>6, <2>7 DEF ChainView!Extend
  <2> QED
    BY <2>7, <2>8 DEF ChainView!Next
<1>4. ASSUME NEW j \in Journal, TryAppend(j)
      PROVE  ChainView!Next
  <2>1. journals' = Append(journals, j) /\ popped' = popped /\ HeightFits(j) /\ PrevFits(j)
    BY <1>4 DEF TryAppend, AppendInner
  <2>2. SubSeq(journals, 1, Size) = journals /\ Size \in 0..Size
    BY <1>1, SubSeqFull DEF Size
  <2>3. Size > 0 => PrevOf[j] = journals[Size] /\ HeightOf[j] = HeightOf[journals[Size]] + 1
    BY <2>1, HeldAppend DEF Back
  <2>4. Size = 0 /\ popped # <<>> =>
          PrevOf[j] = LastPopped /\ HeightOf[j] = HeightOf[LastPopped] + 1
    BY <2>1, DrainedAppend
  <2> QED
    BY <1>3, <2>1, <2>2, <2>3, <2>4
<1>5. ASSUME NEW j \in Journal, AppendOverwrite(j)
      PROVE  [ChainView!Next]_<<chain, gone>>
  <2>1. CASE ~UNCHANGED <<journals, popped, latestHeight, latestHash>>
    <3> PICK n \in 1..Size :
          /\ PrevOf[j] = PrevOf[journals[n]] /\ HeightOf[j] = HeightOf[journals[n]]
          /\ journals' = Append(SubSeq(journals, 1, n - 1), j)
          /\ UNCHANGED popped
      BY <1>5, <2>1, OverwriteEffect
    <3>1. n - 1 \in 0..Size
      BY <1>1
    <3>2. ASSUME n - 1 > 0
          PROVE  PrevOf[j] = journals[n - 1] /\ HeightOf[j] = HeightOf[journals[n - 1]] + 1
      <4>1. n - 1 \in 1..Size /\ 1 \in 1..Size /\ n > 1
        BY <1>1, <3>2
      <4>2. /\ HeightOf[journals[n]] = HeightOf[journals[1]] + n - 1
            /\ HeightOf[journals[n - 1]] = HeightOf[journals[1]] + (n - 1) - 1
            /\ PrevOf[journals[n]] = journals[n - 1]
        BY <4>1 DEF IndInv, Chained, IsChain, Size
      <4>3. HeightOf[journals[1]] \in Nat
        BY <1>1, <4>1, JournalAssumption DEF Size
      <4> DEFINE h == HeightOf[journals[1]]
                 hn == HeightOf[journals[n]]
                 hm == HeightOf[journals[n - 1]]
      <4>4. n \in Nat /\ h \in Nat /\ hn = h + n - 1 /\ hm = h + (n - 1) - 1
        BY <4>1, <4>2, <4>3
      <4> HIDE DEF h, hn, hm
      <4>5. hn = hm + 1
        BY ONLY <4>4
      <4> QED
        BY <4>2, <4>5 DEF hn, hm
    <3>3. n - 1 = 0 /\ popped # <<>> =>
            PrevOf[j] = LastPopped /\ HeightOf[j] = HeightOf[LastPopped] + 1
      BY <1>1 DEF Joined
    <3> QED
      BY <1>3, <3>1, <3>2, <3>3
  <2> QED
    BY <1>2, <2>1
<1>6. CASE PopFront
  <2>1. Size > 0 /\ journals # <<>> /\ journals[1] \in Journal
    BY <1>1, <1>6 DEF PopFront, Size
  <2>2. chain' = chain
    BY <1>1, <1>6, <2>1, ConcatShift DEF PopFront
  <2>3. gone' = gone + 1
    BY <1>1, <1>6, <2>1, AppendProperties DEF PopFront
  <2>4. gone < Len(chain)
    BY <1>1, <2>1
  <2>5. ChainView!HandOut
    BY <2>2, <2>3, <2>4 DEF ChainView!HandOut
  <2> QED
    BY <2>5 DEF ChainView!Next
<1>7. CASE PopBack
  <2>1. CASE Overflows(Back)
    BY <1>2, <1>7, <2>1 DEF PopBack
  <2>2. CASE ~Overflows(Back)
    <3>1. Size > 0 /\ popped' = popped /\ journals' = SubSeq(journals, 1, Size - 1)
      BY <1>7, <2>2 DEF PopBack
    <3>2. Size - 1 \in 0..Len(journals) /\ gone + (Size - 1) = Len(chain) - 1 /\ gone < Len(chain)
      BY <1>1, <3>1 DEF Size
    <3>3. chain' = SubSeq(chain, 1, Len(chain) - 1)
      BY <1>1, <3>1, <3>2, ConcatPrefix
    <3>4. ChainView!Retract
      BY <3>1, <3>2, <3>3 DEF ChainView!Retract
    <3> QED
      BY <3>4 DEF ChainView!Next
  <2> QED
    BY <2>1, <2>2
<1>8. CASE UNCHANGED vars
  BY <1>2, <1>8 DEF vars
<1> QED
  BY <1>4, <1>5, <1>6, <1>7, <1>8 DEF Next

(* The set implements the chain its node follows, through appends,         *)
(* overwrites, pops on both ends and drained states.                       *)
THEOREM NodeFollowsChain == Spec => FollowsChain
<1>1. Init => IndInv /\ Joined /\ ChainView!Init
  <2>1. Init => Joined
    BY DEF Init, Joined
  <2>2. Init => ChainView!Init
    <3> SUFFICES ASSUME Init PROVE ChainView!Init
      OBVIOUS
    <3>1. popped = <<>> /\ journals = <<>> /\ <<>> \in Seq(Journal)
      BY DEF Init
    <3>2. popped \o journals = <<>> /\ Len(popped) = 0
      BY <3>1, ConcatEmptySeq
    <3> QED
      BY <3>2 DEF ChainView!Init
  <2> QED
    BY <2>1, <2>2, InitEstablishes
<1>2. IndInv /\ Joined /\ [Next]_vars
        => [ChainView!Next]_<<popped \o journals, Len(popped)>>
  BY StepOfChain
<1> QED
  BY <1>1, <1>2, StepKeeps, JoinedStep, PTL DEF Spec, FollowsChain, ChainView!Spec
-----------------------------------------------------------------------------
(* The data of a block.                                                    *)

(* The lists decoded of the first transactions exist.                      *)
DecodedOf(h, txs, n) ==
  h = [i \in 0..n |-> IF i = 0 THEN <<>> ELSE h[i - 1] \o Decoded(txs[i])]

LEMMA DecodedType == \A tx : Decoded(tx) \in Seq(Plain)
  BY DEF Decoded

LEMMA DecodedExist ==
  ASSUME NEW n \in Nat, NEW txs
  PROVE  \E h \in [0..n -> Seq(Plain)] : DecodedOf(h, txs, n)
<1> DEFINE bad == {m \in 0..n : ~ \E h \in [0..m -> Seq(Plain)] : DecodedOf(h, txs, m)}
<1>1. CASE bad # {}
  <2>1. bad \in SUBSET Nat
    OBVIOUS
  <2>2. PICK m \in bad : \A k \in bad : m <= k
    BY <1>1, <2>1, LeastNatural
  <2>3. CASE m = 0
    <3> DEFINE h == [i \in 0..0 |-> <<>>]
    <3>1. <<>> \in Seq(Plain)
      OBVIOUS
    <3>2. h \in [0..0 -> Seq(Plain)]
      BY <3>1
    <3>3. \A i \in 0..0 : h[i] = IF i = 0 THEN <<>> ELSE h[i - 1] \o Decoded(txs[i])
      OBVIOUS
    <3>4. h = [i \in 0..0 |-> h[i]]
      OBVIOUS
    <3> HIDE DEF h
    <3>5. DecodedOf(h, txs, 0)
      BY <3>3, <3>4 DEF DecodedOf
    <3> QED
      BY <2>2, <2>3, <3>2, <3>5
  <2>4. CASE m # 0
    <3>1. m \in 0..n /\ m - 1 \in 0..n /\ ~(m <= m - 1) /\ m - 1 \in 0..(m - 1)
      BY <2>4
    <3>2. m - 1 \notin bad
      BY <2>2, <3>1
    <3>3. PICK h \in [0..(m - 1) -> Seq(Plain)] : DecodedOf(h, txs, m - 1)
      BY <3>1, <3>2
    <3> DEFINE last == h[m - 1] \o Decoded(txs[m])
               k == [i \in 0..m |-> IF i = m THEN last ELSE h[i]]
    <3>4. \A i \in 0..m : i # m => i \in 0..(m - 1)
      BY <3>1
    <3>5. last \in Seq(Plain)
      <4>1. h[m - 1] \in Seq(Plain)
        BY <3>1
      <4> QED
        BY <4>1, DecodedType, ConcatProperties
    <3> HIDE DEF last
    <3>6. k \in [0..m -> Seq(Plain)]
      BY <3>4, <3>5
    <3>7. ASSUME NEW i \in 0..m
          PROVE  k[i] = IF i = 0 THEN <<>> ELSE k[i - 1] \o Decoded(txs[i])
      <4>1. CASE i = m
        <5>1. k[i] = last
          BY <4>1
        <5>2. k[m - 1] = h[m - 1] /\ i # 0
          BY <2>4, <3>1, <4>1
        <5> HIDE DEF k
        <5> QED
          BY <4>1, <5>1, <5>2 DEF last
      <4>2. CASE i # m
        <5>1. i \in 0..(m - 1) /\ (i # 0 => i - 1 \in 0..m /\ i - 1 # m)
          BY <3>1, <4>2
        <5>2. h[i] = IF i = 0 THEN <<>> ELSE h[i - 1] \o Decoded(txs[i])
          BY <3>3, <5>1 DEF DecodedOf
        <5> QED
          BY <4>2, <5>1, <5>2
      <4> QED
        BY <4>1, <4>2
    <3>8. DecodedOf(k, txs, m)
      <4>1. k = [i \in 0..m |-> k[i]]
        OBVIOUS
      <4> HIDE DEF k
      <4> QED
        BY <3>7, <4>1 DEF DecodedOf
    <3> QED
      BY <2>2, <3>6, <3>8
  <2> QED
    BY <2>3, <2>4
<1>2. CASE bad = {}
  <2>1. n \in 0..n
    OBVIOUS
  <2> QED
    BY <1>2, <2>1
<1> QED
  BY <1>1, <1>2

(* What Decodable is the last of.                                          *)
LEMMA DecodableIs ==
  ASSUME NEW txs, Len(txs) \in Nat
  PROVE  \E h \in [0..Len(txs) -> Seq(Plain)] :
           DecodedOf(h, txs, Len(txs)) /\ Decodable(txs) = h[Len(txs)]
<1> DEFINE n == Len(txs)
           first == CHOOSE f : DecodedOf(f, txs, n)
<1>1. PICK h \in [0..n -> Seq(Plain)] : DecodedOf(h, txs, n)
  BY DecodedExist
<1>2. DecodedOf(first, txs, n)
  BY <1>1
<1>3. Decodable(txs) = first[n]
  BY DEF Decodable, DecodedOf
<1>4. first \in [0..n -> Seq(Plain)]
  <2> HIDE DEF first
  <2> DEFINE bad == {i \in 0..n : first[i] # h[i]}
  <2>1. CASE bad # {}
    <3>1. bad \in SUBSET Nat
      OBVIOUS
    <3>2. PICK m \in bad : \A k \in bad : m <= k
      BY <2>1, <3>1, LeastNatural
    <3>3. m = 0 \/ (m - 1 \in 0..n /\ ~(m <= m - 1))
      BY <3>2
    <3>4. m = 0 \/ first[m - 1] = h[m - 1]
      BY <3>2, <3>3
    <3>5. /\ first[m] = IF m = 0 THEN <<>> ELSE first[m - 1] \o Decoded(txs[m])
          /\ h[m] = IF m = 0 THEN <<>> ELSE h[m - 1] \o Decoded(txs[m])
      BY <1>1, <1>2, <3>2 DEF DecodedOf
    <3> QED
      BY <3>2, <3>4, <3>5
  <2>2. CASE bad = {}
    <3>1. first = [i \in 0..n |-> first[i]]
      BY <1>2 DEF DecodedOf
    <3>2. \A i \in 0..n : first[i] \in Seq(Plain)
      BY <2>2
    <3> QED
      BY <3>1, <3>2
  <2> QED
    BY <2>1, <2>2
<1> HIDE DEF first
<1> QED
  BY <1>2, <1>3, <1>4

LEMMA DecodableType ==
  ASSUME NEW txs, Len(txs) \in Nat
  PROVE  Decodable(txs) \in Seq(Plain)
<1>1. Len(txs) \in 0..Len(txs)
  OBVIOUS
<1> QED
  BY <1>1, DecodableIs

(* Of transactions that can all be decoded, none is left out.              *)
LEMMA DecodableKeeps ==
  ASSUME NEW txs \in Seq(Plain)
  PROVE  Decodable(txs) = txs
<1> DEFINE n == Len(txs)
<1>1. n \in Nat /\ n \in 0..n /\ \A i \in 1..n : txs[i] \in Plain
  BY LenProperties, ElementOfSeq
<1>2. PICK h \in [0..n -> Seq(Plain)] : DecodedOf(h, txs, n) /\ Decodable(txs) = h[n]
  BY <1>1, DecodableIs
<1> HIDE DEF n
<1> DEFINE Prefix(s, m) == Len(s) = m /\ \A i \in 1..m : s[i] = txs[i]
           bad == {m \in 0..n : ~Prefix(h[m], m)}
<1>3. CASE bad # {}
  <2>1. bad \in SUBSET Nat
    BY <1>1
  <2>2. PICK m \in bad : \A k \in bad : m <= k
    BY <1>3, <2>1, LeastNatural
  <2>3. m \in 0..n /\ ~Prefix(h[m], m)
    BY <2>2
  <2>4. m # 0
    <3>1. Prefix(<<>>, 0)
      OBVIOUS
    <3>2. m = 0 => h[m] = <<>>
      BY <1>2, <2>3 DEF DecodedOf
    <3> HIDE DEF Prefix
    <3> QED
      BY <2>3, <3>1, <3>2
  <2>5. m - 1 \in 0..n /\ ~(m <= m - 1) /\ m \in 1..n /\ m - 1 \in Nat
    BY <1>1, <2>3, <2>4
  <2>6. Prefix(h[m - 1], m - 1)
    <3> HIDE DEF Prefix
    <3> QED
      BY <2>2, <2>5
  <2>7. h[m] = Append(h[m - 1], txs[m])
    <3>1. h[m] = h[m - 1] \o <<txs[m]>>
      BY <1>1, <1>2, <2>3, <2>4, <2>5 DEF DecodedOf, Decoded
    <3>2. h[m - 1] \in Seq(Plain) /\ txs[m] \in Plain
      BY <1>1, <2>5
    <3> QED
      BY <3>1, <3>2, AppendIsConcat
  <2>8. Prefix(h[m], m)
    <3> DEFINE p == h[m - 1]
    <3>1. p \in Seq(Plain) /\ txs[m] \in Plain /\ Prefix(p, m - 1)
      BY <1>1, <2>5, <2>6
    <3> HIDE DEF p
    <3>2. /\ Len(Append(p, txs[m])) = m
          /\ \A i \in 1..(m - 1) : Append(p, txs[m])[i] = p[i]
          /\ Append(p, txs[m])[m] = txs[m]
      <4>1. Len(p) = m - 1 /\ (m - 1) + 1 = m
        BY <2>5, <3>1
      <4> QED
        BY <3>1, <4>1, AppendProperties
    <3>3. \A i \in 1..m : i = m \/ i \in 1..(m - 1)
      BY <2>5
    <3> QED
      BY <2>7, <3>1, <3>2, <3>3 DEF p
  <2> QED
    BY <2>3, <2>8
<1>4. CASE bad = {}
  <2>1. Prefix(h[n], n) /\ h[n] \in Seq(Plain)
    BY <1>1, <1>4
  <2>2. Len(h[n]) = Len(txs) /\ \A i \in 1..Len(txs) : h[n][i] = txs[i]
    BY <2>1 DEF n
  <2>3. h[n] = txs
    BY <2>1, <2>2, SeqEqual
  <2> QED
    BY <1>2, <2>3
<1> QED
  BY <1>3, <1>4
-----------------------------------------------------------------------------
(* What each operation keeps.  A block that is read has any data; the      *)
(* builder's own has none but that of its transactions.                    *)
Tx == Plain \cup Blob
Data == Foreign \cup {EncodeTxns(txs) : txs \in Seq(Tx)}
Digest == {Keccak(data) : data \in Data}
Header == [hostBlockNumber : Nat, blockDataHash : Digest]
Block == [header : Header, txs : Seq(Tx), encoded : SUBSET Data, hash : SUBSET Digest]

Whole(block) ==
  /\ block \in Block
  /\ \A data \in block.encoded : IsOf(data, block)
  /\ \A hash \in block.hash : IsOf(hash.keccak, block)

OwnData(block) ==
  /\ block.encoded \subseteq {EncodeTxns(block.txs)}
  /\ block.hash \subseteq {Keccak(EncodeTxns(block.txs))}

Submitted(p) ==
  /\ IsOf(p.data, p)
  /\ p.header.blockDataHash = Keccak(p.data)

DataInv ==
  /\ Whole(built) /\ OwnData(built)
  /\ \A block \in held \cup other : Whole(block)
  /\ \A p \in published : Submitted(p)

LEMMA PlainAreTxs == Seq(Plain) \subseteq Seq(Tx)
  BY DEF Tx

LEMMA EncodingIsOf ==
  ASSUME NEW block
  PROVE  IsOf(EncodeTxns(block.txs), block)
  BY DEF IsOf, EncodeTxns, DecodeTxns

(* What is read holds the transactions that its data decodes to.           *)
LEMMA DecodeType ==
  ASSUME NEW data \in Data
  PROVE  DecodeTxns(data) \in Seq(Plain)
<1>1. Len(data.items) \in Nat
  <2>1. CASE data \in Foreign
    BY <2>1, DataAssumption
  <2>2. CASE data \in {EncodeTxns(txs) : txs \in Seq(Tx)}
    <3>1. PICK txs \in Seq(Tx) : data = EncodeTxns(txs)
      BY <2>2
    <3>2. data.items = txs
      BY <3>1 DEF EncodeTxns
    <3> QED
      BY <3>2, LenProperties
  <2> QED
    BY <2>1, <2>2 DEF Data
<1>2. <<>> \in Seq(Plain)
  OBVIOUS
<1> QED
  BY <1>1, <1>2, DecodableType DEF DecodeTxns

LEMMA DecodedIsOf ==
  ASSUME NEW data \in Data, NEW block, block.txs = DecodeTxns(data)
  PROVE  IsOf(data, block)
  BY DecodeType, DecodableKeeps DEF IsOf

LEMMA NewIsWhole ==
  ASSUME NEW header \in Header, NEW txs \in Seq(Tx)
  PROVE  Whole(New(header, txs)) /\ OwnData(New(header, txs))
  BY DEF Whole, OwnData, New, Block

LEMMA ReadIsWhole ==
  ASSUME NEW header \in Header, NEW data \in Data
  PROVE  Whole(FromHeaderAndData(header, data))
<1> DEFINE block == FromHeaderAndData(header, data)
<1>1. /\ block = [header |-> header, txs |-> DecodeTxns(data), encoded |-> {data},
                  hash |-> {Keccak(data)}]
      /\ Keccak(data) \in Digest /\ Keccak(data).keccak = data
  BY DEF FromHeaderAndData, Digest, Keccak
<1>2. DecodeTxns(data) \in Seq(Tx)
  BY DecodeType, PlainAreTxs
<1>3. block \in Block
  BY <1>1, <1>2 DEF Block
<1>4. IsOf(data, block)
  BY <1>1, DecodedIsOf
<1> QED
  BY <1>1, <1>3, <1>4 DEF Whole

(* The parts that are kept are of the transactions, or are gone with them. *)
LEMMA SealKeeps ==
  ASSUME NEW block, Whole(block)
  PROVE  /\ Whole(Seal(block)) /\ Seal(block).txs = block.txs
         /\ OwnData(block) => /\ OwnData(Seal(block))
                              /\ Seal(block).encoded = {EncodeTxns(block.txs)}
                              /\ Seal(block).hash = {Keccak(EncodeTxns(block.txs))}
<1> DEFINE own == EncodeTxns(block.txs)
           encoded == Memoized(block.encoded, own)
           hash == UNION {Memoized(block.hash, Keccak(data)) : data \in encoded}
           sealed == Seal(block)
<1>1. /\ block \in Block
      /\ block.txs \in Seq(Tx) /\ block.encoded \subseteq Data /\ block.hash \subseteq Digest
      /\ \A data \in block.encoded : IsOf(data, block)
      /\ \A h \in block.hash : IsOf(h.keccak, block)
  BY DEF Whole, Block
<1>2. own \in Data /\ IsOf(own, block)
  BY <1>1, EncodingIsOf DEF Data
<1>3. encoded \subseteq Data /\ \A data \in encoded : IsOf(data, block)
  BY <1>1, <1>2 DEF Memoized
<1>4. \A data \in Data : Keccak(data) \in Digest /\ Keccak(data).keccak = data
  BY DEF Digest, Keccak
<1>5. \A h \in hash : h \in block.hash \/ \E data \in encoded : h = Keccak(data)
  BY DEF Memoized
<1>6. hash \subseteq Digest /\ \A h \in hash : IsOf(h.keccak, block)
  BY <1>1, <1>3, <1>4, <1>5
<1>7. OwnData(block) => encoded = {own} /\ hash = {Keccak(own)}
  <2> SUFFICES ASSUME OwnData(block) PROVE encoded = {own} /\ hash = {Keccak(own)}
    OBVIOUS
  <2>1. encoded = {own}
    BY DEF OwnData, Memoized
  <2>2. Memoized(block.hash, Keccak(own)) = {Keccak(own)}
    BY DEF OwnData, Memoized
  <2> QED
    BY <2>1, <2>2
<1> HIDE DEF encoded, hash
<1>8. sealed = [block EXCEPT !.encoded = encoded, !.hash = hash]
  BY DEF Seal, encoded, hash, own
<1> HIDE DEF sealed
<1>9. /\ sealed \in Block /\ sealed.txs = block.txs
      /\ sealed.encoded = encoded /\ sealed.hash = hash
  BY <1>1, <1>3, <1>6, <1>8 DEF Block
<1>10. \A data : IsOf(data, block) => IsOf(data, sealed)
  BY <1>9 DEF IsOf
<1>11. Whole(sealed)
  BY <1>3, <1>6, <1>9, <1>10 DEF Whole
<1> QED
  BY <1>7, <1>9, <1>11 DEF OwnData, sealed, own

LEMMA UnsealKeeps ==
  ASSUME NEW block, Whole(block), NEW txs \in Seq(Tx)
  PROVE  LET b == [Unseal(block) EXCEPT !.txs = txs]
         IN  Whole(b) /\ OwnData(b)
<1> DEFINE b == [Unseal(block) EXCEPT !.txs = txs]
<1>1. block \in Block
  BY DEF Whole
<1>2. b \in Block /\ b.encoded = {} /\ b.hash = {}
  BY <1>1 DEF Unseal, Block
<1> QED
  BY <1>2 DEF Whole, OwnData

LEMMA CopyKeeps ==
  ASSUME NEW block, Whole(block)
  PROVE  Whole(Reserialized(block))
<1> DEFINE b == Reserialized(block)
<1>1. block \in Block
  BY DEF Whole
<1>2. /\ b \in Block /\ b.encoded = {} /\ b.hash = block.hash /\ b.txs = block.txs
  BY <1>1 DEF Reserialized, Block
<1> QED
  BY <1>2 DEF Whole, IsOf

LEMMA HeaderKeeps ==
  ASSUME NEW block, Whole(block)
  PROVE  Whole([block EXCEPT !.header.hostBlockNumber = 2])
<1> DEFINE b == [block EXCEPT !.header.hostBlockNumber = 2]
           header == [block.header EXCEPT !.hostBlockNumber = 2]
<1>1. block \in Block /\ block.header \in Header
  BY DEF Whole, Block
<1>2. header \in Header
  BY <1>1 DEF Header
<1>3. b = [block EXCEPT !.header = header]
  BY <1>1
<1> HIDE DEF header, b
<1>4. b \in Block /\ b.encoded = block.encoded /\ b.hash = block.hash /\ b.txs = block.txs
  BY <1>1, <1>2, <1>3 DEF Block
<1> QED
  BY <1>4 DEF Whole, IsOf, b

LEMMA InitData == DataInit => DataInv
<1> SUFFICES ASSUME DataInit PROVE DataInv
  OBVIOUS
<1>1. <<>> \in Seq(Tx)
  OBVIOUS
<1>2. NoHeader \in Header
  <2>1. EncodeTxns(<<>>) \in Data
    BY <1>1 DEF Data
  <2> QED
    BY <2>1 DEF NoHeader, Header, Digest
<1>3. Whole(built) /\ OwnData(built)
  BY <1>1, <1>2, NewIsWhole DEF DataInit
<1> QED
  BY <1>3 DEF DataInit, DataInv

LEMMA NextData == DataInv /\ [DataNext]_dataVars => DataInv'
<1> SUFFICES ASSUME DataInv, [DataNext]_dataVars PROVE DataInv'
  OBVIOUS
<1>0. /\ Whole(built) /\ OwnData(built) /\ built \in Block /\ built.txs \in Seq(Tx)
      /\ \A block \in held \cup other : Whole(block)
      /\ \A block \in held : block \in Block /\ block.txs \in Seq(Tx)
      /\ \A p \in published : Submitted(p)
  BY DEF DataInv, Whole, Block
<1>1. CASE \E tx \in Plain \cup Blob : Ingest(tx)
  <2>1. PICK tx \in Tx : Ingest(tx)
    BY <1>1 DEF Tx
  <2> DEFINE txs == Append(built.txs, tx)
  <2>2. txs \in Seq(Tx)
    BY <1>0, AppendProperties
  <2>3. /\ built' = [Unseal(built) EXCEPT !.txs = txs]
        /\ published' = published /\ held' = held /\ other' = other
    BY <2>1 DEF Ingest, Unseal
  <2> HIDE DEF txs
  <2>4. Whole(built') /\ OwnData(built')
    BY <1>0, <2>2, <2>3, UnsealKeeps
  <2> QED
    BY <1>0, <2>3, <2>4 DEF DataInv
<1>2. CASE SealBuilt
  <2>1. built' = Seal(built) /\ published' = published /\ held' = held /\ other' = other
    BY <1>2 DEF SealBuilt
  <2> QED
    BY <1>0, <2>1, SealKeeps DEF DataInv
<1>3. CASE Publish
  <2>1. /\ built' = Seal(built) /\ other' = other /\ Whole(built') /\ OwnData(built')
        /\ built'.txs = built.txs
        /\ built'.encoded = {EncodeTxns(built.txs)}
        /\ built'.hash = {Keccak(EncodeTxns(built.txs))}
    BY <1>0, <1>3, SealKeeps DEF Publish
  <2> DEFINE data == EncodeTxns(built.txs)
             header == [hostBlockNumber |-> 1, blockDataHash |-> Keccak(data)]
             p == [txs |-> built.txs, header |-> header, data |-> data]
  <2>2. published' = {p} /\ held' = {FromHeaderAndData(header, data)}
    BY <1>3, <2>1 DEF Publish
  <2>3. data \in Data
    BY <1>0 DEF Data
  <2>4. header \in Header
    BY <2>3 DEF Header, Digest
  <2>5. Whole(FromHeaderAndData(header, data))
    BY <2>3, <2>4, ReadIsWhole
  <2>6. Submitted(p)
    BY EncodingIsOf DEF Submitted, IsOf
  <2> HIDE DEF p, header, data
  <2> QED
    BY <1>0, <2>1, <2>2, <2>5, <2>6 DEF DataInv
<1>4. CASE \E data \in Foreign : ReadForeign(data)
  <2>1. PICK data \in Foreign : ReadForeign(data)
    BY <1>4
  <2> DEFINE header == [hostBlockNumber |-> 1, blockDataHash |-> Keccak(data)]
  <2>2. /\ built' = built /\ published' = published /\ other' = other
        /\ \/ held' = {FromHeaderAndData(header, data)}
           \/ held' = {New(header, DecodeTxns(data))}
    BY <2>1 DEF ReadForeign
  <2>3. data \in Data
    BY DEF Data
  <2>4. header \in Header
    BY <2>3 DEF Header, Digest
  <2>5. DecodeTxns(data) \in Seq(Tx)
    BY <2>3, DecodeType, PlainAreTxs
  <2> HIDE DEF header
  <2>6. Whole(FromHeaderAndData(header, data)) /\ Whole(New(header, DecodeTxns(data)))
    BY <2>3, <2>4, <2>5, ReadIsWhole, NewIsWhole
  <2> QED
    BY <1>0, <2>2, <2>6 DEF DataInv
<1>5. CASE Copy
  <2>1. PICK block \in held : other' = {block} \/ other' = {Reserialized(block)}
    BY <1>5 DEF Copy
  <2>2. Whole(block) /\ Whole(Reserialized(block))
    BY <1>0, CopyKeeps
  <2>3. built' = built /\ published' = published /\ held' = held
    BY <1>5 DEF Copy
  <2> QED
    BY <1>0, <2>1, <2>2, <2>3 DEF DataInv
<1>6. CASE EditTransactions
  <2>1. built' = built /\ published' = published /\ other' = other
    BY <1>6 DEF EditTransactions
  <2>2. \E block \in held, txs \in Seq(Tx) : held' = {[Unseal(block) EXCEPT !.txs = txs]}
    <3>1. PICK block \in held :
            \/ \E tx \in Tx : held' = {[Unseal(block) EXCEPT !.txs = Append(@, tx)]}
            \/ \E i \in DOMAIN block.txs, tx \in Tx :
                  held' = {[Unseal(block) EXCEPT !.txs[i] = tx]}
            \/ held' = {[Unseal(block) EXCEPT !.txs = <<>>]}
      BY <1>6 DEF EditTransactions, Tx
    <3>2. block \in Block /\ block.txs \in Seq(Tx)
      BY <1>0
    <3>3. Unseal(block) \in Block /\ Unseal(block).txs = block.txs
      BY <3>2 DEF Unseal, Block
    <3>4. CASE \E tx \in Tx : held' = {[Unseal(block) EXCEPT !.txs = Append(@, tx)]}
      <4>1. PICK tx \in Tx : held' = {[Unseal(block) EXCEPT !.txs = Append(@, tx)]}
        BY <3>4
      <4>2. Append(block.txs, tx) \in Seq(Tx)
        BY <3>2, AppendProperties
      <4> QED
        BY <3>3, <4>1, <4>2
    <3>5. CASE \E i \in DOMAIN block.txs, tx \in Tx :
                 held' = {[Unseal(block) EXCEPT !.txs[i] = tx]}
      <4>1. PICK i \in DOMAIN block.txs, tx \in Tx :
               held' = {[Unseal(block) EXCEPT !.txs[i] = tx]}
        BY <3>5
      <4> DEFINE txs == [block.txs EXCEPT ![i] = tx]
      <4>2. txs \in Seq(Tx)
        BY <3>2, ExceptSeq
      <4>3. held' = {[Unseal(block) EXCEPT !.txs = txs]}
        BY <3>3, <4>1
      <4> HIDE DEF txs
      <4> QED
        BY <4>2, <4>3
    <3>6. CASE held' = {[Unseal(block) EXCEPT !.txs = <<>>]}
      <4>1. <<>> \in Seq(Tx)
        OBVIOUS
      <4> QED
        BY <3>6, <4>1
    <3> QED
      BY <3>1, <3>4, <3>5, <3>6
  <2>3. PICK block \in held, txs \in Seq(Tx) : held' = {[Unseal(block) EXCEPT !.txs = txs]}
    BY <2>2
  <2>4. Whole([Unseal(block) EXCEPT !.txs = txs])
    BY <1>0, UnsealKeeps
  <2> QED
    BY <1>0, <2>1, <2>3, <2>4 DEF DataInv
<1>7. CASE EditHeader
  <2>1. PICK block \in held : held' = {[block EXCEPT !.header.hostBlockNumber = 2]}
    BY <1>7 DEF EditHeader
  <2>2. Whole([block EXCEPT !.header.hostBlockNumber = 2])
    BY <1>0, HeaderKeeps
  <2>3. built' = built /\ published' = published /\ other' = other
    BY <1>7 DEF EditHeader
  <2> QED
    BY <1>0, <2>1, <2>2, <2>3 DEF DataInv
<1>8. CASE SealHeld
  <2>1. PICK block \in held : held' = {Seal(block)}
    BY <1>8 DEF SealHeld
  <2>2. Whole(Seal(block))
    BY <1>0, SealKeeps
  <2>3. built' = built /\ published' = published /\ other' = other
    BY <1>8 DEF SealHeld
  <2> QED
    BY <1>0, <2>1, <2>2, <2>3 DEF DataInv
<1>9. CASE UNCHANGED dataVars
  BY <1>0, <1>9 DEF dataVars, DataInv
<1> QED
  BY <1>1, <1>2, <1>3, <1>4, <1>5, <1>6, <1>7, <1>8, <1>9 DEF DataNext

LEMMA DataInvReadsBack == DataInv => DataReadsBack
<1> SUFFICES ASSUME DataInv PROVE DataReadsBack
  OBVIOUS
<1>1. \A p \in published : IsOf(p.data, p) /\ p.header.blockDataHash = Keccak(p.data)
  BY DEF DataInv, Submitted
<1>2. \A block \in {built} \cup held \cup other : Whole(block)
  BY DEF DataInv
<1>3. ASSUME NEW a \in held, NEW b \in other, SameBlock(a, b)
      PROVE  Decodable(a.txs) = Decodable(b.txs)
  <2>1. Whole(a) /\ Whole(b)
    BY <1>2
  <2>2. CASE a.hash # {} /\ b.hash # {}
    <3>1. PICK h \in a.hash : h \in b.hash
      BY <1>3, <2>2 DEF SameBlock
    <3>2. IsOf(h.keccak, a) /\ IsOf(h.keccak, b)
      BY <2>1, <3>1 DEF Whole
    <3> QED
      BY <3>2 DEF IsOf
  <2>3. CASE ~(a.hash # {} /\ b.hash # {})
    BY <1>3, <2>3 DEF SameBlock
  <2> QED
    BY <2>2, <2>3
<1> QED
  BY <1>1, <1>2, <1>3 DEF DataReadsBack, Whole

(* What is published of a block decodes to its transactions and has the    *)
(* hash in its header, and whatever any reader keeps of the data is of the *)
(* transactions it holds: for any transactions, any data of others, and    *)
(* any order of seals, edits and copies.                                   *)
THEOREM BlockDataReadsBack == DataSpec => []DataReadsBack
<1> QED
  BY InitData, NextData, DataInvReadsBack, PTL DEF DataSpec

-----------------------------------------------------------------------------
(* What there is on a host chain: events, logs, blocks.                    *)
Address == {Depositor} \cup UNION {HostContracts(p.sys) : p \in Pairs}
Tokens == Token \cup {p.sys.host.tokens.weth : p \in Pairs}
                \cup {p.sys.host.tokens.wbtc : p \in Pairs}
Limit == {DefaultGasLimit} \cup UNION {ru.gasLimit : ru \in RuBlocks}
Reward == {DefaultReward} \cup UNION {ru.rewardAddress : ru \in RuBlocks}
BlockData == {ru.txs : ru \in RuBlocks}

Enters == [kind : {"enter"}, chain : Nat, recipient : {Depositor}, amount : Nat]
EnterTokens ==
  [kind : {"enterToken"}, chain : Nat, recipient : {Depositor}, amount : Nat,
   token : Tokens]
Transacted ==
  [kind : {"transact"}, chain : Nat, sender : Account, to : {Depositor},
   value : {0}, gas : {100000}]
FillOutput == [chain : Nat, token : Tokens, recipient : {Depositor}, amount : Nat]
Fills == [kind : {"filled"}, outputs : Seq(FillOutput)]
Submissions ==
  [kind : {"submitted"}, chain : Nat, gasLimit : Limit, rewardAddress : Reward,
   blockDataHash : BlockData]
Others == [kind : {"other"}]
Recorded == Enters \cup EnterTokens \cup Transacted \cup Fills \cup Others
Event == Recorded \cup Submissions

Logged == [address : Address, event : Event]
HostBlock ==
  [number : Nat, receipts : Seq(Seq(Logged)), events : Seq(Recorded),
   ruBlock : SUBSET RuBlocks, ruReceipt : SUBSET Seq(Logged),
   sidecar : SUBSET BlockData]

(* A block as it is in a chain.                                            *)
ReceiptsOf(spec) == spec.receipts \o SetToSeq(spec.ruReceipt)
BlockOf(spec) ==
  [number |-> spec.number, txs |-> MakeTxns(spec), receipts |-> ReceiptsOf(spec)]

(* Blocks whose numbers follow each other from first on.                   *)
Consecutive(specs, first) == \A i \in DOMAIN specs : specs[i].number = first + i - 1

LEMMA Renumbered ==
  ASSUME NEW spec \in HostBlock, NEW n \in Nat
  PROVE  /\ [spec EXCEPT !.number = n] \in HostBlock
         /\ [spec EXCEPT !.number = n].number = n
         /\ spec.number = n => [spec EXCEPT !.number = n] = spec
BY DEF HostBlock

LEMMA NumberedIs ==
  ASSUME NEW specs \in Seq(HostBlock)
  PROVE  /\ Numbered(specs) \in Seq(HostBlock) /\ Len(Numbered(specs)) = Len(specs)
         /\ Consecutive(Numbered(specs), specs[1].number)
         /\ \A i \in 1..Len(specs) :
              Numbered(specs)[i] = [specs[i] EXCEPT !.number = specs[1].number + i - 1]
<1> DEFINE n == Len(specs)
           first == specs[1].number
           s == Numbered(specs)
<1>1. n \in Nat /\ \A i \in 1..n : specs[i] \in HostBlock
  OBVIOUS
<1>2. ASSUME NEW i \in 1..n
      PROVE  first + i - 1 \in Nat
  <2>1. 1 \in 1..n
    BY <1>1
  <2>2. first \in Nat
    BY <1>1, <2>1 DEF HostBlock
  <2> QED
    BY <2>2
<1>3. s = [i \in 1..n |-> [specs[i] EXCEPT !.number = first + i - 1]]
  BY DEF Numbered
<1> HIDE DEF s, first, n
<1>4. \A i \in 1..n : s[i] = [specs[i] EXCEPT !.number = first + i - 1]
                      /\ s[i] \in HostBlock /\ s[i].number = first + i - 1
  BY <1>1, <1>2, <1>3, Renumbered
<1>5. DOMAIN s = 1..n /\ s \in Seq(HostBlock) /\ Len(s) = n
  <2>1. DOMAIN s = 1..n /\ s = [i \in 1..n |-> s[i]]
    BY <1>3
  <2>2. s \in [1..n -> HostBlock]
    BY <1>4, <2>1
  <2> QED
    BY <1>1, <2>1, <2>2
<1> QED
  BY <1>4, <1>5 DEF s, first, n, Consecutive

LEMMA NumberedKeeps ==
  ASSUME NEW specs \in Seq(HostBlock), NEW first \in Nat, Consecutive(specs, first)
  PROVE  Numbered(specs) = specs
<1>1. \A i \in 1..Len(specs) : specs[i] \in HostBlock
                               /\ specs[i].number = first + i - 1 /\ first + i - 1 \in Nat
  BY DEF Consecutive
<1>2. ASSUME NEW i \in 1..Len(specs)
      PROVE  Numbered(specs)[i] = specs[i]
  <2>1. 1 \in 1..Len(specs)
    OBVIOUS
  <2>2. specs[1].number = first
    BY <1>1, <2>1
  <2>3. Numbered(specs)[i] = [specs[i] EXCEPT !.number = first + i - 1]
    BY <2>2, NumberedIs
  <2> QED
    BY <1>1, <2>3, Renumbered
<1> QED
  BY <1>2, NumberedIs, SeqEqual

-----------------------------------------------------------------------------
(* A chain of blocks, with their receipts, block after block.              *)
ChainUpTo(specs, n) ==
  [blocks |-> [i \in 1..n |-> RecoveredBlock(specs[i])],
   outcome |-> [receipts |-> [i \in 1..n |-> ReceiptsOf(specs[i])],
                firstBlock |-> IF n = 0 THEN 0 ELSE specs[1].number]]

LEMMA OutcomeGrows ==
  ASSUME NEW r, NEW first, NEW next
  PROVE  AppendOutcome([receipts |-> r, firstBlock |-> first], next)
           = [receipts |-> r \o next.receipts, firstBlock |-> first]
<1> DEFINE o == [receipts |-> r, firstBlock |-> first]
           q == r \o next.receipts
<1>1. AppendOutcome(o, next) = [o EXCEPT !.receipts = q]
  BY DEF AppendOutcome
<1>2. [o EXCEPT !.receipts = q] = [receipts |-> q, firstBlock |-> first]
  <2> HIDE DEF q
  <2> QED
    OBVIOUS
<1> QED
  BY <1>1, <1>2

LEMMA ChainGrows ==
  ASSUME NEW specs, NEW n \in Nat \ {0}
  PROVE  AppendBlock(ChainUpTo(specs, n - 1), specs[n]) = ChainUpTo(specs, n)
<1> DEFINE before == ChainUpTo(specs, n - 1)
           b == [i \in 1..(n - 1) |-> RecoveredBlock(specs[i])]
           r == [i \in 1..(n - 1) |-> ReceiptsOf(specs[i])]
           m == n - 1
<1>0. m \in Nat /\ n = m + 1 /\ n # 0
  OBVIOUS
<1>1. Append(b, RecoveredBlock(specs[n])) = [i \in 1..n |-> RecoveredBlock(specs[i])]
  <2> DEFINE F(i) == RecoveredBlock(specs[i])
  <2> HIDE DEF F
  <2>1. Append([i \in 1..m |-> F(i)], F(m + 1)) = [i \in 1..(m + 1) |-> F(i)]
    BY <1>0
  <2> QED
    BY <1>0, <2>1 DEF F
<1>2. r \o <<ReceiptsOf(specs[n])>> = [i \in 1..n |-> ReceiptsOf(specs[i])]
  <2> DEFINE F(i) == ReceiptsOf(specs[i])
  <2> HIDE DEF F
  <2>1. [i \in 1..m |-> F(i)] \o <<F(m + 1)>> = [i \in 1..(m + 1) |-> F(i)]
    BY <1>0
  <2> QED
    BY <1>0, <2>1 DEF F
<1>3. before.blocks = b /\ before.outcome.receipts = r
      /\ before.outcome = [receipts |-> r, firstBlock |-> IF m = 0 THEN 0 ELSE specs[1].number]
  BY DEF ChainUpTo
<1>4. b = <<>> <=> m = 0
  <2>1. DOMAIN b = 1..m
    OBVIOUS
  <2>2. m = 0 => b = <<>>
    OBVIOUS
  <2>3. m # 0 => 1 \in DOMAIN b
    BY <1>0, <2>1
  <2> QED
    BY <2>2, <2>3
<1>5. NewOutcome(specs[n])
        = [receipts |-> <<ReceiptsOf(specs[n])>>, firstBlock |-> specs[n].number]
  BY DEF NewOutcome, ReceiptsOf
<1> HIDE DEF b, r, before
<1>6. AppendBlock(before, specs[n])
        = [blocks |-> [i \in 1..n |-> RecoveredBlock(specs[i])],
           outcome |-> IF b = <<>> THEN NewOutcome(specs[n])
                       ELSE AppendOutcome(before.outcome, NewOutcome(specs[n]))]
  BY <1>1, <1>3 DEF AppendBlock
<1>7. CASE m = 0
  <2>1. n = 1 /\ r \o <<ReceiptsOf(specs[n])>> = <<ReceiptsOf(specs[n])>>
    BY <1>0, <1>7 DEF r
  <2> QED
    BY <1>0, <1>2, <1>4, <1>5, <1>6, <1>7, <2>1 DEF ChainUpTo, before
<1>8. CASE m # 0
  <2>1. AppendOutcome(before.outcome, NewOutcome(specs[n]))
          = [receipts |-> r \o <<ReceiptsOf(specs[n])>>, firstBlock |-> specs[1].number]
    <3>1. NewOutcome(specs[n]).receipts = <<ReceiptsOf(specs[n])>>
      BY <1>5
    <3>2. before.outcome = [receipts |-> r, firstBlock |-> specs[1].number]
      BY <1>3, <1>8
    <3> QED
      <4> DEFINE next == NewOutcome(specs[n])
                 o == [receipts |-> r, firstBlock |-> specs[1].number]
                 q == <<ReceiptsOf(specs[n])>>
      <4>1. AppendOutcome(o, next) = [receipts |-> r \o next.receipts,
                                       firstBlock |-> specs[1].number]
        BY OutcomeGrows
      <4>2. next.receipts = q /\ before.outcome = o
        BY <3>1, <3>2
      <4> HIDE DEF next, o, q
      <4>3. AppendOutcome(before.outcome, next) = [receipts |-> r \o q,
                                                    firstBlock |-> specs[1].number]
        BY <4>1, <4>2
      <4> QED
        BY <4>3 DEF next, q
  <2> QED
    BY <1>0, <1>2, <1>4, <1>6, <1>8, <2>1 DEF ChainUpTo, before
<1> QED
  BY <1>7, <1>8

LEMMA ToChainIs ==
  ASSUME NEW specs, Len(specs) \in Nat
  PROVE  ToChain(specs) = ChainUpTo(Numbered(specs), Len(specs))
<1> DEFINE N == Len(specs)
           s == Numbered(specs)
           Along_(h) == h = [n \in 0..N |-> IF n = 0 THEN NoChain
                                            ELSE AppendBlock(h[n - 1], s[n])]
           w == [n \in 0..N |-> ChainUpTo(s, n)]
           chain == CHOOSE h : Along_(h)
<1>1. NoChain = ChainUpTo(s, 0)
  BY DEF NoChain, ChainUpTo
<1> HIDE DEF s
<1>2. \A n \in 0..N : w[n] = ChainUpTo(s, n)
  OBVIOUS
<1>3. \A n \in 0..N : n # 0 => n \in Nat \ {0} /\ n - 1 \in 0..N
  OBVIOUS
<1>4. Along_(w)
  <2>1. \A n \in 0..N : n # 0 => ChainUpTo(s, n) = AppendBlock(w[n - 1], s[n])
    BY <1>2, <1>3, ChainGrows
  <2>2. \A n \in 0..N : ChainUpTo(s, n) = IF n = 0 THEN NoChain ELSE AppendBlock(w[n - 1], s[n])
    BY <1>1, <2>1
  <2> QED
    BY <2>2, Zenon
<1>5. Along_(chain)
  BY <1>4
<1>6. ToChain(specs) = chain[N]
  BY DEF ToChain, s
<1> HIDE DEF chain, w
<1>7. \A n \in 0..N : chain[n] = IF n = 0 THEN NoChain ELSE AppendBlock(chain[n - 1], s[n])
  BY <1>5
<1> DEFINE T == {n \in 0..N : chain[n] = ChainUpTo(s, n)}
<1>8. 0 \in T
  BY <1>1, <1>7
<1>9. ASSUME NEW n \in 0..(N - 1), n \in T
      PROVE  n + 1 \in T
  <2>1. n + 1 \in 0..N /\ n + 1 # 0 /\ (n + 1) - 1 = n /\ n + 1 \in Nat \ {0}
    OBVIOUS
  <2>2. chain[n + 1] = AppendBlock(chain[n], s[n + 1])
    BY <1>7, <2>1
  <2>3. AppendBlock(ChainUpTo(s, n), s[n + 1]) = ChainUpTo(s, n + 1)
    BY <2>1, ChainGrows
  <2> QED
    BY <1>9, <2>1, <2>2, <2>3
<1>10. N \in T
  <2> HIDE DEF T
  <2>1. \A n \in 0..N : n \in T
    BY <1>8, <1>9, Induction
  <2> QED
    BY <2>1
<1> QED
  BY <1>6, <1>10 DEF s

LEMMA BlocksOf ==
  ASSUME NEW specs, Len(specs) \in Nat, Len(Numbered(specs)) = Len(specs)
  PROVE  BlocksAndReceipts(ToChain(specs)) =
           [i \in 1..Len(specs) |-> BlockOf(Numbered(specs)[i])]
<1> DEFINE N == Len(specs)
           s == Numbered(specs)
           b == [i \in 1..N |-> RecoveredBlock(s[i])]
           r == [i \in 1..N |-> ReceiptsOf(s[i])]
           chain == ToChain(specs)
<1>1. chain.blocks = b /\ chain.outcome.receipts = r
  <2>1. chain = ChainUpTo(s, N)
    BY ToChainIs
  <2> QED
    BY <2>1 DEF ChainUpTo
<1>2. Len(b) = N /\ Len(r) = N
  OBVIOUS
<1>3. \A i \in 1..N : b[i].number = s[i].number /\ b[i].txs = MakeTxns(s[i])
                      /\ r[i] = ReceiptsOf(s[i])
  BY DEF RecoveredBlock
<1> HIDE DEF s, N, b, r, chain
<1>4. Min({N, N}) = N
  BY DEF Min
<1>5. BlocksAndReceipts(chain)
        = [i \in 1..N |-> [number |-> b[i].number, txs |-> b[i].txs, receipts |-> r[i]]]
  BY <1>1, <1>2, <1>4 DEF BlocksAndReceipts
<1>6. \A i \in 1..N : [number |-> b[i].number, txs |-> b[i].txs, receipts |-> r[i]]
                      = BlockOf(s[i])
  BY <1>3 DEF BlockOf
<1> QED
  BY <1>5, <1>6 DEF chain, s, N

-----------------------------------------------------------------------------
(* What the extractor makes of blocks that follow each other from a number *)
(* above the deployment on, or from that of the deployment.                *)
ExtractOf(sys, spec) == Extracted(sys, BlockOf(spec))
Skipped(k, n) == IF k = 0 /\ n > 0 THEN 1 ELSE 0

IsExtracts(xs, sys, blocks, k) ==
  LET skipped == Skipped(k, Len(blocks))
  IN  xs = [i \in 1..(Len(blocks) - skipped) |-> Extracted(sys, blocks[i + skipped])]

LEMMA ExtractSignetIs ==
  ASSUME NEW sys, NEW S, NEW blocks \in Seq(S), NEW k \in Nat,
         sys.host.deployHeight \in Nat, Consecutive(blocks, sys.host.deployHeight + k)
  PROVE  IsExtracts(ExtractSignet(sys, blocks), sys, blocks, k)
<1> DEFINE n == Len(blocks)
           skipped == Skipped(k, n)
           at == {i \in DOMAIN blocks : IsExtracted(sys, blocks[i])}
           above == Kept(blocks, at)
           deployed == sys.host.deployHeight
<1>1. DOMAIN blocks = 1..n /\ n \in Nat
  OBVIOUS
<1>2. \A i \in 1..n : i \in at <=> k + i - 1 > 0
  <2>1. \A i \in 1..n : i \in at <=> blocks[i].number > deployed
    BY <1>1 DEF IsExtracted
  <2>2. \A i \in 1..n : blocks[i].number = deployed + k + i - 1
    BY <1>1 DEF Consecutive
  <2>3. deployed \in Nat
    OBVIOUS
  <2> SUFFICES ASSUME NEW i \in 1..n PROVE i \in at <=> k + i - 1 > 0
    OBVIOUS
  <2> DEFINE number == blocks[i].number
  <2>4. (i \in at <=> number > deployed) /\ number = deployed + k + i - 1
    BY <2>1, <2>2
  <2> HIDE DEF deployed, at, number
  <2> QED
    BY <2>3, <2>4
<1> DEFINE a == skipped + 1
<1>3. skipped \in Nat /\ a \in Nat /\ a >= 1 /\ n <= Len(blocks)
      /\ a <= n + 1 /\ skipped <= n /\ n - skipped \in Nat /\ a = skipped + 1
  BY DEF Skipped
<1>4. at \cap DOMAIN blocks = a..n
  <2>1. \A i \in 1..n : k + i - 1 > 0 <=> a <= i
    BY DEF Skipped
  <2>2. \A i \in a..n : i \in 1..n
    BY <1>3
  <2> HIDE DEF at, a
  <2> QED
    BY <1>1, <1>2, <2>1, <2>2
<1> HIDE DEF at, skipped, a
<1>5. above = SubSeq(blocks, a, n)
  <2>1. /\ blocks \in Seq(S) /\ a \in Nat /\ n \in Nat /\ a >= 1 /\ n <= Len(blocks)
        /\ a <= n + 1 /\ at \cap DOMAIN blocks = a..n
    BY <1>3, <1>4
  <2> QED
    BY ONLY <2>1, KeptSlice, Zenon
<1>6. /\ DOMAIN above = 1..(n - skipped)
      /\ \A i \in 1..(n - skipped) : above[i] = blocks[i + skipped]
  <2> HIDE DEF above
  <2>1. above \in Seq(S) /\ Len(above) = n - skipped
    BY <1>3, <1>5
  <2>2. \A i \in 1..(n - skipped) : above[i] = blocks[i + skipped]
    BY <1>3, <1>5
  <2> QED
    BY <2>1, <2>2
<1>7. ExtractSignet(sys, blocks) = [i \in DOMAIN above |-> Extracted(sys, above[i])]
  BY DEF ExtractSignet, at
<1> HIDE DEF above
<1>8. ExtractSignet(sys, blocks) = [i \in 1..(n - skipped) |-> Extracted(sys, blocks[i + skipped])]
  BY <1>6, <1>7
<1> QED
  BY <1>8 DEF skipped, IsExtracts

Ex(sys, specs) == ExtractSignet(sys, BlocksAndReceipts(ToChain(specs)))

(* How many of n blocks, from that of the deployment on, are above it.     *)
Above(n) == IF n = 0 THEN 0 ELSE n - 1

AreExtracts(xs, sys, specs, k, n) ==
  xs = [i \in 1..(n - Skipped(k, n)) |-> ExtractOf(sys, specs[i + Skipped(k, n)])]

LEMMA ExtractsAre ==
  ASSUME NEW sys, sys.host.deployHeight \in Nat, NEW specs \in Seq(HostBlock), NEW k \in Nat,
         Consecutive(specs, sys.host.deployHeight + k), NEW n, n = Len(specs)
  PROVE  AreExtracts(Ex(sys, specs), sys, specs, k, n)
<1> DEFINE first == sys.host.deployHeight + k
           blocks == [i \in 1..n |-> BlockOf(specs[i])]
           S == {BlockOf(spec) : spec \in HostBlock}
           skipped == Skipped(k, n)
<1>1. first \in Nat /\ n \in Nat /\ \A i \in 1..n : specs[i] \in HostBlock
  OBVIOUS
<1>2. Numbered(specs) = specs
  BY <1>1, NumberedKeeps
<1>3. BlocksAndReceipts(ToChain(specs)) = blocks
  BY <1>1, <1>2, BlocksOf
<1>4. blocks \in Seq(S) /\ Len(blocks) = n
  BY <1>1
<1>5. \A i \in 1..n : blocks[i].number = sys.host.deployHeight + k + i - 1
  <2>1. \A i \in 1..n : specs[i].number = first + i - 1
    BY DEF Consecutive
  <2>2. \A i \in 1..n : blocks[i].number = specs[i].number
    BY DEF BlockOf
  <2> QED
    BY <2>1, <2>2
<1>6. \A i \in 1..n : blocks[i] = BlockOf(specs[i])
  OBVIOUS
<1> HIDE DEF blocks, S, skipped
<1>7. ExtractSignet(sys, blocks) = [i \in 1..(n - skipped) |-> Extracted(sys, blocks[i + skipped])]
  <2>1. /\ blocks \in Seq(S) /\ k \in Nat /\ sys.host.deployHeight \in Nat
        /\ Consecutive(blocks, sys.host.deployHeight + k)
    <3>1. DOMAIN blocks = 1..n
      BY <1>4
    <3> QED
      BY <1>4, <1>5, <3>1 DEF Consecutive
  <2>2. IsExtracts(ExtractSignet(sys, blocks), sys, blocks, k)
    BY ONLY <2>1, ExtractSignetIs
  <2> QED
    BY <1>4, <2>2 DEF skipped, IsExtracts
<1>8. \A i \in 1..(n - skipped) : Extracted(sys, blocks[i + skipped])
                                  = ExtractOf(sys, specs[i + skipped])
  <2>1. \A i \in 1..(n - skipped) : i + skipped \in 1..n
    BY <1>1 DEF skipped, Skipped
  <2> QED
    BY <1>6, <2>1 DEF ExtractOf
<1>9. Ex(sys, specs) = [i \in 1..(n - skipped) |-> ExtractOf(sys, specs[i + skipped])]
  BY <1>3, <1>7, <1>8 DEF Ex
<1> QED
  BY <1>9 DEF skipped, AreExtracts

(* What the follower keeps of a host chain.                                *)
Follows(sys, chain, kept) ==
  /\ chain \in Seq(HostBlock)
  /\ Consecutive(chain, sys.host.deployHeight)
  /\ kept = [i \in 1..Above(Len(chain)) |-> ExtractOf(sys, chain[i + 1])]

(* Blocks that are put on a chain are numbered after it.                   *)
OnTop(sys, n, more) ==
  Numbered([i \in DOMAIN more |-> [more[i] EXCEPT !.number = sys.host.deployHeight + n]])

IsOnTop(sys, n, more, new) ==
  /\ new \in Seq(HostBlock) /\ Len(new) = Len(more)
  /\ Consecutive(new, sys.host.deployHeight + n)
  /\ \A i \in 1..Len(more) :
       new[i] = [more[i] EXCEPT !.number = sys.host.deployHeight + n + i - 1]

LEMMA OnTopIs ==
  ASSUME NEW sys, sys.host.deployHeight \in Nat, NEW n \in Nat, NEW more \in Seq(HostBlock)
  PROVE  IsOnTop(sys, n, more, OnTop(sys, n, more))
<1> DEFINE first == sys.host.deployHeight + n
           m == Len(more)
           moved == [i \in DOMAIN more |-> [more[i] EXCEPT !.number = first]]
           new == OnTop(sys, n, more)
<1>1. first \in Nat /\ m \in Nat /\ DOMAIN more = 1..m /\ \A i \in 1..m : more[i] \in HostBlock
  OBVIOUS
<1>2. \A i \in 1..m : moved[i] = [more[i] EXCEPT !.number = first]
                      /\ moved[i] \in HostBlock /\ moved[i].number = first
  BY <1>1, Renumbered
<1>3. moved \in Seq(HostBlock) /\ Len(moved) = m
  <2>1. moved \in [1..m -> HostBlock]
    BY <1>1, <1>2
  <2> HIDE DEF moved
  <2> QED
    BY <1>1, <2>1
<1>4. new = Numbered(moved)
  BY DEF OnTop
<1> HIDE DEF moved, new, first, m
<1>5. /\ new \in Seq(HostBlock) /\ Len(new) = m
      /\ Consecutive(new, moved[1].number)
      /\ \A i \in 1..m : new[i] = [moved[i] EXCEPT !.number = moved[1].number + i - 1]
  BY <1>3, <1>4, NumberedIs
<1>6. DOMAIN new = 1..m
  BY <1>5
<1>7. m > 0 => moved[1].number = first
  <2>1. m > 0 => 1 \in 1..m
    BY <1>1
  <2> QED
    BY <1>2, <2>1
<1>8. Consecutive(new, first)
  BY <1>1, <1>5, <1>6, <1>7 DEF Consecutive
<1>9. ASSUME NEW i \in 1..m
      PROVE  new[i] = [more[i] EXCEPT !.number = first + i - 1]
  <2>1. new[i] = [moved[i] EXCEPT !.number = first + i - 1]
    BY <1>1, <1>5, <1>7
  <2>2. moved[i] = [more[i] EXCEPT !.number = first] /\ more[i] \in HostBlock
    BY <1>1, <1>2
  <2>3. \A a, b, spec : [[spec EXCEPT !.number = a] EXCEPT !.number = b]
                        = [spec EXCEPT !.number = b]
    OBVIOUS
  <2> QED
    BY <2>1, <2>2, <2>3
<1> QED
  BY <1>5, <1>8, <1>9 DEF IsOnTop, new, first, m

Splits(m, k, a, s, b) ==
  /\ s \in Nat /\ b \in Nat /\ a \in Nat
  /\ a + b = Above(m + k)
  /\ \A i \in 1..a : i \in 1..(a + b) /\ i + 1 \in 1..m
  /\ \A i \in 1..b : /\ i + a \in 1..(a + b) /\ i + s \in 1..k
                     /\ (i + a) + 1 = (i + s) + m

LEMMA AboveSplit ==
  ASSUME NEW m \in Nat, NEW k \in Nat, NEW a, a = Above(m), NEW s, s = Skipped(m, k),
         NEW b, b = k - s
  PROVE  Splits(m, k, a, s, b)
<1>1. CASE m = 0 /\ k > 0
  <2>1. a = 0 /\ s = 1 /\ b = k - 1 /\ Above(m + k) = k - 1
    BY <1>1 DEF Above, Skipped
  <2> QED
    BY <1>1, <2>1 DEF Splits
<1>2. CASE m = 0 /\ k = 0
  <2>1. a = 0 /\ s = 0 /\ b = 0 /\ Above(m + k) = 0
    BY <1>2 DEF Above, Skipped
  <2> QED
    BY <1>2, <2>1 DEF Splits
<1>3. CASE m > 0
  <2>1. a = m - 1 /\ s = 0 /\ b = k /\ Above(m + k) = m + k - 1
    BY <1>3 DEF Above, Skipped
  <2> QED
    BY <1>3, <2>1 DEF Splits
<1> QED
  BY <1>1, <1>2, <1>3

(* A chain is cut: what it followed of the rest is what the rest gives.    *)
Rest(chain, k) == SubSeq(chain, Len(chain) - k + 1, Len(chain))
IsCut(sys, chain, kept, k) ==
  LET old == Rest(chain, k)
      left == Len(kept) - Len(Ex(sys, old))
  IN  /\ old \in Seq(HostBlock) /\ Len(old) = k
      /\ Consecutive(old, sys.host.deployHeight + (Len(chain) - k))
      /\ left = Above(Len(chain) - k) /\ left <= Len(kept)
      /\ SubSeq(kept, left + 1, Len(kept)) = Ex(sys, old)
      /\ Follows(sys, SubSeq(chain, 1, Len(chain) - k), SubSeq(kept, 1, left))

LEMMA CutFollows ==
  ASSUME NEW sys, sys.host.deployHeight \in Nat, NEW chain, NEW kept,
         Follows(sys, chain, kept), NEW k \in 0..Len(chain)
  PROVE  IsCut(sys, chain, kept, k)
<1> DEFINE n == Len(chain)
           m == n - k
           first == sys.host.deployHeight
           old == Rest(chain, k)
           cut == SubSeq(chain, 1, m)
           out(i) == ExtractOf(sys, chain[i + 1])
           left == Len(kept) - Len(Ex(sys, old))
<1>1. chain \in Seq(HostBlock) /\ n \in Nat /\ k \in Nat /\ m \in Nat /\ k <= n /\ m + k = n
      /\ first \in Nat /\ first + m \in Nat /\ DOMAIN chain = 1..n
  BY DEF Follows
<1>2. \A i \in 1..n : chain[i].number = first + i - 1
  BY <1>1 DEF Follows, Consecutive
<1>3. kept = [i \in 1..Above(n) |-> out(i)]
  BY DEF Follows
<1>4. old = SubSeq(chain, m + 1, n)
  BY DEF Rest
<1> HIDE DEF first, old, out, m
<1>5. /\ old \in Seq(HostBlock) /\ Len(old) = k /\ DOMAIN old = 1..k
      /\ \A i \in 1..k : old[i] = chain[i + m]
  BY <1>1, <1>4
<1>6. Consecutive(old, first + m)
  <2>1. \A i \in 1..k : i + m \in 1..n /\ first + (i + m) - 1 = (first + m) + i - 1
    BY <1>1
  <2> QED
    BY <1>2, <1>5, <2>1, ZenonT(60) DEF Consecutive
<1>7. /\ cut \in Seq(HostBlock) /\ Len(cut) = m /\ DOMAIN cut = 1..m
      /\ \A i \in 1..m : cut[i] = chain[i]
  BY <1>1
<1>8. Consecutive(cut, first)
  BY <1>1, <1>2, <1>7 DEF Consecutive
<1> DEFINE skipped == Skipped(m, k)
<1>9. Ex(sys, old) = [i \in 1..(k - skipped) |-> ExtractOf(sys, old[i + skipped])]
  <2>1. /\ sys.host.deployHeight \in Nat /\ old \in Seq(HostBlock) /\ m \in Nat /\ k = Len(old)
        /\ Consecutive(old, sys.host.deployHeight + m)
    BY <1>1, <1>5, <1>6 DEF first
  <2>2. AreExtracts(Ex(sys, old), sys, old, m, k)
    BY <2>1, ExtractsAre
  <2> QED
    BY <2>2 DEF AreExtracts
<1> DEFINE a == Above(m)
           b == k - skipped
           N == Above(n)
<1> HIDE DEF skipped, cut, a, b, N, n
<1>10. /\ skipped \in Nat /\ b \in Nat /\ a \in Nat /\ a + b = N
       /\ \A i \in 1..a : i \in 1..N /\ i + 1 \in 1..m
       /\ \A i \in 1..b : /\ i + a \in 1..N /\ i + skipped \in 1..k
                         /\ (i + a) + 1 = (i + skipped) + m
  <2>1. m \in Nat /\ k \in Nat /\ a = Above(m) /\ skipped = Skipped(m, k) /\ b = k - skipped
    BY <1>1 DEF a, b, skipped
  <2>2. N = Above(m + k)
    BY <1>1 DEF N
  <2>3. Splits(m, k, a, skipped, b)
    BY ONLY <2>1, AboveSplit
  <2> QED
    BY <2>2, <2>3 DEF Splits
<1>11. Len(kept) = N /\ Len(Ex(sys, old)) = b /\ \A i \in 1..N : kept[i] = out(i)
  BY <1>3, <1>9, <1>10 DEF b, N
<1>12. left = a
  BY <1>10, <1>11
<1> HIDE DEF left
<1>13. SubSeq(kept, left + 1, Len(kept)) = Ex(sys, old)
  <2> DEFINE part == SubSeq(kept, a + 1, N)
             D == {out(i) : i \in 1..N}
  <2>1. kept \in Seq(D)
    <3>1. kept = [i \in 1..N |-> kept[i]] /\ \A i \in 1..N : kept[i] \in D
      BY <1>3, <1>11 DEF N
    <3>2. N \in Nat
      BY <1>10
    <3> HIDE DEF D
    <3> QED
      BY ONLY <3>1, <3>2
  <2> HIDE DEF D
  <2>2. /\ part \in Seq(D) /\ Len(part) = b
        /\ \A i \in 1..b : part[i] = kept[i + a]
    <3>1. a \in Nat /\ N = Len(kept) /\ a <= N /\ b = N - a
      BY <1>10, <1>11
    <3>2. kept \in Seq(D)
      BY <2>1
    <3> QED
      BY ONLY <3>1, <3>2 DEF part
  <2> HIDE DEF part
  <2>3. ASSUME NEW i \in 1..b
        PROVE  part[i] = ExtractOf(sys, old[i + skipped])
    <3>1. i + a \in 1..N /\ i + skipped \in 1..k /\ (i + a) + 1 = (i + skipped) + m
      BY <1>10
    <3>2. part[i] = out(i + a)
      BY <1>11, <2>2, <3>1
    <3>3. out(i + a) = ExtractOf(sys, chain[(i + a) + 1])
      BY DEF out
    <3> QED
      BY <1>5, <3>1, <3>2, <3>3
  <2>4. DOMAIN part = 1..b /\ part = [i \in 1..b |-> part[i]]
    BY <1>10, <2>2
  <2>5. Ex(sys, old) = part
    BY <1>9, <2>3, <2>4 DEF b
  <2> QED
    BY <1>11, <1>12, <2>5 DEF part
<1>14. Follows(sys, cut, SubSeq(kept, 1, left))
  <2>1. SubSeq(kept, 1, a) = [i \in 1..a |-> kept[i]]
    BY <1>10, <1>11
  <2>2. \A i \in 1..a : kept[i] = ExtractOf(sys, cut[i + 1])
    BY <1>7, <1>10, <1>11 DEF out
  <2>3. SubSeq(kept, 1, left) = [i \in 1..Above(Len(cut)) |-> ExtractOf(sys, cut[i + 1])]
    BY <1>7, <1>12, <2>1, <2>2 DEF a
  <2> QED
    BY <1>7, <1>8, <2>3 DEF Follows, first
<1>15. left <= Len(kept)
  BY <1>10, <1>11, <1>12
<1> QED
  BY <1>5, <1>6, <1>12, <1>13, <1>14, <1>15 DEF IsCut, first, old, m, cut, n, left, a

LEMMA GrowFollows ==
  ASSUME NEW sys, sys.host.deployHeight \in Nat, NEW chain, NEW kept,
         Follows(sys, chain, kept), NEW new \in Seq(HostBlock),
         Consecutive(new, sys.host.deployHeight + Len(chain))
  PROVE  Follows(sys, chain \o new, kept \o Ex(sys, new))
<1> DEFINE m == Len(chain)
           k == Len(new)
           first == sys.host.deployHeight
           all == chain \o new
           skipped == Skipped(m, k)
           more == Ex(sys, new)
           both == kept \o more
<1>1. chain \in Seq(HostBlock) /\ m \in Nat /\ k \in Nat /\ first \in Nat /\ first + m \in Nat
      /\ DOMAIN chain = 1..m /\ DOMAIN new = 1..k
  BY DEF Follows
<1>2. \A i \in 1..m : chain[i].number = first + i - 1
  BY <1>1 DEF Follows, Consecutive
<1>3. \A i \in 1..k : new[i].number = (first + m) + i - 1
  BY <1>1 DEF Consecutive
<1>4. kept = [i \in 1..Above(m) |-> ExtractOf(sys, chain[i + 1])]
  BY DEF Follows
<1>5. more = [i \in 1..(k - skipped) |-> ExtractOf(sys, new[i + skipped])]
  <2>1. AreExtracts(Ex(sys, new), sys, new, m, k)
    BY <1>1, ExtractsAre
  <2> QED
    BY <2>1 DEF AreExtracts
<1>6. /\ all \in Seq(HostBlock) /\ Len(all) = m + k /\ DOMAIN all = 1..(m + k)
      /\ \A i \in 1..m : all[i] = chain[i]
      /\ \A i \in 1..k : all[i + m] = new[i]
  BY <1>1
<1> HIDE DEF first, all, more, m, k, both
<1>7. Consecutive(all, first)
  <2>1. ASSUME NEW i \in 1..(m + k)
        PROVE  all[i].number = first + i - 1
    <3>1. CASE i <= m
      BY <1>1, <1>2, <1>6, <3>1
    <3>2. CASE i > m
      <4> DEFINE j == i - m
      <4>1. j \in 1..k /\ j + m = i /\ (first + m) + j - 1 = first + i - 1
        BY <1>1, <3>2
      <4> HIDE DEF j
      <4>2. all[i] = new[j]
        BY <1>6, <4>1
      <4> QED
        BY <1>3, <4>1, <4>2
    <3> QED
      BY <1>1, <3>1, <3>2
  <2> QED
    BY <1>6, <2>1 DEF Consecutive
<1> DEFINE a == Above(m)
           b == k - skipped
<1> HIDE DEF a, b, skipped
<1>8. /\ skipped \in Nat /\ b \in Nat /\ a \in Nat /\ a + b = Above(m + k)
      /\ \A i \in 1..a : i \in 1..(a + b) /\ i + 1 \in 1..m
      /\ \A i \in 1..b : i + a \in 1..(a + b) /\ i + skipped \in 1..k /\ (i + a) + 1 = (i + skipped) + m
  <2>1. m \in Nat /\ k \in Nat /\ a = Above(m) /\ skipped = Skipped(m, k) /\ b = k - skipped
    BY <1>1 DEF a, b, skipped
  <2>2. Splits(m, k, a, skipped, b)
    BY ONLY <2>1, AboveSplit
  <2> QED
    BY <2>2 DEF Splits
<1>9. /\ Len(kept) = a /\ DOMAIN kept = 1..a /\ kept = [i \in 1..a |-> ExtractOf(sys, chain[i + 1])]
      /\ Len(more) = b /\ DOMAIN more = 1..b
      /\ more = [i \in 1..b |-> ExtractOf(sys, new[i + skipped])]
  BY <1>4, <1>5, <1>8 DEF a, b
<1>10. both = [i \in 1..(a + b) |-> IF i <= a THEN kept[i] ELSE more[i - a]]
  <2> DEFINE F(i) == ExtractOf(sys, chain[i + 1])
             G(i) == ExtractOf(sys, new[i + skipped])
  <2>1. kept = [i \in 1..a |-> F(i)] /\ more = [i \in 1..b |-> G(i)]
    BY <1>9
  <2> HIDE DEF F, G
  <2>2. [i \in 1..a |-> F(i)] \o [i \in 1..b |-> G(i)]
          = [i \in 1..(a + b) |-> IF i <= a THEN [j \in 1..a |-> F(j)][i]
                                            ELSE [j \in 1..b |-> G(j)][i - a]]
    BY <1>8
  <2> QED
    BY <2>1, <2>2 DEF both
<1>11. ASSUME NEW i \in 1..(a + b)
       PROVE  (IF i <= a THEN kept[i] ELSE more[i - a]) = ExtractOf(sys, all[i + 1])
  <2>1. CASE i <= a
    <3>1. i \in 1..a /\ i + 1 \in 1..m
      BY <1>8, <2>1
    <3> QED
      BY <1>6, <1>9, <2>1, <3>1
  <2>2. CASE i > a
    <3> DEFINE j == i - a
    <3>1. j \in 1..b /\ j + a = i /\ ~ (i <= a)
      BY <1>8, <2>2
    <3> HIDE DEF j
    <3>2. j + skipped \in 1..k /\ i + 1 = (j + skipped) + m
      BY <1>8, <3>1
    <3>3. more[j] = ExtractOf(sys, new[j + skipped])
      BY <1>9, <3>1
    <3>4. new[j + skipped] = all[i + 1]
      BY <1>6, <3>2
    <3> QED
      BY <3>1, <3>3, <3>4 DEF j
  <2> QED
    BY <1>8, <2>1, <2>2
<1>12. both = [i \in 1..Above(Len(all)) |-> ExtractOf(sys, all[i + 1])]
  BY <1>6, <1>8, <1>10, <1>11
<1> QED
  BY <1>6, <1>7, <1>12 DEF Follows, first, all, both, more

-----------------------------------------------------------------------------
(* What a system contract says to the rollup.                              *)
Extractable(sys) ==
  {e \in Enters \cup EnterTokens \cup Transacted \cup Fills \cup Submissions :
     e.kind = "enterToken" => IsHostToken(sys, e.token)}

(* A fill that names nothing on the rollup changes nothing.                *)
Telling == {e \in Event : e.kind = "filled" => e.outputs # <<>>}

Kind(kind) == {e \in Event : e.kind = kind}

LEMMA FillDecoded ==
  ASSUME NEW e \in Fills, NEW chainId
  PROVE  \E d \in Fills : DecodeOrders(e, chainId) = {d}
<1> DEFINE outputs == Kept(e.outputs, {i \in DOMAIN e.outputs : e.outputs[i].chain = chainId})
           d == [e EXCEPT !.outputs = outputs]
<1>1. e.kind = "filled" /\ e.outputs \in Seq(FillOutput)
  BY DEF Fills
<1>2. outputs \in Seq(FillOutput)
  <2> DEFINE at == {i \in DOMAIN e.outputs : e.outputs[i].chain = chainId}
  <2>1. Kept(e.outputs, at) \in Seq(FillOutput)
    BY <1>1, KeptType
  <2> QED
    BY <2>1
<1> HIDE DEF outputs
<1>3. d \in Fills
  BY <1>2 DEF Fills
<1>4. DecodeOrders(e, chainId) = {d}
  BY <1>1 DEF DecodeOrders, outputs
<1> QED
  BY <1>3, <1>4

LEMMA ExtractLogIs ==
  ASSUME NEW sys, NEW log \in Logged
  PROVE  ExtractLog(sys, log) = {} \/ \E e \in Extractable(sys) : ExtractLog(sys, log) = {e}
<1> DEFINE e == log.event
           id == sys.rollup.chainId
<1>1. e \in Event
  BY DEF Logged
<1>2. DecodeZenith(e, id) = {} \/ (DecodeZenith(e, id) = {e} /\ e \in Extractable(sys))
  <2>1. CASE IsFor(e, "submitted", id)
    <3>1. e \in Submissions
      BY <1>1, <2>1 DEF IsFor, Event, Recorded, Enters, EnterTokens, Transacted, Fills, Others
    <3> QED
      BY <2>1, <3>1 DEF DecodeZenith, Extractable, Submissions
  <2> QED
    BY <2>1 DEF DecodeZenith
<1>3. DecodeTransactor(e, id) = {} \/ (DecodeTransactor(e, id) = {e} /\ e \in Extractable(sys))
  <2>1. CASE IsFor(e, "transact", id)
    <3>1. e \in Transacted
      BY <1>1, <2>1 DEF IsFor, Event, Recorded, Enters, EnterTokens, Submissions, Fills, Others
    <3> QED
      BY <2>1, <3>1 DEF DecodeTransactor, Extractable, Transacted
  <2> QED
    BY <2>1 DEF DecodeTransactor
<1>4. DecodeOrders(e, id) = {} \/ \E d \in Extractable(sys) : DecodeOrders(e, id) = {d}
  <2>1. CASE e.kind = "filled"
    <3>1. e \in Fills
      BY <1>1, <2>1 DEF Event, Recorded, Enters, EnterTokens, Submissions, Transacted, Others
    <3>2. PICK d \in Fills : DecodeOrders(e, id) = {d}
      BY <3>1, FillDecoded
    <3>3. d \in Extractable(sys)
      BY <3>2 DEF Extractable, Fills
    <3> QED
      BY <3>2, <3>3
  <2> QED
    BY <2>1 DEF DecodeOrders
<1> DEFINE entered == {d \in DecodePassage(e, id) : d.kind = "enterToken" => IsHostToken(sys, d.token)}
<1>5. entered = {} \/ (entered = {e} /\ e \in Extractable(sys))
  <2>1. CASE IsFor(e, "enter", id) \/ IsFor(e, "enterToken", id)
    <3>1. e \in Enters \cup EnterTokens
      BY <1>1, <2>1 DEF IsFor, Event, Recorded, Transacted, Submissions, Fills, Others
    <3>2. DecodePassage(e, id) = {e}
      BY <2>1 DEF DecodePassage
    <3> QED
      BY <3>1, <3>2 DEF Extractable
  <2>2. CASE ~ (IsFor(e, "enter", id) \/ IsFor(e, "enterToken", id))
    BY <2>2 DEF DecodePassage
  <2> QED
    BY <2>1, <2>2
<1> HIDE DEF entered, id
<1>6. ExtractLog(sys, log) \in {DecodeZenith(e, id), DecodeOrders(e, id),
                                DecodeTransactor(e, id), entered, {}}
  BY DEF ExtractLog, entered, id
<1> QED
  BY <1>2, <1>3, <1>4, <1>5, <1>6

(* The events of a log, of a receipt, of all receipts of a block.          *)
SeenIn(sys, log) == SetToSeq(ExtractLog(sys, log))
SeenEach(sys, receipt) == [i \in DOMAIN receipt |-> SeenIn(sys, receipt[i])]
SeenAll(sys, receipt) == FlattenSeq(SeenEach(sys, receipt))
SeenEvery(sys, receipts) == [i \in DOMAIN receipts |-> SeenAll(sys, receipts[i])]
Seen(sys, receipts) == FlattenSeq(SeenEvery(sys, receipts))

LEMMA SeenInType ==
  ASSUME NEW sys, NEW log \in Logged
  PROVE  SeenIn(sys, log) \in Seq(Extractable(sys))
<1> DEFINE S == Extractable(sys)
<1>1. CASE ExtractLog(sys, log) = {}
  <2>1. SeenIn(sys, log) = <<>>
    BY <1>1, NoneToSeq DEF SeenIn
  <2> QED
    BY <2>1
<1>2. ASSUME NEW e \in Extractable(sys), ExtractLog(sys, log) = {e}
      PROVE  SeenIn(sys, log) \in Seq(Extractable(sys))
  <2>1. SeenIn(sys, log) = <<e>>
    BY <1>2, OneToSeq DEF SeenIn
  <2>2. e \in S
    BY <1>2
  <2> HIDE DEF S
  <2>3. <<e>> \in Seq(S)
    BY <2>2
  <2> QED
    BY <2>1, <2>3 DEF S
<1> QED
  BY <1>1, <1>2, ExtractLogIs

LEMMA SeenAllType ==
  ASSUME NEW sys, NEW receipt \in Seq(Logged)
  PROVE  /\ SeenEach(sys, receipt) \in Seq(Seq(Extractable(sys)))
         /\ SeenAll(sys, receipt) \in Seq(Extractable(sys))
<1> DEFINE S == Extractable(sys)
           each == SeenEach(sys, receipt)
           n == Len(receipt)
<1>1. n \in Nat /\ DOMAIN receipt = 1..n /\ \A i \in 1..n : receipt[i] \in Logged
  OBVIOUS
<1>2. each = [i \in 1..n |-> each[i]] /\ \A i \in 1..n : each[i] \in Seq(S)
  BY <1>1, SeenInType DEF SeenEach
<1> HIDE DEF S, each, n
<1>3. each \in Seq(Seq(S))
  <2> DEFINE SS == Seq(S)
  <2>1. \A i \in 1..n : each[i] \in SS
    BY <1>2
  <2> HIDE DEF SS
  <2>2. each \in Seq(SS)
    BY <1>1, <1>2, <2>1
  <2> QED
    BY <2>2 DEF SS
<1>4. FlattenSeq(each) \in Seq(S)
  BY <1>3, FlattenType
<1> QED
  BY <1>3, <1>4 DEF SeenAll, S, each

LEMMA SeenType ==
  ASSUME NEW sys, NEW receipts \in Seq(Seq(Logged))
  PROVE  /\ SeenEvery(sys, receipts) \in Seq(Seq(Extractable(sys)))
         /\ Seen(sys, receipts) \in Seq(Extractable(sys))
<1> DEFINE S == Extractable(sys)
           every == SeenEvery(sys, receipts)
           n == Len(receipts)
           L == Seq(Logged)
<1>0. receipts \in Seq(L)
  OBVIOUS
<1> HIDE DEF L
<1>1. n \in Nat /\ DOMAIN receipts = 1..n /\ \A i \in 1..n : receipts[i] \in L
  BY <1>0
<1>2. every = [i \in 1..n |-> every[i]] /\ \A i \in 1..n : every[i] \in Seq(S)
  BY <1>1, SeenAllType DEF SeenEvery, L
<1> HIDE DEF S, every, n, L
<1>3. every \in Seq(Seq(S))
  <2> DEFINE SS == Seq(S)
  <2>1. \A i \in 1..n : every[i] \in SS
    BY <1>2
  <2> HIDE DEF SS, L
  <2>2. n \in Nat /\ every = [i \in 1..n |-> every[i]] /\ \A i \in 1..n : every[i] \in SS
    BY <1>1, <1>2, <2>1
  <2>3. every \in Seq(SS)
    BY ONLY <2>2, IsSequence, Zenon
  <2> QED
    BY <2>3 DEF SS
<1>4. FlattenSeq(every) \in Seq(S)
  BY <1>3, FlattenType
<1> QED
  BY <1>3, <1>4 DEF Seen, S, every

LEMMA SeenAllAppend ==
  ASSUME NEW sys, NEW receipt \in Seq(Logged), NEW log \in Logged
  PROVE  SeenAll(sys, Append(receipt, log)) = SeenAll(sys, receipt) \o SeenIn(sys, log)
<1> DEFINE S == Extractable(sys)
           each == SeenEach(sys, receipt)
           x == SeenIn(sys, log)
<1>1. SeenEach(sys, Append(receipt, log)) = Append(each, x)
  <2> DEFINE n == Len(receipt)
             F(i) == SeenIn(sys, receipt[i])
             a == Append(receipt, log)
  <2>1. n \in Nat /\ DOMAIN receipt = 1..n /\ DOMAIN a = 1..(n + 1)
    OBVIOUS
  <2>2. \A i \in 1..n : a[i] = receipt[i]
    OBVIOUS
  <2>3. a[n + 1] = log
    OBVIOUS
  <2>4. each = [i \in 1..n |-> F(i)]
    BY <2>1 DEF SeenEach
  <2>5. SeenEach(sys, a) = [i \in 1..(n + 1) |-> SeenIn(sys, a[i])]
    BY <2>1 DEF SeenEach
  <2>6. \A i \in 1..n : SeenIn(sys, a[i]) = F(i)
    BY <2>2
  <2>7. SeenIn(sys, a[n + 1]) = x
    BY <2>3
  <2> HIDE DEF n, F, a, x, each
  <2>8. Append([i \in 1..n |-> F(i)], x) = [i \in 1..(n + 1) |-> IF i = n + 1 THEN x ELSE F(i)]
    BY <2>1
  <2>9. \A i \in 1..(n + 1) : i = n + 1 \/ i \in 1..n
    BY <2>1
  <2>10. \A i \in 1..(n + 1) : SeenIn(sys, a[i]) = IF i = n + 1 THEN x ELSE F(i)
    BY <2>1, <2>6, <2>7, <2>9
  <2> QED
    BY <2>4, <2>5, <2>8, <2>10 DEF a
<1>2. each \in Seq(Seq(S)) /\ x \in Seq(S)
  BY SeenAllType, SeenInType
<1> HIDE DEF S, each, x
<1>3. FlattenSeq(Append(each, x)) = FlattenSeq(each) \o x
  BY <1>2, FlattenAppend
<1> QED
  BY <1>1, <1>3 DEF SeenAll, each, x

LEMMA SeenAppend ==
  ASSUME NEW sys, NEW receipts \in Seq(Seq(Logged)), NEW receipt \in Seq(Logged)
  PROVE  Seen(sys, Append(receipts, receipt)) = Seen(sys, receipts) \o SeenAll(sys, receipt)
<1> DEFINE S == Extractable(sys)
           L == Seq(Logged)
           every == SeenEvery(sys, receipts)
           x == SeenAll(sys, receipt)
<1>0. receipts \in Seq(L) /\ receipt \in L
  OBVIOUS
<1>1. SeenEvery(sys, Append(receipts, receipt)) = Append(every, x)
  <2> DEFINE n == Len(receipts)
             F(i) == SeenAll(sys, receipts[i])
             a == Append(receipts, receipt)
  <2> HIDE DEF L
  <2>1. n \in Nat /\ DOMAIN receipts = 1..n /\ DOMAIN a = 1..(n + 1)
    BY <1>0
  <2>2. \A i \in 1..n : a[i] = receipts[i]
    BY <1>0
  <2>3. a[n + 1] = receipt
    BY <1>0
  <2>4. every = [i \in 1..n |-> F(i)]
    BY <2>1 DEF SeenEvery
  <2>5. SeenEvery(sys, a) = [i \in 1..(n + 1) |-> SeenAll(sys, a[i])]
    BY <2>1 DEF SeenEvery
  <2>6. \A i \in 1..n : SeenAll(sys, a[i]) = F(i)
    BY <2>2
  <2>7. SeenAll(sys, a[n + 1]) = x
    BY <2>3
  <2> HIDE DEF n, F, a, x, every
  <2>8. Append([i \in 1..n |-> F(i)], x) = [i \in 1..(n + 1) |-> IF i = n + 1 THEN x ELSE F(i)]
    BY <2>1
  <2>9. \A i \in 1..(n + 1) : i = n + 1 \/ i \in 1..n
    BY <2>1
  <2>10. \A i \in 1..(n + 1) : SeenAll(sys, a[i]) = IF i = n + 1 THEN x ELSE F(i)
    BY <2>1, <2>6, <2>7, <2>9
  <2> QED
    BY <2>4, <2>5, <2>8, <2>10 DEF a
<1>2. every \in Seq(Seq(S)) /\ x \in Seq(S)
  BY SeenType, SeenAllType
<1> HIDE DEF S, every, x
<1>3. FlattenSeq(Append(every, x)) = FlattenSeq(every) \o x
  BY <1>2, FlattenAppend
<1> QED
  BY <1>1, <1>3 DEF Seen, every, x

(* A log is added: what is seen of it is added to what is seen.            *)
WithLog(receipts, log, joins) ==
  IF joins /\ receipts # <<>>
  THEN Append(Front(receipts), Append(Last(receipts), log)) ELSE Append(receipts, <<log>>)

LEMMA SeenWithLog ==
  ASSUME NEW sys, NEW receipts \in Seq(Seq(Logged)), NEW log \in Logged, NEW joins
  PROVE  /\ WithLog(receipts, log, joins) \in Seq(Seq(Logged))
         /\ Seen(sys, WithLog(receipts, log, joins)) = Seen(sys, receipts) \o SeenIn(sys, log)
<1> DEFINE L == Seq(Logged)
           S == Extractable(sys)
<1>1. receipts \in Seq(L)
  OBVIOUS
<1>2. SeenIn(sys, log) \in Seq(S) /\ Seen(sys, receipts) \in Seq(S)
  BY SeenInType, SeenType
<1>3. CASE joins /\ receipts # <<>>
  <2> DEFINE front == Front(receipts)
             last == Last(receipts)
  <2>1. last \in L /\ front \in Seq(L) /\ receipts = Append(front, last)
    <3> HIDE DEF L
    <3>1. Len(receipts) \in Nat /\ Len(receipts) >= 1
      BY <1>1, <1>3
    <3> QED
      BY <1>1, <3>1 DEF Front, Last
  <2>2. WithLog(receipts, log, joins) = Append(front, Append(last, log))
    BY <1>3 DEF WithLog
  <2> HIDE DEF front, last
  <2>3. last \in Seq(Logged) /\ front \in Seq(Seq(Logged))
    BY <2>1
  <2>4. Append(last, log) \in L
    BY <2>3
  <2>5. Append(front, Append(last, log)) \in Seq(L)
    <3> DEFINE x == Append(last, log)
    <3> HIDE DEF L, x
    <3>1. x \in L
      BY <2>4 DEF x
    <3> QED
      BY <2>1, <3>1 DEF x
  <2>6. Seen(sys, receipts) = Seen(sys, front) \o SeenAll(sys, last)
    BY <2>1, <2>3, SeenAppend
  <2>7. SeenAll(sys, Append(last, log)) = SeenAll(sys, last) \o SeenIn(sys, log)
    BY <2>3, SeenAllAppend
  <2>8. Append(last, log) \in Seq(Logged)
    BY <2>4
  <2>9. Seen(sys, Append(front, Append(last, log)))
          = Seen(sys, front) \o SeenAll(sys, Append(last, log))
    BY <2>3, <2>8, SeenAppend
  <2> DEFINE a == Seen(sys, front)
             b == SeenAll(sys, last)
             c == SeenIn(sys, log)
  <2>10. a \in Seq(S) /\ b \in Seq(S) /\ c \in Seq(S)
    BY <1>2, <2>3, SeenType, SeenAllType
  <2>11. (a \o b) \o c = a \o (b \o c)
    <3> HIDE DEF a, b, c, S
    <3>1. \A x, y, z \in Seq(S) : (x \o y) \o z = x \o (y \o z)
      BY ONLY ConcatAssoc, SMTT(30)
    <3> QED
      BY ONLY <2>10, <3>1, Zenon
  <2> QED
    BY <2>2, <2>5, <2>6, <2>7, <2>9, <2>11
<1>4. CASE ~ (joins /\ receipts # <<>>)
  <2>1. WithLog(receipts, log, joins) = Append(receipts, <<log>>)
    BY <1>4 DEF WithLog
  <2>2. <<log>> \in L
    OBVIOUS
  <2>3. Append(receipts, <<log>>) \in Seq(L)
    <3> DEFINE x == <<log>>
    <3> HIDE DEF L, x
    <3>1. x \in L
      BY <2>2 DEF x
    <3> QED
      BY <1>1, <3>1 DEF x
  <2>4. SeenAll(sys, <<log>>) = SeenIn(sys, log)
    <3>1. <<>> \in Seq(Logged) /\ Append(<<>>, log) = <<log>>
      OBVIOUS
    <3>2. SeenAll(sys, Append(<<>>, log)) = SeenAll(sys, <<>>) \o SeenIn(sys, log)
      BY <3>1, SeenAllAppend
    <3>3. SeenAll(sys, <<>>) = <<>>
      <4>1. SeenEach(sys, <<>>) = <<>>
        BY DEF SeenEach
      <4> QED
        BY <4>1, FlattenEmpty DEF SeenAll
    <3> DEFINE x == SeenIn(sys, log)
    <3>4. <<>> \o x = x
      <4> HIDE DEF x, S
      <4>1. x \in Seq(S)
        BY <1>2 DEF x
      <4> QED
        BY <4>1
    <3> QED
      BY <3>1, <3>2, <3>3, <3>4
  <2>5. Seen(sys, Append(receipts, <<log>>)) = Seen(sys, receipts) \o SeenAll(sys, <<log>>)
    BY <2>2, SeenAppend
  <2> QED
    BY <2>1, <2>3, <2>4, <2>5
<1> QED
  BY <1>3, <1>4

-----------------------------------------------------------------------------
LEMMA PermittedIsHostToken ==
  ASSUME NEW p \in Pairs, NEW t \in Token
  PROVE  t \in p.permitted <=> IsHostToken(p.sys, t)
<1> DEFINE tokens == p.sys.host.tokens
           records == {r \in Range(tokens.usds) : r.address = t}
           usds == UsdRecordOf(tokens, t)
<1>1. t \in p.permitted <=> t \in Bridged(tokens)
  BY PermittedAssumption
<1>2. /\ DOMAIN tokens.usds \subseteq Nat
      /\ \A a, b \in DOMAIN tokens.usds : tokens.usds[a].address = tokens.usds[b].address => a = b
  BY PermittedAssumption
<1> HIDE DEF tokens
<1>3. usds = {tokens.usds[i] : i \in {j \in DOMAIN tokens.usds : tokens.usds[j].address = t}}
  <2> DEFINE at == {i \in DOMAIN tokens.usds : tokens.usds[i] \in records}
  <2>1. at = {j \in DOMAIN tokens.usds : tokens.usds[j].address = t}
    BY DEF Range
  <2>2. \A j, k \in at : j = k
    BY <1>2, <2>1
  <2>3. usds = {tokens.usds[i] : i \in {j \in at : \A k \in at : j <= k}}
    BY DEF UsdRecordOf, FirstOf
  <2> HIDE DEF at, usds
  <2>4. {j \in at : \A k \in at : j <= k} = at
    <3>1. at \subseteq Nat
      BY <1>2, <2>1
    <3> SUFFICES ASSUME NEW j \in at, NEW k \in at PROVE j <= k
      OBVIOUS
    <3> QED
      BY <2>2, <3>1
  <2> QED
    BY <2>1, <2>3, <2>4
<1>4. (\E r \in usds : r.ticker \in {"USDC", "USDT"})
        <=> \E r \in Range(tokens.usds) : r.address = t /\ r.ticker \in {"USDC", "USDT"}
  BY <1>3 DEF Range
<1>5. t \in Bridged(tokens)
        <=> t \in {tokens.wbtc, tokens.weth, Native}
            \/ \E r \in usds : r.ticker \in {"USDC", "USDT"}
  BY <1>4 DEF Bridged
<1>6. IsHostToken(p.sys, t) <=> TokenFor(tokens, t) # {}
  BY DEF IsHostToken, tokens
<1> HIDE DEF usds
<1>7. TokenFor(tokens, t) # {}
        <=> t \in {tokens.wbtc, tokens.weth, Native}
            \/ \E r \in usds : r.ticker \in {"USDC", "USDT"}
  BY DEF TokenFor, IsEth, usds
<1> QED
  BY <1>1, <1>5, <1>6, <1>7

-----------------------------------------------------------------------------
(* What the assumptions say of one pair of chains.                         *)
LEMMA OfPair ==
  ASSUME NEW p \in Pairs, NEW sys, sys = p.sys, NEW id, id = sys.rollup.chainId
  PROVE  /\ sys.host.deployHeight \in Nat
         /\ id \in Nat /\ id # 0 /\ id % Word = id /\ 0 % Word = 0
         /\ sys.host.zenith # sys.host.orders /\ sys.host.zenith # sys.host.passage
         /\ sys.host.zenith # sys.host.transactor /\ sys.host.orders # sys.host.passage
         /\ sys.host.orders # sys.host.transactor /\ sys.host.passage # sys.host.transactor
         /\ HostContracts(sys) \subseteq Address
         /\ Depositor \in Address /\ Depositor \notin HostContracts(sys)
         /\ sys.host.tokens.weth \in Tokens /\ sys.host.tokens.wbtc \in Tokens
<1> DEFINE host == p.sys.host
           contracts == <<host.zenith, host.orders, host.passage, host.transactor, Depositor>>
<1>1. /\ host.deployHeight \in Nat
      /\ p.sys.rollup.chainId \in 1..(Word - 1)
      /\ \A i, j \in 1..5 : contracts[i] = contracts[j] => i = j
      /\ Word \in Nat
  BY FeedAssumption
<1>2. id \in 1..(Word - 1) /\ Word \in Nat
  BY <1>1
<1>3. id \in Nat /\ id # 0 /\ id % Word = id /\ 0 % Word = 0
  <2> HIDE DEF host, contracts
  <2>1. id \in Nat /\ id # 0 /\ 0 <= id /\ id < Word /\ Word > 0
    BY ONLY <1>2
  <2>2. \A a, b \in Nat : b > 0 /\ a < b => a % b = a
    OBVIOUS
  <2> QED
    BY ONLY <1>2, <2>1, <2>2
<1>4. /\ host.zenith # host.orders /\ host.zenith # host.passage
      /\ host.zenith # host.transactor /\ host.orders # host.passage
      /\ host.orders # host.transactor /\ host.passage # host.transactor
      /\ Depositor # host.zenith /\ Depositor # host.orders
      /\ Depositor # host.passage /\ Depositor # host.transactor
  <2>1. /\ contracts[1] # contracts[2] /\ contracts[1] # contracts[3]
        /\ contracts[1] # contracts[4] /\ contracts[2] # contracts[3]
        /\ contracts[2] # contracts[4] /\ contracts[3] # contracts[4]
        /\ contracts[5] # contracts[1] /\ contracts[5] # contracts[2]
        /\ contracts[5] # contracts[3] /\ contracts[5] # contracts[4]
    <3> HIDE DEF contracts
    <3> QED
      BY ONLY <1>1
  <2> QED
    BY <2>1
<1>5. HostContracts(sys) \subseteq Address /\ Depositor \in Address
  BY DEF Address
<1>6. sys.host.tokens.weth \in Tokens /\ sys.host.tokens.wbtc \in Tokens
  BY DEF Tokens
<1> QED
  BY <1>1, <1>3, <1>4, <1>5, <1>6 DEF HostContracts

-----------------------------------------------------------------------------
(* What a log tells: the event that is recorded if it is seen.             *)
Tells(sys, log, event, seen) ==
  /\ log \in Logged /\ event \in Recorded
  /\ Those(SeenIn(sys, log), Telling) = IF seen THEN <<event>> ELSE <<>>

LEMMA TellsNothing ==
  ASSUME NEW sys, NEW log \in Logged, NEW event \in Recorded, NEW seen,
         ~seen, ExtractLog(sys, log) = {}
  PROVE  Tells(sys, log, event, seen)
BY NoneToSeq, ThoseEmpty DEF Tells, SeenIn

LEMMA TellsEvent ==
  ASSUME NEW sys, NEW log \in Logged, NEW event \in Recorded, NEW seen,
         NEW d \in Event, ExtractLog(sys, log) = {d},
         seen => d = event /\ d \in Telling, ~seen => d \notin Telling
  PROVE  Tells(sys, log, event, seen)
<1>1. SeenIn(sys, log) = <<d>>
  BY OneToSeq DEF SeenIn
<1>2. Those(<<d>>, Telling) = IF d \in Telling THEN <<d>> ELSE <<>>
  BY ThoseOne
<1> QED
  BY <1>1, <1>2 DEF Tells

LEMMA PassageExtracts ==
  ASSUME NEW p \in Pairs, NEW sys, sys = p.sys, NEW event
  PROVE  ExtractLog(sys, Log(sys.host.passage, event)) =
           {e \in DecodePassage(event, sys.rollup.chainId) :
              e.kind = "enterToken" => IsHostToken(sys, e.token)}
<1> DEFINE log == Log(sys.host.passage, event)
<1>1. log.address = sys.host.passage /\ log.event = event
  BY DEF Log
<1>2. sys.host.passage # sys.host.zenith /\ sys.host.passage # sys.host.orders
      /\ sys.host.passage # sys.host.transactor
  BY OfPair
<1> HIDE DEF log
<1> QED
  BY <1>1, <1>2 DEF ExtractLog, log

LEMMA EnterTells ==
  ASSUME NEW p \in Pairs, NEW sys, sys = p.sys, NEW n \in Nat
  PROVE  Tells(sys, Log(sys.host.passage, EnterEvent(sys.rollup.chainId, Depositor, n)),
               EnterEvent(sys.rollup.chainId, Depositor, n), TRUE)
<1> DEFINE id == sys.rollup.chainId
           e == EnterEvent(id, Depositor, n)
           log == Log(sys.host.passage, e)
<1>1. id \in Nat /\ id % Word = id /\ sys.host.passage \in Address
  BY OfPair DEF HostContracts
<1>2. e \in Recorded /\ e \in Event /\ e \in Telling /\ e.kind = "enter" /\ e.chain = id
  BY <1>1 DEF EnterEvent, Event, Recorded, Enters, Telling
<1> HIDE DEF e, id
<1>3. log \in Logged
  BY <1>1, <1>2 DEF Log, Logged, Event
<1>4. DecodePassage(e, id) = {e}
  BY <1>1, <1>2 DEF DecodePassage, IsFor, RollupChainId
<1>5. ExtractLog(sys, log) = {e}
  BY <1>2, <1>4, PassageExtracts DEF id
<1> HIDE DEF log
<1>6. Tells(sys, log, e, TRUE)
  BY <1>2, <1>3, <1>5, TellsEvent
<1> QED
  BY <1>6 DEF log, e, id

LEMMA EnterTokenTells ==
  ASSUME NEW p \in Pairs, NEW sys, sys = p.sys, NEW n \in Nat, NEW t \in Token
  PROVE  Tells(sys, Log(sys.host.passage, EnterTokenEvent(sys.rollup.chainId, Depositor, n, t)),
               EnterTokenEvent(sys.rollup.chainId, Depositor, n, t), t \in p.permitted)
<1> DEFINE id == sys.rollup.chainId
           e == EnterTokenEvent(id, Depositor, n, t)
           log == Log(sys.host.passage, e)
           seen == t \in p.permitted
<1>1. id \in Nat /\ id % Word = id /\ sys.host.passage \in Address
  BY OfPair DEF HostContracts
<1>2. e \in Recorded /\ e \in Event /\ e \in Telling /\ e.kind = "enterToken"
      /\ e.chain = id /\ e.token = t
  BY <1>1 DEF EnterTokenEvent, Event, Recorded, EnterTokens, Telling, Tokens
<1>3. seen <=> IsHostToken(sys, t)
  BY PermittedIsHostToken
<1> HIDE DEF e, id, seen
<1>4. log \in Logged
  BY <1>1, <1>2 DEF Log, Logged, Event
<1>5. DecodePassage(e, id) = {e}
  BY <1>1, <1>2 DEF DecodePassage, IsFor, RollupChainId
<1>6. ExtractLog(sys, log) = {d \in {e} : d.kind = "enterToken" => IsHostToken(sys, d.token)}
  BY <1>5, PassageExtracts DEF id
<1> HIDE DEF log
<1>7. CASE seen
  <2>1. ExtractLog(sys, log) = {e}
    BY <1>2, <1>3, <1>6, <1>7
  <2>2. Tells(sys, log, e, seen)
    BY <1>2, <1>4, <1>7, <2>1, TellsEvent
  <2> QED
    BY <2>2 DEF log, e, id, seen
<1>8. CASE ~seen
  <2>1. ExtractLog(sys, log) = {}
    BY <1>2, <1>3, <1>6, <1>8
  <2>2. Tells(sys, log, e, seen)
    BY <1>2, <1>4, <1>8, <2>1, TellsNothing
  <2> QED
    BY <2>2 DEF log, e, id, seen
<1> QED
  BY <1>7, <1>8

LEMMA TransactTells ==
  ASSUME NEW p \in Pairs, NEW sys, sys = p.sys, NEW a \in Account
  PROVE  Tells(sys, Log(sys.host.transactor, TransactEvent(sys.rollup.chainId, a, Depositor)),
               TransactEvent(sys.rollup.chainId, a, Depositor), TRUE)
<1> DEFINE id == sys.rollup.chainId
           e == TransactEvent(id, a, Depositor)
           log == Log(sys.host.transactor, e)
<1>1. id \in Nat /\ id % Word = id /\ sys.host.transactor \in Address
      /\ sys.host.transactor # sys.host.zenith /\ sys.host.transactor # sys.host.orders
      /\ sys.host.transactor # sys.host.passage
  BY OfPair DEF HostContracts
<1>2. e \in Recorded /\ e \in Event /\ e \in Telling /\ e.kind = "transact" /\ e.chain = id
  BY <1>1 DEF TransactEvent, Event, Recorded, Transacted, Telling
<1> HIDE DEF e, id
<1>3. log \in Logged /\ log.address = sys.host.transactor /\ log.event = e
  BY <1>1, <1>2 DEF Log, Logged, Event
<1>4. DecodeTransactor(e, id) = {e}
  BY <1>1, <1>2 DEF DecodeTransactor, IsFor, RollupChainId
<1> HIDE DEF log
<1>5. ExtractLog(sys, log) = {e}
  BY <1>1, <1>3, <1>4 DEF ExtractLog, id
<1>6. Tells(sys, log, e, TRUE)
  BY <1>2, <1>3, <1>5, TellsEvent
<1> QED
  BY <1>6 DEF log, e, id

(* A fill with one output, on the rollup or not.                           *)
LEMMA OrdersExtracts ==
  ASSUME NEW p \in Pairs, NEW sys, sys = p.sys, NEW event
  PROVE  ExtractLog(sys, Log(sys.host.orders, event)) =
           DecodeOrders(event, sys.rollup.chainId)
<1> DEFINE log == Log(sys.host.orders, event)
<1>1. log.address = sys.host.orders /\ log.event = event
  BY DEF Log
<1>2. sys.host.orders # sys.host.zenith /\ sys.host.orders # sys.host.passage
      /\ sys.host.orders # sys.host.transactor
  BY OfPair
<1> HIDE DEF log
<1> QED
  BY <1>1, <1>2 DEF ExtractLog, log

IsOneFill(e, chain, id) ==
  /\ e \in Recorded /\ e \in Event /\ e \in Telling /\ e \in Fills
  /\ chain = id => DecodeOrders(e, id) = {e}
  /\ chain # id => DecodeOrders(e, id) = {[e EXCEPT !.outputs = <<>>]}
  /\ [e EXCEPT !.outputs = <<>>] \in Event \ Telling

LEMMA OneFill ==
  ASSUME NEW chain \in Nat, NEW token \in Tokens, NEW n \in Nat, NEW id
  PROVE  IsOneFill(FilledEvent(chain, token, Depositor, n), chain, id)
<1> DEFINE o == [chain |-> chain, token |-> token, recipient |-> Depositor, amount |-> n]
           e == FilledEvent(chain, token, Depositor, n)
           at == {i \in DOMAIN e.outputs : e.outputs[i].chain = id}
<1>1. o \in FillOutput /\ o.chain = chain
  BY DEF FillOutput
<1>2. e = [kind |-> "filled", outputs |-> <<o>>]
  BY DEF FilledEvent
<1> HIDE DEF o, e
<1>3. e.kind = "filled" /\ e.outputs = <<o>> /\ <<o>> \in Seq(FillOutput) /\ <<o>> # <<>>
      /\ DOMAIN <<o>> = {1} /\ <<o>>[1] = o
  BY <1>1, <1>2
<1>4. e \in Fills /\ e \in Recorded /\ e \in Event /\ e \in Telling
  <2>1. e \in Fills
    BY ONLY <1>2, <1>3 DEF Fills
  <2>2. e \in Recorded
    BY ONLY <2>1 DEF Recorded
  <2>3. e \in Event
    BY ONLY <2>2 DEF Event
  <2> QED
    BY ONLY <1>3, <2>1, <2>2, <2>3 DEF Telling
<1>5. at = IF chain = id THEN {1} ELSE {}
  BY <1>1, <1>3
<1>6. DecodeOrders(e, id) = {[e EXCEPT !.outputs = Kept(<<o>>, at)]}
  BY <1>3 DEF DecodeOrders
<1> HIDE DEF at
<1>7. chain = id => Kept(<<o>>, at) = <<o>>
  <2> DEFINE s == <<o>>
  <2>1. s \in Seq(FillOutput) /\ (chain = id => DOMAIN s \subseteq at)
    BY <1>3, <1>5
  <2> HIDE DEF s
  <2>2. chain = id => Kept(s, at) = s
    BY <2>1, KeptAll
  <2> QED
    BY <2>2 DEF s
<1>8. chain # id => Kept(<<o>>, at) = <<>>
  <2> DEFINE s == <<o>>
  <2>1. s \in Seq(FillOutput) /\ (chain # id => at \cap DOMAIN s = {})
    BY <1>3, <1>5
  <2> HIDE DEF s
  <2>2. chain # id => Kept(s, at) = <<>>
    BY <2>1, KeptNone
  <2> QED
    BY <2>2 DEF s
<1>9. [e EXCEPT !.outputs = <<o>>] = e
  BY <1>2
<1>10. [e EXCEPT !.outputs = <<>>] \in Event \ Telling
  <2>1. [e EXCEPT !.outputs = <<>>] = [kind |-> "filled", outputs |-> <<>>]
    BY <1>2
  <2>2. <<>> \in Seq(FillOutput)
    OBVIOUS
  <2> QED
    BY <2>1, <2>2 DEF Event, Recorded, Fills, Telling
<1> QED
  BY <1>4, <1>6, <1>7, <1>8, <1>9, <1>10 DEF e, IsOneFill

LEMMA FillTells ==
  ASSUME NEW p \in Pairs, NEW sys, sys = p.sys, NEW n \in Nat, NEW chain \in Nat
  PROVE  Tells(sys, Log(sys.host.orders,
                        FilledEvent(chain, sys.host.tokens.weth, Depositor, n)),
               FilledEvent(chain, sys.host.tokens.weth, Depositor, n),
               chain = sys.rollup.chainId)
<1> DEFINE id == sys.rollup.chainId
           token == sys.host.tokens.weth
           e == FilledEvent(chain, token, Depositor, n)
           log == Log(sys.host.orders, e)
           d == [e EXCEPT !.outputs = <<>>]
           seen == chain = id
<1>1. token \in Tokens /\ sys.host.orders \in Address
  BY OfPair DEF HostContracts
<1>2. /\ e \in Recorded /\ e \in Event /\ e \in Telling
      /\ seen => DecodeOrders(e, id) = {e}
      /\ ~seen => DecodeOrders(e, id) = {d}
      /\ d \in Event \ Telling
  <2>1. IsOneFill(e, chain, id)
    BY <1>1, OneFill
  <2> HIDE DEF e, id
  <2> QED
    BY <2>1 DEF IsOneFill
<1>3. ExtractLog(sys, log) = DecodeOrders(e, id)
  BY OrdersExtracts
<1> HIDE DEF e, id, token, d
<1>4. log \in Logged
  BY <1>1, <1>2 DEF Log, Logged, Event
<1> HIDE DEF log
<1>5. CASE seen
  <2>1. Tells(sys, log, e, seen)
    BY <1>2, <1>3, <1>4, <1>5, TellsEvent
  <2> QED
    BY <2>1 DEF log, e, id, token
<1>6. CASE ~seen
  <2>1. Tells(sys, log, e, seen)
    BY <1>2, <1>3, <1>4, <1>6, TellsEvent
  <2> QED
    BY <2>1 DEF log, e, id, token
<1> QED
  BY <1>5, <1>6

(* The logs that are not for the rollup.                                   *)
LEMMA IgnoredTells ==
  ASSUME NEW p \in Pairs, NEW sys, sys = p.sys
  PROVE  /\ Tells(sys, Log(sys.host.passage, EnterEvent(0, Depositor, 1)),
                  EnterEvent(0, Depositor, 1), FALSE)
         /\ Tells(sys, Log(sys.host.passage,
                           EnterTokenEvent(0, Depositor, 1, sys.host.tokens.wbtc)),
                  EnterTokenEvent(0, Depositor, 1, sys.host.tokens.wbtc), FALSE)
         /\ Tells(sys, Log(sys.host.passage, [kind |-> "other"]), [kind |-> "other"], FALSE)
         /\ Tells(sys, Log(Depositor, EnterEvent(sys.rollup.chainId, Depositor, 1)),
                  EnterEvent(sys.rollup.chainId, Depositor, 1), FALSE)
<1> DEFINE id == sys.rollup.chainId
           token == sys.host.tokens.wbtc
           e1 == EnterEvent(0, Depositor, 1)
           e2 == EnterTokenEvent(0, Depositor, 1, token)
           e3 == [kind |-> "other"]
           e4 == EnterEvent(id, Depositor, 1)
           Passed(e) == Log(sys.host.passage, e)
<1>1. /\ token \in Tokens /\ sys.host.passage \in Address /\ Depositor \in Address
      /\ id \in Nat /\ id # 0 /\ 0 % Word = 0
      /\ Depositor # sys.host.zenith /\ Depositor # sys.host.orders
      /\ Depositor # sys.host.transactor /\ Depositor # sys.host.passage
  BY OfPair DEF HostContracts
<1>2. e1 \in Recorded /\ e1.chain = 0
  BY DEF EnterEvent, Event, Recorded, Enters
<1>3. e2 \in Recorded /\ e2.chain = 0
  BY <1>1 DEF EnterTokenEvent, Event, Recorded, EnterTokens
<1>4. e3 \in Recorded /\ e3.kind = "other"
  BY DEF Event, Recorded, Others
<1>5. e4 \in Recorded
  BY <1>1 DEF EnterEvent, Event, Recorded, Enters
<1> HIDE DEF id, token, e1, e2, e3, e4
<1>6. ASSUME NEW e \in {e1, e2, e3}
      PROVE  Passed(e) \in Logged /\ ExtractLog(sys, Passed(e)) = {}
  <2>1. e \in Recorded /\ (e.kind = "other" \/ e.chain = 0)
    BY <1>2, <1>3, <1>4
  <2>2. DecodePassage(e, id) = {}
    BY <1>1, <2>1 DEF DecodePassage, IsFor, RollupChainId
  <2>3. ExtractLog(sys, Passed(e)) = {}
    BY <2>2, PassageExtracts DEF id
  <2> QED
    BY <1>1, <2>1, <2>3 DEF Log, Logged, Event
<1>7. Log(Depositor, e4) \in Logged /\ ExtractLog(sys, Log(Depositor, e4)) = {}
  <2> DEFINE log == Log(Depositor, e4)
  <2>1. log \in Logged /\ log.address = Depositor
    BY <1>1, <1>5 DEF Log, Logged, Event
  <2> HIDE DEF log
  <2>2. ExtractLog(sys, log) = {}
    BY <1>1, <2>1 DEF ExtractLog
  <2> QED
    BY <2>1, <2>2 DEF log
<1> HIDE DEF Passed
<1>8. /\ Tells(sys, Passed(e1), e1, FALSE) /\ Tells(sys, Passed(e2), e2, FALSE)
      /\ Tells(sys, Passed(e3), e3, FALSE) /\ Tells(sys, Log(Depositor, e4), e4, FALSE)
  BY <1>2, <1>3, <1>4, <1>5, <1>6, <1>7, TellsNothing
<1> QED
  BY <1>8 DEF Passed, e1, e2, e3, e4, id, token

-----------------------------------------------------------------------------
(* A specification is sound: it records what its receipts tell, and has    *)
(* the block that it says was submitted, if any.                           *)
SubmittedOf(sys, ru) ==
  [kind |-> "submitted", chain |-> sys.rollup.chainId,
   gasLimit |-> IF ru.gasLimit = {} THEN DefaultGasLimit
                ELSE CHOOSE g \in ru.gasLimit : TRUE,
   rewardAddress |-> IF ru.rewardAddress = {} THEN DefaultReward
                     ELSE CHOOSE a \in ru.rewardAddress : TRUE,
   blockDataHash |-> ru.txs]
ZenithLog(sys, ru) == Log(sys.host.zenith, SubmittedOf(sys, ru))

HasBlock(sys, spec, ru) ==
  spec.ruBlock = {ru} /\ spec.sidecar = {ru.txs} /\ spec.ruReceipt = {<<ZenithLog(sys, ru)>>}
HasNoBlock(spec) == spec.ruBlock = {} /\ spec.sidecar = {} /\ spec.ruReceipt = {}

Sound(sys, spec) ==
  /\ spec \in HostBlock
  /\ Those(Seen(sys, spec.receipts), Telling) = spec.events
  /\ HasNoBlock(spec) \/ \E ru \in RuBlocks : HasBlock(sys, spec, ru)

LEMMA SubmissionType ==
  ASSUME NEW p \in Pairs, NEW sys, sys = p.sys, NEW ru \in RuBlocks
  PROVE  /\ SubmittedOf(sys, ru) \in Submissions
         /\ ZenithLog(sys, ru) \in Logged /\ <<ZenithLog(sys, ru)>> \in Seq(Logged)
<1> DEFINE g == IF ru.gasLimit = {} THEN DefaultGasLimit ELSE CHOOSE x \in ru.gasLimit : TRUE
           a == IF ru.rewardAddress = {} THEN DefaultReward
                ELSE CHOOSE x \in ru.rewardAddress : TRUE
           log == ZenithLog(sys, ru)
<1>1. g \in Limit
  <2>1. CASE ru.gasLimit = {}
    BY <2>1 DEF Limit
  <2>2. CASE ru.gasLimit # {}
    <3>1. g \in ru.gasLimit
      BY <2>2
    <3> QED
      BY <3>1 DEF Limit
  <2> QED
    BY <2>1, <2>2
<1>2. a \in Reward
  <2>1. CASE ru.rewardAddress = {}
    BY <2>1 DEF Reward
  <2>2. CASE ru.rewardAddress # {}
    <3>1. a \in ru.rewardAddress
      BY <2>2
    <3> QED
      BY <3>1 DEF Reward
  <2> QED
    BY <2>1, <2>2
<1>3. sys.rollup.chainId \in Nat /\ sys.host.zenith \in Address
  BY OfPair DEF HostContracts
<1>4. ru.txs \in BlockData
  BY DEF BlockData
<1>5. SubmittedOf(sys, ru) = [kind |-> "submitted", chain |-> sys.rollup.chainId, gasLimit |-> g,
                              rewardAddress |-> a, blockDataHash |-> ru.txs]
  BY DEF SubmittedOf
<1> HIDE DEF g, a
<1>6. SubmittedOf(sys, ru) \in Submissions
  BY <1>1, <1>2, <1>3, <1>4, <1>5 DEF Submissions
<1>7. log \in Logged
  BY <1>3, <1>6 DEF ZenithLog, Log, Logged, Event, Recorded
<1> HIDE DEF log
<1>8. <<log>> \in Seq(Logged)
  BY <1>7
<1> QED
  BY <1>6, <1>7, <1>8 DEF log

LEMMA EmptySound ==
  ASSUME NEW sys
  PROVE  Sound(sys, EmptySpec) /\ EmptySpec.number = 0
<1>1. EmptySpec \in HostBlock /\ EmptySpec.receipts = <<>> /\ EmptySpec.events = <<>>
      /\ EmptySpec.number = 0 /\ HasNoBlock(EmptySpec)
  <2> DEFINE A == Seq(Seq(Logged))
             B == Seq(Recorded)
  <2>1. <<>> \in A /\ <<>> \in B
    OBVIOUS
  <2> HIDE DEF A, B
  <2>2. EmptySpec \in [number : Nat, receipts : A, events : B,
                       ruBlock : SUBSET RuBlocks, ruReceipt : SUBSET Seq(Logged),
                       sidecar : SUBSET BlockData]
    BY <2>1 DEF EmptySpec
  <2>3. EmptySpec \in HostBlock
    BY <2>2 DEF HostBlock, A, B
  <2> QED
    BY <2>3 DEF EmptySpec, HasNoBlock
<1>2. Seen(sys, <<>>) = <<>>
  <2>1. SeenEvery(sys, <<>>) = <<>>
    BY DEF SeenEvery
  <2> QED
    BY <2>1, FlattenEmpty DEF Seen
<1>3. Those(Seen(sys, EmptySpec.receipts), Telling) = EmptySpec.events
  BY <1>1, <1>2, ThoseEmpty
<1> QED
  BY <1>1, <1>3 DEF Sound

LEMMA NumberSound ==
  ASSUME NEW sys, NEW spec, Sound(sys, spec), NEW n \in Nat
  PROVE  Sound(sys, [spec EXCEPT !.number = n])
<1> DEFINE t == [spec EXCEPT !.number = n]
<1>1. spec \in HostBlock
  BY DEF Sound
<1>2. t \in HostBlock
  BY <1>1, Renumbered
<1>3. t.receipts = spec.receipts /\ t.events = spec.events /\ t.ruBlock = spec.ruBlock
      /\ t.sidecar = spec.sidecar /\ t.ruReceipt = spec.ruReceipt
  BY <1>1 DEF HostBlock
<1> HIDE DEF t
<1>4. Sound(sys, t)
  BY <1>2, <1>3 DEF Sound, HasBlock, HasNoBlock
<1> QED
  BY <1>4 DEF t

(* A log is added, and recorded if it is seen.                             *)
WithEvent(spec, log, joins, event, seen) ==
  IF seen THEN Record(AddLog(spec, log, joins), event) ELSE AddLog(spec, log, joins)

LEMMA EventSound ==
  ASSUME NEW sys, NEW spec, Sound(sys, spec), NEW log, NEW event, NEW seen,
         Tells(sys, log, event, seen), NEW joins
  PROVE  /\ Sound(sys, WithEvent(spec, log, joins, event, seen))
         /\ WithEvent(spec, log, joins, event, seen).number = spec.number
<1> DEFINE r == WithLog(spec.receipts, log, joins)
           a == AddLog(spec, log, joins)
           e == IF seen THEN Append(spec.events, event) ELSE spec.events
           t == WithEvent(spec, log, joins, event, seen)
           old == Seen(sys, spec.receipts)
           more == SeenIn(sys, log)
<1>1. spec \in HostBlock /\ spec.receipts \in Seq(Seq(Logged)) /\ spec.events \in Seq(Recorded)
  BY DEF Sound, HostBlock
<1>2. log \in Logged /\ event \in Recorded
      /\ Those(more, Telling) = IF seen THEN <<event>> ELSE <<>>
  BY DEF Tells
<1>3. r \in Seq(Seq(Logged)) /\ Seen(sys, r) = old \o more
  BY <1>1, <1>2, SeenWithLog
<1>4. old \in Seq(Event) /\ more \in Seq(Event)
  <2>1. Extractable(sys) \subseteq Event
    BY DEF Extractable, Event, Recorded
  <2>2. old \in Seq(Extractable(sys)) /\ more \in Seq(Extractable(sys))
    BY <1>1, <1>2, SeenType, SeenInType
  <2> HIDE DEF old, more
  <2> QED
    BY ONLY <2>1, <2>2
<1>5. Those(old \o more, Telling) = Those(old, Telling) \o Those(more, Telling)
  <2> HIDE DEF old, more
  <2> QED
    BY ONLY <1>4, ThoseConcat
<1>6. Those(old, Telling) = spec.events
  BY DEF Sound
<1> HIDE DEF old, more
<1>7. e \in Seq(Recorded) /\ Those(Seen(sys, r), Telling) = e
  <2>1. CASE seen
    <3> DEFINE s == spec.events
    <3>1. s \in Seq(Recorded) /\ event \in Recorded
      BY <1>1, <1>2
    <3> HIDE DEF s
    <3>2. s \o <<event>> = Append(s, event) /\ Append(s, event) \in Seq(Recorded)
      BY ONLY <3>1
    <3> QED
      BY <1>2, <1>3, <1>5, <1>6, <2>1, <3>2 DEF s
  <2>2. CASE ~seen
    <3> DEFINE s == spec.events
    <3>1. s \in Seq(Recorded)
      BY <1>1
    <3> HIDE DEF s
    <3>2. s \o <<>> = s
      BY ONLY <3>1
    <3> QED
      BY <1>1, <1>2, <1>3, <1>5, <1>6, <2>2, <3>2 DEF s
  <2> QED
    BY <2>1, <2>2
<1> HIDE DEF r
<1>8. a = [spec EXCEPT !.receipts = r]
  BY DEF AddLog, WithLog, r
<1>9. t = [[spec EXCEPT !.receipts = r] EXCEPT !.events = e]
  <2>1. a.events = spec.events
    BY <1>1, <1>8 DEF HostBlock
  <2>2. t = IF seen THEN [a EXCEPT !.events = Append(a.events, event)] ELSE a
    BY DEF WithEvent, Record
  <2>3. [a EXCEPT !.events = spec.events] = a
    BY <1>1, <1>8 DEF HostBlock
  <2> HIDE DEF a, t
  <2> QED
    BY <1>8, <2>1, <2>2, <2>3
<1> HIDE DEF e, t
<1>10. /\ t \in HostBlock /\ t.receipts = r /\ t.events = e /\ t.number = spec.number
       /\ t.ruBlock = spec.ruBlock /\ t.sidecar = spec.sidecar /\ t.ruReceipt = spec.ruReceipt
  <2> DEFINE A == Seq(Seq(Logged))
             B == Seq(Recorded)
  <2>1. r \in A /\ e \in B
    BY <1>3, <1>7
  <2>2. spec \in [number : Nat, receipts : A, events : B,
                  ruBlock : SUBSET RuBlocks, ruReceipt : SUBSET Seq(Logged),
                  sidecar : SUBSET BlockData]
    BY <1>1 DEF HostBlock
  <2> HIDE DEF A, B
  <2>3. t \in [number : Nat, receipts : A, events : B,
               ruBlock : SUBSET RuBlocks, ruReceipt : SUBSET Seq(Logged),
               sidecar : SUBSET BlockData]
    BY <1>9, <2>1, <2>2
  <2>4. t \in HostBlock
    BY <2>3 DEF HostBlock, A, B
  <2> QED
    BY <1>9, <2>2, <2>4
<1>11. Sound(sys, t)
  BY <1>7, <1>10 DEF Sound, HasBlock, HasNoBlock
<1> QED
  BY <1>10, <1>11 DEF t

WithSubmitted(sys, spec, ru) ==
  [spec EXCEPT !.ruBlock = {ru}, !.sidecar = {ru.txs},
               !.ruReceipt = {<<ZenithLog(sys, ru)>>}]

LEMMA BlockSound ==
  ASSUME NEW p \in Pairs, NEW sys, sys = p.sys, NEW spec, Sound(sys, spec), NEW ru \in RuBlocks
  PROVE  /\ Sound(sys, WithSubmitted(sys, spec, ru))
         /\ WithSubmitted(sys, spec, ru).number = spec.number
<1> DEFINE receipt == <<ZenithLog(sys, ru)>>
           t == [spec EXCEPT !.ruBlock = {ru}, !.sidecar = {ru.txs}, !.ruReceipt = {receipt}]
           A == Seq(Seq(Logged))
           B == Seq(Recorded)
           C == Seq(Logged)
<1>1. receipt \in C /\ ru.txs \in BlockData
  BY SubmissionType DEF BlockData
<1>2. spec \in [number : Nat, receipts : A, events : B, ruBlock : SUBSET RuBlocks,
                ruReceipt : SUBSET C, sidecar : SUBSET BlockData]
  BY DEF HostBlock, Sound
<1> HIDE DEF A, B, C, receipt
<1>3. /\ t \in [number : Nat, receipts : A, events : B, ruBlock : SUBSET RuBlocks,
                ruReceipt : SUBSET C, sidecar : SUBSET BlockData]
      /\ t.receipts = spec.receipts /\ t.events = spec.events /\ t.number = spec.number
      /\ t.ruBlock = {ru} /\ t.sidecar = {ru.txs} /\ t.ruReceipt = {receipt}
  BY <1>1, <1>2
<1>4. t \in HostBlock
  BY <1>3 DEF HostBlock, A, B, C
<1> HIDE DEF t
<1>5. HasBlock(sys, t, ru)
  BY <1>3 DEF HasBlock, receipt
<1>6. Sound(sys, t) /\ t.number = spec.number
  BY <1>3, <1>4, <1>5 DEF Sound
<1> QED
  BY <1>6 DEF WithSubmitted, t, receipt

-----------------------------------------------------------------------------
(* What a notification says can be read back.                              *)
ReadsBack(chain) ==
  \A b \in ToSet(BlocksAndReceipts(chain)) :
    /\ {b.receipts} = ReceiptsByBlock(chain.outcome, b.number)
    /\ b.number <= LastBlock(chain.outcome)

LEMMA MaxWithZero ==
  ASSUME NEW a \in Nat
  PROVE  Max({0, a}) = a
<1>1. a \in {0, a} /\ \A y \in {0, a} : a >= y
  OBVIOUS
<1>2. \A x \in {0, a} : (\A y \in {0, a} : x >= y) => x = a
  OBVIOUS
<1> QED
  BY <1>1, <1>2 DEF Max

LEMMA ChainReadsBack ==
  ASSUME NEW specs \in Seq(HostBlock)
  PROVE  ReadsBack(ToChain(specs))
<1> DEFINE N == Len(specs)
           s == Numbered(specs)
           r == [i \in 1..N |-> ReceiptsOf(s[i])]
           chain == ToChain(specs)
           first == specs[1].number
           outcome == [receipts |-> r, firstBlock |-> IF N = 0 THEN 0 ELSE first]
<1>1. N \in Nat /\ \A i \in 1..N : specs[i] \in HostBlock
  OBVIOUS
<1>2. Len(s) = N /\ DOMAIN s = 1..N /\ \A i \in 1..N : s[i].number = first + i - 1
  <2>1. Len(s) = N /\ s \in Seq(HostBlock) /\ Consecutive(s, first)
    BY NumberedIs
  <2>2. DOMAIN s = 1..N
    BY <2>1
  <2> QED
    BY <2>1, <2>2 DEF Consecutive
<1>3. BlocksAndReceipts(chain) = [i \in 1..N |-> BlockOf(s[i])]
  BY <1>1, <1>2, BlocksOf
<1>4. chain.outcome = outcome
  <2>1. chain = ChainUpTo(s, N)
    BY <1>1, ToChainIs
  <2>2. N # 0 => s[1].number = first
    <3>1. N # 0 => 1 \in 1..N
      BY <1>1
    <3>2. \A i \in 1..N : s[i] = [specs[i] EXCEPT !.number = first + i - 1]
      BY NumberedIs
    <3>3. N # 0 => specs[1] \in HostBlock /\ first \in Nat
      BY <1>1, <3>1 DEF HostBlock
    <3>4. N # 0 => s[1].number = first + 1 - 1
      BY <1>2, <3>1
    <3> HIDE DEF first, s, N
    <3> QED
      BY <3>3, <3>4
  <2> QED
    BY <2>1, <2>2 DEF ChainUpTo
<1>5. ASSUME NEW i \in 1..N
      PROVE  LET b == BlockOf(s[i])
             IN  /\ {b.receipts} = ReceiptsByBlock(outcome, b.number)
                 /\ b.number <= LastBlock(outcome)
  <2> DEFINE b == BlockOf(s[i])
  <2>1. first \in Nat /\ N # 0
    <3>1. 1 \in 1..N /\ N # 0
      BY <1>1
    <3> QED
      BY <1>1, <3>1 DEF HostBlock
  <2>2. b.number = first + i - 1 /\ b.receipts = r[i]
    BY <1>2 DEF BlockOf
  <2>3. outcome.receipts = r /\ outcome.firstBlock = first /\ Len(r) = N
    BY <1>1, <2>1
  <2> HIDE DEF b, first, r, outcome, N
  <2>4. b.number - first + 1 = i /\ ~(b.number < first)
    BY <2>1, <2>2
  <2>5. ReceiptsByBlock(outcome, b.number) = {r[i]}
    BY <2>3, <2>4 DEF ReceiptsByBlock
  <2>6. first + N - 1 \in Nat /\ b.number <= first + N - 1
    BY <1>1, <2>1, <2>2
  <2>7. LastBlock(outcome) = first + N - 1
    BY <2>3, <2>6, MaxWithZero DEF LastBlock
  <2> QED
    BY <2>2, <2>5, <2>6, <2>7 DEF b
<1> HIDE DEF chain, outcome, N, s
<1>6. ToSet(BlocksAndReceipts(chain)) = {BlockOf(s[i]) : i \in 1..N}
  BY <1>3 DEF ToSet
<1> QED
  BY <1>4, <1>5, <1>6 DEF ReadsBack, chain

-----------------------------------------------------------------------------
(* The follower keeps the extracts of the host chain, all of whose         *)
(* specifications are sound, and the last notification can be read back.   *)
AllSound(sys, specs) == \A i \in DOMAIN specs : Sound(sys, specs[i])

Noted(sys, note) ==
  /\ note.undone = ExtractSignet(sys, BlocksAndReceipts(note.old))
  /\ ReadsBack(note.old) /\ ReadsBack(note.new)

FeedInv ==
  /\ pair \in Pairs
  /\ Sound(pair.sys, draft) /\ draft.number = 0
  /\ fresh \in Seq(HostBlock) /\ AllSound(pair.sys, fresh)
  /\ Follows(pair.sys, canonical, followed) /\ AllSound(pair.sys, canonical)
  /\ Noted(pair.sys, notified)

LEMMA ToChainEmpty ==
  /\ BlocksAndReceipts(ToChain(<<>>)) = <<>>
  /\ \A sys : ExtractSignet(sys, <<>>) = <<>>
<1>1. Len(<<>>) \in Nat /\ Len(Numbered(<<>>)) = Len(<<>>) /\ Len(<<>>) = 0
  BY DEF Numbered
<1>2. BlocksAndReceipts(ToChain(<<>>)) = <<>>
  <2> DEFINE s == <<>>
  <2>1. Len(s) \in Nat /\ Len(Numbered(s)) = Len(s) /\ Len(s) = 0
    BY <1>1
  <2> HIDE DEF s
  <2>2. BlocksAndReceipts(ToChain(s)) = [i \in 1..Len(s) |-> BlockOf(Numbered(s)[i])]
    BY <2>1, BlocksOf
  <2>3. BlocksAndReceipts(ToChain(s)) = <<>>
    BY <2>1, <2>2
  <2> QED
    BY <2>3 DEF s
<1>3. ASSUME NEW sys
      PROVE  ExtractSignet(sys, <<>>) = <<>>
  <2> DEFINE above == Kept(<<>>, {i \in DOMAIN <<>> : IsExtracted(sys, <<>>[i])})
  <2>1. above = <<>>
    BY KeptEmpty
  <2>2. ExtractSignet(sys, <<>>) = [i \in DOMAIN above |-> Extracted(sys, above[i])]
    BY DEF ExtractSignet
  <2> HIDE DEF above
  <2> QED
    BY <2>1, <2>2
<1> QED
  BY <1>2, <1>3

LEMMA FeedInitInv == FeedInit => FeedInv
<1> SUFFICES ASSUME FeedInit PROVE FeedInv
  OBVIOUS
<1> DEFINE sys == pair.sys
<1>1. pair \in Pairs /\ draft = EmptySpec /\ fresh = <<>> /\ canonical = <<>> /\ followed = <<>>
      /\ notified = Notification(<<>>, <<>>, <<>>)
  BY DEF FeedInit
<1>2. Sound(sys, draft) /\ draft.number = 0
  BY <1>1, EmptySound
<1>3. <<>> \in Seq(HostBlock) /\ DOMAIN <<>> = {} /\ Len(<<>>) = 0
  OBVIOUS
<1>4. Follows(sys, canonical, followed)
  <2>1. [i \in 1..Above(Len(<<>>)) |-> ExtractOf(sys, <<>>[i + 1])] = <<>>
    BY DEF Above
  <2> QED
    BY <1>1, <1>3, <2>1 DEF Follows, Consecutive
<1>5. Noted(sys, notified)
  <2>1. notified.undone = <<>> /\ notified.old = ToChain(<<>>) /\ notified.new = ToChain(<<>>)
    BY <1>1 DEF Notification
  <2>2. ReadsBack(ToChain(<<>>))
    <3> DEFINE s == <<>>
    <3>1. s \in Seq(HostBlock)
      OBVIOUS
    <3> HIDE DEF s
    <3>2. ReadsBack(ToChain(s))
      BY <3>1, ChainReadsBack
    <3> QED
      BY <3>2 DEF s
  <2> QED
    BY <2>1, <2>2, ToChainEmpty DEF Noted
<1> QED
  BY <1>1, <1>2, <1>3, <1>4, <1>5 DEF FeedInv, AllSound

(* A notification: k blocks are reverted, and fresh ones take their place. *)
AfterNotify(sys, chain, kept, specs, k) ==
  LET cut == SubSeq(chain, 1, Len(chain) - k)
      old == SubSeq(chain, Len(cut) + 1, Len(chain))
      new == Numbered([i \in DOMAIN specs |->
                         [specs[i] EXCEPT !.number = sys.host.deployHeight + Len(cut)]])
      left == Len(kept) - Len(Ex(sys, old))
  IN  /\ Follows(sys, cut \o new, SubSeq(kept, 1, left) \o Ex(sys, new))
      /\ AllSound(sys, cut \o new)
      /\ SubSeq(kept, left + 1, Len(kept)) = Ex(sys, old)
      /\ left = Above(Len(cut)) /\ left <= Len(kept)
      /\ ReadsBack(ToChain(old)) /\ ReadsBack(ToChain(new))

LEMMA NotifyKeeps ==
  ASSUME NEW sys, sys.host.deployHeight \in Nat, NEW chain, NEW kept,
         Follows(sys, chain, kept), AllSound(sys, chain),
         NEW specs \in Seq(HostBlock), AllSound(sys, specs), NEW k \in 0..Len(chain)
  PROVE  AfterNotify(sys, chain, kept, specs, k)
<1> DEFINE n == Len(chain)
           m == n - k
           cut == SubSeq(chain, 1, m)
           old == SubSeq(chain, Len(cut) + 1, Len(chain))
           new == OnTop(sys, m, specs)
           left == Len(kept) - Len(Ex(sys, old))
           first == sys.host.deployHeight
<1>1. chain \in Seq(HostBlock) /\ n \in Nat /\ k \in Nat /\ m \in Nat /\ m <= n /\ first \in Nat
  BY DEF Follows
<1>2. Len(cut) = m /\ cut \in Seq(HostBlock) /\ \A i \in 1..m : cut[i] = chain[i]
  BY <1>1
<1>3. old = Rest(chain, k)
  BY <1>1, <1>2 DEF Rest
<1>4. IsCut(sys, chain, kept, k)
  BY CutFollows
<1> HIDE DEF old
<1>5. /\ old \in Seq(HostBlock)
      /\ left = Above(m) /\ left <= Len(kept)
      /\ SubSeq(kept, left + 1, Len(kept)) = Ex(sys, old)
      /\ Follows(sys, cut, SubSeq(kept, 1, left))
  BY <1>3, <1>4 DEF IsCut
<1>6. /\ new \in Seq(HostBlock) /\ Len(new) = Len(specs)
      /\ Consecutive(new, first + m)
      /\ \A i \in 1..Len(specs) : new[i] = [specs[i] EXCEPT !.number = first + m + i - 1]
  <2>1. IsOnTop(sys, m, specs, new)
    BY <1>1, OnTopIs
  <2> HIDE DEF new, m
  <2> QED
    BY <2>1 DEF IsOnTop
<1>7. new = Numbered([i \in DOMAIN specs |->
                        [specs[i] EXCEPT !.number = first + Len(cut)]])
  BY <1>2 DEF OnTop
<1> HIDE DEF cut, new, left, first, m
<1>8. Follows(sys, cut \o new, SubSeq(kept, 1, left) \o Ex(sys, new))
  <2> DEFINE rest == SubSeq(kept, 1, left)
  <2>1. Follows(sys, cut, rest) /\ Consecutive(new, sys.host.deployHeight + Len(cut))
        /\ new \in Seq(HostBlock) /\ sys.host.deployHeight \in Nat
    BY <1>2, <1>5, <1>6 DEF first
  <2> HIDE DEF rest
  <2>2. Follows(sys, cut \o new, rest \o Ex(sys, new))
    BY ONLY <2>1, GrowFollows, Zenon
  <2> QED
    BY <2>2 DEF rest
<1>9. \A i \in 1..m : Sound(sys, cut[i])
  BY <1>1, <1>2 DEF AllSound
<1>10. ASSUME NEW i \in 1..Len(specs)
       PROVE  Sound(sys, new[i])
  <2>1. Sound(sys, specs[i])
    BY DEF AllSound
  <2> DEFINE number == first + m + i - 1
             spec == specs[i]
  <2>2. number \in Nat
    BY <1>1
  <2>3. new[i] = [spec EXCEPT !.number = number]
    BY <1>6
  <2>4. Sound(sys, spec)
    BY <2>1
  <2> HIDE DEF number, spec
  <2>5. Sound(sys, [spec EXCEPT !.number = number])
    BY <2>2, <2>4, NumberSound
  <2> QED
    BY <2>3, <2>5
<1>11. AllSound(sys, cut \o new)
  <2> DEFINE s == Len(specs)
  <2>1. s \in Nat /\ s = Len(new) /\ m = Len(cut) /\ cut \in Seq(HostBlock) /\ new \in Seq(HostBlock)
    BY <1>2, <1>6
  <2>2. \A i \in 1..s : Sound(sys, new[i])
    BY <1>10
  <2> HIDE DEF s
  <2>3. /\ DOMAIN (cut \o new) = 1..(m + s)
        /\ \A i \in 1..m : (cut \o new)[i] = cut[i]
        /\ \A i \in (m + 1)..(m + s) : (cut \o new)[i] = new[i - m]
    BY ONLY <2>1, ConcatAt
  <2>4. \A i \in (m + 1)..(m + s) : i - m \in 1..s
    BY <1>1, <2>1
  <2>5. \A i \in 1..(m + s) : i \in 1..m \/ i \in (m + 1)..(m + s)
    BY <1>1, <2>1
  <2>6. \A i \in 1..(m + s) : Sound(sys, (cut \o new)[i])
    BY <1>9, <2>2, <2>3, <2>4, <2>5
  <2> QED
    BY <2>3, <2>6 DEF AllSound
<1>12. ReadsBack(ToChain(old)) /\ ReadsBack(ToChain(new))
  BY <1>5, <1>6, ChainReadsBack
<1> QED
  <2>1. left = Above(Len(cut))
    BY <1>2, <1>5
  <2> QED
    BY <1>5, <1>7, <1>8, <1>11, <1>12, <2>1 DEF AfterNotify, cut, old, left, first, m

-----------------------------------------------------------------------------
LEMMA EmitInv ==
  ASSUME FeedInv, NEW address, NEW event, NEW seen, Emit(address, event, seen),
         Tells(pair.sys, Log(address, event), event, seen)
  PROVE  FeedInv'
<1>1. PICK joins \in BOOLEAN :
        draft' = WithEvent(draft, Log(address, event), joins, event, seen)
  BY DEF Emit, WithEvent
<1>2. UNCHANGED <<pair, fresh, canonical, followed, notified>>
  BY DEF Emit
<1>3. Sound(pair.sys, draft) /\ draft.number = 0
  BY DEF FeedInv
<1>4. Sound(pair.sys, draft') /\ draft'.number = 0
  BY <1>1, <1>3, EventSound
<1> QED
  BY <1>2, <1>4 DEF FeedInv

LEMMA FeedNextInv == FeedInv /\ [FeedNext]_feedVars => FeedInv'
<1> SUFFICES ASSUME FeedInv, [FeedNext]_feedVars PROVE FeedInv'
  OBVIOUS
<1> DEFINE sys == pair.sys
           id == sys.rollup.chainId
<1>0. /\ pair \in Pairs /\ sys = pair.sys
      /\ FillAmount \subseteq Nat /\ DepositAmount \subseteq Nat
      /\ sys.host.deployHeight \in Nat /\ id \in Nat /\ id # 0
  BY FeedAssumption, OfPair DEF FeedInv
<1>1. CASE Enter
  <2>1. PICK n \in DepositAmount :
          Emit(sys.host.passage, EnterEvent(id, Depositor, n), TRUE)
    BY <1>1 DEF Enter, Sys, RuId
  <2>2. Tells(sys, Log(sys.host.passage, EnterEvent(id, Depositor, n)),
              EnterEvent(id, Depositor, n), TRUE)
    BY <1>0, EnterTells
  <2> QED
    BY <2>1, <2>2, EmitInv
<1>2. CASE EnterToken
  <2>1. PICK n \in DepositAmount, t \in Token :
          Emit(sys.host.passage, EnterTokenEvent(id, Depositor, n, t), t \in pair.permitted)
    BY <1>2 DEF EnterToken, Sys, RuId
  <2> DEFINE e == EnterTokenEvent(id, Depositor, n, t)
             seen == t \in pair.permitted
  <2>2. Tells(sys, Log(sys.host.passage, e), e, seen)
    BY <1>0, EnterTokenTells
  <2>3. Emit(sys.host.passage, e, seen)
    BY <2>1
  <2> HIDE DEF e, seen
  <2> QED
    BY <2>2, <2>3, EmitInv
<1>3. CASE Transact
  <2>1. PICK a \in Account :
          Emit(sys.host.transactor, TransactEvent(id, a, Depositor), TRUE)
    BY <1>3 DEF Transact, Sys, RuId
  <2>2. Tells(sys, Log(sys.host.transactor, TransactEvent(id, a, Depositor)),
              TransactEvent(id, a, Depositor), TRUE)
    BY <1>0, TransactTells
  <2> QED
    BY <2>1, <2>2, EmitInv
<1>4. CASE Fill
  <2> DEFINE e(n) == FilledEvent(id, sys.host.tokens.weth, Depositor, n)
  <2>1. PICK n \in FillAmount : Emit(sys.host.orders, e(n), TRUE)
    BY <1>4 DEF Fill, Sys, RuId
  <2>2. Tells(sys, Log(sys.host.orders, e(n)), e(n), id = id)
    BY <1>0, FillTells
  <2>3. Tells(sys, Log(sys.host.orders, e(n)), e(n), TRUE)
    BY <2>2
  <2> QED
    BY <2>1, <2>3, EmitInv
<1>5. CASE Ignored
  <2> DEFINE e1 == EnterEvent(0, Depositor, 1)
             e2 == EnterTokenEvent(0, Depositor, 1, sys.host.tokens.wbtc)
             e3 == FilledEvent(0, sys.host.tokens.weth, Depositor, 1)
  <2>1. \/ Emit(sys.host.passage, e1, FALSE) \/ Emit(sys.host.passage, e2, FALSE)
        \/ Emit(sys.host.orders, e3, FALSE)
    BY <1>5 DEF Ignored, Sys
  <2>2. /\ Tells(sys, Log(sys.host.passage, e1), e1, FALSE)
        /\ Tells(sys, Log(sys.host.passage, e2), e2, FALSE)
    BY <1>0, IgnoredTells
  <2>3. Tells(sys, Log(sys.host.orders, e3), e3, 0 = id)
    BY <1>0, FillTells
  <2>4. Tells(sys, Log(sys.host.orders, e3), e3, FALSE)
    BY <1>0, <2>3 DEF Tells
  <2> HIDE DEF e1, e2, e3
  <2> QED
    BY <2>1, <2>2, <2>4, EmitInv
<1>6. CASE OtherLog
  <2> DEFINE e1 == [kind |-> "other"]
             e2 == EnterEvent(id, Depositor, 1)
  <2>1. Emit(sys.host.passage, e1, FALSE) \/ Emit(Depositor, e2, FALSE)
    BY <1>6 DEF OtherLog, Sys, RuId
  <2>2. /\ Tells(sys, Log(sys.host.passage, e1), e1, FALSE)
        /\ Tells(sys, Log(Depositor, e2), e2, FALSE)
    BY <1>0, IgnoredTells
  <2> HIDE DEF e1, e2
  <2> QED
    BY <2>1, <2>2, EmitInv
<1>7. CASE SubmitBlock
  <2>1. PICK ru \in RuBlocks : draft' = WithBlock(draft, ru)
    BY <1>7 DEF SubmitBlock
  <2>2. UNCHANGED <<pair, fresh, canonical, followed, notified>>
    BY <1>7 DEF SubmitBlock
  <2>3. BlockSubmitted(ru) = SubmittedOf(sys, ru)
    BY DEF BlockSubmitted, SubmittedOf, Sys
  <2>4. WithBlock(draft, ru) = WithSubmitted(sys, draft, ru)
    BY <2>3 DEF WithBlock, WithSubmitted, ZenithLog, Sys
  <2>5. Sound(sys, draft) /\ draft.number = 0
    BY DEF FeedInv
  <2>6. Sound(sys, draft') /\ draft'.number = 0
    BY <1>0, <2>1, <2>4, <2>5, BlockSound
  <2> QED
    BY <2>2, <2>6 DEF FeedInv
<1>8. CASE CommitBlock
  <2>1. /\ fresh' = Append(fresh, draft) /\ draft' = EmptySpec
        /\ UNCHANGED <<pair, canonical, followed, notified>>
    BY <1>8 DEF CommitBlock
  <2>2. Sound(sys, draft') /\ draft'.number = 0
    BY <2>1, EmptySound
  <2>3. draft \in HostBlock /\ Sound(sys, draft)
    BY DEF FeedInv, Sound
  <2>4. fresh \in Seq(HostBlock) /\ \A i \in DOMAIN fresh : Sound(sys, fresh[i])
    BY DEF FeedInv, AllSound
  <2>5. fresh' \in Seq(HostBlock) /\ \A i \in DOMAIN fresh' : Sound(sys, fresh'[i])
    <3>1. Append(fresh, draft) \in Seq(HostBlock)
      BY <2>3, <2>4
    <3>2. /\ DOMAIN Append(fresh, draft) = 1..(Len(fresh) + 1)
          /\ \A i \in 1..Len(fresh) : Append(fresh, draft)[i] = fresh[i]
          /\ Append(fresh, draft)[Len(fresh) + 1] = draft
          /\ DOMAIN fresh = 1..Len(fresh) /\ Len(fresh) \in Nat
      BY <2>4
    <3>3. \A i \in 1..(Len(fresh) + 1) : i \in 1..Len(fresh) \/ i = Len(fresh) + 1
      BY <3>2
    <3>4. \A i \in 1..(Len(fresh) + 1) : Sound(sys, Append(fresh, draft)[i])
      BY <2>3, <2>4, <3>2, <3>3
    <3> QED
      BY <2>1, <3>1, <3>2, <3>4
  <2> QED
    BY <2>1, <2>2, <2>5 DEF FeedInv, AllSound
<1>9. CASE Notify
  <2>1. PICK k \in 0..Len(canonical) :
          LET kept == SubSeq(canonical, 1, Len(canonical) - k)
              old == SubSeq(canonical, Len(kept) + 1, Len(canonical))
              new == Numbered([i \in DOMAIN fresh |->
                                 [fresh[i] EXCEPT !.number = FirstNumber + Len(kept)]])
              left == Len(followed) - Len(Extracts(old))
          IN  /\ canonical' = kept \o new
              /\ followed' = SubSeq(followed, 1, left) \o Extracts(new)
              /\ notified' = Notification(old, new, SubSeq(followed, left + 1, Len(followed)))
              /\ fresh' = <<>>
              /\ UNCHANGED <<pair, draft>>
    BY <1>9 DEF Notify
  <2> DEFINE kept == SubSeq(canonical, 1, Len(canonical) - k)
             old == SubSeq(canonical, Len(kept) + 1, Len(canonical))
             new == Numbered([i \in DOMAIN fresh |->
                                [fresh[i] EXCEPT !.number = sys.host.deployHeight + Len(kept)]])
             left == Len(followed) - Len(Ex(sys, old))
  <2>2. \A specs : Extracts(specs) = Ex(sys, specs)
    BY DEF Extracts, Ex, Sys
  <2>3. /\ canonical' = kept \o new
        /\ followed' = SubSeq(followed, 1, left) \o Ex(sys, new)
        /\ notified' = Notification(old, new, SubSeq(followed, left + 1, Len(followed)))
        /\ fresh' = <<>> /\ pair' = pair /\ draft' = draft
    BY <2>1, <2>2 DEF FirstNumber, Sys
  <2>4. AfterNotify(sys, canonical, followed, fresh, k)
    <3>1. /\ Follows(sys, canonical, followed) /\ AllSound(sys, canonical)
          /\ fresh \in Seq(HostBlock) /\ AllSound(sys, fresh) /\ k \in 0..Len(canonical)
      BY DEF FeedInv
    <3> QED
      BY <1>0, <3>1, NotifyKeeps
  <2>5. /\ Follows(sys, kept \o new, SubSeq(followed, 1, left) \o Ex(sys, new))
        /\ AllSound(sys, kept \o new)
        /\ SubSeq(followed, left + 1, Len(followed)) = Ex(sys, old)
        /\ ReadsBack(ToChain(old)) /\ ReadsBack(ToChain(new))
    BY <2>4 DEF AfterNotify
  <2> HIDE DEF kept, old, new, left
  <2>6. Noted(sys, notified')
    BY <2>3, <2>5 DEF Notification, Noted, Ex
  <2>7. Follows(pair'.sys, canonical', followed') /\ AllSound(pair'.sys, canonical')
        /\ Noted(pair'.sys, notified')
    BY <2>3, <2>5, <2>6
  <2>8. fresh' \in Seq(HostBlock) /\ AllSound(pair'.sys, fresh')
    BY <2>3 DEF AllSound
  <2> QED
    BY <2>3, <2>7, <2>8 DEF FeedInv
<1>10. CASE UNCHANGED feedVars
  BY <1>10 DEF FeedInv, feedVars
<1> QED
  BY <1>1, <1>2, <1>3, <1>4, <1>5, <1>6, <1>7, <1>8, <1>9, <1>10 DEF FeedNext

(* What FeedInv says of the follower holds after every notification.       *)
THEOREM FeedInvariant == FeedSpec => []FeedInv
  BY FeedInitInv, FeedNextInv, PTL DEF FeedSpec

(* What a notification says was reverted is what the follower had kept of  *)
(* it, and its receipts are found by the numbers of their blocks.          *)
THEOREM RevertsUndoWhatWasKept == FeedSpec => []RevertsUndo
<1>1. FeedInv => RevertsUndo
  BY DEF FeedInv, Noted, ReadsBack, RevertsUndo, Sys
<1> QED
  BY <1>1, FeedInvariant, PTL

-----------------------------------------------------------------------------
(* The events of a block are those of its logs, whichever set S they are   *)
(* taken from.                                                             *)
Found(tx, j, e) == [tx |-> tx, logIndex |-> j - 1, event |-> e]
EventOf(S) == [x \in S |-> x.event]
Holds(sys, S, tx, receipt) ==
  \A j \in DOMAIN receipt : \A e \in ExtractLog(sys, receipt[j]) : Found(tx, j, e) \in S

LEMMA EventOfType ==
  ASSUME NEW sys, NEW S, \A x \in S : x.event \in Extractable(sys)
  PROVE  EventOf(S) \in [S -> Extractable(sys)]
BY DEF EventOf

PieceOf(sys, tx, receipt, j) ==
  SetToSeq({Found(tx, j, e) : e \in ExtractLog(sys, receipt[j])})

LEMMA PieceIs ==
  ASSUME NEW sys, NEW S, NEW tx, NEW receipt \in Seq(Logged), Holds(sys, S, tx, receipt),
         NEW j \in DOMAIN receipt
  PROVE  /\ PieceOf(sys, tx, receipt, j) \in Seq(S)
         /\ Mapped(PieceOf(sys, tx, receipt, j), EventOf(S)) = SeenIn(sys, receipt[j])
<1> DEFINE log == receipt[j]
           piece == PieceOf(sys, tx, receipt, j)
<1>1. log \in Logged
  OBVIOUS
<1>2. CASE ExtractLog(sys, log) = {}
  <2>1. piece = <<>> /\ SeenIn(sys, log) = <<>>
    BY <1>2, NoneToSeq DEF PieceOf, SeenIn
  <2>2. <<>> \in Seq(S)
    OBVIOUS
  <2>3. Mapped(<<>>, EventOf(S)) = <<>>
    BY MappedEmpty
  <2> QED
    BY <2>1, <2>2, <2>3
<1>3. ASSUME NEW e, ExtractLog(sys, log) = {e}
      PROVE  /\ piece \in Seq(S)
             /\ Mapped(piece, EventOf(S)) = SeenIn(sys, log)
  <2> DEFINE x == Found(tx, j, e)
  <2>1. x \in S /\ x.event = e
    BY <1>3 DEF Holds, Found
  <2>2. {Found(tx, j, d) : d \in ExtractLog(sys, log)} = {x}
    BY <1>3
  <2>3. SeenIn(sys, log) = <<e>>
    BY <1>3, OneToSeq DEF SeenIn
  <2> HIDE DEF x
  <2>4. piece = <<x>>
    BY <2>2, OneToSeq DEF PieceOf
  <2>5. EventOf(S)[x] = e
    BY <2>1 DEF EventOf
  <2>6. <<x>> \in Seq(S)
    <3>1. x \in S
      BY <2>1
    <3> QED
      BY ONLY <3>1
  <2>7. Mapped(<<x>>, EventOf(S)) = <<e>>
    BY <2>5 DEF Mapped
  <2> QED
    BY <2>3, <2>4, <2>6, <2>7
<1> QED
  BY <1>1, <1>2, <1>3, ExtractLogIs

PiecesOf(sys, tx, receipt) == [j \in 1..Len(receipt) |-> PieceOf(sys, tx, receipt, j)]

LEMMA ReceiptEvents ==
  ASSUME NEW sys, NEW S, \A x \in S : x.event \in Extractable(sys),
         NEW tx, NEW receipt \in Seq(Logged), Holds(sys, S, tx, receipt)
  PROVE  /\ ExtractReceipt(sys, tx, receipt) = FlattenSeq(PiecesOf(sys, tx, receipt))
         /\ PiecesOf(sys, tx, receipt) \in Seq(Seq(S))
         /\ ExtractReceipt(sys, tx, receipt) \in Seq(S)
         /\ Mapped(ExtractReceipt(sys, tx, receipt), EventOf(S)) = SeenAll(sys, receipt)
<1> DEFINE n == Len(receipt)
           pieces == PiecesOf(sys, tx, receipt)
           f == EventOf(S)
           SS == Seq(S)
           T == Extractable(sys)
<1>1. n \in Nat /\ DOMAIN receipt = 1..n
  OBVIOUS
<1>2. ExtractReceipt(sys, tx, receipt) = FlattenSeq(pieces)
  BY DEF ExtractReceipt, PiecesOf, PieceOf, Found
<1>3. f \in [S -> T]
  BY EventOfType
<1>4. \A j \in 1..n : pieces[j] \in SS /\ Mapped(pieces[j], f) = SeenIn(sys, receipt[j])
  BY <1>1, PieceIs DEF PiecesOf
<1>5. pieces = [j \in 1..n |-> pieces[j]]
  BY DEF PiecesOf
<1> HIDE DEF pieces, n, f, SS, T
<1>6. pieces \in Seq(SS)
  <2>1. n \in Nat /\ pieces = [j \in 1..n |-> pieces[j]] /\ \A j \in 1..n : pieces[j] \in SS
    BY <1>1, <1>4, <1>5
  <2> QED
    BY ONLY <2>1, IsSequence, Zenon
<1>7. pieces \in Seq(Seq(S))
  BY <1>6 DEF SS
<1>8. FlattenSeq(pieces) \in Seq(S) /\ Mapped(FlattenSeq(pieces), f) = FlattenSeq(Deep(pieces, f))
  <2>1. FlattenSeq(pieces) \in Seq(S)
    BY <1>7, FlattenType
  <2>2. Mapped(FlattenSeq(pieces), f) = FlattenSeq(Deep(pieces, f))
    BY ONLY <1>3, <1>7, MappedFlatten, Zenon
  <2> QED
    BY <2>1, <2>2
<1>9. Deep(pieces, f) = SeenEach(sys, receipt)
  <2>1. DOMAIN pieces = 1..n
    BY <1>5
  <2> QED
    BY <1>1, <1>4, <2>1 DEF Deep, SeenEach
<1> QED
  BY <1>2, <1>7, <1>8, <1>9 DEF SeenAll, f, pieces

LEMMA MinOfTwo ==
  ASSUME NEW a \in Int, NEW b \in Int
  PROVE  Min({a, b}) \in {a, b} /\ Min({a, b}) <= a /\ Min({a, b}) <= b
<1>1. \E x \in {a, b} : \A y \in {a, b} : x <= y
  OBVIOUS
<1> QED
  BY <1>1 DEF Min

ReceiptsEvents(sys, block) ==
  [i \in 1..Len(block.receipts) |-> ExtractReceipt(sys, block.txs[i], block.receipts[i])]

LEMMA BlockEvents ==
  ASSUME NEW sys, NEW S, \A x \in S : x.event \in Extractable(sys),
         NEW block, block.receipts \in Seq(Seq(Logged)), Len(block.txs) = Len(block.receipts),
         \A i \in DOMAIN block.receipts : Holds(sys, S, block.txs[i], block.receipts[i])
  PROVE  /\ ExtractBlock(sys, block) = FlattenSeq(ReceiptsEvents(sys, block))
         /\ ReceiptsEvents(sys, block) \in Seq(Seq(S))
         /\ ExtractBlock(sys, block) \in Seq(S)
         /\ Mapped(ExtractBlock(sys, block), EventOf(S)) = Seen(sys, block.receipts)
<1> DEFINE R == block.receipts
           n == Len(R)
           L == Seq(Logged)
           events == ReceiptsEvents(sys, block)
           f == EventOf(S)
           SS == Seq(S)
           T == Extractable(sys)
<1>0. R \in Seq(L)
  OBVIOUS
<1> HIDE DEF L
<1>1. n \in Nat /\ DOMAIN R = 1..n /\ \A i \in 1..n : R[i] \in L
  <2> HIDE DEF R
  <2> QED
    BY <1>0
<1>2. ExtractBlock(sys, block) = FlattenSeq(events)
  <2>1. Min({n, n}) = n
    <3> HIDE DEF n
    <3> QED
      BY <1>1 DEF Min
  <2> QED
    BY <2>1 DEF ExtractBlock, ReceiptsEvents
<1>3. f \in [S -> T]
  BY EventOfType
<1>4. ASSUME NEW i \in 1..n
      PROVE  events[i] \in SS /\ Mapped(events[i], f) = SeenAll(sys, R[i])
  <2>1. R[i] \in Seq(Logged) /\ Holds(sys, S, block.txs[i], R[i])
    BY <1>1 DEF L
  <2>2. events[i] = ExtractReceipt(sys, block.txs[i], R[i])
    BY DEF ReceiptsEvents
  <2> DEFINE tx == block.txs[i]
             receipt == R[i]
  <2> HIDE DEF R, tx, receipt
  <2>3. /\ ExtractReceipt(sys, tx, receipt) \in Seq(S)
        /\ Mapped(ExtractReceipt(sys, tx, receipt), EventOf(S)) = SeenAll(sys, receipt)
    BY <2>1, ReceiptEvents DEF tx, receipt
  <2> QED
    BY <2>2, <2>3 DEF tx, receipt
<1>5. events = [i \in 1..n |-> events[i]]
  BY DEF ReceiptsEvents
<1> HIDE DEF events, n, f, SS, T
<1>6. events \in Seq(SS)
  <2>1. n \in Nat /\ events = [i \in 1..n |-> events[i]] /\ \A i \in 1..n : events[i] \in SS
    BY <1>1, <1>4, <1>5
  <2> QED
    BY ONLY <2>1, IsSequence, Zenon
<1>7. events \in Seq(Seq(S))
  BY <1>6 DEF SS
<1>8. FlattenSeq(events) \in Seq(S) /\ Mapped(FlattenSeq(events), f) = FlattenSeq(Deep(events, f))
  <2>1. FlattenSeq(events) \in Seq(S)
    BY <1>7, FlattenType
  <2>2. Mapped(FlattenSeq(events), f) = FlattenSeq(Deep(events, f))
    BY ONLY <1>3, <1>7, MappedFlatten, Zenon
  <2> QED
    BY <2>1, <2>2
<1>9. Deep(events, f) = SeenEvery(sys, R)
  <2>1. DOMAIN events = 1..n
    BY <1>5
  <2> HIDE DEF R
  <2> QED
    BY <1>1, <1>4, <2>1 DEF Deep, SeenEvery
<1> QED
  BY <1>2, <1>7, <1>8, <1>9 DEF Seen, f, events

-----------------------------------------------------------------------------
(* Contexts on one chain, and the fills that are added to them.            *)
Slots(c) == {c} \X Tokens \X {Depositor}
Context(c) == UNION {[D -> Nat] : D \in SUBSET Slots(c)}

LEMMA NoFillsIs == \A c : NoFills \in Context(c)
<1> SUFFICES ASSUME NEW c PROVE NoFills \in Context(c)
  OBVIOUS
<1>1. NoFills \in [{} -> Nat] /\ {} \in SUBSET Slots(c)
  BY DEF NoFills
<1> QED
  BY <1>1 DEF Context

LEMMA AddRawFillType ==
  ASSUME NEW c, NEW context \in Context(c), NEW slot \in Slots(c), NEW amount \in Nat
  PROVE  AddRawFill(context, slot, amount) \in Context(c)
<1> DEFINE D == DOMAIN context \cup {slot}
           next == AddRawFill(context, slot, amount)
<1>1. PICK B \in SUBSET Slots(c) : context \in [B -> Nat]
  BY DEF Context
<1>2. D \in SUBSET Slots(c)
  BY <1>1
<1>3. ASSUME NEW s \in D
      PROVE  (IF s = slot THEN Min({FilledIn(context, s) + amount, Wide - 1})
              ELSE context[s]) \in Nat
  <2>1. FilledIn(context, s) \in Nat
    BY <1>1 DEF FilledIn
  <2>2. FilledIn(context, s) + amount \in Nat /\ Wide - 1 \in Nat
    BY <2>1, FeedAssumption
  <2>3. Min({FilledIn(context, s) + amount, Wide - 1}) \in Nat
    BY <2>2, MinOfTwo
  <2>4. s # slot => context[s] \in Nat
    BY <1>1
  <2> QED
    BY <2>3, <2>4
<1>4. next \in [D -> Nat]
  BY <1>3 DEF AddRawFill
<1> QED
  BY <1>2, <1>4 DEF Context

(* The contexts along the outputs of a fill.                               *)
LEMMA AddFillType ==
  ASSUME NEW c, NEW context \in Context(c), NEW fill, fill.outputs \in Seq(FillOutput)
  PROVE  /\ AddFill(context, c, fill) \in Context(c)
         /\ fill.outputs = <<>> => AddFill(context, c, fill) = context
<1> DEFINE o == fill.outputs
           n == Len(o)
           Slot(x) == <<c, x.token, x.recipient>>
           C == Context(c)
           step == [i \in 1..n |-> [d \in C |-> AddRawFill(d, Slot(o[i]), o[i].amount)]]
           Is_(h) == h = [i \in 0..n |-> IF i = 0 THEN context
                                        ELSE AddRawFill(h[i - 1], Slot(o[i]), o[i].amount)]
           added == CHOOSE h : Is_(h)
<1>1. n \in Nat /\ \A i \in 1..n : o[i] \in FillOutput
  OBVIOUS
<1>2. ASSUME NEW i \in 1..n, NEW d \in C
      PROVE  AddRawFill(d, Slot(o[i]), o[i].amount) \in C
  <2>1. Slot(o[i]) \in Slots(c) /\ o[i].amount \in Nat
    BY <1>1 DEF Slots, FillOutput
  <2> QED
    BY <2>1, AddRawFillType
<1>3. step \in [1..n -> [C -> C]]
  BY <1>2
<1>4. PICK h \in [0..n -> C] : Along(h, n, context, step)
  <2> HIDE DEF C, step, n
  <2>1. context \in C
    BY DEF C
  <2> QED
    BY <1>1, <1>3, <2>1, AlongExists
<1>5. \A i \in 1..n : h[i] = AddRawFill(h[i - 1], Slot(o[i]), o[i].amount)
  <2> SUFFICES ASSUME NEW i \in 1..n PROVE h[i] = AddRawFill(h[i - 1], Slot(o[i]), o[i].amount)
    OBVIOUS
  <2>1. i - 1 \in 0..n
    BY <1>1
  <2>2. h[i - 1] \in C
    BY <2>1
  <2>3. step[i][h[i - 1]] = AddRawFill(h[i - 1], Slot(o[i]), o[i].amount)
    BY <2>2
  <2> QED
    BY <1>4, <2>3 DEF Along
<1> HIDE DEF step, C, n, Slot
<1>6. Is_(h)
  <2>1. h[0] = context
    BY <1>4 DEF Along
  <2>2. \A i \in 0..n : i # 0 => i \in 1..n
    BY <1>1
  <2>3. h = [i \in 0..n |-> h[i]]
    OBVIOUS
  <2> QED
    BY <1>5, <2>1, <2>2, <2>3
<1>7. Is_(added)
  BY <1>6
<1>8. AddFill(context, c, fill) = added[n]
  BY DEF AddFill, n, Slot
<1> HIDE DEF added
<1>9. \A i \in 0..n : added[i] = IF i = 0 THEN context
                                 ELSE AddRawFill(added[i - 1], Slot(o[i]), o[i].amount)
  BY <1>7
<1> DEFINE T == {i \in 0..n : added[i] \in C}
<1>10. 0 \in T
  BY <1>1, <1>9 DEF C
<1>11. ASSUME NEW i \in 0..(n - 1), i \in T
       PROVE  i + 1 \in T
  <2>1. i + 1 \in 1..n /\ i + 1 \in 0..n /\ i + 1 # 0 /\ (i + 1) - 1 = i
    BY <1>1
  <2>2. added[i + 1] = AddRawFill(added[i], Slot(o[i + 1]), o[i + 1].amount)
    BY <1>9, <2>1
  <2> QED
    BY <1>2, <1>11, <2>1, <2>2
<1>12. n \in T
  <2> HIDE DEF T
  <2>1. \A i \in 0..n : i \in T
    BY <1>1, <1>10, <1>11, Induction
  <2> QED
    BY <1>1, <2>1
<1>13. fill.outputs = <<>> => added[n] = context
  <2>1. fill.outputs = <<>> => n = 0
    BY DEF n
  <2> QED
    BY <1>1, <1>9, <2>1
<1> QED
  BY <1>8, <1>12, <1>13 DEF C

(* The contexts along a list of fills.                                     *)
FillStep(c, fills) ==
  [i \in 1..Len(fills) |-> [d \in Context(c) |-> AddFill(d, c, fills[i])]]

LEMMA FillStepType ==
  ASSUME NEW c, NEW fills \in Seq(Fills)
  PROVE  FillStep(c, fills) \in [1..Len(fills) -> [Context(c) -> Context(c)]]
<1> DEFINE n == Len(fills)
           C == Context(c)
<1>1. ASSUME NEW i \in 1..n, NEW d \in C
      PROVE  AddFill(d, c, fills[i]) \in C
  <2>1. fills[i].outputs \in Seq(FillOutput)
    <3>1. fills[i] \in Fills
      OBVIOUS
    <3> QED
      BY <3>1 DEF Fills
  <2> QED
    BY <2>1, AddFillType
<1> HIDE DEF C, n
<1>2. FillStep(c, fills) = [i \in 1..n |-> [d \in C |-> AddFill(d, c, fills[i])]]
  BY DEF FillStep, n, C
<1>3. FillStep(c, fills) \in [1..n -> [C -> C]]
  BY <1>1, <1>2
<1> QED
  BY <1>3 DEF n, C

LEMMA AddFillsAlong ==
  ASSUME NEW c, NEW fills \in Seq(Fills), NEW n, n = Len(fills)
  PROVE  \E h \in [0..n -> Context(c)] :
           Along(h, n, NoFills, FillStep(c, fills)) /\ AddFills(fills, c) = h[n]
<1> DEFINE C == Context(c)
           step == FillStep(c, fills)
           Is_(h) == h = [i \in 0..n |-> IF i = 0 THEN NoFills
                                        ELSE AddFill(h[i - 1], c, fills[i])]
           added == CHOOSE h : Is_(h)
<1>1. n \in Nat /\ NoFills \in C /\ step \in [1..n -> [C -> C]]
  BY FillStepType, NoFillsIs
<1> HIDE DEF C, step
<1>2. PICK h \in [0..n -> C] : Along(h, n, NoFills, step)
  BY <1>1, AlongExists
<1>3. ASSUME NEW g, NEW i \in 1..n, g[i - 1] \in C
      PROVE  step[i][g[i - 1]] = AddFill(g[i - 1], c, fills[i])
  BY <1>3 DEF step, C, FillStep
<1>4. Is_(h)
  <2>1. h[0] = NoFills
    BY <1>2 DEF Along
  <2>2. ASSUME NEW i \in 1..n
        PROVE  h[i] = AddFill(h[i - 1], c, fills[i])
    <3>1. i - 1 \in 0..n
      BY <1>1
    <3>2. h[i - 1] \in C
      BY <3>1
    <3> QED
      BY <1>2, <1>3, <3>2 DEF Along
  <2>3. \A i \in 0..n : i # 0 => i \in 1..n
    BY <1>1
  <2>4. h = [i \in 0..n |-> h[i]]
    OBVIOUS
  <2> QED
    BY <2>1, <2>2, <2>3, <2>4
<1>5. Is_(added)
  BY <1>4
<1>6. AddFills(fills, c) = added[n]
  BY DEF AddFills
<1> HIDE DEF added
<1>7. \A i \in 0..n : added[i] = IF i = 0 THEN NoFills ELSE AddFill(added[i - 1], c, fills[i])
  BY <1>5
<1>8. \A i \in 0..n : h[i] = IF i = 0 THEN NoFills ELSE AddFill(h[i - 1], c, fills[i])
  BY <1>4
<1> DEFINE T == {i \in 0..n : added[i] = h[i]}
<1>9. 0 \in T
  BY <1>1, <1>7, <1>8
<1>10. ASSUME NEW i \in 0..(n - 1), i \in T
       PROVE  i + 1 \in T
  <2>1. i + 1 \in 0..n /\ i + 1 # 0 /\ (i + 1) - 1 = i
    BY <1>1
  <2>2. added[i + 1] = AddFill(added[i], c, fills[i + 1])
    BY <1>7, <2>1
  <2>3. h[i + 1] = AddFill(h[i], c, fills[i + 1])
    BY <1>8, <2>1
  <2> QED
    BY <1>10, <2>1, <2>2, <2>3
<1>11. n \in T
  <2> HIDE DEF T
  <2>1. \A i \in 0..n : i \in T
    BY <1>1, <1>9, <1>10, Induction
  <2> QED
    BY <1>1, <2>1
<1> QED
  BY <1>2, <1>6, <1>11 DEF C, step

LEMMA AddFillsEmpty == \A c : AddFills(<<>>, c) = NoFills
<1> SUFFICES ASSUME NEW c PROVE AddFills(<<>>, c) = NoFills
  OBVIOUS
<1> DEFINE s == <<>>
<1>1. s \in Seq(Fills) /\ 0 = Len(s)
  OBVIOUS
<1> HIDE DEF s
<1>2. \E h \in [0..0 -> Context(c)] :
        Along(h, 0, NoFills, FillStep(c, s)) /\ AddFills(s, c) = h[0]
  BY <1>1, AddFillsAlong
<1>3. AddFills(s, c) = NoFills
  BY <1>2 DEF Along
<1> QED
  BY <1>3 DEF s

LEMMA AddFillsAppend ==
  ASSUME NEW c, NEW fills \in Seq(Fills), NEW fill \in Fills
  PROVE  /\ AddFills(fills, c) \in Context(c)
         /\ AddFills(Append(fills, fill), c) = AddFill(AddFills(fills, c), c, fill)
<1> DEFINE n == Len(fills)
           m == n + 1
           more == Append(fills, fill)
           C == Context(c)
<1>1. /\ n \in Nat /\ m \in Nat /\ more \in Seq(Fills) /\ m = Len(more)
      /\ \A i \in 1..n : more[i] = fills[i] /\ i \in 1..m
      /\ more[m] = fill /\ m \in 1..m /\ m - 1 = n /\ n \in 0..n /\ n \in 0..m
  OBVIOUS
<1>2. PICK h \in [0..n -> C] : Along(h, n, NoFills, FillStep(c, fills)) /\ AddFills(fills, c) = h[n]
  BY AddFillsAlong
<1> HIDE DEF more, C, m, n
<1>3. PICK k \in [0..m -> C] : Along(k, m, NoFills, FillStep(c, more)) /\ AddFills(more, c) = k[m]
  BY <1>1, AddFillsAlong DEF C
<1>4. FillStep(c, fills) = [i \in 1..n |-> [d \in C |-> AddFill(d, c, fills[i])]]
  BY DEF FillStep, C, n
<1>5. FillStep(c, more) = [i \in 1..m |-> [d \in C |-> AddFill(d, c, more[i])]]
  BY <1>1 DEF FillStep, C
<1>6. \A i \in 1..n : FillStep(c, more)[i] = FillStep(c, fills)[i]
  BY <1>1, <1>4, <1>5
<1>7. Along(k, n, NoFills, FillStep(c, fills))
  BY <1>1, <1>3, <1>6 DEF Along
<1>8. h[n] = k[n]
  <2>1. \A i \in 0..n : h[i] = k[i]
    BY <1>1, <1>2, <1>7, AlongIsUnique
  <2> QED
    BY <1>1, <2>1
<1>9. k[m] = FillStep(c, more)[m][k[n]]
  BY <1>1, <1>3 DEF Along
<1>10. k[n] \in C
  BY <1>1
<1>11. k[m] = AddFill(k[n], c, fill)
  BY <1>1, <1>5, <1>9, <1>10
<1> QED
  BY <1>2, <1>3, <1>8, <1>10, <1>11 DEF C, more

(* Fills that name nothing are added without effect.                       *)
LEMMA AddTellingFills ==
  ASSUME NEW c, NEW fills \in Seq(Fills)
  PROVE  AddFills(Those(fills, Telling), c) = AddFills(fills, c)
<1> DEFINE T == {s \in Seq(Fills) : AddFills(Those(s, Telling), c) = AddFills(s, c)}
<1>1. <<>> \in T
  <2>1. <<>> \in Seq(Fills)
    OBVIOUS
  <2>2. Those(<<>>, Telling) = <<>>
    BY ThoseEmpty
  <2> QED
    BY <2>1, <2>2
<1>2. ASSUME NEW s \in Seq(Fills), NEW x \in Fills, s \in T
      PROVE  Append(s, x) \in T
  <2>1. Append(s, x) \in Seq(Fills)
    OBVIOUS
  <2>2. AddFills(Append(s, x), c) = AddFill(AddFills(s, c), c, x) /\ AddFills(s, c) \in Context(c)
    BY AddFillsAppend
  <2>3. Those(Append(s, x), Telling)
          = IF x \in Telling THEN Append(Those(s, Telling), x) ELSE Those(s, Telling)
    BY ThoseAppend
  <2>4. Those(s, Telling) \in Seq(Fills)
    BY ThoseType
  <2>5. AddFills(Those(s, Telling), c) = AddFills(s, c)
    BY <1>2
  <2>6. x \in Event /\ x.kind = "filled" /\ x.outputs \in Seq(FillOutput)
    BY DEF Event, Recorded, Fills
  <2>7. CASE x \in Telling
    <3> DEFINE t == Those(s, Telling)
    <3> HIDE DEF t
    <3>1. t \in Seq(Fills)
      BY <2>4 DEF t
    <3>2. AddFills(Append(t, x), c) = AddFill(AddFills(t, c), c, x)
      BY <3>1, AddFillsAppend
    <3> QED
      BY <2>1, <2>2, <2>3, <2>5, <2>7, <3>2 DEF t
  <2>8. CASE x \notin Telling
    <3>1. x.outputs = <<>>
      BY <2>6, <2>8 DEF Telling
    <3>2. AddFill(AddFills(s, c), c, x) = AddFills(s, c)
      BY <2>2, <2>6, <3>1, AddFillType
    <3> QED
      BY <2>1, <2>2, <2>3, <2>5, <2>8, <3>2
  <2> QED
    BY <2>7, <2>8
<1> HIDE DEF T
<1>3. fills \in T
  BY <1>1, <1>2, ListInduction
<1> QED
  BY <1>3 DEF T

LEMMA GrowsByOne ==
  ASSUME NEW S, NEW s \in Seq(S)
  PROVE  /\ Len(s) \in Nat /\ SubSeq(s, 1, 0) = <<>> /\ SubSeq(s, 1, Len(s)) = s
         /\ \A i \in 0..Len(s) : SubSeq(s, 1, i) \in Seq(S)
         /\ \A i \in 0..(Len(s) - 1) :
              s[i + 1] \in S /\ SubSeq(s, 1, i + 1) = Append(SubSeq(s, 1, i), s[i + 1])
<1>1. Len(s) \in Nat
  OBVIOUS
<1>2. SubSeq(s, 1, 0) = <<>>
  OBVIOUS
<1>3. SubSeq(s, 1, Len(s)) = s
  OBVIOUS
<1>4. \A i \in 0..Len(s) : SubSeq(s, 1, i) \in Seq(S)
  OBVIOUS
<1>5. ASSUME NEW i \in 0..(Len(s) - 1)
      PROVE  s[i + 1] \in S /\ SubSeq(s, 1, i + 1) = Append(SubSeq(s, 1, i), s[i + 1])
  OBVIOUS
<1> QED
  BY <1>1, <1>2, <1>3, <1>4, <1>5

LEMMA ThoseSatisfy ==
  ASSUME NEW S, NEW s \in Seq(S), NEW P
  PROVE  \A i \in DOMAIN Those(s, P) :
           Those(s, P)[i] \in P /\ \E j \in DOMAIN s : Those(s, P)[i] = s[j]
<1> DEFINE at == {i \in DOMAIN s : s[i] \in P}
           t == Kept(s, at)
<1>1. \A i \in DOMAIN t : \E j \in DOMAIN s : j \in at /\ t[i] = s[j]
  <2> HIDE DEF at
  <2> QED
    BY KeptElements
<1>2. Those(s, P) = t
  BY DEF Those
<1>3. \A j \in at : s[j] \in P
  OBVIOUS
<1> HIDE DEF at, t
<1> QED
  BY <1>1, <1>2, <1>3

-----------------------------------------------------------------------------
(* The Extracts of a block with events es, all of them in S.               *)
Finds(S, kind) == {e \in S : e.event.kind = kind}
LastOf(s) == IF s = <<>> THEN {} ELSE {Last(s)}
FillsFound(S, es) == Mapped(Those(es, Finds(S, "filled")), EventOf(S))

ResultOf(sys, block, h, S, es) ==
  [hostChainId |-> sys.host.chainId, hostBlock |-> block,
   chainId |-> sys.rollup.chainId, ruHeight |-> h,
   submitted |-> LastOf(Those(es, Finds(S, "submitted"))),
   enters |-> Those(es, Finds(S, "enter")),
   enterTokens |-> Those(es, Finds(S, "enterToken")),
   transacts |-> Those(es, Finds(S, "transact")),
   context |-> AddFills(FillsFound(S, es), sys.host.chainId)]

LEMMA ExtractableKinds ==
  ASSUME NEW sys, NEW e \in Extractable(sys)
  PROVE  /\ e.kind \in {"enter", "enterToken", "transact", "filled", "submitted"}
         /\ e \in Event
         /\ e.kind = "enter" => e \in Enters
         /\ e.kind = "enterToken" => e \in EnterTokens /\ IsHostToken(sys, e.token)
         /\ e.kind = "transact" => e \in Transacted
         /\ e.kind = "filled" => e \in Fills
         /\ e.kind = "submitted" => e \in Submissions
BY DEF Extractable, Enters, EnterTokens, Transacted, Fills, Submissions, Event, Recorded

LEMMA FillsFoundType ==
  ASSUME NEW sys, NEW S, \A x \in S : x.event \in Extractable(sys), NEW es \in Seq(S)
  PROVE  /\ FillsFound(S, es) \in Seq(Fills)
         /\ \A e \in S : FillsFound(S, Append(es, e)) =
              IF e.event.kind = "filled" THEN Append(FillsFound(S, es), e.event)
              ELSE FillsFound(S, es)
<1> DEFINE F == Finds(S, "filled")
           f == EventOf(S)
           s == Those(es, F)
<1>1. f \in [S -> Extractable(sys)] /\ \A x \in S : f[x] = x.event
  BY EventOfType DEF EventOf
<1>2. s \in Seq(S)
  BY ThoseType
<1>3. \A i \in DOMAIN s : s[i] \in F
  BY ThoseSatisfy
<1>4. Mapped(s, f) \in Seq(Fills)
  <2>1. \A i \in DOMAIN s : f[s[i]] \in Fills
    <3> TAKE i \in DOMAIN s
    <3>1. s[i] \in S /\ s[i].event.kind = "filled"
      BY <1>3 DEF Finds
    <3>2. s[i].event \in Extractable(sys)
      BY <3>1
    <3>3. s[i].event \in Fills
      BY <3>1, <3>2, ExtractableKinds
    <3> QED
      BY <1>1, <3>1, <3>3
  <2>2. Len(s) \in Nat /\ DOMAIN s = 1..Len(s)
    BY <1>2
  <2>3. Mapped(s, f) = [i \in 1..Len(s) |-> f[s[i]]]
    BY <2>2 DEF Mapped
  <2> HIDE DEF s, f
  <2>4. [i \in 1..Len(s) |-> f[s[i]]] \in Seq(Fills)
    BY <2>1, <2>2
  <2> QED
    BY <2>3, <2>4
<1>5. ASSUME NEW e \in S
      PROVE  FillsFound(S, Append(es, e)) =
               IF e.event.kind = "filled" THEN Append(FillsFound(S, es), e.event)
               ELSE FillsFound(S, es)
  <2>1. Those(Append(es, e), F) = IF e \in F THEN Append(s, e) ELSE s
    BY ThoseAppend
  <2>2. e \in F <=> e.event.kind = "filled"
    BY DEF Finds
  <2>3. Mapped(Append(s, e), f) = Append(Mapped(s, f), f[e])
    <3> HIDE DEF s, f
    <3> QED
      BY <1>1, <1>2, MappedAppend
  <2>4. FillsFound(S, es) = Mapped(s, f)
        /\ FillsFound(S, Append(es, e)) = Mapped(Those(Append(es, e), F), f)
    BY DEF FillsFound
  <2> HIDE DEF s, f, F
  <2> QED
    BY <1>1, <2>1, <2>2, <2>3, <2>4
<1> QED
  BY <1>4, <1>5 DEF FillsFound

(* One event more.                                                         *)
LEMMA ResultStep ==
  ASSUME NEW sys, NEW S, \A x \in S : x.event \in Extractable(sys),
         NEW block, NEW h, NEW es \in Seq(S), NEW e \in S
  PROVE  IngestEvent(ResultOf(sys, block, h, S, es), e) = ResultOf(sys, block, h, S, Append(es, e))
<1> DEFINE c == sys.host.chainId
           R(a, b, d, t, x) ==
             [hostChainId |-> c, hostBlock |-> block, chainId |-> sys.rollup.chainId,
              ruHeight |-> h, submitted |-> a, enters |-> b, enterTokens |-> d,
              transacts |-> t, context |-> x]
           A == Those(es, Finds(S, "submitted"))
           a == LastOf(A)
           b == Those(es, Finds(S, "enter"))
           d == Those(es, Finds(S, "enterToken"))
           t == Those(es, Finds(S, "transact"))
           f == FillsFound(S, es)
           x == AddFills(f, c)
           more == Append(es, e)
           kind == e.event.kind
<1>1. ResultOf(sys, block, h, S, es) = R(a, b, d, t, x)
  BY DEF ResultOf
<1>2. \A k : Those(more, Finds(S, k))
               = IF e.event.kind = k THEN Append(Those(es, Finds(S, k)), e)
                 ELSE Those(es, Finds(S, k))
  <2> TAKE k
  <2>1. e \in Finds(S, k) <=> e.event.kind = k
    BY DEF Finds
  <2> QED
    BY <2>1, ThoseAppend
<1>3. FillsFound(S, more) = IF kind = "filled" THEN Append(f, e.event) ELSE f
  BY FillsFoundType
<1>4. f \in Seq(Fills)
  BY FillsFoundType
<1>5. kind = "filled" => AddFills(Append(f, e.event), c) = AddFill(x, c, e.event)
  <2>1. kind = "filled" => e.event \in Fills
    BY ExtractableKinds
  <2> HIDE DEF f
  <2> QED
    BY <1>4, <2>1, AddFillsAppend
<1>6. LastOf(Append(A, e)) = {e}
  <2>1. A \in Seq(S)
    BY ThoseType
  <2> HIDE DEF A
  <2>2. Append(A, e) # <<>> /\ Last(Append(A, e)) = e
    BY <2>1 DEF Last
  <2> QED
    BY <2>2 DEF LastOf
<1>7. ResultOf(sys, block, h, S, more)
        = R(IF kind = "submitted" THEN {e} ELSE a,
            IF kind = "enter" THEN Append(b, e) ELSE b,
            IF kind = "enterToken" THEN Append(d, e) ELSE d,
            IF kind = "transact" THEN Append(t, e) ELSE t,
            IF kind = "filled" THEN AddFill(x, c, e.event) ELSE x)
  <2>1. LastOf(Those(more, Finds(S, "submitted"))) = IF kind = "submitted" THEN {e} ELSE a
    BY <1>2, <1>6
  <2>2. Those(more, Finds(S, "enter")) = IF kind = "enter" THEN Append(b, e) ELSE b
    BY <1>2
  <2>3. Those(more, Finds(S, "enterToken")) = IF kind = "enterToken" THEN Append(d, e) ELSE d
    BY <1>2
  <2>4. Those(more, Finds(S, "transact")) = IF kind = "transact" THEN Append(t, e) ELSE t
    BY <1>2
  <2>5. AddFills(FillsFound(S, more), c) = IF kind = "filled" THEN AddFill(x, c, e.event) ELSE x
    BY <1>3, <1>5
  <2> HIDE DEF a, b, d, t, x, f, more, kind, A
  <2> QED
    BY <2>1, <2>2, <2>3, <2>4, <2>5 DEF ResultOf
<1>8. kind \in {"enter", "enterToken", "transact", "filled", "submitted"}
  BY ExtractableKinds
<1>9. Is(e, "enter") <=> kind = "enter"
  BY DEF Is
<1>10. Is(e, "enterToken") <=> kind = "enterToken"
  BY DEF Is
<1>11. Is(e, "transact") <=> kind = "transact"
  BY DEF Is
<1>12. Is(e, "submitted") <=> kind = "submitted"
  BY DEF Is
<1>13. Is(e, "filled") <=> kind = "filled"
  BY DEF Is
<1> HIDE DEF a, b, d, t, x, f, more, kind, A
<1>14. CASE kind = "enter"
  <2>1. IngestEvent(R(a, b, d, t, x), e) = R(a, Append(b, e), d, t, x)
    BY <1>9, <1>10, <1>11, <1>12, <1>13, <1>14 DEF IngestEvent
  <2> QED
    BY <1>1, <1>7, <1>14, <2>1 DEF more
<1>15. CASE kind = "enterToken"
  <2>1. IngestEvent(R(a, b, d, t, x), e) = R(a, b, Append(d, e), t, x)
    BY <1>9, <1>10, <1>11, <1>12, <1>13, <1>15 DEF IngestEvent
  <2> QED
    BY <1>1, <1>7, <1>15, <2>1 DEF more
<1>16. CASE kind = "transact"
  <2>1. IngestEvent(R(a, b, d, t, x), e) = R(a, b, d, Append(t, e), x)
    BY <1>9, <1>10, <1>11, <1>12, <1>13, <1>16 DEF IngestEvent
  <2> QED
    BY <1>1, <1>7, <1>16, <2>1 DEF more
<1>17. CASE kind = "submitted"
  <2>1. IngestEvent(R(a, b, d, t, x), e) = R({e}, b, d, t, x)
    BY <1>9, <1>10, <1>11, <1>12, <1>13, <1>17 DEF IngestEvent
  <2> QED
    BY <1>1, <1>7, <1>17, <2>1 DEF more
<1>18. CASE kind = "filled"
  <2>1. IngestEvent(R(a, b, d, t, x), e) = R(a, b, d, t, AddFill(x, c, e.event))
    BY <1>9, <1>10, <1>11, <1>12, <1>13, <1>18 DEF IngestEvent
  <2> QED
    BY <1>1, <1>7, <1>18, <2>1 DEF more
<1> QED
  BY <1>8, <1>14, <1>15, <1>16, <1>17, <1>18

LEMMA ResultEmpty ==
  ASSUME NEW sys, NEW S, NEW block, NEW h
  PROVE  ResultOf(sys, block, h, S, <<>>) = NewExtracts(sys, block, h)
<1>1. \A P : Those(<<>>, P) = <<>>
  BY ThoseEmpty
<1>2. AddFills(FillsFound(S, <<>>), sys.host.chainId) = NoFills
  BY <1>1, MappedEmpty, AddFillsEmpty DEF FillsFound
<1>3. LastOf(<<>>) = {}
  BY DEF LastOf
<1> QED
  BY <1>1, <1>2, <1>3 DEF ResultOf, NewExtracts

(* All the events of a block, whatever their number.                       *)
LEMMA IngestedIs ==
  ASSUME NEW sys, NEW S, \A x \in S : x.event \in Extractable(sys),
         NEW block, NEW h, NEW es \in Seq(S)
  PROVE  Ingested(NewExtracts(sys, block, h), es) = ResultOf(sys, block, h, S, es)
<1> DEFINE N == Len(es)
           x == NewExtracts(sys, block, h)
           up(n) == ResultOf(sys, block, h, S, SubSeq(es, 1, n))
           Along_(g) == g = [n \in 0..N |-> IF n = 0 THEN x ELSE IngestEvent(g[n - 1], es[n])]
           w == [n \in 0..N |-> up(n)]
           after == CHOOSE g : Along_(g)
<1>1. N \in Nat /\ up(0) = x /\ up(N) = ResultOf(sys, block, h, S, es)
  BY GrowsByOne, ResultEmpty
<1>2. ASSUME NEW n \in 0..(N - 1)
      PROVE  IngestEvent(up(n), es[n + 1]) = up(n + 1)
  <2> DEFINE s == SubSeq(es, 1, n)
  <2>1. n \in 0..N
    BY <1>1
  <2>2. s \in Seq(S) /\ es[n + 1] \in S /\ SubSeq(es, 1, n + 1) = Append(s, es[n + 1])
    BY <2>1, GrowsByOne
  <2> DEFINE t == SubSeq(es, 1, n + 1)
  <2> HIDE DEF s, t
  <2> DEFINE e == es[n + 1]
  <2>3. IngestEvent(ResultOf(sys, block, h, S, s), e) = ResultOf(sys, block, h, S, Append(s, e))
    <3>1. (\A x_ \in S : x_.event \in Extractable(sys)) /\ s \in Seq(S) /\ e \in S
      BY <2>2
    <3> HIDE DEF e
    <3> QED
      BY ONLY <3>1, ResultStep
  <2>4. t = Append(s, es[n + 1])
    BY ONLY <2>2 DEF t
  <2>5. IngestEvent(ResultOf(sys, block, h, S, s), es[n + 1]) = ResultOf(sys, block, h, S, t)
    BY ONLY <2>3, <2>4, Zenon
  <2> QED
    BY ONLY <2>5 DEF s, t
<1> HIDE DEF x, N
<1>3. \A n \in 0..N : w[n] = up(n)
  OBVIOUS
<1>4. \A n \in 0..N : n # 0 => n - 1 \in 0..(N - 1) /\ n - 1 \in 0..N /\ (n - 1) + 1 = n
  BY <1>1
<1> HIDE DEF up
<1>5. Along_(w)
  <2>1. \A n \in 0..N : n # 0 => up(n) = IngestEvent(w[n - 1], es[n])
    BY <1>2, <1>3, <1>4
  <2>2. \A n \in 0..N : up(n) = IF n = 0 THEN x ELSE IngestEvent(w[n - 1], es[n])
    BY <1>1, <2>1
  <2> QED
    BY <2>2, Zenon
<1>6. Along_(after)
  BY <1>5
<1>7. Ingested(x, es) = after[N]
  BY DEF Ingested, N
<1> HIDE DEF after, w
<1>8. \A n \in 0..N : after[n] = IF n = 0 THEN x ELSE IngestEvent(after[n - 1], es[n])
  BY <1>6
<1> DEFINE T == {n \in 0..N : after[n] = up(n)}
<1>9. 0 \in T
  BY <1>1, <1>8
<1>10. ASSUME NEW n \in 0..(N - 1), n \in T
       PROVE  n + 1 \in T
  <2>1. n + 1 \in 0..N /\ n + 1 # 0 /\ (n + 1) - 1 = n
    BY <1>1
  <2>2. after[n + 1] = IngestEvent(after[n], es[n + 1])
    BY <1>8, <2>1
  <2> QED
    BY <1>2, <1>10, <2>1, <2>2
<1>11. N \in T
  <2> HIDE DEF T
  <2>1. \A n \in 0..N : n \in T
    BY <1>1, <1>9, <1>10, Induction
  <2> QED
    BY <1>1, <2>1
<1> QED
  BY <1>1, <1>7, <1>11 DEF x

-----------------------------------------------------------------------------
(* The block that is submitted is the last that is seen of a host block.   *)
Posted(sys, spec) == SetToSeq({SubmittedOf(sys, ru) : ru \in spec.ruBlock})

LEMMA PostedIs ==
  ASSUME NEW p \in Pairs, NEW sys, sys = p.sys, NEW ru \in RuBlocks
  PROVE  /\ SubmittedOf(sys, ru) \in Extractable(sys)
         /\ <<ZenithLog(sys, ru)>> \in Seq(Logged)
         /\ SeenAll(sys, <<ZenithLog(sys, ru)>>) = <<SubmittedOf(sys, ru)>>
<1> DEFINE e == SubmittedOf(sys, ru)
           log == ZenithLog(sys, ru)
           id == sys.rollup.chainId
<1>1. e \in Submissions /\ log \in Logged /\ <<log>> \in Seq(Logged)
  BY SubmissionType
<1>2. log.address = sys.host.zenith /\ log.event = e /\ e.kind = "submitted" /\ e.chain = id
  BY DEF ZenithLog, Log, SubmittedOf
<1>3. /\ id % Word = id /\ sys.host.zenith # sys.host.orders
      /\ sys.host.zenith # sys.host.passage /\ sys.host.zenith # sys.host.transactor
  BY OfPair
<1>4. e \in Extractable(sys)
  BY <1>1, <1>2 DEF Extractable
<1> HIDE DEF e, log, id
<1>5. DecodeZenith(e, id) = {e}
  BY <1>2, <1>3 DEF DecodeZenith, IsFor, RollupChainId
<1>6. ExtractLog(sys, log) = DecodeZenith(e, id)
  BY <1>2, <1>3 DEF ExtractLog, id
<1>7. SeenIn(sys, log) = <<e>>
  BY <1>5, <1>6, OneToSeq DEF SeenIn
<1>8. SeenAll(sys, <<>>) = <<>>
  <2>1. SeenEach(sys, <<>>) = <<>>
    BY DEF SeenEach
  <2> QED
    BY <2>1, FlattenEmpty DEF SeenAll
<1>9. SeenAll(sys, Append(<<>>, log)) = SeenAll(sys, <<>>) \o SeenIn(sys, log)
  <2> DEFINE s == <<>>
  <2>1. s \in Seq(Logged)
    OBVIOUS
  <2> HIDE DEF s
  <2>2. SeenAll(sys, Append(s, log)) = SeenAll(sys, s) \o SeenIn(sys, log)
    BY <1>1, <2>1, SeenAllAppend
  <2> QED
    BY <2>2 DEF s
<1>10. Append(<<>>, log) = <<log>> /\ <<>> \o <<e>> = <<e>>
  OBVIOUS
<1> QED
  BY <1>1, <1>4, <1>7, <1>8, <1>9, <1>10 DEF e, log

(* Transactions of a block, each known by its place.                       *)
IsTxns(txs, number, n) ==
  /\ DOMAIN txs = 1..n /\ Len(txs) = n
  /\ \A i \in 1..n : txs[i].hash = <<number, i>>

LEMMA BlockShape ==
  ASSUME NEW p \in Pairs, NEW sys, sys = p.sys, NEW spec, Sound(sys, spec)
  PROVE  /\ ReceiptsOf(spec) \in Seq(Seq(Logged))
         /\ IsTxns(MakeTxns(spec), spec.number, Len(ReceiptsOf(spec)))
         /\ Posted(sys, spec) \in Seq(Extractable(sys))
         /\ Seen(sys, ReceiptsOf(spec)) = Seen(sys, spec.receipts) \o Posted(sys, spec)
<1> DEFINE L == Seq(Logged)
           R == spec.receipts
           n == Len(R)
           E == Extractable(sys)
<1>1. R \in Seq(Seq(Logged)) /\ R \in Seq(L)
  BY DEF Sound, HostBlock
<1>2. Seen(sys, R) \in Seq(Extractable(sys))
  BY <1>1, SeenType
<1>3. DEFINE cnt == Cardinality(spec.sidecar)
<1>4. \A c \in {0, 1} : cnt = c => IsTxns(MakeTxns(spec), spec.number, n + c)
  <2> TAKE c \in {0, 1}
  <2> HAVE cnt = c
  <2> DEFINE At(i, blob) == [hash |-> <<spec.number, i>>, blob |-> blob]
             first == [i \in 1..n |-> At(i, FALSE)]
             last == [i \in 1..c |-> At(n + 1, TRUE)]
             A == {At(i, blob) : i \in Nat, blob \in BOOLEAN}
  <2>1. MakeTxns(spec) = first \o last
    BY DEF MakeTxns
  <2>2. n \in Nat /\ c \in Nat
    BY <1>1
  <2>3. \A i \in Nat, blob \in BOOLEAN : At(i, blob) \in A /\ At(i, blob).hash = <<spec.number, i>>
    OBVIOUS
  <2> HIDE DEF n, At, A
  <2>4. first \in Seq(A) /\ last \in Seq(A) /\ n = Len(first) /\ c = Len(last)
    <3>1. \A i \in 1..n : i \in Nat
      BY <2>2
    <3>2. n + 1 \in Nat
      BY <2>2
    <3>3. \A i \in 1..n : At(i, FALSE) \in A
      BY <2>3, <3>1
    <3>4. At(n + 1, TRUE) \in A
      BY <2>3, <3>2
    <3>5. first \in Seq(A) /\ Len(first) = n
      <4>1. first = [i \in 1..n |-> first[i]] /\ \A i \in 1..n : first[i] \in A
        BY <3>3
      <4>2. Len(first) = n
        BY <2>2
      <4> HIDE DEF first
      <4>3. first \in Seq(A)
        BY <2>2, <4>1, IsSequence
      <4> QED
        BY <4>2, <4>3
    <3> DEFINE x == At(n + 1, TRUE)
    <3> HIDE DEF x
    <3>6. x \in A
      BY <3>4 DEF x
    <3>7. [i \in 1..c |-> x] \in Seq(A) /\ Len([i \in 1..c |-> x]) = c
      BY ONLY <2>2, <3>6
    <3> QED
      BY <3>5, <3>7 DEF x
  <2>5. /\ \A i \in 1..n : first[i] = At(i, FALSE)
        /\ \A i \in 1..c : last[i] = At(n + 1, TRUE)
    OBVIOUS
  <2>6. /\ n + c \in Nat
        /\ \A i \in 1..(n + c) :
              i \in 1..n \/ (i = n + 1 /\ i \in (n + 1)..(n + c) /\ i - n \in 1..c)
    BY <2>2
  <2>7. \A i \in 1..n : i \in Nat
    BY <2>2
  <2> DEFINE all == first \o last
  <2> HIDE DEF first, last
  <2>8. /\ all \in Seq(A) /\ Len(all) = n + c /\ DOMAIN all = 1..(n + c)
        /\ \A i \in 1..n : all[i] = first[i]
        /\ \A i \in (n + 1)..(n + c) : all[i] = last[i - n]
    BY <2>4, ConcatAt
  <2> HIDE DEF all
  <2>9. \A i \in 1..(n + c) : all[i].hash = <<spec.number, i>>
    <3> TAKE i \in 1..(n + c)
    <3>1. CASE i \in 1..n
      BY <2>3, <2>5, <2>7, <2>8, <3>1
    <3>2. CASE i = n + 1 /\ i \in (n + 1)..(n + c) /\ i - n \in 1..c
      <4>1. all[i] = last[i - n]
        BY <2>8, <3>2
      <4>2. last[i - n] = At(n + 1, TRUE)
        BY <2>5, <3>2
      <4>3. n + 1 \in Nat
        BY <2>2
      <4> QED
        BY <2>3, <3>2, <4>1, <4>2, <4>3
    <3> QED
      BY <2>6, <3>1, <3>2
  <2> QED
    BY <2>1, <2>8, <2>9 DEF IsTxns, all
<1> HIDE DEF L, R, n, cnt, E
<1>5. CASE HasNoBlock(spec)
  <2>1. ReceiptsOf(spec) = R \o <<>> /\ Posted(sys, spec) = <<>>
    <3>1. {SubmittedOf(sys, ru) : ru \in spec.ruBlock} = {} /\ spec.ruReceipt = {}
      BY <1>5 DEF HasNoBlock
    <3> QED
      BY <3>1, NoneToSeq DEF ReceiptsOf, Posted, R
  <2>2. R \o <<>> = R
    BY <1>1
  <2>3. Seen(sys, R) \o <<>> = Seen(sys, R)
    BY <1>2
  <2>4. cnt = 0
    BY <1>5, FS_EmptySet DEF HasNoBlock, cnt
  <2>5. IsTxns(MakeTxns(spec), spec.number, n)
    <3>1. n \in Nat
      BY <1>1 DEF n
    <3>2. IsTxns(MakeTxns(spec), spec.number, n + 0) /\ n + 0 = n
      BY <1>4, <2>4, <3>1
    <3> QED
      BY <3>2
  <2>6. <<>> \in Seq(Extractable(sys))
    OBVIOUS
  <2> QED
    BY <1>1, <2>1, <2>2, <2>3, <2>5, <2>6 DEF n, R
<1>6. ASSUME NEW ru \in RuBlocks, HasBlock(sys, spec, ru)
      PROVE  /\ ReceiptsOf(spec) \in Seq(Seq(Logged))
             /\ IsTxns(MakeTxns(spec), spec.number, Len(ReceiptsOf(spec)))
             /\ Posted(sys, spec) \in Seq(Extractable(sys))
             /\ Seen(sys, ReceiptsOf(spec)) = Seen(sys, R) \o Posted(sys, spec)
  <2> DEFINE x == <<ZenithLog(sys, ru)>>
             e == SubmittedOf(sys, ru)
  <2>1. e \in Extractable(sys) /\ x \in Seq(Logged) /\ SeenAll(sys, x) = <<e>>
    BY PostedIs
  <2>2. {SubmittedOf(sys, r) : r \in spec.ruBlock} = {e} /\ spec.ruReceipt = {x}
    BY <1>6 DEF HasBlock
  <2> HIDE DEF x, e
  <2>3. Posted(sys, spec) = <<e>>
    BY <2>2, OneToSeq DEF Posted
  <2>4. ReceiptsOf(spec) = Append(R, x) /\ Len(Append(R, x)) = n + 1
    <3>1. ReceiptsOf(spec) = R \o <<x>>
      BY <2>2, OneToSeq DEF ReceiptsOf, R
    <3>2. x \in L
      BY <2>1 DEF L
    <3>3. R \o <<x>> = Append(R, x) /\ Len(Append(R, x)) = Len(R) + 1
      BY ONLY <1>1, <3>2
    <3> QED
      BY <3>1, <3>3 DEF n
  <2>5. Append(R, x) \in Seq(Seq(Logged))
    <3>1. x \in L
      BY <2>1 DEF L
    <3>2. Append(R, x) \in Seq(L)
      BY ONLY <1>1, <3>1
    <3> QED
      BY <3>2 DEF L
  <2>6. Seen(sys, Append(R, x)) = Seen(sys, R) \o SeenAll(sys, x)
    BY ONLY <1>1, <2>1, SeenAppend, Zenon
  <2>7. <<e>> \in Seq(Extractable(sys))
    <3>1. e \in E
      BY <2>1 DEF E
    <3>2. <<e>> \in Seq(E)
      BY ONLY <3>1
    <3> QED
      BY <3>2 DEF E
  <2>8. IsTxns(MakeTxns(spec), spec.number, n + 1)
    <3>1. cnt = 1
      BY <1>6, FS_Singleton DEF HasBlock, cnt
    <3> QED
      BY <1>4, <3>1
  <2> QED
    BY <2>1, <2>3, <2>4, <2>5, <2>6, <2>7, <2>8
<1>7. HasNoBlock(spec) \/ \E ru \in RuBlocks : HasBlock(sys, spec, ru)
  BY DEF Sound
<1> QED
  BY <1>5, <1>6, <1>7 DEF R

(* What may be found in a block, and the Extracts of it.                   *)
Sightings(sys, block) == [tx : Range(block.txs), logIndex : Nat, event : Extractable(sys)]
FoundIn(sys, spec) == ExtractBlock(sys, BlockOf(spec))
ResultFor(sys, spec, h) ==
  ResultOf(sys, BlockOf(spec), h, Sightings(sys, BlockOf(spec)), FoundIn(sys, spec))
Shown(sys, spec) == Mapped(FoundIn(sys, spec), EventOf(Sightings(sys, BlockOf(spec))))

LEMMA ExtractOfIs ==
  ASSUME NEW p \in Pairs, NEW sys, sys = p.sys, NEW spec, Sound(sys, spec),
         NEW h \in Nat, spec.number = sys.host.deployHeight + h
  PROVE  /\ ExtractOf(sys, spec) = ResultFor(sys, spec, h)
         /\ FoundIn(sys, spec) \in Seq(Sightings(sys, BlockOf(spec)))
         /\ Shown(sys, spec) = Seen(sys, spec.receipts) \o Posted(sys, spec)
<1> DEFINE block == BlockOf(spec)
           S == Sightings(sys, block)
           es == FoundIn(sys, spec)
           R == block.receipts
           L == Seq(Logged)
<1>1. /\ R \in Seq(Seq(Logged)) /\ R \in Seq(L) /\ Len(block.txs) = Len(R)
      /\ Seen(sys, R) = Seen(sys, spec.receipts) \o Posted(sys, spec)
      /\ block.number = spec.number
  BY BlockShape DEF BlockOf, IsTxns
<1>2. \A x \in S : x.event \in Extractable(sys)
  BY DEF Sightings
<1>3. DOMAIN block.txs = 1..Len(R)
  BY BlockShape DEF BlockOf, IsTxns
<1> HIDE DEF S, es, block
<1>4. ASSUME NEW i \in DOMAIN R
      PROVE  Holds(sys, S, block.txs[i], R[i])
  <2>1. i \in DOMAIN block.txs
    <3>1. DOMAIN R = 1..Len(R)
      <4> HIDE DEF R, L
      <4> QED
        BY <1>1
    <3> QED
      BY <1>1, <1>3, <3>1
  <2>2. block.txs[i] \in Range(block.txs)
    BY <2>1 DEF Range
  <2>3. R[i] \in Seq(Logged)
    <3> HIDE DEF R, L
    <3>1. R[i] \in L
      BY <1>1
    <3> QED
      BY <3>1 DEF L
  <2> DEFINE r == R[i]
             tx == block.txs[i]
  <2> HIDE DEF r, tx, R
  <2>4. ASSUME NEW j \in DOMAIN r, NEW e \in ExtractLog(sys, r[j])
        PROVE  Found(tx, j, e) \in S
    <3>1. r[j] \in Logged /\ j - 1 \in Nat
      BY <2>3 DEF r
    <3>2. e \in Extractable(sys)
      <4>1. ExtractLog(sys, r[j]) = {} \/ \E d \in Extractable(sys) : ExtractLog(sys, r[j]) = {d}
        BY <3>1, ExtractLogIs
      <4> QED
        BY <2>4, <4>1
    <3>3. tx \in Range(block.txs)
      BY <2>2 DEF tx
    <3> QED
      BY <3>1, <3>2, <3>3 DEF Found, S, Sightings
  <2> QED
    BY <2>4 DEF Holds, r, tx
<1>5. ExtractBlock(sys, block) \in Seq(S)
      /\ Mapped(ExtractBlock(sys, block), EventOf(S)) = Seen(sys, block.receipts)
  BY <1>1, <1>2, <1>4, BlockEvents
<1>6. es = ExtractBlock(sys, block) /\ es \in Seq(S)
  BY <1>5 DEF es, block, FoundIn
<1>7. (CHOOSE k \in ToRollupHeight(sys, block.number) : TRUE) = h
  <2>1. sys.host.deployHeight \in Nat
    BY OfPair
  <2>2. ToRollupHeight(sys, block.number) = {h}
    BY <1>1, <2>1 DEF ToRollupHeight
  <2> QED
    BY <2>2
<1>8. ExtractOf(sys, spec) = Ingested(NewExtracts(sys, block, h), es)
  BY <1>6, <1>7 DEF ExtractOf, Extracted, block
<1>9. Ingested(NewExtracts(sys, block, h), es) = ResultOf(sys, block, h, S, es)
  BY <1>2, <1>6, IngestedIs
<1> QED
  BY <1>1, <1>5, <1>6, <1>8, <1>9 DEF ResultFor, Shown, S, es, block

-----------------------------------------------------------------------------
(* What is found of one kind, and what is recorded of it.                  *)
FoundOf(sys, spec, k) ==
  Those(FoundIn(sys, spec), Finds(Sightings(sys, BlockOf(spec)), k))

LEMMA KindShown ==
  ASSUME NEW p \in Pairs, NEW sys, sys = p.sys, NEW spec, Sound(sys, spec),
         NEW h \in Nat, spec.number = sys.host.deployHeight + h, NEW k
  PROVE  /\ FoundOf(sys, spec, k) \in Seq(Sightings(sys, BlockOf(spec)))
         /\ Mapped(FoundOf(sys, spec, k), EventOf(Sightings(sys, BlockOf(spec))))
              = Those(Seen(sys, spec.receipts), Kind(k)) \o Those(Posted(sys, spec), Kind(k))
<1> DEFINE S == Sightings(sys, BlockOf(spec))
           f == EventOf(S)
           T == Extractable(sys)
           es == FoundIn(sys, spec)
           a == Seen(sys, spec.receipts)
           b == Posted(sys, spec)
           P == Finds(S, k)
           Q == Kind(k)
<1>1. es \in Seq(S) /\ Mapped(es, f) = a \o b
  BY ExtractOfIs DEF Shown
<1>2. a \in Seq(T) /\ b \in Seq(T)
  <2>1. spec.receipts \in Seq(Seq(Logged))
    BY DEF Sound, HostBlock
  <2> QED
    BY <2>1, SeenType, BlockShape
<1>3. \A x \in S : x.event \in T
  BY DEF Sightings
<1>4. f \in [S -> T] /\ \A x \in S : f[x] = x.event
  <2> HIDE DEF S
  <2> QED
    BY <1>3, EventOfType DEF EventOf
<1>5. \A x \in S : x \in P <=> f[x] \in Q
  <2> TAKE x \in S
  <2>1. x.event \in Event
    BY <1>3, ExtractableKinds
  <2> QED
    BY <1>4, <2>1 DEF Finds, Kind
<1>a. Alike(S, P, f, Q)
  BY <1>5 DEF Alike
<1> HIDE DEF S, f, T, es, a, b, P, Q
<1>6. Mapped(Those(es, P), f) = Those(Mapped(es, f), Q)
  <2>1. es \in Seq(S)
    BY <1>1
  <2>2. f \in [S -> T]
    BY <1>4
  <2> QED
    <3>1. Commute(es, P, f, Q)
      BY ONLY <1>a, <2>1, <2>2, MappedThose
    <3> QED
      BY ONLY <3>1 DEF Commute
<1>7. Those(a \o b, Q) = Those(a, Q) \o Those(b, Q)
  BY <1>2, ThoseConcat
<1>8. Those(es, P) \in Seq(S)
  BY <1>1, ThoseType
<1> QED
  BY <1>1, <1>6, <1>7, <1>8 DEF FoundOf, S, f, es, a, b, P, Q

LEMMA KindRecorded ==
  ASSUME NEW sys, NEW spec, Sound(sys, spec), NEW k
  PROVE  /\ OfKind(spec, k) = Those(spec.events, Kind(k))
         /\ OfKind(spec, k) = Those(Seen(sys, spec.receipts), Telling \cap Kind(k))
<1> DEFINE s == spec.events
           at == {i \in DOMAIN s : s[i].kind = k}
           bt == {i \in DOMAIN s : s[i] \in Kind(k)}
           seen == Seen(sys, spec.receipts)
<1>1. s \in Seq(Recorded) /\ spec.receipts \in Seq(Seq(Logged)) /\ Those(seen, Telling) = s
  BY DEF Sound, HostBlock
<1>2. at = bt
  <2>1. \A i \in DOMAIN s : s[i] \in Recorded
    <3> HIDE DEF s
    <3> QED
      BY <1>1
  <2>2. Recorded \subseteq Event
    BY DEF Event
  <2> QED
    BY <2>1, <2>2 DEF Kind
<1>3. OfKind(spec, k) = Those(s, Kind(k))
  BY <1>2 DEF OfKind, Those
<1>4. seen \in Seq(Extractable(sys))
  BY <1>1, SeenType
<1>5. Those(Those(seen, Telling), Kind(k)) = Those(seen, Telling \cap Kind(k))
  <2> HIDE DEF seen
  <2> QED
    BY <1>4, ThoseThose
<1> QED
  BY <1>1, <1>3, <1>5

LEMMA PostedKind ==
  ASSUME NEW p \in Pairs, NEW sys, sys = p.sys, NEW spec, Sound(sys, spec), NEW k
  PROVE  Those(Posted(sys, spec), Kind(k)) = IF k = "submitted" THEN Posted(sys, spec) ELSE <<>>
<1>1. CASE HasNoBlock(spec)
  <2>1. {SubmittedOf(sys, ru) : ru \in spec.ruBlock} = {}
    BY <1>1 DEF HasNoBlock
  <2>2. Posted(sys, spec) = <<>>
    BY <2>1, NoneToSeq DEF Posted
  <2> QED
    BY <2>2, ThoseEmpty
<1>2. ASSUME NEW ru \in RuBlocks, HasBlock(sys, spec, ru)
      PROVE  Those(Posted(sys, spec), Kind(k)) = IF k = "submitted" THEN Posted(sys, spec) ELSE <<>>
  <2> DEFINE e == SubmittedOf(sys, ru)
  <2>1. {SubmittedOf(sys, r) : r \in spec.ruBlock} = {e}
    BY <1>2 DEF HasBlock
  <2>2. e \in Event /\ e.kind = "submitted"
    BY SubmissionType DEF Event, SubmittedOf
  <2> HIDE DEF e
  <2>3. Posted(sys, spec) = <<e>>
    BY <2>1, OneToSeq DEF Posted
  <2>4. e \in Kind(k) <=> k = "submitted"
    BY <2>2 DEF Kind
  <2>5. Those(<<e>>, Kind(k)) = IF e \in Kind(k) THEN <<e>> ELSE <<>>
    BY <2>2, ThoseOne
  <2> QED
    BY <2>3, <2>4, <2>5
<1>3. HasNoBlock(spec) \/ \E ru \in RuBlocks : HasBlock(sys, spec, ru)
  BY DEF Sound
<1> QED
  BY <1>1, <1>2, <1>3

(* An event other than a submission that is seen is recorded if it tells   *)
(* something; a submission is not among the receipts of the block.         *)
LEMMA KindSeen ==
  ASSUME NEW sys, NEW spec, Sound(sys, spec)
  PROVE  /\ \A k \in {"enter", "enterToken", "transact"} :
              Those(Seen(sys, spec.receipts), Kind(k)) = OfKind(spec, k)
         /\ Those(Seen(sys, spec.receipts), Kind("submitted")) = <<>>
         /\ Those(Seen(sys, spec.receipts), Kind("filled")) \in Seq(Fills)
         /\ Those(Those(Seen(sys, spec.receipts), Kind("filled")), Telling) = OfKind(spec, "filled")
<1> DEFINE seen == Seen(sys, spec.receipts)
<1>1. spec.receipts \in Seq(Seq(Logged)) /\ spec.events \in Seq(Recorded)
  BY DEF Sound, HostBlock
<1>2. seen \in Seq(Extractable(sys))
  BY <1>1, SeenType
<1>3. ASSUME NEW k, k # "filled"
      PROVE  Those(seen, Kind(k)) = OfKind(spec, k)
  <2>1. Telling \cap Kind(k) = Kind(k)
    BY <1>3 DEF Telling, Kind
  <2> QED
    BY <2>1, KindRecorded
<1>4. OfKind(spec, "submitted") = <<>>
  <2> DEFINE s == spec.events
             at == {i \in DOMAIN s : s[i].kind = "submitted"}
  <2>1. at \cap DOMAIN s = {}
    <3>1. \A i \in DOMAIN s : s[i] \in Recorded
      <4>1. s \in Seq(Recorded)
        BY <1>1
      <4> HIDE DEF s
      <4> QED
        BY <4>1
    <3>2. \A r \in Recorded : r.kind # "submitted"
      BY DEF Recorded, Enters, EnterTokens, Transacted, Fills, Others
    <3> QED
      BY <3>1, <3>2
  <2> HIDE DEF s, at
  <2>2. Kept(s, at) = <<>>
    BY <1>1, <2>1, KeptNone DEF s
  <2> QED
    BY <2>2 DEF OfKind, at, s
<1>5. Those(Those(seen, Kind("filled")), Telling) = OfKind(spec, "filled")
  <2>1. Those(Those(seen, Kind("filled")), Telling) = Those(seen, Kind("filled") \cap Telling)
    <3> HIDE DEF seen
    <3> QED
      BY <1>2, ThoseThose
  <2>2. Kind("filled") \cap Telling = Telling \cap Kind("filled")
    OBVIOUS
  <2> QED
    BY <2>1, <2>2, KindRecorded
<1>6. Those(seen, Kind("filled")) \in Seq(Fills)
  <2> HIDE DEF seen
  <2> DEFINE t == Those(seen, Kind("filled"))
  <2>1. t \in Seq(Extractable(sys))
    BY <1>2, ThoseType
  <2>2. \A i \in DOMAIN t : t[i] \in Kind("filled")
    BY <1>2, ThoseSatisfy
  <2> HIDE DEF t
  <2>3. \A i \in DOMAIN t : t[i] \in Fills
    <3> TAKE i \in DOMAIN t
    <3>1. t[i] \in Extractable(sys)
      BY <2>1
    <3>2. t[i].kind = "filled"
      BY <2>2 DEF Kind
    <3> QED
      BY <3>1, <3>2, ExtractableKinds
  <2>4. t \in Seq(Fills)
    <3>1. Len(t) \in Nat /\ t = [i \in 1..Len(t) |-> t[i]] /\ DOMAIN t = 1..Len(t)
      BY <2>1
    <3> QED
      BY <2>3, <3>1, IsSequence
  <2> QED
    BY <2>4 DEF t
<1> QED
  BY <1>3, <1>4, <1>5, <1>6

-----------------------------------------------------------------------------
(* The Extracts of a sound block say what its specification does.          *)
ConformsTo(sys, x, spec) ==
  /\ EventsOf(x.enters) = OfKind(spec, "enter")
  /\ EventsOf(x.enterTokens) = OfKind(spec, "enterToken")
  /\ EventsOf(x.transacts) = OfKind(spec, "transact")
  /\ x.context = AddFills(OfKind(spec, "filled"), sys.host.chainId)
  /\ \A ru \in spec.ruBlock :
       \E s \in x.submitted :
         /\ ru.gasLimit \subseteq {s.event.gasLimit}
         /\ ru.rewardAddress \subseteq {s.event.rewardAddress}

SubmitsOf(sys, x, spec) ==
  /\ HasNoBlock(spec) => x.submitted = {}
  /\ \A ru \in RuBlocks :
       HasBlock(sys, spec, ru) => \E s : x.submitted = {s} /\ s.event = SubmittedOf(sys, ru)

LEMMA EventsAreMapped ==
  ASSUME NEW S, NEW s \in Seq(S)
  PROVE  EventsOf(s) = Mapped(s, EventOf(S))
BY DEF EventsOf, Mapped, EventOf

LEMMA OptionsFit ==
  ASSUME NEW sys, NEW ru \in RuBlocks
  PROVE  /\ ru.gasLimit \subseteq {SubmittedOf(sys, ru).gasLimit}
         /\ ru.rewardAddress \subseteq {SubmittedOf(sys, ru).rewardAddress}
<1> DEFINE g == CHOOSE x \in ru.gasLimit : TRUE
           a == CHOOSE x \in ru.rewardAddress : TRUE
<1>1. (\A x, y \in ru.gasLimit : x = y) /\ (\A x, y \in ru.rewardAddress : x = y)
  BY FeedAssumption
<1>2. ru.gasLimit # {} => g \in ru.gasLimit
  OBVIOUS
<1>3. ru.rewardAddress # {} => a \in ru.rewardAddress
  OBVIOUS
<1>4. ru.gasLimit # {} => SubmittedOf(sys, ru).gasLimit = g
  BY DEF SubmittedOf
<1>5. ru.rewardAddress # {} => SubmittedOf(sys, ru).rewardAddress = a
  BY DEF SubmittedOf
<1> HIDE DEF g, a
<1> QED
  BY <1>1, <1>2, <1>3, <1>4, <1>5

LEMMA OneElement ==
  ASSUME NEW S, NEW s \in Seq(S), Len(s) = 1
  PROVE  s[1] \in S /\ s # <<>> /\ Last(s) = s[1] /\ 1 \in DOMAIN s
BY DEF Last

LEMMA ExtractConforms ==
  ASSUME NEW p \in Pairs, NEW sys, sys = p.sys, NEW spec, Sound(sys, spec),
         NEW h \in Nat, spec.number = sys.host.deployHeight + h
  PROVE  /\ ConformsTo(sys, ExtractOf(sys, spec), spec)
         /\ SubmitsOf(sys, ExtractOf(sys, spec), spec)
         /\ ExtractOf(sys, spec).ruHeight = h
         /\ ExtractOf(sys, spec).hostBlock = BlockOf(spec)
<1> DEFINE x == ExtractOf(sys, spec)
           S == Sightings(sys, BlockOf(spec))
           f == EventOf(S)
           seen == Seen(sys, spec.receipts)
           posted == Posted(sys, spec)
           c == sys.host.chainId
           found(k) == FoundOf(sys, spec, k)
<1>1. /\ x.enters = found("enter") /\ x.enterTokens = found("enterToken")
      /\ x.transacts = found("transact") /\ x.submitted = LastOf(found("submitted"))
      /\ x.context = AddFills(Mapped(found("filled"), f), c)
      /\ x.ruHeight = h /\ x.hostBlock = BlockOf(spec)
  <2>1. x = ResultFor(sys, spec, h)
    BY ExtractOfIs
  <2> QED
    BY <2>1 DEF ResultFor, ResultOf, FoundOf, FillsFound
<1>2. \A k : /\ found(k) \in Seq(S)
             /\ Mapped(found(k), f) = Those(seen, Kind(k)) \o Those(posted, Kind(k))
  BY KindShown
<1>3. \A k : Those(posted, Kind(k)) = IF k = "submitted" THEN posted ELSE <<>>
  BY PostedKind
<1>4. \A k : Those(seen, Kind(k)) \in Seq(Extractable(sys))
  <2>1. spec.receipts \in Seq(Seq(Logged))
    BY DEF Sound, HostBlock
  <2>2. seen \in Seq(Extractable(sys))
    BY <2>1, SeenType
  <2> HIDE DEF seen
  <2> QED
    BY <2>2, ThoseType
<1>5. \A k : k # "submitted" => Mapped(found(k), f) = Those(seen, Kind(k))
  <2> TAKE k
  <2> HAVE k # "submitted"
  <2> DEFINE t == Those(seen, Kind(k))
  <2>1. Mapped(found(k), f) = t \o <<>>
    BY <1>2, <1>3
  <2>2. t \in Seq(Extractable(sys))
    BY <1>4
  <2> HIDE DEF t
  <2>3. t \o <<>> = t
    BY <2>2
  <2> QED
    BY <2>1, <2>3 DEF t
<1>6. \A k \in {"enter", "enterToken", "transact"} : EventsOf(found(k)) = OfKind(spec, k)
  <2> TAKE k \in {"enter", "enterToken", "transact"}
  <2>1. EventsOf(found(k)) = Mapped(found(k), f)
    <3>1. found(k) \in Seq(S)
      BY <1>2
    <3> HIDE DEF S, found
    <3> QED
      BY <3>1, EventsAreMapped
  <2>2. Those(seen, Kind(k)) = OfKind(spec, k)
    BY KindSeen
  <2> QED
    BY <1>5, <2>1, <2>2
<1>7. AddFills(Mapped(found("filled"), f), c) = AddFills(OfKind(spec, "filled"), c)
  <2> DEFINE t == Those(seen, Kind("filled"))
  <2>1. Mapped(found("filled"), f) = t
    BY <1>5
  <2>2. t \in Seq(Fills) /\ Those(t, Telling) = OfKind(spec, "filled")
    BY KindSeen
  <2> HIDE DEF t
  <2>3. AddFills(Those(t, Telling), c) = AddFills(t, c)
    BY <2>2, AddTellingFills
  <2> QED
    BY <2>1, <2>2, <2>3
<1>8. Mapped(found("submitted"), f) = posted
  <2>1. Those(seen, Kind("submitted")) = <<>>
    BY KindSeen
  <2>2. posted \in Seq(Extractable(sys))
    BY BlockShape
  <2>3. Mapped(found("submitted"), f) = <<>> \o posted
    BY <1>2, <1>3, <2>1
  <2> HIDE DEF posted
  <2>4. <<>> \o posted = posted
    BY <2>2
  <2> QED
    BY <2>3, <2>4
<1>9. SubmitsOf(sys, x, spec)
  <2> DEFINE s == found("submitted")
  <2>0. s \in Seq(S)
    BY <1>2
  <2> HIDE DEF s, S
  <2>1. ASSUME HasNoBlock(spec)
        PROVE  x.submitted = {}
    <3>1. {SubmittedOf(sys, ru) : ru \in spec.ruBlock} = {}
      BY <2>1 DEF HasNoBlock
    <3>2. posted = <<>>
      BY <3>1, NoneToSeq DEF Posted
    <3>3. Len(Mapped(s, f)) = Len(s) /\ Len(<<>>) = 0
      BY <2>0, MappedLen
    <3>4. s = <<>>
      BY <1>8, <2>0, <3>2, <3>3 DEF s
    <3> QED
      BY <1>1, <3>4 DEF LastOf, s
  <2>2. ASSUME NEW ru \in RuBlocks, HasBlock(sys, spec, ru)
        PROVE  \E r : x.submitted = {r} /\ r.event = SubmittedOf(sys, ru)
    <3> DEFINE e == SubmittedOf(sys, ru)
    <3>1. {SubmittedOf(sys, r) : r \in spec.ruBlock} = {e}
      BY <2>2 DEF HasBlock
    <3> HIDE DEF e
    <3>2. posted = <<e>>
      BY <3>1, OneToSeq DEF Posted
    <3>3. Mapped(s, f) = <<e>>
      BY <1>8, <3>2 DEF s
    <3>4. Len(s) = 1
      <4>1. Len(<<e>>) = 1
        OBVIOUS
      <4>2. Len(Mapped(s, f)) = Len(s)
        BY <2>0, MappedLen
      <4> QED
        BY <3>3, <4>1, <4>2
    <3>5. s[1] \in S /\ s # <<>> /\ Last(s) = s[1] /\ 1 \in DOMAIN s
      BY <2>0, <3>4, OneElement
    <3>6. f[s[1]] = e
      <4>1. Mapped(s, f)[1] = f[s[1]]
        BY <3>5 DEF Mapped
      <4>2. <<e>>[1] = e
        OBVIOUS
      <4> QED
        BY <3>3, <4>1, <4>2
    <3>7. s[1].event = e
      BY <3>5, <3>6 DEF EventOf
    <3>8. x.submitted = {s[1]}
      BY <1>1, <3>5 DEF LastOf, s
    <3> QED
      BY <3>7, <3>8 DEF e
  <2> QED
    BY <2>1, <2>2 DEF SubmitsOf
<1>10. ASSUME NEW ru \in spec.ruBlock
       PROVE  \E s \in x.submitted : /\ ru.gasLimit \subseteq {s.event.gasLimit}
                                     /\ ru.rewardAddress \subseteq {s.event.rewardAddress}
  <2>1. ru \in RuBlocks /\ HasBlock(sys, spec, ru)
    BY DEF Sound, HasBlock, HasNoBlock
  <2>2. PICK s : x.submitted = {s} /\ s.event = SubmittedOf(sys, ru)
    BY <1>9, <2>1 DEF SubmitsOf
  <2>3. /\ ru.gasLimit \subseteq {SubmittedOf(sys, ru).gasLimit}
        /\ ru.rewardAddress \subseteq {SubmittedOf(sys, ru).rewardAddress}
    BY <2>1, OptionsFit
  <2> QED
    BY <2>2, <2>3
<1>11. ConformsTo(sys, x, spec)
  BY <1>1, <1>6, <1>7, <1>10 DEF ConformsTo
<1> QED
  BY <1>1, <1>9, <1>11

LEMMA AboveIsMax ==
  ASSUME NEW n \in Nat
  PROVE  Max({0, n - 1}) = Above(n)
<1>1. CASE n = 0
  <2>1. \E m \in {0, -1} : \A y \in {0, -1} : m >= y
    OBVIOUS
  <2>2. Max({0, -1}) = 0
    BY <2>1 DEF Max
  <2> QED
    BY <1>1, <2>2 DEF Above
<1>2. CASE n # 0
  BY <1>2, MaxWithZero DEF Above
<1> QED
  BY <1>1, <1>2

(* A chain that is followed: every block above the deployment has been     *)
(* extracted, and is sound.                                                *)
IsKept(p, chain, kept) ==
  /\ p \in Pairs /\ chain \in Seq(HostBlock)
  /\ DOMAIN kept = 1..Above(Len(chain)) /\ Len(kept) = Above(Len(chain))
  /\ \A i \in DOMAIN kept :
       /\ i \in Nat /\ i + 1 \in DOMAIN chain
       /\ kept[i] = ExtractOf(p.sys, chain[i + 1])
       /\ Sound(p.sys, chain[i + 1])
       /\ chain[i + 1].number = p.sys.host.deployHeight + i

LEMMA KeptIs ==
  ASSUME NEW p \in Pairs, NEW chain, NEW kept,
         Follows(p.sys, chain, kept), AllSound(p.sys, chain)
  PROVE  IsKept(p, chain, kept)
<1> DEFINE n == Len(chain)
           m == Above(n)
           d == p.sys.host.deployHeight
<1>1. /\ chain \in Seq(HostBlock)
      /\ \A i \in DOMAIN chain : chain[i].number = d + i - 1
      /\ kept = [i \in 1..m |-> ExtractOf(p.sys, chain[i + 1])]
      /\ \A i \in DOMAIN chain : Sound(p.sys, chain[i])
  BY DEF Follows, AllSound, Consecutive
<1>2. n \in Nat /\ DOMAIN chain = 1..n
  BY <1>1
<1>3. d \in Nat
  BY OfPair
<1> HIDE DEF n, d
<1>4. m \in Nat /\ \A i \in 1..m : i \in Nat /\ i + 1 \in 1..n
  BY <1>2 DEF Above
<1> HIDE DEF m
<1>5. DOMAIN kept = 1..m /\ Len(kept) = m
  BY <1>1, <1>4
<1>6. ASSUME NEW i \in 1..m
      PROVE  chain[i + 1].number = d + i
  <2>1. i \in Nat /\ i + 1 \in DOMAIN chain
    BY <1>2, <1>4
  <2>2. chain[i + 1].number = d + (i + 1) - 1
    BY <1>1, <2>1
  <2>3. d + (i + 1) - 1 = d + i
    BY <1>3, <2>1
  <2> QED
    BY <2>2, <2>3
<1> QED
  BY <1>1, <1>2, <1>4, <1>5, <1>6 DEF IsKept, m, n, d

LEMMA FollowedIs ==
  ASSUME FeedInv
  PROVE  IsKept(pair, canonical, followed)
<1>1. /\ pair \in Pairs /\ Follows(pair.sys, canonical, followed)
      /\ AllSound(pair.sys, canonical)
  BY DEF FeedInv
<1> QED
  BY <1>1, KeptIs

LEMMA HeightsPair ==
  ASSUME NEW sys, sys.host.deployHeight \in Nat, NEW i \in Nat
  PROVE  PairHost(sys, sys.host.deployHeight + i) = {PairRu(sys, i)}
<1>1. ToRollupHeight(sys, sys.host.deployHeight + i) = {i}
  BY DEF ToRollupHeight
<1> QED
  BY <1>1 DEF PairHost, PairRu, ToHostHeight

(* Extraction in the pieces that were notified, whatever was committed,    *)
(* reverted and reorganised, loses, repeats and reorders nothing.          *)
THEOREM ExtractionFollows == FeedSpec => []FollowsHostChain
<1>1. ASSUME FeedInv
      PROVE  FollowsHostChain
  <2> DEFINE sys == pair.sys
  <2>1. pair \in Pairs /\ sys.host.deployHeight \in Nat
    BY <1>1, FollowedIs, OfPair DEF IsKept
  <2>2. Len(followed) = Max({0, Len(canonical) - 1})
    <3>1. Len(canonical) \in Nat
      BY <1>1, FollowedIs DEF IsKept
    <3> QED
      BY <1>1, <3>1, FollowedIs, AboveIsMax DEF IsKept
  <2>3. ASSUME NEW i \in DOMAIN followed
        PROVE  /\ followed[i].ruHeight = i
               /\ PairHost(Sys, canonical[i + 1].number) = {PairRu(Sys, followed[i].ruHeight)}
               /\ Conforms(followed[i], canonical[i + 1])
    <3> DEFINE spec == canonical[i + 1]
    <3>1. /\ i \in Nat /\ followed[i] = ExtractOf(sys, spec) /\ Sound(sys, spec)
          /\ spec.number = sys.host.deployHeight + i
      BY <1>1, <2>3, FollowedIs DEF IsKept
    <3> HIDE DEF spec, sys
    <3>2. /\ ConformsTo(sys, ExtractOf(sys, spec), spec)
          /\ ExtractOf(sys, spec).ruHeight = i
      <4>1. pair \in Pairs /\ sys = pair.sys
        BY <2>1 DEF sys
      <4> QED
        BY <3>1, <4>1, ExtractConforms
    <3>3. PairHost(sys, spec.number) = {PairRu(sys, i)}
      BY <2>1, <3>1, HeightsPair
    <3>4. Conforms(followed[i], spec)
      BY <3>1, <3>2 DEF Conforms, ConformsTo, Sys, sys
    <3> QED
      BY <3>1, <3>2, <3>3, <3>4 DEF Sys, sys, spec
  <2> QED
    BY <2>2, <2>3 DEF FollowsHostChain
<1> QED
  BY <1>1, FeedInvariant, PTL

(* What was found of one kind is of that kind, and can be extracted.       *)
LEMMA FoundFields ==
  ASSUME NEW p \in Pairs, NEW sys, sys = p.sys, NEW spec, Sound(sys, spec),
         NEW h \in Nat, spec.number = sys.host.deployHeight + h
  PROVE  /\ ExtractOf(sys, spec).enters = FoundOf(sys, spec, "enter")
         /\ ExtractOf(sys, spec).enterTokens = FoundOf(sys, spec, "enterToken")
         /\ ExtractOf(sys, spec).transacts = FoundOf(sys, spec, "transact")
         /\ \A k : \A i \in DOMAIN FoundOf(sys, spec, k) :
              /\ FoundOf(sys, spec, k)[i].event \in Extractable(sys)
              /\ FoundOf(sys, spec, k)[i].event.kind = k
<1> DEFINE S == Sightings(sys, BlockOf(spec))
<1>1. ExtractOf(sys, spec) = ResultFor(sys, spec, h) /\ FoundIn(sys, spec) \in Seq(S)
  BY ExtractOfIs
<1>2. \A x \in S : x.event \in Extractable(sys)
  BY DEF Sightings
<1>3. ASSUME NEW k, NEW i \in DOMAIN FoundOf(sys, spec, k)
      PROVE  /\ FoundOf(sys, spec, k)[i].event \in Extractable(sys)
             /\ FoundOf(sys, spec, k)[i].event.kind = k
  <2> DEFINE s == FoundIn(sys, spec)
  <2>1. Those(s, Finds(S, k))[i] \in Finds(S, k)
    <3>1. i \in DOMAIN Those(s, Finds(S, k))
      BY <1>3 DEF FoundOf
    <3> HIDE DEF S
    <3> QED
      BY <1>1, <3>1, ThoseSatisfy
  <2>2. FoundOf(sys, spec, k) = Those(s, Finds(S, k))
    BY DEF FoundOf
  <2> HIDE DEF S, s
  <2> QED
    BY <1>2, <2>1, <2>2 DEF Finds
<1> QED
  BY <1>1, <1>3 DEF ResultFor, ResultOf, FoundOf

LEMMA HostTokenHasPlace ==
  ASSUME NEW sys, NEW address, IsHostToken(sys, address)
  PROVE  RollupAddressFromHost(sys, address) # {}
BY DEF IsHostToken, RollupAddressFromHost

LEMMA DepositsHavePlaces ==
  ASSUME NEW p, NEW chain, NEW kept, IsKept(p, chain, kept), NEW i \in DOMAIN kept
  PROVE  ~MintPanics(p.sys, kept[i])
<1> DEFINE sys == p.sys
           spec == chain[i + 1]
           x == ExtractOf(sys, spec)
           found == FoundOf(sys, spec, "enterToken")
<1>1. /\ p \in Pairs /\ i \in Nat /\ kept[i] = x
      /\ Sound(sys, spec) /\ spec.number = sys.host.deployHeight + i
  BY DEF IsKept
<1> HIDE DEF spec
<1>2. /\ x.enterTokens = FoundOf(sys, spec, "enterToken")
      /\ \A k : \A j \in DOMAIN FoundOf(sys, spec, k) :
           /\ FoundOf(sys, spec, k)[j].event \in Extractable(sys)
           /\ FoundOf(sys, spec, k)[j].event.kind = k
  BY <1>1, FoundFields
<1>3. /\ kept[i].enterTokens = found
      /\ \A j \in DOMAIN found : /\ found[j].event \in Extractable(sys)
                                 /\ found[j].event.kind = "enterToken"
  BY <1>1, <1>2
<1> HIDE DEF found
<1>4. ASSUME NEW e \in ToSet(kept[i].enterTokens)
      PROVE  RollupAddressFromHost(sys, e.event.token) # {}
  <2>1. PICK j \in DOMAIN found : e = found[j]
    BY <1>3, <1>4 DEF ToSet
  <2>2. IsHostToken(sys, e.event.token)
    BY <1>3, <2>1, ExtractableKinds
  <2> QED
    BY <2>2, HostTokenHasPlace
<1> QED
  BY <1>4 DEF MintPanics

(* run_mints_inner does not panic: a token that extraction lets through    *)
(* is one that the tables of the two chains know.                          *)
THEOREM ExtractedDepositsCanBeMinted == FeedSpec => []DepositsCanBeMinted
<1>1. FeedInv => DepositsCanBeMinted
  BY FollowedIs, DepositsHavePlaces DEF DepositsCanBeMinted, Sys
<1> QED
  BY <1>1, FeedInvariant, PTL

-----------------------------------------------------------------------------
(* What is processed of the Extracts of a sound block.                     *)
UserTxs(x) ==
  LET txs == (CHOOSE s \in x.submitted : TRUE).event.blockDataHash
  IN  IF x.submitted = {} THEN <<>> ELSE [j \in DOMAIN txs |-> UserTransaction(txs[j])]
UserSenders(x) ==
  IF x.submitted = {} THEN <<>> ELSE (CHOOSE s \in x.submitted : TRUE).event.blockDataHash
MintTxs(x) == [i \in DOMAIN Mints(Sys, x, 0) |-> MakeTransaction(Mints(Sys, x, 0)[i])]
MintSenders(x) == [i \in DOMAIN Mints(Sys, x, 0) |-> EvmSender(Mints(Sys, x, 0)[i])]
TransactTxs(x) ==
  [i \in DOMAIN Transacts(x, ToAlias) |-> MakeTransaction(Transacts(x, ToAlias)[i])]
TransactSenders(x) ==
  [i \in DOMAIN Transacts(x, ToAlias) |-> EvmSender(Transacts(x, ToAlias)[i])]

IsProcessed(x, a, b, c) ==
  /\ IsList(UserTxs(x), a) /\ IsList(UserSenders(x), a)
  /\ IsList(MintTxs(x), b) /\ IsList(MintSenders(x), b) /\ IsList(Mints(Sys, x, 0), b)
  /\ IsList(TransactTxs(x), c) /\ IsList(TransactSenders(x), c)
  /\ IsList(Transacts(x, ToAlias), c)
  /\ IsList(Processed(x), a + b + c) /\ IsList(Senders(x), a + b + c)
  /\ Processed(x) = UserTxs(x) \o MintTxs(x) \o TransactTxs(x)
  /\ Senders(x) = UserSenders(x) \o MintSenders(x) \o TransactSenders(x)
  /\ b = Len(x.enters) + Len(x.enterTokens) /\ c = Len(x.transacts)

IsFollowed(x, spec, h) ==
  /\ pair \in Pairs /\ Sound(Sys, spec)
  /\ h \in Nat /\ spec.number = Sys.host.deployHeight + h
  /\ x = ExtractOf(Sys, spec)

LEMMA FollowedTypes ==
  ASSUME NEW x, NEW spec, NEW h, IsFollowed(x, spec, h)
  PROVE  /\ IsList(x.enters, Len(x.enters)) /\ IsList(x.enterTokens, Len(x.enterTokens))
         /\ IsList(x.transacts, Len(x.transacts))
         /\ x.ruHeight = h /\ x.hostBlock = BlockOf(spec)
         /\ x.submitted = {} <=> spec.ruBlock = {}
         /\ \A ru \in spec.ruBlock :
              ru \in RuBlocks /\ spec.ruBlock = {ru}
              /\ \E s : x.submitted = {s} /\ s.event = SubmittedOf(Sys, ru)
<1> DEFINE sys == Sys
           S == Sightings(sys, BlockOf(spec))
<1>1. /\ pair \in Pairs /\ sys = pair.sys /\ Sound(sys, spec) /\ h \in Nat
      /\ spec.number = sys.host.deployHeight + h /\ x = ExtractOf(sys, spec)
  BY DEF IsFollowed, Sys
<1> HIDE DEF sys, S
<1>2. /\ ExtractOf(sys, spec).enters = FoundOf(sys, spec, "enter")
      /\ ExtractOf(sys, spec).enterTokens = FoundOf(sys, spec, "enterToken")
      /\ ExtractOf(sys, spec).transacts = FoundOf(sys, spec, "transact")
  BY <1>1, FoundFields
<1>3. \A k : FoundOf(sys, spec, k) \in Seq(S)
  BY <1>1, KindShown DEF S
<1>4. \A k : IsList(FoundOf(sys, spec, k), Len(FoundOf(sys, spec, k)))
  <2> TAKE k
  <2> DEFINE s == FoundOf(sys, spec, k)
  <2>1. s \in Seq(S)
    BY <1>3
  <2> HIDE DEF s
  <2>2. IsList(s, Len(s))
    BY ONLY <2>1, ListOf
  <2> QED
    BY <2>2 DEF s
<1>5. /\ SubmitsOf(sys, ExtractOf(sys, spec), spec)
      /\ ExtractOf(sys, spec).ruHeight = h /\ ExtractOf(sys, spec).hostBlock = BlockOf(spec)
  BY <1>1, ExtractConforms
<1>6. HasNoBlock(spec) \/ \E ru \in RuBlocks : HasBlock(sys, spec, ru)
  BY <1>1 DEF Sound
<1>7. ASSUME NEW ru \in spec.ruBlock
      PROVE  /\ ru \in RuBlocks /\ spec.ruBlock = {ru}
             /\ \E s : x.submitted = {s} /\ s.event = SubmittedOf(sys, ru)
  <2>1. ru \in RuBlocks /\ HasBlock(sys, spec, ru)
    BY <1>6 DEF HasBlock, HasNoBlock
  <2> QED
    BY <1>1, <1>5, <2>1 DEF SubmitsOf, HasBlock
<1>8. x.submitted = {} <=> spec.ruBlock = {}
  <2>1. CASE HasNoBlock(spec)
    <3>1. x.submitted = {}
      BY <1>1, <1>5, <2>1 DEF SubmitsOf
    <3> QED
      BY <2>1, <3>1 DEF HasNoBlock
  <2>2. ASSUME NEW ru \in spec.ruBlock
        PROVE  x.submitted # {}
    BY <1>7
  <2>3. CASE \E ru \in RuBlocks : HasBlock(sys, spec, ru)
    <3>1. spec.ruBlock # {}
      BY <2>3 DEF HasBlock
    <3> QED
      BY <2>2, <3>1
  <2> QED
    BY <1>6, <2>1, <2>3
<1> QED
  BY <1>1, <1>2, <1>4, <1>5, <1>7, <1>8 DEF sys

LEMMA MintsAre ==
  ASSUME NEW sys, NEW x, NEW m, IsList(x.enters, m), NEW n, IsList(x.enterTokens, n)
  PROVE  /\ IsList(Mints(sys, x, 0), m + n)
         /\ \A i \in 1..m : Mints(sys, x, 0)[i] =
              MintToken(sys.rollup.tokens.weth, Native, x.enters[i], i - 1)
         /\ \A i \in (m + 1)..(m + n) :
              Mints(sys, x, 0)[i] = MintEntered(sys, x.enterTokens[i - m], i - 1)
<1> DEFINE E(i) == MintToken(sys.rollup.tokens.weth, Native, x.enters[i], 0 + i - 1)
           T(i) == MintEntered(sys, x.enterTokens[i], 0 + Len(x.enters) + i - 1)
           s == [i \in 1..m |-> E(i)]
           t == [i \in 1..n |-> T(i)]
<1>1. Len(x.enters) = m /\ DOMAIN x.enters = 1..m /\ m \in Nat
  BY ListIs
<1>2. DOMAIN x.enterTokens = 1..n /\ n \in Nat
  BY ListIs
<1>3. Mints(sys, x, 0) = s \o t
  BY <1>1, <1>2 DEF Mints
<1>4. IsList(s, m) /\ IsList(t, n)
  BY <1>1, <1>2 DEF IsList
<1>5. \A i \in 1..m : s[i] = E(i) /\ 0 + i - 1 = i - 1
  BY <1>1
<1>6. \A i \in (m + 1)..(m + n) : i - m \in 1..n /\ 0 + Len(x.enters) + (i - m) - 1 = i - 1
  BY <1>1, <1>2
<1>7. \A i \in 1..n : t[i] = T(i)
  OBVIOUS
<1> HIDE DEF s, t
<1>8. /\ IsList(s \o t, m + n)
      /\ \A i \in 1..m : (s \o t)[i] = s[i]
      /\ \A i \in (m + 1)..(m + n) : (s \o t)[i] = t[i - m]
  <2>1. IsList(s, m)
    BY <1>4
  <2>2. IsList(t, n)
    BY <1>4
  <2>3. IsConcat(s \o t, s, m, t, n)
    BY ONLY <2>1, <2>2, ConcatLists
  <2> QED
    BY <2>3 DEF IsConcat
<1>9. \A i \in (m + 1)..(m + n) : t[i - m] = MintEntered(sys, x.enterTokens[i - m], i - 1)
  BY <1>6, <1>7
<1> QED
  BY <1>3, <1>5, <1>8, <1>9

LEMMA ListMapped ==
  ASSUME NEW s, NEW n, IsList(s, n), NEW t, DOMAIN t = DOMAIN s, t = [i \in DOMAIN t |-> t[i]]
  PROVE  IsList(t, n)
<1>1. DOMAIN s = 1..n /\ n \in Nat
  BY ListIs
<1> QED
  BY <1>1 DEF IsList

LEMMA UserPart ==
  ASSUME NEW x, NEW spec, NEW h, IsFollowed(x, spec, h)
  PROVE  \E a : /\ IsList(UserTxs(x), a) /\ IsList(UserSenders(x), a)
                /\ Processed(x) = UserTxs(x) \o MintTxs(x) \o TransactTxs(x)
                /\ Senders(x) = UserSenders(x) \o MintSenders(x) \o TransactSenders(x)
<1> DEFINE D == (CHOOSE s \in x.submitted : TRUE).event.blockDataHash
           u == [j \in DOMAIN D |-> UserTransaction(D[j])]
<1>1. /\ Processed(x) = FlattenSeq([i \in 1..Cardinality(x.submitted) |-> u])
                           \o MintTxs(x) \o TransactTxs(x)
      /\ Senders(x) = FlattenSeq([i \in 1..Cardinality(x.submitted) |-> D])
                         \o MintSenders(x) \o TransactSenders(x)
  BY DEF Processed, Senders, MintTxs, MintSenders, TransactTxs, TransactSenders
<1>2. /\ UserTxs(x) = IF x.submitted = {} THEN <<>> ELSE u
      /\ UserSenders(x) = IF x.submitted = {} THEN <<>> ELSE D
  BY DEF UserTxs, UserSenders
<1> HIDE DEF u, D
<1>3. CASE x.submitted = {}
  <2>1. UserTxs(x) = <<>> /\ UserSenders(x) = <<>>
    BY <1>2, <1>3
  <2>2. IsList(<<>>, 0)
    BY DEF IsList
  <2>3. /\ FlattenSeq([i \in 1..Cardinality(x.submitted) |-> u]) = <<>>
        /\ FlattenSeq([i \in 1..Cardinality(x.submitted) |-> D]) = <<>>
    BY <1>3, FlattenNone
  <2> QED
    BY <1>1, <2>1, <2>2, <2>3
<1>4. CASE x.submitted # {}
  <2>1. PICK ru \in RuBlocks :
          \E s : x.submitted = {s} /\ s.event = SubmittedOf(Sys, ru)
    BY <1>4, FollowedTypes
  <2>9. PICK s : x.submitted = {s} /\ s.event = SubmittedOf(Sys, ru)
    BY <2>1
  <2>2. D = ru.txs
    BY <2>9 DEF D, SubmittedOf
  <2>3. IsList(D, Len(D))
    <3>1. ru.txs \in Seq(Range(ru.txs))
      BY <2>1, FeedAssumption
    <3> DEFINE t == ru.txs
               R == Range(t)
    <3> HIDE DEF t, R
    <3>2. t \in Seq(R)
      BY <3>1 DEF t, R
    <3>3. IsList(t, Len(t))
      BY ONLY <3>2, ListOf
    <3> QED
      BY <2>2, <3>3 DEF t
  <2>4. IsList(u, Len(D))
    <3>1. DOMAIN u = DOMAIN D /\ u = [i \in DOMAIN u |-> u[i]]
      BY DEF u
    <3> QED
      BY <2>3, <3>1, ListMapped
  <2>5. /\ FlattenSeq([i \in 1..Cardinality(x.submitted) |-> u]) = u
        /\ FlattenSeq([i \in 1..Cardinality(x.submitted) |-> D]) = D
    BY <2>9, <2>3, <2>4, FlattenOne
  <2>6. UserTxs(x) = u /\ UserSenders(x) = D
    BY <1>2, <1>4
  <2> QED
    BY <1>1, <2>3, <2>4, <2>5, <2>6
<1> QED
  BY <1>3, <1>4

LEMMA ProcessedIs ==
  ASSUME NEW x, NEW spec, NEW h, IsFollowed(x, spec, h)
  PROVE  \E a, b, c : IsProcessed(x, a, b, c)
<1>1. PICK a : /\ IsList(UserTxs(x), a) /\ IsList(UserSenders(x), a)
               /\ Processed(x) = UserTxs(x) \o MintTxs(x) \o TransactTxs(x)
               /\ Senders(x) = UserSenders(x) \o MintSenders(x) \o TransactSenders(x)
  BY UserPart
<1> DEFINE m == Len(x.enters)
           n == Len(x.enterTokens)
           b == m + n
           c == Len(x.transacts)
           mints == Mints(Sys, x, 0)
           runs == Transacts(x, ToAlias)
<1>2. IsList(x.enters, m) /\ IsList(x.enterTokens, n) /\ IsList(x.transacts, c)
  BY FollowedTypes
<1>3. IsList(mints, b)
  BY <1>2, MintsAre
<1>4. IsList(MintTxs(x), b) /\ IsList(MintSenders(x), b)
  <2>1. /\ DOMAIN MintTxs(x) = DOMAIN mints
        /\ MintTxs(x) = [i \in DOMAIN MintTxs(x) |-> MintTxs(x)[i]]
        /\ DOMAIN MintSenders(x) = DOMAIN mints
        /\ MintSenders(x) = [i \in DOMAIN MintSenders(x) |-> MintSenders(x)[i]]
    BY DEF MintTxs, MintSenders
  <2> HIDE DEF mints, b
  <2> QED
    BY <1>3, <2>1, ListMapped
<1>5. IsList(runs, c)
  <2>1. DOMAIN runs = DOMAIN x.transacts /\ runs = [i \in DOMAIN runs |-> runs[i]]
    BY DEF Transacts
  <2> HIDE DEF runs, c
  <2> QED
    BY <1>2, <2>1, ListMapped
<1>6. IsList(TransactTxs(x), c) /\ IsList(TransactSenders(x), c)
  <2>1. /\ DOMAIN TransactTxs(x) = DOMAIN runs
        /\ TransactTxs(x) = [i \in DOMAIN TransactTxs(x) |-> TransactTxs(x)[i]]
        /\ DOMAIN TransactSenders(x) = DOMAIN runs
        /\ TransactSenders(x) = [i \in DOMAIN TransactSenders(x) |-> TransactSenders(x)[i]]
    BY DEF TransactTxs, TransactSenders
  <2> HIDE DEF runs, c
  <2> QED
    BY <1>5, <2>1, ListMapped
<1> HIDE DEF m, n, c, mints, runs
<1>7. ASSUME NEW u, NEW v, NEW w, IsList(u, a), IsList(v, b), IsList(w, c)
      PROVE  IsList(u \o v \o w, a + b + c)
  <2> HIDE DEF b
  <2>1. IsConcat(u \o v, u, a, v, b)
    BY ONLY <1>7, ConcatLists
  <2>2. IsList(u \o v, a + b)
    BY <2>1 DEF IsConcat
  <2>3. IsConcat((u \o v) \o w, u \o v, a + b, w, c)
    BY ONLY <1>7, <2>2, ConcatLists
  <2> QED
    BY <2>3 DEF IsConcat
<1>8. IsList(Processed(x), a + b + c) /\ IsList(Senders(x), a + b + c)
  <2> HIDE DEF b
  <2> QED
    BY <1>1, <1>4, <1>6, <1>7
<1>9. IsProcessed(x, a, b, c)
  BY <1>1, <1>3, <1>4, <1>5, <1>6, <1>8 DEF IsProcessed, mints, runs, m, n, c
<1> QED
  BY <1>9

-----------------------------------------------------------------------------
(* The block of an extract on its parent.                                  *)
SignedTxs(sys, x) ==
  LET mints == Mints(sys, x, 0)
      txs == UserTxs(x) \o [i \in DOMAIN mints |-> MakeTransaction(mints[i])] \o TransactTxs(x)
      senders == UserSenders(x) \o [i \in DOMAIN mints |-> EvmSender(mints[i])]
                   \o TransactSenders(x)
  IN  [i \in DOMAIN txs |-> [tx |-> txs[i], signer |-> senders[i]]]

LEMMA SignedAre ==
  ASSUME NEW x, NEW spec, NEW h, IsFollowed(x, spec, h)
  PROVE  SignedTxs(Sys, x)
           = [i \in DOMAIN Processed(x) |-> [tx |-> Processed(x)[i], signer |-> Senders(x)[i]]]
<1>1. /\ Processed(x) = UserTxs(x) \o MintTxs(x) \o TransactTxs(x)
      /\ Senders(x) = UserSenders(x) \o MintSenders(x) \o TransactSenders(x)
  BY UserPart
<1> QED
  BY ONLY <1>1 DEF SignedTxs, MintTxs, MintSenders

IsBlockOn(b, x, parent, prev) ==
  LET header == b.block.header
  IN  /\ b.hostHeight = x.hostBlock.number
      /\ header.number = x.ruHeight
      /\ header.parentHash = HashOf(parent)
      /\ header.gasLimit = FromHeader(x, parent, "gasLimit", "gasLimit")
      /\ header.beneficiary = FromHeader(x, parent, "beneficiary", "rewardAddress")
      /\ header.timestamp = HostTime(x.hostBlock.number)
      /\ b.block.txs = SignedTxs(Sys, x)
      /\ b.journal.meta.prevJournalHash = prev

LEMMA HeaderIsValid ==
  ASSUME NEW x, NEW parent
  PROVE  ConstructHeaderV1(x, parent) = {BaseHeader(x, parent)}
<1> DEFINE h == BaseHeader(x, parent)
<1>1. \A f \in SharedDefaults \cup Roots : h[f] = DefaultHeader[f]
  <2>1. h["ommersHash"] = DefaultHeader["ommersHash"]
    BY ONLY SMT DEF BaseHeader, DefaultHeader
  <2>2. h["stateRoot"] = DefaultHeader["stateRoot"]
    BY ONLY SMT DEF BaseHeader, DefaultHeader
  <2>3. h["withdrawalsRoot"] = DefaultHeader["withdrawalsRoot"]
    BY ONLY SMT DEF BaseHeader, DefaultHeader
  <2>4. h["blobGasUsed"] = DefaultHeader["blobGasUsed"]
    BY ONLY SMT DEF BaseHeader, DefaultHeader
  <2>5. h["excessBlobGas"] = DefaultHeader["excessBlobGas"]
    BY ONLY SMT DEF BaseHeader, DefaultHeader
  <2>6. h["requestsHash"] = DefaultHeader["requestsHash"]
    BY ONLY SMT DEF BaseHeader, DefaultHeader
  <2>7. h["extraData"] = DefaultHeader["extraData"]
    BY ONLY SMT DEF BaseHeader, DefaultHeader
  <2>8. h["transactionsRoot"] = DefaultHeader["transactionsRoot"]
    BY ONLY SMT DEF BaseHeader, DefaultHeader
  <2>9. h["receiptsRoot"] = DefaultHeader["receiptsRoot"]
    BY ONLY SMT DEF BaseHeader, DefaultHeader
  <2> HIDE DEF h
  <2> QED
    BY ONLY <2>1, <2>2, <2>3, <2>4, <2>5, <2>6, <2>7, <2>8, <2>9 DEF SharedDefaults, Roots
<1>2. DefaultHeader.transactionsRoot = EmptyRoot /\ DefaultHeader.receiptsRoot = EmptyRoot
  BY DEF DefaultHeader
<1> HIDE DEF h
<1>3. NotDefault(h) = {}
  BY <1>1 DEF NotDefault
<1>4. RootsNotEmpty(h) = {}
  <2>1. \A f \in Roots : h[f] = EmptyRoot
    BY <1>1, <1>2 DEF Roots
  <2> QED
    BY <2>1 DEF RootsNotEmpty
<1> QED
  BY <1>3, <1>4 DEF ConstructHeaderV1, HeaderV1, h

LEMMA FinishIs ==
  ASSUME NEW x, NEW spec, NEW h, IsFollowed(x, spec, h), NEW parent, NEW prev
  PROVE  \E b : Finish(x, parent, prev) = {b} /\ IsBlockOn(b, x, parent, prev)
<1> DEFINE header == BaseHeader(x, parent)
           txs == Processed(x)
           block == [header |-> header,
                     txs |-> [i \in DOMAIN txs |-> [tx |-> txs[i], signer |-> Senders(x)[i]]]]
           b == [hostHeight |-> x.hostBlock.number, block |-> block,
                 journal |-> MakeHostJournal(x.hostBlock.number, prev, header)]
<1>1. Len(txs) = Len(Senders(x))
  <2>1. PICK k, m, n : IsProcessed(x, k, m, n)
    BY ProcessedIs
  <2>2. IsList(txs, k + m + n) /\ IsList(Senders(x), k + m + n)
    BY <2>1 DEF IsProcessed
  <2> HIDE DEF txs
  <2> QED
    BY <2>2, ListIs
<1>2. RecoverUnchecked(header, txs, Senders(x)) = {block}
  BY <1>1 DEF RecoverUnchecked
<1>3. UNION {RecoverUnchecked(k, txs, Senders(x)) : k \in ConstructHeaderV1(x, parent)} = {block}
  <2>1. ConstructHeaderV1(x, parent) = {header}
    BY HeaderIsValid
  <2> HIDE DEF header, txs, block
  <2> QED
    BY <1>2, <2>1
<1>4. block.header = header
  OBVIOUS
<1>5. Finish(x, parent, prev) = {b}
  <2> HIDE DEF header, block, txs
  <2>1. Finish(x, parent, prev)
          = {[hostHeight |-> x.hostBlock.number, block |-> c,
              journal |-> MakeHostJournal(x.hostBlock.number, prev, c.header)] : c \in {block}}
    BY <1>3 DEF Finish, txs
  <2> QED
    BY <1>4, <2>1
<1>6. IsBlockOn(b, x, parent, prev)
  <2>1. /\ header.number = x.ruHeight /\ header.parentHash = HashOf(parent)
        /\ header.gasLimit = FromHeader(x, parent, "gasLimit", "gasLimit")
        /\ header.beneficiary = FromHeader(x, parent, "beneficiary", "rewardAddress")
        /\ header.timestamp = HostTime(x.hostBlock.number)
    BY DEF BaseHeader, DefaultHeader
  <2> HIDE DEF header
  <2>2. b.block.header = header /\ b.hostHeight = x.hostBlock.number
        /\ b.block.txs = block.txs /\ b.journal.meta.prevJournalHash = prev
    BY DEF MakeHostJournal, JournalMeta
  <2>3. block.txs = SignedTxs(Sys, x)
    BY SignedAre
  <2> HIDE DEF b, block
  <2> QED
    BY <2>1, <2>2, <2>3 DEF IsBlockOn
<1> QED
  BY <1>5, <1>6

-----------------------------------------------------------------------------
(* A rollup of n blocks, those of the first n extracts.                    *)
ParentAt(blocks, i) == IF i = 1 THEN Genesis ELSE blocks[i - 1].block.header
PrevAt(blocks, i) == IF i = 1 THEN <<>> ELSE JournalHash(blocks[i - 1].journal)
Built(xs, blocks, n) ==
  /\ IsList(blocks, n)
  /\ \A i \in 1..n : IsBlockOn(blocks[i], xs[i], ParentAt(blocks, i), PrevAt(blocks, i))

Executable(x) == ~MintPanics(Sys, x) /\ \E spec, h : IsFollowed(x, spec, h)

LEMMA BuiltPrefix ==
  ASSUME NEW xs, NEW ys, NEW blocks, NEW n, Built(xs, blocks, n), NEW m \in 0..n,
         \A i \in 1..m : ys[i] = xs[i]
  PROVE  Built(ys, SubSeq(blocks, 1, m), m)
<1> DEFINE kept == SubSeq(blocks, 1, m)
<1>1. IsList(blocks, n) /\ n \in Nat /\ m \in Nat
      /\ \A i \in 1..n : IsBlockOn(blocks[i], xs[i], ParentAt(blocks, i), PrevAt(blocks, i))
  BY DEF Built, IsList
<1>2. kept = [i \in 1..m |-> blocks[i]]
  <2>1. SubSeq(blocks, 1, m) = [i \in 1..(1 + m - 1) |-> blocks[i + 1 - 1]]
    BY <1>1
  <2>2. 1 + m - 1 = m /\ \A i \in 1..m : i + 1 - 1 = i
    BY <1>1
  <2> QED
    BY <2>1, <2>2
<1>3. IsList(kept, m)
  BY <1>1, <1>2 DEF IsList
<1> HIDE DEF kept
<1>4. ASSUME NEW i \in 1..m
      PROVE  IsBlockOn(kept[i], ys[i], ParentAt(kept, i), PrevAt(kept, i))
  <2>1. i \in 1..n /\ (i # 1 => i - 1 \in 1..m)
    BY <1>1
  <2>2. kept[i] = blocks[i] /\ ys[i] = xs[i] /\ (i # 1 => kept[i - 1] = blocks[i - 1])
    BY <1>2, <2>1
  <2>3. ParentAt(kept, i) = ParentAt(blocks, i) /\ PrevAt(kept, i) = PrevAt(blocks, i)
    BY <2>2 DEF ParentAt, PrevAt
  <2> QED
    BY <1>1, <2>1, <2>2, <2>3
<1> QED
  BY <1>3, <1>4 DEF Built, kept

LEMMA ExecuteOnBuilds ==
  ASSUME NEW xs, NEW blocks, NEW n, Built(xs, blocks, n), Executable(xs[n + 1])
  PROVE  Built(xs, ExecuteOn(blocks, xs[n + 1]), n + 1)
<1> DEFINE x == xs[n + 1]
           m == n + 1
           parent == ParentAt(blocks, m)
           prev == PrevAt(blocks, m)
<1>1. IsList(blocks, n) /\ n \in Nat /\ m \in Nat /\ m - 1 = n /\ Len(blocks) = n
      /\ DOMAIN blocks = 1..n
      /\ \A i \in 1..n : IsBlockOn(blocks[i], xs[i], ParentAt(blocks, i), PrevAt(blocks, i))
  BY ListIs DEF Built
<1>2. PICK b : Finish(x, parent, prev) = {b} /\ IsBlockOn(b, x, parent, prev)
  BY FinishIs DEF Executable
<1>3. /\ parent = IF blocks = <<>> THEN Genesis ELSE Last(blocks).block.header
      /\ prev = IF blocks = <<>> THEN <<>> ELSE JournalHash(Last(blocks).journal)
  <2>1. blocks = <<>> <=> m = 1
    <3>1. Len(<<>>) = 0 /\ DOMAIN <<>> = 1..0
      OBVIOUS
    <3>2. n = 0 => blocks = <<>>
      <4>1. ASSUME n = 0 PROVE blocks = <<>>
        <5>1. blocks = [i \in 1..0 |-> blocks[i]]
          BY <1>1, <4>1 DEF IsList
        <5>2. 1..0 = {}
          OBVIOUS
        <5> QED
          BY <5>1, <5>2
      <4> QED
        BY <4>1
    <3> QED
      BY <1>1, <3>1, <3>2
  <2>2. Last(blocks) = blocks[m - 1]
    BY <1>1 DEF Last
  <2> QED
    BY <2>1, <2>2 DEF ParentAt, PrevAt
<1>4. ExecuteOn(blocks, x) = blocks \o <<b>>
  <2>1. ~MintPanics(Sys, x)
    BY DEF Executable
  <2> HIDE DEF x, parent, prev
  <2>2. ExecuteOn(blocks, x) = blocks \o SetToSeq(Finish(x, parent, prev))
    BY <1>3, <2>1 DEF ExecuteOn
  <2>3. SetToSeq({b}) = <<b>>
    BY OneToSeq
  <2> QED
    BY <1>2, <2>2, <2>3
<1> DEFINE more == blocks \o <<b>>
<1>5. IsList(more, m) /\ more[m] = b /\ \A i \in 1..n : more[i] = blocks[i]
  <2> DEFINE t == <<b>>
  <2>1. IsList(t, 1) /\ t[1] = b
    BY DEF IsList
  <2> HIDE DEF t
  <2>2. IsConcat(blocks \o t, blocks, n, t, 1)
    BY <1>1, <2>1, ConcatLists
  <2>3. m \in (n + 1)..(n + 1) /\ m - n = 1
    BY <1>1
  <2> QED
    BY <2>1, <2>2, <2>3 DEF IsConcat, t
<1> HIDE DEF more
<1>6. ASSUME NEW i \in 1..m
      PROVE  IsBlockOn(more[i], xs[i], ParentAt(more, i), PrevAt(more, i))
  <2>1. i # 1 => i - 1 \in 1..n
    BY <1>1
  <2>2. ParentAt(more, i) = ParentAt(blocks, i) /\ PrevAt(more, i) = PrevAt(blocks, i)
    BY <1>5, <2>1 DEF ParentAt, PrevAt
  <2>3. CASE i \in 1..n
    BY <1>1, <1>5, <2>2, <2>3
  <2>4. CASE i = m
    BY <1>2, <1>5, <2>2, <2>4
  <2>5. i \in 1..n \/ i = m
    BY <1>1
  <2> QED
    BY <2>3, <2>4, <2>5
<1> QED
  BY <1>4, <1>5, <1>6 DEF Built, more

(* There is a function along the extracts ys that starts with blocks.      *)
IsAfter(h, blocks, ys, n) ==
  h = [i \in 0..n |-> IF i = 0 THEN blocks ELSE ExecuteOn(h[i - 1], ys[i])]

LEMMA AfterExists ==
  ASSUME NEW blocks, NEW ys, NEW n \in Nat
  PROVE  \E h : IsAfter(h, blocks, ys, n)
<1> DEFINE T == {m \in 0..n : \E h : IsAfter(h, blocks, ys, m)}
<1>1. 0 \in T
  <2> DEFINE h == [i \in 0..0 |-> blocks]
  <2>1. h = [i \in 0..0 |-> IF i = 0 THEN blocks ELSE ExecuteOn(h[i - 1], ys[i])]
    OBVIOUS
  <2>2. IsAfter(h, blocks, ys, 0)
    BY <2>1 DEF IsAfter
  <2> HIDE DEF h
  <2> QED
    BY <2>2
<1>2. ASSUME NEW m \in 0..(n - 1), m \in T
      PROVE  m + 1 \in T
  <2>1. PICK h : IsAfter(h, blocks, ys, m)
    BY <1>2
  <2> DEFINE k == m + 1
             next == ExecuteOn(h[m], ys[k])
             g == [i \in 0..k |-> IF i = k THEN next ELSE h[i]]
  <2>2. m \in Nat /\ k \in Nat /\ k \in 0..n /\ k # 0 /\ k - 1 = m
    OBVIOUS
  <2>3. \A i \in 0..m : h[i] = IF i = 0 THEN blocks ELSE ExecuteOn(h[i - 1], ys[i])
    BY <2>1 DEF IsAfter
  <2>4. \A i \in 0..k : g[i] = IF i = k THEN next ELSE h[i]
    OBVIOUS
  <2>5. \A i \in 0..k : i = k \/ (i \in 0..m /\ i # k /\ (i # 0 => i - 1 \in 0..k /\ i - 1 # k))
    BY <2>2
  <2>6. m \in 0..k /\ m # k
    BY <2>2
  <2>a. g = [i \in 0..k |-> g[i]]
    OBVIOUS
  <2> HIDE DEF g, next, k
  <2>7. g[m] = h[m]
    BY <2>4, <2>6
  <2>8. next = ExecuteOn(g[k - 1], ys[k])
    BY <2>2, <2>7 DEF next
  <2>9. \A i \in 0..k : g[i] = IF i = 0 THEN blocks ELSE ExecuteOn(g[i - 1], ys[i])
    <3> TAKE i \in 0..k
    <3>1. CASE i = k
      BY <2>2, <2>4, <2>8, <3>1
    <3>2. CASE i \in 0..m /\ i # k /\ i = 0
      BY <2>3, <2>4, <3>2
    <3>3. CASE i \in 0..m /\ i # k /\ i # 0 /\ i - 1 \in 0..k /\ i - 1 # k
      BY <2>3, <2>4, <3>3
    <3> QED
      BY <2>5, <3>1, <3>2, <3>3
  <2>10. IsAfter(g, blocks, ys, k)
    <3>1. g = [i \in 0..k |-> IF i = 0 THEN blocks ELSE ExecuteOn(g[i - 1], ys[i])]
      BY <2>9, <2>a, Zenon
    <3> QED
      BY <3>1 DEF IsAfter
  <2> QED
    BY <2>2, <2>10 DEF k
<1> HIDE DEF T
<1>3. n \in T
  <2>1. \A m \in 0..n : m \in T
    BY <1>1, <1>2, Induction
  <2> QED
    BY <2>1
<1> QED
  BY <1>3 DEF T

LEMMA ExtractsListed ==
  ASSUME NEW sys, sys.host.deployHeight \in Nat, NEW specs \in Seq(HostBlock), NEW k \in Nat,
         Consecutive(specs, sys.host.deployHeight + k), NEW n, n = Len(specs)
  PROVE  IsList(Ex(sys, specs), n - Skipped(k, n))
<1> DEFINE q == n - Skipped(k, n)
<1>1. Ex(sys, specs) = [i \in 1..q |-> ExtractOf(sys, specs[i + Skipped(k, n)])]
  BY ExtractsAre DEF AreExtracts
<1>2. q \in Nat
  <2>1. n \in Nat
    OBVIOUS
  <2> QED
    BY <2>1 DEF Skipped
<1> DEFINE xs == Ex(sys, specs)
<1> HIDE DEF q, xs
<1>3. xs = [i \in 1..q |-> ExtractOf(sys, specs[i + Skipped(k, n)])]
  BY <1>1 DEF xs
<1>4. xs = [i \in 1..q |-> xs[i]]
  BY <1>3
<1> QED
  BY <1>2, <1>4 DEF IsList, q, xs

LEMMA ExecuteAllBuilds ==
  ASSUME NEW xs, NEW blocks, NEW m, Built(xs, blocks, m), NEW ys, NEW n \in Nat, Len(ys) = n,
         \A i \in 1..n : ys[i] = xs[m + i] /\ Executable(xs[m + i])
  PROVE  Built(xs, ExecuteAll(blocks, ys), m + n)
<1> DEFINE after == CHOOSE h : IsAfter(h, blocks, ys, n)
<1>1. ExecuteAll(blocks, ys) = after[n]
  BY DEF ExecuteAll, IsAfter
<1>2. IsAfter(after, blocks, ys, n)
  BY AfterExists
<1> HIDE DEF after
<1>3. \A i \in 0..n : after[i] = IF i = 0 THEN blocks ELSE ExecuteOn(after[i - 1], ys[i])
  BY <1>2 DEF IsAfter
<1>4. m \in Nat
  BY DEF Built, IsList
<1> DEFINE T == {i \in 0..n : Built(xs, after[i], m + i)}
<1>5. 0 \in T
  <2>1. after[0] = blocks /\ m + 0 = m
    BY <1>3, <1>4
  <2> QED
    BY <2>1
<1>6. ASSUME NEW i \in 0..(n - 1), i \in T
      PROVE  i + 1 \in T
  <2>1. /\ i + 1 \in 0..n /\ i + 1 \in 1..n /\ i + 1 # 0
        /\ (i + 1) - 1 = i /\ m + (i + 1) = (m + i) + 1
    BY <1>4
  <2>2. after[i + 1] = ExecuteOn(after[i], xs[(m + i) + 1]) /\ Executable(xs[(m + i) + 1])
    BY <1>3, <2>1
  <2>3. Built(xs, after[i], m + i)
    BY <1>6
  <2> DEFINE l == m + i
  <2> HIDE DEF l, T
  <2>4. Built(xs, ExecuteOn(after[i], xs[l + 1]), l + 1)
    BY <2>2, <2>3, ExecuteOnBuilds DEF l
  <2> QED
    BY <2>1, <2>2, <2>4 DEF T, l
<1>7. n \in T
  <2> HIDE DEF T
  <2>1. \A i \in 0..n : i \in T
    BY <1>5, <1>6, Induction
  <2> QED
    BY <2>1
<1> QED
  BY <1>1, <1>7

-----------------------------------------------------------------------------
(* Every extract that is followed has been executed on the one before it.  *)
RollupInv == FeedInv /\ Built(followed, rollup, Len(followed))

LEMMA RollupInitInv == RollupInit => RollupInv
<1> SUFFICES ASSUME RollupInit PROVE RollupInv
  OBVIOUS
<1>1. FeedInv
  BY FeedInitInv DEF RollupInit
<1>2. Len(followed) = 0 /\ rollup = <<>>
  BY DEF RollupInit, FeedInit
<1>3. IsList(<<>>, 0) /\ \A i \in 1..0 : FALSE
  BY DEF IsList
<1> QED
  BY <1>1, <1>2, <1>3 DEF RollupInv, Built

LEMMA KeptExecutable ==
  ASSUME NEW chain, NEW kept, IsKept(pair, chain, kept), NEW i \in DOMAIN kept
  PROVE  Executable(kept[i])
<1>1. ~MintPanics(Sys, kept[i])
  BY DepositsHavePlaces DEF Sys
<1>2. IsFollowed(kept[i], chain[i + 1], i)
  BY DEF IsKept, IsFollowed, Sys
<1> QED
  BY <1>1, <1>2 DEF Executable

LEMMA NotifyRollupInv ==
  ASSUME RollupInv, NotifyRollup
  PROVE  Built(followed', rollup', Len(followed'))
<1> DEFINE sys == pair.sys
<1>1. PICK k \in 0..Len(canonical) :
        LET kept == SubSeq(canonical, 1, Len(canonical) - k)
            old == SubSeq(canonical, Len(kept) + 1, Len(canonical))
            new == Numbered([i \in DOMAIN fresh |->
                               [fresh[i] EXCEPT !.number = FirstNumber + Len(kept)]])
            left == Len(followed) - Len(Extracts(old))
        IN  /\ canonical' = kept \o new
            /\ followed' = SubSeq(followed, 1, left) \o Extracts(new)
            /\ notified' = Notification(old, new, SubSeq(followed, left + 1, Len(followed)))
  BY DEF NotifyRollup, Notify
<1> DEFINE kept == SubSeq(canonical, 1, Len(canonical) - k)
           old == SubSeq(canonical, Len(kept) + 1, Len(canonical))
           new == Numbered([i \in DOMAIN fresh |->
                              [fresh[i] EXCEPT !.number = sys.host.deployHeight + Len(kept)]])
           left == Len(followed) - Len(Ex(sys, old))
<1>2. \A specs : Extracts(specs) = Ex(sys, specs)
  BY DEF Extracts, Ex, Sys
<1>3. /\ canonical' = kept \o new
      /\ followed' = SubSeq(followed, 1, left) \o Ex(sys, new)
      /\ notified' = Notification(old, new, SubSeq(followed, left + 1, Len(followed)))
  BY <1>1, <1>2 DEF FirstNumber, Sys
<1>4. AfterNotify(sys, canonical, followed, fresh, k)
  <2>1. /\ pair \in Pairs /\ Follows(sys, canonical, followed) /\ AllSound(sys, canonical)
        /\ fresh \in Seq(HostBlock) /\ AllSound(sys, fresh) /\ k \in 0..Len(canonical)
    BY DEF RollupInv, FeedInv
  <2>2. sys.host.deployHeight \in Nat
    BY <2>1, OfPair
  <2> QED
    BY <2>1, <2>2, NotifyKeeps
<1>5. /\ Follows(sys, kept \o new, SubSeq(followed, 1, left) \o Ex(sys, new))
      /\ AllSound(sys, kept \o new)
      /\ SubSeq(followed, left + 1, Len(followed)) = Ex(sys, old)
      /\ left = Above(Len(kept)) /\ left <= Len(followed)
  BY <1>4 DEF AfterNotify
<1> DEFINE m == Len(followed)
           xs == SubSeq(followed, 1, left) \o Ex(sys, new)
           n == Len(xs)
           ys == SubSeq(xs, left + 1, n)
<1>6. /\ left \in 0..m /\ m \in Nat /\ IsList(followed, m) /\ Built(followed, rollup, m)
      /\ Len(rollup) = m
  <2>1. Built(followed, rollup, m)
    BY DEF RollupInv
  <2>2. IsList(rollup, m)
    BY <2>1 DEF Built
  <2>3. Len(rollup) = m /\ m \in Nat
    BY <2>2, ListIs
  <2>4. Len(kept) \in Nat /\ left \in Nat
    <3>1. canonical \in Seq(HostBlock)
      BY DEF RollupInv, FeedInv, Follows
    <3>2. kept \in Seq(HostBlock)
      BY <3>1
    <3> HIDE DEF kept, left
    <3>3. Len(kept) \in Nat
      BY <3>2
    <3> QED
      BY <1>5, <3>3 DEF Above
  <2>5. IsList(followed, m)
    <3>1. followed = [i \in 1..Above(Len(canonical)) |-> ExtractOf(sys, canonical[i + 1])]
      BY DEF RollupInv, FeedInv, Follows
    <3>2. DOMAIN followed = 1..Above(Len(canonical)) /\ Above(Len(canonical)) = m
      BY FollowedIs DEF RollupInv, IsKept
    <3> HIDE DEF m
    <3> QED
      BY <2>3, <3>1, <3>2 DEF IsList
  <2> HIDE DEF left, m
  <2>6. left \in 0..m
    BY <1>5, <2>3, <2>4 DEF m
  <2> QED
    BY <2>1, <2>3, <2>5, <2>6
<1>7. Len(notified'.undone) = m - left /\ m - (m - left) = left
  <2>1. notified'.undone = SubSeq(followed, left + 1, Len(followed))
    BY <1>3 DEF Notification
  <2>2. notified'.undone = Ex(sys, old)
    BY <1>5, <2>1
  <2>3. Len(Ex(sys, old)) = m - left
    <3>1. Len(SubSeq(followed, left + 1, m)) = m - left
      <4>1. SubSeq(followed, left + 1, m)
              = [i \in 1..(1 + m - (left + 1)) |-> followed[i + (left + 1) - 1]]
        BY <1>6
      <4> DEFINE u == SubSeq(followed, left + 1, m)
                 d == m - left
      <4>2. 1 + m - (left + 1) = d /\ d \in Nat
        <5> HIDE DEF left, m
        <5> QED
          BY <1>6
      <4>3. u = [i \in 1..d |-> followed[i + (left + 1) - 1]]
        <5> HIDE DEF left, m, d
        <5> QED
          BY <4>1, <4>2
      <4> HIDE DEF u, d
      <4>4. Len(u) = d
        BY <4>2, <4>3
      <4> QED
        BY <4>4 DEF u, d
    <3> QED
      BY <1>5, <3>1
  <2> HIDE DEF left, m
  <2>4. m - (m - left) = left
    BY <1>6
  <2> QED
    BY <2>2, <2>3, <2>4
<1>8. IsKept(pair, kept \o new, xs) /\ followed' = xs
  <2>1. pair \in Pairs
    BY DEF RollupInv, FeedInv
  <2> HIDE DEF kept, new
  <2> QED
    BY <1>3, <1>5, <2>1, KeptIs
<1>9. n \in Nat /\ DOMAIN xs = 1..n /\ left <= n /\ (\A i \in 1..left : xs[i] = followed[i])
  <2> DEFINE s == SubSeq(followed, 1, left)
             t == Ex(sys, new)
  <2>1. IsList(s, left)
    <3>1. SubSeq(followed, 1, left) = [i \in 1..(1 + left - 1) |-> followed[i + 1 - 1]]
      BY <1>6
    <3> HIDE DEF left
    <3>2. 1 + left - 1 = left /\ left \in Nat
      BY <1>6
    <3> QED
      BY <3>1, <3>2 DEF IsList
  <2>2. \A i \in 1..left : s[i] = followed[i]
    <3>1. SubSeq(followed, 1, left) = [i \in 1..(1 + left - 1) |-> followed[i + 1 - 1]]
      BY <1>6
    <3> HIDE DEF left
    <3>2. 1 + left - 1 = left /\ \A i \in 1..left : i + 1 - 1 = i
      BY <1>6
    <3> QED
      BY <3>1, <3>2
  <2>3. IsList(t, Len(t))
    <3>1. new \in Seq(HostBlock) /\ Consecutive(new, sys.host.deployHeight + Len(kept))
          /\ Len(kept) \in Nat /\ sys.host.deployHeight \in Nat
      <4>1. pair \in Pairs /\ canonical \in Seq(HostBlock) /\ fresh \in Seq(HostBlock)
        BY DEF RollupInv, FeedInv, Follows
      <4>2. sys.host.deployHeight \in Nat
        BY <4>1, OfPair
      <4>3. Len(kept) \in Nat
        <5>1. kept \in Seq(HostBlock)
          BY <4>1
        <5> HIDE DEF kept
        <5> QED
          BY <5>1
      <4> DEFINE c == Len(kept)
      <4> HIDE DEF c
      <4>4. IsOnTop(sys, c, fresh, OnTop(sys, c, fresh))
        BY <4>1, <4>2, <4>3, OnTopIs DEF c
      <4>5. new = OnTop(sys, c, fresh)
        BY DEF OnTop, c
      <4> QED
        BY <4>2, <4>3, <4>4, <4>5 DEF IsOnTop, c
    <3> DEFINE c == Len(kept)
               l == Len(new)
               q == l - Skipped(c, l)
    <3> HIDE DEF new, kept, c, l
    <3>2. c \in Nat /\ l = Len(new) /\ Consecutive(new, sys.host.deployHeight + c)
      BY <3>1 DEF c, l
    <3>5. IsList(Ex(sys, new), q)
      BY <3>1, <3>2, ExtractsListed
    <3>6. IsList(t, q)
      BY <3>5
    <3> HIDE DEF t, q
    <3>7. Len(t) = q
      BY <3>6, ListIs
    <3> QED
      BY <3>6, <3>7
  <2> HIDE DEF s, t, left
  <2>4. IsConcat(s \o t, s, left, t, Len(t))
    BY ONLY <2>1, <2>3, ConcatLists
  <2>5. IsList(s \o t, left + Len(t))
    BY <2>4 DEF IsConcat
  <2>6. Len(s \o t) = left + Len(t) /\ DOMAIN (s \o t) = 1..(left + Len(t))
        /\ left \in Nat /\ Len(t) \in Nat
    BY <2>1, <2>3, <2>5, ListIs
  <2>7. xs = s \o t
    BY DEF s, t
  <2> HIDE DEF xs
  <2>8. n = left + Len(t) /\ n \in Nat /\ left <= n
    BY <2>6, <2>7
  <2> QED
    BY <2>2, <2>4, <2>6, <2>7, <2>8 DEF IsConcat
<1>10. rollup' = ExecuteAll(SubSeq(rollup, 1, left), ys)
  <2>1. rollup' = ExecuteAll(SubSeq(rollup, 1, Len(rollup) - Len(notified'.undone)),
                             SubSeq(followed', Len(rollup) - Len(notified'.undone) + 1, Len(followed')))
    BY DEF NotifyRollup
  <2> HIDE DEF left, m
  <2>2. Len(rollup) - Len(notified'.undone) = left
    BY <1>6, <1>7
  <2> HIDE DEF xs
  <2> QED
    BY <1>8, <2>1, <2>2
<1> HIDE DEF kept, new, old, left, m, xs
<1>11. /\ Len(ys) = n - left /\ n - left \in Nat /\ left \in Nat
       /\ \A i \in 1..(n - left) : ys[i] = xs[left + i] /\ left + i \in 1..n
  <2>1. ys = [i \in 1..(1 + n - (left + 1)) |-> xs[i + (left + 1) - 1]]
    BY <1>6, <1>9
  <2> HIDE DEF ys, n
  <2>2. 1 + n - (left + 1) = n - left /\ n - left \in Nat /\ left \in Nat
    BY <1>6, <1>9
  <2>3. \A i \in 1..(n - left) : i + (left + 1) - 1 = left + i /\ left + i \in 1..n
    BY <1>9, <2>2
  <2> QED
    BY <2>1, <2>2, <2>3
<1>12. Built(xs, SubSeq(rollup, 1, left), left)
  BY <1>6, <1>9, BuiltPrefix
<1>13. \A i \in 1..(n - left) : ys[i] = xs[left + i] /\ Executable(xs[left + i])
  BY <1>8, <1>9, <1>11, KeptExecutable
<1>14. Built(xs, ExecuteAll(SubSeq(rollup, 1, left), ys), left + (n - left))
  <2> DEFINE first == SubSeq(rollup, 1, left)
             d == n - left
  <2> HIDE DEF ys, n, first, d
  <2>1. Len(ys) = d /\ d \in Nat /\ \A i \in 1..d : ys[i] = xs[left + i] /\ Executable(xs[left + i])
    BY <1>11, <1>13 DEF d
  <2>2. Built(xs, first, left)
    BY <1>12 DEF first
  <2>3. Built(xs, ExecuteAll(first, ys), left + d)
    BY ONLY <2>1, <2>2, ExecuteAllBuilds
  <2> QED
    BY <2>3 DEF first, d
<1>15. left + (n - left) = n
  <2> HIDE DEF n
  <2> QED
    BY <1>9, <1>11
<1> QED
  BY <1>8, <1>10, <1>14, <1>15

LEMMA RollupNextInv == RollupInv /\ [RollupNext]_rollupVars => RollupInv'
<1> SUFFICES ASSUME RollupInv, [RollupNext]_rollupVars PROVE RollupInv'
  OBVIOUS
<1>1. FeedInv'
  <2>1. [FeedNext]_feedVars
    BY DEF RollupNext, NotifyRollup, FeedNext, rollupVars
  <2> QED
    BY <2>1, FeedNextInv DEF RollupInv
<1>2. CASE NotifyRollup
  <2>1. Built(followed', rollup', Len(followed'))
    BY <1>2, NotifyRollupInv
  <2>2. pair' = pair
    BY <1>2 DEF NotifyRollup, Notify
  <2> QED
    BY <1>1, <2>1, <2>2 DEF RollupInv, Built, IsBlockOn, Sys, PrevAt, ParentAt
<1>3. CASE UNCHANGED <<pair, followed, rollup>>
  <2>1. Built(followed, rollup, Len(followed))'
    BY <1>3 DEF RollupInv, Built, IsBlockOn, Sys, PrevAt, ParentAt
  <2> QED
    BY <1>1, <2>1 DEF RollupInv
<1>4. NotifyRollup \/ UNCHANGED <<pair, followed, rollup>>
  <2>1. CASE UNCHANGED rollupVars
    BY <2>1 DEF rollupVars, feedVars
  <2>2. CASE RollupNext
    <3> USE <2>2
    <3>1. CASE Enter /\ UNCHANGED rollup
      BY <3>1 DEF Enter, Emit
    <3>2. CASE EnterToken /\ UNCHANGED rollup
      BY <3>2 DEF EnterToken, Emit
    <3>3. CASE Transact /\ UNCHANGED rollup
      BY <3>3 DEF Transact, Emit
    <3>4. CASE Fill /\ UNCHANGED rollup
      BY <3>4 DEF Fill, Emit
    <3>5. CASE Ignored /\ UNCHANGED rollup
      BY <3>5 DEF Ignored, Emit
    <3>6. CASE OtherLog /\ UNCHANGED rollup
      BY <3>6 DEF OtherLog, Emit
    <3>7. CASE SubmitBlock /\ UNCHANGED rollup
      BY <3>7 DEF SubmitBlock
    <3>8. CASE CommitBlock /\ UNCHANGED rollup
      BY <3>8 DEF CommitBlock
    <3> QED
      BY <3>1, <3>2, <3>3, <3>4, <3>5, <3>6, <3>7, <3>8 DEF RollupNext
  <2> QED
    BY <2>1, <2>2
<1> QED
  BY <1>2, <1>3, <1>4

(* The rollup is what executing the extracts that are followed gives.      *)
THEOREM RollupInvariant == RollupSpec => []RollupInv
<1>1. RollupInit => RollupInv
  BY RollupInitInv
<1>2. RollupInv /\ [RollupNext]_rollupVars => RollupInv'
  BY RollupNextInv
<1> QED
  BY <1>1, <1>2, PTL DEF RollupSpec

(* The rollup's steps are the feed's, with blocks executed.                *)
THEOREM RollupFollowsFeed == RollupSpec => FeedSpec
<1>1. RollupInit => FeedInit
  BY DEF RollupInit
<1>2. [RollupNext]_rollupVars => [FeedNext]_feedVars
  BY DEF RollupNext, NotifyRollup, FeedNext, rollupVars
<1> QED
  BY <1>1, <1>2, PTL DEF RollupSpec, FeedSpec

-----------------------------------------------------------------------------
SubmittedUpTo(chain, i) == {j \in 2..(i + 1) : chain[j].ruBlock # {}}

(* The limit and the beneficiary of a header are those last submitted.     *)
Inherits(chain, header, i) ==
  \/ /\ SubmittedUpTo(chain, i) = {}
     /\ header.gasLimit = RuGenesis.gasLimit
     /\ header.beneficiary = RuGenesis.coinbase
  \/ /\ SubmittedUpTo(chain, i) # {}
     /\ \E ru \in RuBlocks :
          /\ chain[Max(SubmittedUpTo(chain, i))].ruBlock = {ru}
          /\ header.gasLimit = SubmittedOf(Sys, ru).gasLimit
          /\ header.beneficiary = SubmittedOf(Sys, ru).rewardAddress

LEMMA HeaderInherits ==
  ASSUME NEW chain, NEW parent, NEW header, NEW n \in Nat, NEW x, NEW i, i = n + 1,
         Inherits(chain, parent, n), IsFollowed(x, chain[i + 1], i),
         header.gasLimit = FromHeader(x, parent, "gasLimit", "gasLimit"),
         header.beneficiary = FromHeader(x, parent, "beneficiary", "rewardAddress")
  PROVE  Inherits(chain, header, i)
<1> DEFINE at == SubmittedUpTo(chain, n)
           top == i + 1
           spec == chain[top]
<1>1. /\ x.submitted = {} <=> spec.ruBlock = {}
      /\ \A ru \in spec.ruBlock :
           ru \in RuBlocks /\ spec.ruBlock = {ru}
           /\ \E s : x.submitted = {s} /\ s.event = SubmittedOf(Sys, ru)
  BY FollowedTypes
<1>2. top \in 2..top /\ i \in Nat /\ (\A j \in 2..(n + 1) : j <= top) /\ top \in Int
      /\ 2..top = 2..(n + 1) \cup {top}
  OBVIOUS
<1>3. SubmittedUpTo(chain, i) = IF spec.ruBlock = {} THEN at ELSE at \cup {top}
  BY <1>2 DEF SubmittedUpTo
<1> HIDE DEF spec
<1>4. CASE spec.ruBlock = {}
  <2>1. SubmittedUpTo(chain, i) = at
    BY <1>3, <1>4
  <2>2. RuHeader(x) = {}
    BY <1>1, <1>4 DEF RuHeader
  <2>3. header.gasLimit = parent.gasLimit /\ header.beneficiary = parent.beneficiary
    BY <2>2 DEF FromHeader
  <2> QED
    BY <2>1, <2>3 DEF Inherits
<1>5. CASE spec.ruBlock # {}
  <2>1. PICK ru \in spec.ruBlock : TRUE
    BY <1>5
  <2>2. PICK s : x.submitted = {s} /\ s.event = SubmittedOf(Sys, ru)
    BY <1>1, <2>1
  <2> DEFINE h == [hostBlockNumber |-> x.hostBlock.number, gasLimit |-> s.event.gasLimit,
                   rewardAddress |-> s.event.rewardAddress,
                   blockDataHash |-> s.event.blockDataHash]
  <2>3. RuHeader(x) = {h}
    BY <2>2 DEF RuHeader
  <2>4. header.gasLimit = SubmittedOf(Sys, ru).gasLimit
        /\ header.beneficiary = SubmittedOf(Sys, ru).rewardAddress
    <3>1. h.gasLimit = s.event.gasLimit /\ h.rewardAddress = s.event.rewardAddress
      OBVIOUS
    <3> HIDE DEF h
    <3>2. (CHOOSE y \in {h} : TRUE) = h
      OBVIOUS
    <3>3. FromHeader(x, parent, "gasLimit", "gasLimit") = h.gasLimit
          /\ FromHeader(x, parent, "beneficiary", "rewardAddress") = h.rewardAddress
      BY <2>3, <3>2 DEF FromHeader
    <3> QED
      BY <2>2, <3>1, <3>3
  <2>5. SubmittedUpTo(chain, i) = at \cup {top}
    BY <1>3, <1>5
  <2> DEFINE S == at \cup {top}
  <2>6. Max(S) = top
    <3>1. at \subseteq Int /\ \A j \in S : top >= j
      BY <1>2 DEF SubmittedUpTo
    <3>2. S \subseteq Int /\ top \in S
      BY <1>2, <3>1
    <3> HIDE DEF S, top
    <3>3. Max(S) \in S /\ \A j \in S : Max(S) >= j
      BY <3>1, <3>2 DEF Max
    <3> DEFINE m == Max(S)
    <3> HIDE DEF m
    <3>4. m \in Int /\ top \in Int /\ m >= top /\ top >= m
      BY <3>1, <3>2, <3>3 DEF m
    <3>5. m = top
      BY <3>4
    <3> QED
      BY <3>5 DEF m
  <2>7. ru \in RuBlocks /\ spec.ruBlock = {ru}
    BY <1>1, <2>1
  <2> QED
    BY <2>4, <2>5, <2>6, <2>7 DEF Inherits, spec
<1> QED
  BY <1>4, <1>5

LEMMA GenesisInherits ==
  ASSUME NEW chain
  PROVE  Inherits(chain, Genesis, 0)
<1>1. SubmittedUpTo(chain, 0) = {}
  BY DEF SubmittedUpTo
<1>2. Genesis.gasLimit = RuGenesis.gasLimit /\ Genesis.beneficiary = RuGenesis.coinbase
  BY DEF Genesis, GenesisHeader, DefaultHeader
<1> QED
  BY <1>1, <1>2 DEF Inherits

LEMMA AllInherit ==
  ASSUME NEW chain, NEW kept, NEW blocks, NEW n, IsKept(pair, chain, kept), Len(kept) = n,
         Built(kept, blocks, n)
  PROVE  \A i \in 1..n : Inherits(chain, blocks[i].block.header, i)
<1> DEFINE T == {i \in 0..n : Inherits(chain, ParentAt(blocks, i + 1), i)}
<1>1. n \in Nat /\ DOMAIN kept = 1..n
      /\ \A i \in 1..n : IsBlockOn(blocks[i], kept[i], ParentAt(blocks, i), PrevAt(blocks, i))
  BY DEF Built, IsList, IsKept
<1>2. 0 \in T
  <2>1. ParentAt(blocks, 0 + 1) = Genesis
    BY DEF ParentAt
  <2> QED
    BY <1>1, <2>1, GenesisInherits
<1>3. \A i \in 1..n : ParentAt(blocks, i + 1) = blocks[i].block.header
  <2> TAKE i \in 1..n
  <2>1. i + 1 # 1 /\ (i + 1) - 1 = i
    BY <1>1
  <2> QED
    BY <2>1 DEF ParentAt
<1>4. ASSUME NEW i \in 0..(n - 1), i \in T
      PROVE  i + 1 \in T
  <2> DEFINE k == i + 1
             x == kept[k]
             parent == ParentAt(blocks, k)
             header == blocks[k].block.header
  <2>1. i \in Nat /\ k \in 1..n /\ k \in 0..n
    BY <1>1
  <2>2. Inherits(chain, parent, i)
    BY <1>4
  <2>3. IsFollowed(x, chain[k + 1], k)
    BY <1>1, <2>1 DEF IsKept, IsFollowed, Sys
  <2>4. /\ header.gasLimit = FromHeader(x, parent, "gasLimit", "gasLimit")
        /\ header.beneficiary = FromHeader(x, parent, "beneficiary", "rewardAddress")
    BY <1>1, <2>1 DEF IsBlockOn
  <2>5. k = i + 1
    OBVIOUS
  <2>6. ParentAt(blocks, k + 1) = header
    BY <1>3, <2>1
  <2> HIDE DEF T, k, x, parent, header
  <2>7. Inherits(chain, header, k)
    BY <2>1, <2>2, <2>3, <2>4, <2>5, HeaderInherits
  <2>8. k \in T
    BY <2>1, <2>6, <2>7 DEF T
  <2> QED
    BY <2>8 DEF k
<1> HIDE DEF T
<1>5. \A i \in 0..n : i \in T
  BY <1>1, <1>2, <1>4, Induction
<1> QED
  <2> SUFFICES ASSUME NEW i \in 1..n PROVE Inherits(chain, blocks[i].block.header, i)
    OBVIOUS
  <2>1. i \in 0..n
    BY <1>1
  <2> QED
    BY <1>3, <1>5, <2>1 DEF T

(* The rollup's blocks are one chain, and so are their journals, through   *)
(* every reorganisation of the host chain.                                 *)
THEOREM LinksSurviveReorgs == RollupSpec => []RollupLinked
<1>1. ASSUME RollupInv
      PROVE  RollupLinked
  <2> DEFINE n == Len(followed)
  <2>1. IsKept(pair, canonical, followed) /\ Built(followed, rollup, n)
    BY <1>1, FollowedIs DEF RollupInv
  <2>2. /\ n \in Nat /\ DOMAIN followed = 1..n /\ Len(rollup) = n /\ DOMAIN rollup = 1..n
        /\ \A i \in 1..n : IsBlockOn(rollup[i], followed[i], ParentAt(rollup, i), PrevAt(rollup, i))
    <3>1. IsList(rollup, n)
      BY <2>1 DEF Built
    <3> HIDE DEF n
    <3>2. Len(rollup) = n /\ DOMAIN rollup = 1..n /\ n \in Nat
      BY <3>1, ListIs
    <3> QED
      BY <2>1, <3>2 DEF IsKept, Built, n
  <2>3. \A i \in 1..n : Inherits(canonical, rollup[i].block.header, i)
    <3>1. Len(followed) = n
      OBVIOUS
    <3> HIDE DEF n
    <3> QED
      BY <2>1, <3>1, AllInherit
  <2> HIDE DEF n
  <2>4. ASSUME NEW i \in 1..n
        PROVE  LET b == rollup[i]
                   header == b.block.header
               IN  /\ b.hostHeight = canonical[i + 1].number
                   /\ header.number = i
                   /\ header.parentHash = HashOf(IF i = 1 THEN Genesis
                                                 ELSE rollup[i - 1].block.header)
                   /\ b.journal.meta.prevJournalHash =
                        IF i = 1 THEN <<>> ELSE JournalHash(rollup[i - 1].journal)
                   /\ IF LastSubmitted(i) = {}
                      THEN /\ header.gasLimit = RuGenesis.gasLimit
                           /\ header.beneficiary = RuGenesis.coinbase
                      ELSE {[gasLimit |-> s.gasLimit, to |-> s.rewardAddress] :
                              s \in LastSubmitted(i)} =
                           {[gasLimit |-> header.gasLimit, to |-> header.beneficiary]}
    <3> DEFINE b == rollup[i]
               header == b.block.header
               spec == canonical[i + 1]
               x == followed[i]
    <3>1. IsFollowed(x, spec, i)
      BY <2>1, <2>2 DEF IsKept, IsFollowed, Sys
    <3>2. x.ruHeight = i /\ x.hostBlock = BlockOf(spec)
      <4> HIDE DEF x, spec
      <4> QED
        BY <3>1, FollowedTypes
    <3>3. x.hostBlock.number = spec.number
      BY <3>2 DEF BlockOf
    <3>4. IsBlockOn(b, x, ParentAt(rollup, i), PrevAt(rollup, i))
      BY <2>2
    <3>5. /\ b.hostHeight = spec.number /\ header.number = i
          /\ header.parentHash = HashOf(ParentAt(rollup, i))
          /\ b.journal.meta.prevJournalHash = PrevAt(rollup, i)
      BY <3>2, <3>3, <3>4 DEF IsBlockOn
    <3> DEFINE at == SubmittedUpTo(canonical, i)
    <3>6. Inherits(canonical, header, i)
      BY <2>3
    <3>7. \A ru : BlockSubmitted(ru) = SubmittedOf(Sys, ru)
      BY DEF BlockSubmitted, SubmittedOf
    <3>8. LastSubmitted(i)
            = IF at = {} THEN {} ELSE {SubmittedOf(Sys, ru) : ru \in canonical[Max(at)].ruBlock}
      BY <3>7 DEF LastSubmitted, SubmittedUpTo
    <3>9. IF LastSubmitted(i) = {}
          THEN /\ header.gasLimit = RuGenesis.gasLimit
               /\ header.beneficiary = RuGenesis.coinbase
          ELSE {[gasLimit |-> s.gasLimit, to |-> s.rewardAddress] : s \in LastSubmitted(i)} =
               {[gasLimit |-> header.gasLimit, to |-> header.beneficiary]}
      <4> HIDE DEF header, at
      <4>1. CASE at = {}
        BY <3>6, <3>8, <4>1 DEF Inherits, at
      <4>2. CASE at # {}
        <5>1. PICK ru \in RuBlocks :
                /\ canonical[Max(at)].ruBlock = {ru}
                /\ header.gasLimit = SubmittedOf(Sys, ru).gasLimit
                /\ header.beneficiary = SubmittedOf(Sys, ru).rewardAddress
          BY <3>6, <4>2 DEF Inherits, at
        <5> DEFINE s == SubmittedOf(Sys, ru)
        <5>2. LastSubmitted(i) = {s}
          BY <3>8, <4>2, <5>1
        <5> HIDE DEF s
        <5>3. s.gasLimit = header.gasLimit /\ s.rewardAddress = header.beneficiary
          BY <5>1 DEF s
        <5> QED
          BY <5>2, <5>3
      <4> QED
        BY <4>1, <4>2
    <3> QED
      BY <3>5, <3>9 DEF ParentAt, PrevAt
  <2> QED
    BY <2>2, <2>4 DEF RollupLinked, n
<1> QED
  BY <1>1, RollupInvariant, PTL

-----------------------------------------------------------------------------
(* Which log an event was found in: the place of its transaction and its   *)
(* own.  No two events of a block share it.                                *)
IsSighting(sys, spec, x) ==
  \E i \in DOMAIN ReceiptsOf(spec) : \E j \in DOMAIN ReceiptsOf(spec)[i] :
    \E e \in ExtractLog(sys, ReceiptsOf(spec)[i][j]) : x = Found(MakeTxns(spec)[i], j, e)
SameLog(a, b) == a.tx.hash = b.tx.hash /\ a.logIndex = b.logIndex
Keyed(s) == \A i, j \in DOMAIN s : SameLog(s[i], s[j]) => i = j

InReceipt(sys, tx, receipt, x) ==
  \E j \in DOMAIN receipt : \E e \in ExtractLog(sys, receipt[j]) : x = Found(tx, j, e)

LEMMA PieceHolds ==
  ASSUME NEW sys, NEW S, NEW tx, NEW receipt \in Seq(Logged), NEW j \in DOMAIN receipt
  PROVE  /\ Distinct(PieceOf(sys, tx, receipt, j))
         /\ \A a \in DOMAIN PieceOf(sys, tx, receipt, j) :
              \E e \in ExtractLog(sys, receipt[j]) :
                PieceOf(sys, tx, receipt, j)[a] = Found(tx, j, e)
<1> DEFINE D == {Found(tx, j, e) : e \in ExtractLog(sys, receipt[j])}
           s == PieceOf(sys, tx, receipt, j)
<1>1. receipt[j] \in Logged
  OBVIOUS
<1>2. D = {} \/ \E x : D = {x}
  <2> DEFINE log == receipt[j]
  <2>1. log \in Logged
    BY <1>1
  <2> HIDE DEF log
  <2>2. ExtractLog(sys, log) = {} \/ \E d : ExtractLog(sys, log) = {d}
    BY <2>1, ExtractLogIs
  <2>3. D = {Found(tx, j, e) : e \in ExtractLog(sys, log)}
    BY DEF log
  <2> HIDE DEF D
  <2>4. CASE ExtractLog(sys, log) = {}
    BY <2>3, <2>4
  <2>5. ASSUME NEW d, ExtractLog(sys, log) = {d}
        PROVE  \E x : D = {x}
    <3>1. D = {Found(tx, j, d)}
      BY <2>3, <2>5
    <3> QED
      BY <3>1
  <2> QED
    BY <2>2, <2>4, <2>5
<1>3. s = SetToSeq(D)
  BY DEF PieceOf
<1>4. \A x \in D : \E e \in ExtractLog(sys, receipt[j]) : x = Found(tx, j, e)
  OBVIOUS
<1> HIDE DEF D
<1>5. IsFiniteSet(D)
  BY <1>2, FS_EmptySet, FS_Singleton
<1>6. SetToSeq(D) \in Seq(D) /\ Distinct(SetToSeq(D))
  BY <1>5, SetToSeqLists
<1> HIDE DEF s
<1>7. s \in Seq(D) /\ Distinct(s)
  BY <1>3, <1>6
<1>8. \A a \in DOMAIN s : s[a] \in D
  BY <1>7
<1> QED
  BY <1>4, <1>7, <1>8 DEF s

LEMMA ReceiptApart ==
  ASSUME NEW sys, NEW S, \A x \in S : x.event \in Extractable(sys),
         NEW tx, NEW receipt \in Seq(Logged), Holds(sys, S, tx, receipt)
  PROVE  /\ Distinct(ExtractReceipt(sys, tx, receipt))
         /\ \A k \in DOMAIN ExtractReceipt(sys, tx, receipt) :
              InReceipt(sys, tx, receipt, ExtractReceipt(sys, tx, receipt)[k])
<1> DEFINE pieces == PiecesOf(sys, tx, receipt)
           t == ExtractReceipt(sys, tx, receipt)
<1>1. t = FlattenSeq(pieces) /\ pieces \in Seq(Seq(S))
  BY ReceiptEvents
<1>2. DOMAIN receipt = 1..Len(receipt) /\ \A j \in 1..Len(receipt) : j \in Int
  OBVIOUS
<1>3. DOMAIN pieces = DOMAIN receipt
      /\ \A j \in DOMAIN receipt : pieces[j] = PieceOf(sys, tx, receipt, j)
  BY <1>2 DEF PiecesOf
<1> HIDE DEF pieces, t
<1>4. ASSUME NEW j \in DOMAIN pieces
      PROVE  /\ Distinct(pieces[j])
             /\ \A a \in DOMAIN pieces[j] : \E e \in ExtractLog(sys, receipt[j]) :
                  pieces[j][a] = Found(tx, j, e)
  <2>1. j \in DOMAIN receipt
    BY <1>3
  <2> QED
    BY <1>3, <2>1, PieceHolds
<1>5. \A i, j \in DOMAIN pieces : \A d, e : Found(tx, i, d) = Found(tx, j, e) => i = j
  BY <1>2, <1>3 DEF Found
<1>6. Apart(pieces)
  <2> SUFFICES ASSUME NEW i \in DOMAIN pieces, NEW j \in DOMAIN pieces,
                      NEW a \in DOMAIN pieces[i], NEW b \in DOMAIN pieces[j],
                      pieces[i][a] = pieces[j][b]
               PROVE  i = j /\ a = b
    BY DEF Apart
  <2>1. i = j
    BY <1>4, <1>5
  <2> QED
    BY <1>4, <2>1 DEF Distinct
<1>7. Within(t, pieces) /\ Distinct(t)
  BY <1>1, <1>6, FlattenParts
<1>8. ASSUME NEW k \in DOMAIN t
      PROVE  InReceipt(sys, tx, receipt, t[k])
  <2>1. PICK j \in DOMAIN pieces : \E a \in DOMAIN pieces[j] : t[k] = pieces[j][a]
    BY <1>7 DEF Within
  <2>2. \E e \in ExtractLog(sys, receipt[j]) : t[k] = Found(tx, j, e)
    BY <1>4, <2>1
  <2> QED
    BY <1>3, <2>2 DEF InReceipt
<1> QED
  BY <1>7, <1>8 DEF t

LEMMA FoundApart ==
  ASSUME NEW p \in Pairs, NEW sys, sys = p.sys, NEW spec, Sound(sys, spec)
  PROVE  /\ Distinct(FoundIn(sys, spec))
         /\ \A k \in DOMAIN FoundIn(sys, spec) : IsSighting(sys, spec, FoundIn(sys, spec)[k])
<1> DEFINE block == BlockOf(spec)
           S == Sightings(sys, block)
           R == ReceiptsOf(spec)
           txs == MakeTxns(spec)
           events == ReceiptsEvents(sys, block)
           t == FoundIn(sys, spec)
<1>1. block.receipts = R /\ block.txs = txs
  BY DEF BlockOf
<1>2. R \in Seq(Seq(Logged)) /\ IsTxns(txs, spec.number, Len(R))
  BY BlockShape
<1>3. \A x \in S : x.event \in Extractable(sys)
  BY DEF Sightings
<1>4. \A x : x \in S <=> /\ x \in [tx : Range(txs), logIndex : Nat, event : Extractable(sys)]
  BY <1>1 DEF Sightings
<1> HIDE DEF S, txs, R, block
<1>5. DOMAIN R = 1..Len(R) /\ \A i \in DOMAIN R : R[i] \in Seq(Logged)
  <2> DEFINE L == Seq(Logged)
  <2>1. R \in Seq(L)
    BY <1>2
  <2> HIDE DEF L
  <2>2. DOMAIN R = 1..Len(R) /\ \A i \in DOMAIN R : R[i] \in L
    BY <2>1
  <2> QED
    BY <2>2 DEF L
<1>6. DOMAIN txs = DOMAIN R /\ \A i \in DOMAIN R : txs[i].hash = <<spec.number, i>>
  BY <1>2, <1>5 DEF IsTxns
<1>7. ASSUME NEW i \in DOMAIN R
      PROVE  Holds(sys, S, txs[i], R[i])
  <2> SUFFICES ASSUME NEW j \in DOMAIN R[i], NEW e \in ExtractLog(sys, R[i][j])
               PROVE  Found(txs[i], j, e) \in S
    BY DEF Holds
  <2>1. R[i] \in Seq(Logged)
    BY <1>5
  <2> DEFINE r == R[i]
             tx == txs[i]
  <2>2. tx \in Range(txs)
    BY <1>6 DEF Range
  <2> HIDE DEF r, tx
  <2>3. r[j] \in Logged /\ j - 1 \in Nat
    BY <2>1 DEF r
  <2>4. ExtractLog(sys, r[j]) = {} \/ \E d \in Extractable(sys) : ExtractLog(sys, r[j]) = {d}
    BY <2>3, ExtractLogIs
  <2>5. e \in Extractable(sys)
    BY <2>4 DEF r
  <2>6. Found(tx, j, e) \in S
    BY <1>4, <2>2, <2>3, <2>5 DEF Found
  <2> QED
    BY <2>6 DEF tx
<1>8. t = FlattenSeq(events) /\ events \in Seq(Seq(S))
  <2>1. /\ block.receipts \in Seq(Seq(Logged)) /\ Len(block.txs) = Len(block.receipts)
        /\ \A i \in DOMAIN block.receipts : Holds(sys, S, block.txs[i], block.receipts[i])
    BY <1>1, <1>2, <1>7 DEF IsTxns
  <2>2. /\ ExtractBlock(sys, block) = FlattenSeq(ReceiptsEvents(sys, block))
        /\ ReceiptsEvents(sys, block) \in Seq(Seq(S))
    BY <1>3, <2>1, BlockEvents
  <2> QED
    BY <2>2 DEF FoundIn, block
<1>9. /\ DOMAIN events = DOMAIN R
      /\ \A i \in DOMAIN R : events[i] = ExtractReceipt(sys, txs[i], R[i])
  BY <1>1, <1>5 DEF ReceiptsEvents
<1> HIDE DEF events, t
<1>10. ASSUME NEW i \in DOMAIN events
       PROVE  /\ Distinct(events[i])
              /\ \A a \in DOMAIN events[i] : InReceipt(sys, txs[i], R[i], events[i][a])
  <2>1. i \in DOMAIN R /\ Holds(sys, S, txs[i], R[i]) /\ R[i] \in Seq(Logged)
    BY <1>5, <1>7, <1>9
  <2> DEFINE r == R[i]
             tx == txs[i]
  <2> HIDE DEF r, tx
  <2>2. /\ Distinct(ExtractReceipt(sys, tx, r))
        /\ \A k \in DOMAIN ExtractReceipt(sys, tx, r) :
              InReceipt(sys, tx, r, ExtractReceipt(sys, tx, r)[k])
    <3>1. r \in Seq(Logged) /\ Holds(sys, S, tx, r)
      BY <2>1 DEF r, tx
    <3> QED
      BY <1>3, <3>1, ReceiptApart
  <2> QED
    BY <1>9, <2>1, <2>2 DEF r, tx
<1>11. \A i \in DOMAIN R : \A x : InReceipt(sys, txs[i], R[i], x) => x.tx.hash = <<spec.number, i>>
  BY <1>6 DEF InReceipt, Found
<1>12. Apart(events)
  <2> SUFFICES ASSUME NEW i \in DOMAIN events, NEW j \in DOMAIN events,
                      NEW a \in DOMAIN events[i], NEW b \in DOMAIN events[j],
                      events[i][a] = events[j][b]
               PROVE  i = j /\ a = b
    BY DEF Apart
  <2>1. <<spec.number, i>> = <<spec.number, j>>
    BY <1>9, <1>10, <1>11
  <2>2. i = j
    BY <2>1
  <2> QED
    BY <1>10, <2>2 DEF Distinct
<1>13. Within(t, events) /\ Distinct(t)
  BY <1>8, <1>12, FlattenParts
<1>14. ASSUME NEW k \in DOMAIN t
       PROVE  IsSighting(sys, spec, t[k])
  <2>1. PICK i \in DOMAIN events : \E a \in DOMAIN events[i] : t[k] = events[i][a]
    BY <1>13 DEF Within
  <2>2. i \in DOMAIN R /\ InReceipt(sys, txs[i], R[i], t[k])
    BY <1>9, <1>10, <2>1
  <2> QED
    BY <2>2 DEF InReceipt, IsSighting, R, txs
<1> QED
  BY <1>13, <1>14 DEF t

-----------------------------------------------------------------------------
(* The log itself is what an event that is executed was found in.          *)
Executed == {"enter", "enterToken", "transact"}

LEMMA ExtractedAsIs ==
  ASSUME NEW sys, NEW log \in Logged, NEW e \in ExtractLog(sys, log), e.kind \in Executed
  PROVE  e = log.event
<1> DEFINE d == log.event
           id == sys.rollup.chainId
           entered == {x \in DecodePassage(d, id) :
                         x.kind = "enterToken" => IsHostToken(sys, x.token)}
<1>1. e \in DecodeZenith(d, id) \/ e \in DecodeOrders(d, id) \/ e \in DecodeTransactor(d, id)
      \/ e \in entered
  BY DEF ExtractLog
<1>2. (e \in DecodeZenith(d, id) \/ e \in DecodeTransactor(d, id)) => e = d
  BY DEF DecodeZenith, DecodeTransactor
<1>3. e \in entered => e = d
  BY DEF DecodePassage
<1>4. e \notin DecodeOrders(d, id)
  <2>1. CASE d.kind # "filled"
    BY <2>1 DEF DecodeOrders
  <2>2. CASE d.kind = "filled"
    <3>1. d \in Fills
      BY <2>2 DEF Logged, Event, Recorded, Enters, EnterTokens, Submissions, Transacted, Others
    <3>2. PICK x \in Fills : DecodeOrders(d, id) = {x}
      BY <3>1, FillDecoded
    <3>3. x.kind = "filled"
      BY <3>2 DEF Fills
    <3> QED
      BY <3>2, <3>3 DEF Executed
  <2> QED
    BY <2>1, <2>2
<1> QED
  BY <1>1, <1>2, <1>3, <1>4

LEMMA FoundKeyed ==
  ASSUME NEW p \in Pairs, NEW sys, sys = p.sys, NEW spec, Sound(sys, spec)
  PROVE  Keyed(FoundIn(sys, spec))
<1> DEFINE t == FoundIn(sys, spec)
           R == ReceiptsOf(spec)
           txs == MakeTxns(spec)
<1>1. Distinct(t) /\ \A k \in DOMAIN t : IsSighting(sys, spec, t[k])
  BY FoundApart
<1>2. R \in Seq(Seq(Logged)) /\ IsTxns(txs, spec.number, Len(R))
  BY BlockShape
<1> HIDE DEF t, R, txs
<1>3. \A i \in DOMAIN R : /\ txs[i].hash = <<spec.number, i>> /\ R[i] \in Seq(Logged)
  <2> DEFINE L == Seq(Logged)
  <2>1. R \in Seq(L)
    BY <1>2
  <2> HIDE DEF L
  <2>2. DOMAIN R = 1..Len(R) /\ \A i \in DOMAIN R : R[i] \in L
    BY <2>1
  <2> QED
    BY <1>2, <2>2 DEF L, IsTxns
<1>4. ASSUME NEW k \in DOMAIN t, NEW l \in DOMAIN t, SameLog(t[k], t[l])
      PROVE  k = l
  <2>1. PICK i \in DOMAIN R : \E j \in DOMAIN R[i] : \E e \in ExtractLog(sys, R[i][j]) :
                                t[k] = Found(txs[i], j, e)
    BY <1>1 DEF IsSighting, R, txs
  <2>2. PICK j \in DOMAIN R[i] : \E e \in ExtractLog(sys, R[i][j]) : t[k] = Found(txs[i], j, e)
    BY <2>1
  <2>3. PICK e \in ExtractLog(sys, R[i][j]) : t[k] = Found(txs[i], j, e)
    BY <2>2
  <2>4. PICK a \in DOMAIN R : \E b \in DOMAIN R[a] : \E d \in ExtractLog(sys, R[a][b]) :
                                t[l] = Found(txs[a], b, d)
    BY <1>1 DEF IsSighting, R, txs
  <2>5. PICK b \in DOMAIN R[a] : \E d \in ExtractLog(sys, R[a][b]) : t[l] = Found(txs[a], b, d)
    BY <2>4
  <2>6. PICK d \in ExtractLog(sys, R[a][b]) : t[l] = Found(txs[a], b, d)
    BY <2>5
  <2>7. <<spec.number, i>> = <<spec.number, a>> /\ j - 1 = b - 1
    BY <1>3, <1>4, <2>3, <2>6 DEF SameLog, Found
  <2>8. i = a
    BY <2>7
  <2>9. j \in Int /\ b \in Int
    BY <1>3
  <2>10. j = b
    BY <2>7, <2>9
  <2> DEFINE log == R[i][j]
  <2>11. log \in Logged
    <3> DEFINE r == R[i]
    <3>1. r \in Seq(Logged) /\ j \in DOMAIN r
      BY <1>3
    <3> HIDE DEF r
    <3>2. r[j] \in Logged
      BY <3>1
    <3> QED
      BY <3>2 DEF r
  <2>12. e \in ExtractLog(sys, log) /\ d \in ExtractLog(sys, log)
    BY <2>8, <2>10
  <2> HIDE DEF log
  <2>13. e = d
    <3>1. ExtractLog(sys, log) = {} \/ \E x : ExtractLog(sys, log) = {x}
      BY <2>11, ExtractLogIs
    <3> QED
      BY <2>12, <3>1
  <2>14. t[k] = t[l]
    BY <2>3, <2>6, <2>8, <2>10, <2>13
  <2> QED
    BY <1>1, <2>14 DEF Distinct
<1> QED
  BY <1>4 DEF Keyed, t

(* What was found of one kind; and nothing of two kinds in one log.        *)
KindsKeyed(sys, spec) ==
  \A k : /\ Keyed(FoundOf(sys, spec, k))
         /\ \A i \in DOMAIN FoundOf(sys, spec, k) :
              /\ IsSighting(sys, spec, FoundOf(sys, spec, k)[i])
              /\ FoundOf(sys, spec, k)[i].event.kind = k
         /\ \A l : \A i \in DOMAIN FoundOf(sys, spec, k), j \in DOMAIN FoundOf(sys, spec, l) :
              SameLog(FoundOf(sys, spec, k)[i], FoundOf(sys, spec, l)[j]) => k = l

LEMMA KindKeyed ==
  ASSUME NEW p \in Pairs, NEW sys, sys = p.sys, NEW spec, Sound(sys, spec),
         NEW h \in Nat, spec.number = sys.host.deployHeight + h
  PROVE  KindsKeyed(sys, spec)
<1> DEFINE S == Sightings(sys, BlockOf(spec))
           s == FoundIn(sys, spec)
<1>1. s \in Seq(S)
  BY ExtractOfIs
<1>2. Keyed(s)
  BY FoundKeyed
<1>3. Distinct(s) /\ \A k \in DOMAIN s : IsSighting(sys, spec, s[k])
  BY FoundApart
<1> HIDE DEF S
<1>4. ASSUME NEW k
      PROVE  /\ Distinct(Those(s, Finds(S, k)))
             /\ \A i \in DOMAIN Those(s, Finds(S, k)) :
                  /\ Those(s, Finds(S, k))[i].event.kind = k
                  /\ \E j \in DOMAIN s : Those(s, Finds(S, k))[i] = s[j]
  <2> HIDE DEF s
  <2>1. Distinct(Those(s, Finds(S, k)))
    BY <1>1, <1>3, KeptDistinct DEF Those
  <2> DEFINE P == Finds(S, k)
             t == Those(s, P)
  <2>2. \A e \in P : e.event.kind = k
    BY DEF Finds
  <2>3. \A i \in DOMAIN t : t[i] \in P /\ \E j \in DOMAIN s : t[i] = s[j]
    <3> HIDE DEF P
    <3> QED
      BY <1>1, ThoseSatisfy
  <2> HIDE DEF P, t
  <2>4. \A i \in DOMAIN t : t[i].event.kind = k /\ \E j \in DOMAIN s : t[i] = s[j]
    BY <2>2, <2>3
  <2> QED
    BY <2>1, <2>4 DEF P, t
<1>5. \A k : FoundOf(sys, spec, k) = Those(s, Finds(S, k))
  BY DEF FoundOf, S
<1> HIDE DEF s
<1> DEFINE F(k) == FoundOf(sys, spec, k)
<1>6. \A k : /\ Distinct(F(k))
             /\ \A i \in DOMAIN F(k) : /\ F(k)[i].event.kind = k
                                       /\ \E j \in DOMAIN s : F(k)[i] = s[j]
  BY <1>4, <1>5
<1> HIDE DEF F
<1>7. ASSUME NEW k, NEW l, NEW i \in DOMAIN F(k), NEW j \in DOMAIN F(l), SameLog(F(k)[i], F(l)[j])
      PROVE  F(k)[i] = F(l)[j] /\ k = l
  <2>1. PICK a \in DOMAIN s : F(k)[i] = s[a]
    BY <1>6
  <2>2. PICK b \in DOMAIN s : F(l)[j] = s[b]
    BY <1>6
  <2>3. a = b
    BY <1>2, <1>7, <2>1, <2>2 DEF Keyed
  <2>4. F(k)[i] = F(l)[j]
    BY <2>1, <2>2, <2>3
  <2>5. F(k)[i].event.kind = k /\ F(l)[j].event.kind = l
    BY <1>6
  <2> QED
    BY <2>4, <2>5
<1>8. ASSUME NEW k
      PROVE  Keyed(F(k))
  <2> SUFFICES ASSUME NEW i \in DOMAIN F(k), NEW j \in DOMAIN F(k), SameLog(F(k)[i], F(k)[j])
               PROVE  i = j
    BY DEF Keyed
  <2>1. F(k)[i] = F(k)[j]
    BY <1>7
  <2> QED
    BY <1>6, <2>1 DEF Distinct
<1>9. ASSUME NEW k, NEW i \in DOMAIN F(k)
      PROVE  IsSighting(sys, spec, F(k)[i])
  <2>1. PICK j \in DOMAIN s : F(k)[i] = s[j]
    BY <1>6
  <2> QED
    BY <1>3, <2>1
<1> QED
  BY <1>6, <1>7, <1>8, <1>9 DEF F, KindsKeyed

-----------------------------------------------------------------------------
(* The system transactions of a followed block, and the events that they   *)
(* stand for.                                                              *)
SysEvents(x) == x.enters \o x.enterTokens \o x.transacts
SysList(x) == Mints(Sys, x, 0) \o Transacts(x, ToAlias)

StandsFor(t, e) ==
  /\ t.magicSig = IF e.event.kind = "transact" THEN TransactSig(e, e.event.sender \in ToAlias)
                  ELSE EnterSig(e)
  /\ e.event.kind = "transact" <=> t.kind = "TransactSysTx"
  /\ t.kind \in {"MintNative", "MintToken", "TransactSysTx"}
  /\ t.kind # "TransactSysTx" => t.recipient = e.event.recipient

LEMMA MintTokenStandsFor ==
  ASSUME NEW e, NEW n, e.event.kind \in {"enter", "enterToken"}, NEW token
  PROVE  StandsFor(MintToken(token, Native, e, n), e)
BY DEF StandsFor, MintToken

LEMMA MintStandsFor ==
  ASSUME NEW sys, NEW e, NEW n, e.event.kind \in {"enter", "enterToken"}
  PROVE  StandsFor(MintEntered(sys, e, n), e)
<1>1. \A u : StandsFor(MintNative(e, u, n), e)
  BY DEF StandsFor, MintNative
<1>2. \A u, a : StandsFor(MintToken(a, u, e, n), e)
  BY DEF StandsFor, MintToken
<1> QED
  BY <1>1, <1>2 DEF MintEntered

LEMMA TransactStandsFor ==
  ASSUME NEW e, e.event.kind = "transact"
  PROVE  StandsFor(TransactSysTx(e, e.event.sender \in ToAlias), e)
BY DEF StandsFor, TransactSysTx

LEMMA SignatureIs ==
  ASSUME NEW t, t.kind \in {"MintNative", "MintToken", "TransactSysTx"}
  PROVE  MakeTransaction(t).signature = ToSignature(t.magicSig)
BY DEF MakeTransaction

-----------------------------------------------------------------------------
(* Two lists of events that were found in different logs.                  *)
FromEither(u, s, t) ==
  \A k \in DOMAIN u : (\E i \in DOMAIN s : u[k] = s[i]) \/ (\E j \in DOMAIN t : u[k] = t[j])

LEMMA KeyedConcat ==
  ASSUME NEW m, NEW s, IsList(s, m), NEW n, NEW t, IsList(t, n), Keyed(s), Keyed(t),
         \A i \in DOMAIN s, j \in DOMAIN t : ~ SameLog(s[i], t[j])
  PROVE  Keyed(s \o t) /\ FromEither(s \o t, s, t)
<1> DEFINE u == s \o t
<1>1. DOMAIN s = 1..m /\ m \in Nat
  BY ListIs
<1>2. DOMAIN t = 1..n /\ n \in Nat
  BY ListIs
<1>3. IsConcat(u, s, m, t, n)
  BY ConcatLists
<1> HIDE DEF u
<1>4. DOMAIN u = 1..(m + n)
  <2>1. IsList(u, m + n)
    BY <1>3 DEF IsConcat
  <2> QED
    BY <2>1, ListIs
<1>5. \A i \in 1..m : u[i] = s[i]
  BY <1>3 DEF IsConcat
<1>6. \A i \in (m + 1)..(m + n) : u[i] = t[i - m]
  BY <1>3 DEF IsConcat
<1>7. \A k \in 1..(m + n) : k \in 1..m \/ (k \in (m + 1)..(m + n) /\ k - m \in 1..n)
  BY <1>1, <1>2
<1>8. ASSUME NEW k \in DOMAIN u
      PROVE  (\E i \in DOMAIN s : u[k] = s[i]) \/ (\E j \in DOMAIN t : u[k] = t[j])
  <2>1. CASE k \in 1..m
    BY <1>1, <1>5, <2>1
  <2>2. CASE k \in (m + 1)..(m + n) /\ k - m \in 1..n
    BY <1>2, <1>6, <2>2
  <2> QED
    BY <1>4, <1>7, <2>1, <2>2
<1>9. \A a, b : SameLog(a, b) => SameLog(b, a)
  BY DEF SameLog
<1>10. ASSUME NEW i \in DOMAIN u, NEW j \in DOMAIN u, SameLog(u[i], u[j])
       PROVE  i = j
  <2>1. CASE i \in 1..m /\ j \in 1..m
    <3>1. SameLog(s[i], s[j])
      BY <1>5, <1>10, <2>1
    <3> QED
      BY <1>1, <2>1, <3>1 DEF Keyed
  <2>2. CASE i \in 1..m /\ j \in (m + 1)..(m + n) /\ j - m \in 1..n
    <3>1. SameLog(s[i], t[j - m])
      BY <1>5, <1>6, <1>10, <2>2
    <3> QED
      BY <1>1, <1>2, <2>2, <3>1
  <2>3. CASE j \in 1..m /\ i \in (m + 1)..(m + n) /\ i - m \in 1..n
    <3>1. SameLog(s[j], t[i - m])
      BY <1>5, <1>6, <1>9, <1>10, <2>3
    <3> QED
      BY <1>1, <1>2, <2>3, <3>1
  <2>4. CASE /\ i \in (m + 1)..(m + n) /\ i - m \in 1..n
             /\ j \in (m + 1)..(m + n) /\ j - m \in 1..n
    <3>1. SameLog(t[i - m], t[j - m])
      BY <1>6, <1>10, <2>4
    <3>2. i - m = j - m
      BY <1>2, <2>4, <3>1 DEF Keyed
    <3> QED
      BY <1>1, <2>4, <3>2
  <2> QED
    BY <1>4, <1>7, <2>1, <2>2, <2>3, <2>4
<1> QED
  BY <1>8, <1>10 DEF Keyed, FromEither, u

(* The lists of a followed block are what was found of three kinds.        *)
LEMMA SysEventsKeyed ==
  ASSUME NEW x, NEW spec, NEW h, IsFollowed(x, spec, h)
  PROVE  /\ Keyed(SysEvents(x))
         /\ \A i \in DOMAIN SysEvents(x) :
              /\ IsSighting(Sys, spec, SysEvents(x)[i])
              /\ SysEvents(x)[i].event.kind \in Executed
         /\ \A i \in DOMAIN x.enters : x.enters[i].event.kind = "enter"
         /\ \A i \in DOMAIN x.enterTokens : x.enterTokens[i].event.kind = "enterToken"
         /\ \A i \in DOMAIN x.transacts : x.transacts[i].event.kind = "transact"
         /\ Keyed(x.enterTokens)
<1> DEFINE sys == Sys
           F(k) == FoundOf(sys, spec, k)
<1>1. /\ pair \in Pairs /\ sys = pair.sys /\ Sound(sys, spec) /\ h \in Nat
      /\ spec.number = sys.host.deployHeight + h /\ x = ExtractOf(sys, spec)
  BY DEF IsFollowed, Sys
<1> HIDE DEF sys
<1>2. x.enters = F("enter") /\ x.enterTokens = F("enterToken") /\ x.transacts = F("transact")
  BY <1>1, FoundFields
<1>3. \A k : /\ Keyed(F(k))
             /\ \A i \in DOMAIN F(k) : IsSighting(sys, spec, F(k)[i]) /\ F(k)[i].event.kind = k
             /\ \A l : \A i \in DOMAIN F(k), j \in DOMAIN F(l) : SameLog(F(k)[i], F(l)[j]) => k = l
  <2>1. pair \in Pairs /\ sys = pair.sys /\ Sound(sys, spec)
        /\ h \in Nat /\ spec.number = sys.host.deployHeight + h
    BY <1>1
  <2> HIDE DEF F
  <2>2. KindsKeyed(sys, spec)
    BY ONLY <2>1, KindKeyed
  <2> QED
    BY ONLY <2>2 DEF KindsKeyed, F
<1>4. /\ IsList(x.enters, Len(x.enters)) /\ IsList(x.enterTokens, Len(x.enterTokens))
      /\ IsList(x.transacts, Len(x.transacts))
  BY FollowedTypes
<1> HIDE DEF F
<1> DEFINE a == F("enter")
           b == F("enterToken")
           c == F("transact")
<1>5. /\ \A i \in DOMAIN a, j \in DOMAIN b : ~ SameLog(a[i], b[j])
      /\ \A i \in DOMAIN a, j \in DOMAIN c : ~ SameLog(a[i], c[j])
      /\ \A i \in DOMAIN b, j \in DOMAIN c : ~ SameLog(b[i], c[j])
  <2>1. "enter" # "enterToken" /\ "enter" # "transact" /\ "enterToken" # "transact"
    OBVIOUS
  <2> QED
    BY <1>3, <2>1
<1>6. /\ Keyed(a) /\ Keyed(b) /\ Keyed(c)
      /\ \A i \in DOMAIN a : IsSighting(sys, spec, a[i]) /\ a[i].event.kind = "enter"
      /\ \A i \in DOMAIN b : IsSighting(sys, spec, b[i]) /\ b[i].event.kind = "enterToken"
      /\ \A i \in DOMAIN c : IsSighting(sys, spec, c[i]) /\ c[i].event.kind = "transact"
  BY <1>3
<1>7. IsList(a, Len(a)) /\ IsList(b, Len(b)) /\ IsList(c, Len(c))
  BY <1>2, <1>4
<1>8. SysEvents(x) = (a \o b) \o c
  BY <1>2 DEF SysEvents
<1>9. /\ \A i \in DOMAIN x.enters : x.enters[i].event.kind = "enter"
      /\ \A i \in DOMAIN x.enterTokens : x.enterTokens[i].event.kind = "enterToken"
      /\ \A i \in DOMAIN x.transacts : x.transacts[i].event.kind = "transact"
      /\ Keyed(x.enterTokens)
  BY <1>2, <1>6
<1> HIDE DEF a, b, c
<1> DEFINE ab == a \o b
           abc == ab \o c
<1>10. Keyed(ab) /\ FromEither(ab, a, b) /\ IsList(ab, Len(a) + Len(b))
  <2>1. IsList(a, Len(a)) /\ IsList(b, Len(b))
    BY <1>7
  <2>2. Keyed(a \o b) /\ FromEither(a \o b, a, b)
    BY <1>5, <1>6, <2>1, KeyedConcat
  <2>3. IsConcat(a \o b, a, Len(a), b, Len(b))
    BY <2>1, ConcatLists
  <2> QED
    BY <2>2, <2>3 DEF IsConcat
<1> HIDE DEF ab
<1>11. \A i \in DOMAIN ab : /\ IsSighting(sys, spec, ab[i])
                            /\ ab[i].event.kind \in {"enter", "enterToken"}
                            /\ \A j \in DOMAIN c : ~ SameLog(ab[i], c[j])
  BY <1>5, <1>6, <1>10 DEF FromEither
<1>12. Keyed(abc) /\ FromEither(abc, ab, c)
  <2>1. \A i \in DOMAIN ab, j \in DOMAIN c : ~ SameLog(ab[i], c[j])
    BY <1>11
  <2> QED
    BY <1>6, <1>7, <1>10, <2>1, KeyedConcat
<1> HIDE DEF abc
<1>13. \A i \in DOMAIN abc : IsSighting(sys, spec, abc[i]) /\ abc[i].event.kind \in Executed
  BY <1>6, <1>11, <1>12 DEF FromEither, Executed
<1>14. SysEvents(x) = abc
  BY <1>8 DEF abc, ab
<1> QED
  BY <1>9, <1>12, <1>13, <1>14 DEF sys

(* The system transactions of a block are a list, each for the event in    *)
(* the same place.                                                         *)
LEMMA SysListIs ==
  ASSUME NEW x, NEW spec, NEW h, IsFollowed(x, spec, h),
         NEW n, n = Len(x.enters) + Len(x.enterTokens) + Len(x.transacts)
  PROVE  /\ IsList(SysList(x), n) /\ IsList(SysEvents(x), n)
         /\ \A i \in 1..n : StandsFor(SysList(x)[i], SysEvents(x)[i])
         /\ SysTxs(x) = ToSet(SysList(x))
<1> DEFINE a == Len(x.enters)
           b == Len(x.enterTokens)
           c == Len(x.transacts)
           mints == Mints(Sys, x, 0)
           transacts == Transacts(x, ToAlias)
           ab == x.enters \o x.enterTokens
           list == mints \o transacts
           events == ab \o x.transacts
<1>1. IsList(x.enters, a) /\ IsList(x.enterTokens, b) /\ IsList(x.transacts, c)
  BY FollowedTypes
<1>18. n = a + b + c
  OBVIOUS
<1> HIDE DEF a, b, c
<1>2. a \in Nat /\ b \in Nat /\ c \in Nat
  BY <1>1 DEF IsList
<1>3. /\ IsList(mints, a + b)
      /\ \A i \in 1..a : mints[i] = MintToken(Sys.rollup.tokens.weth, Native, x.enters[i], i - 1)
      /\ \A i \in (a + 1)..(a + b) : mints[i] = MintEntered(Sys, x.enterTokens[i - a], i - 1)
  <2> DEFINE sys == Sys
             y == x
  <2>1. IsList(y.enters, a) /\ IsList(y.enterTokens, b)
    BY <1>1
  <2>2. mints = Mints(sys, y, 0)
    OBVIOUS
  <2> HIDE DEF sys, mints, y
  <2>3. /\ IsList(Mints(sys, y, 0), a + b)
        /\ \A i \in 1..a : Mints(sys, y, 0)[i] =
              MintToken(sys.rollup.tokens.weth, Native, y.enters[i], i - 1)
        /\ \A i \in (a + 1)..(a + b) :
              Mints(sys, y, 0)[i] = MintEntered(sys, y.enterTokens[i - a], i - 1)
    BY ONLY <2>1, MintsAre
  <2> QED
    BY ONLY <2>2, <2>3 DEF sys, y
<1>4. DOMAIN x.enters = 1..a /\ DOMAIN x.enterTokens = 1..b /\ DOMAIN x.transacts = 1..c
  BY <1>1, ListIs
<1>5. /\ \A i \in 1..a : x.enters[i].event.kind = "enter"
      /\ \A i \in 1..b : x.enterTokens[i].event.kind = "enterToken"
      /\ \A i \in 1..c : x.transacts[i].event.kind = "transact"
  BY <1>4, SysEventsKeyed
<1>6. IsList(transacts, c) /\ \A i \in 1..c : StandsFor(transacts[i], x.transacts[i])
  <2>1. transacts = [i \in 1..c |-> TransactSysTx(x.transacts[i], x.transacts[i].event.sender \in ToAlias)]
    BY <1>4 DEF Transacts
  <2>2. IsList(transacts, c)
    BY <1>2, <2>1 DEF IsList
  <2> HIDE DEF transacts
  <2>3. ASSUME NEW i \in 1..c
        PROVE  StandsFor(transacts[i], x.transacts[i])
    <3> DEFINE e == x.transacts[i]
    <3>1. e.event.kind = "transact"
      BY <1>5
    <3>2. transacts[i] = TransactSysTx(e, e.event.sender \in ToAlias)
      BY <2>1
    <3> HIDE DEF e
    <3> QED
      BY <3>1, <3>2, TransactStandsFor DEF e
  <2> QED
    BY <2>2, <2>3
<1>7. IsConcat(ab, x.enters, a, x.enterTokens, b)
  BY ONLY <1>1, ConcatLists
<1>8. IsList(ab, a + b)
  BY <1>7 DEF IsConcat
<1>9. IsConcat(list, mints, a + b, transacts, c)
  BY ONLY <1>3, <1>6, ConcatLists
<1>10. IsConcat(events, ab, a + b, x.transacts, c)
  BY ONLY <1>1, <1>8, ConcatLists
<1>11. \A i \in 1..(a + b) : \/ i \in 1..a
                             \/ i \in (a + 1)..(a + b) /\ i - a \in 1..b
  BY ONLY <1>2
<1>12. \A i \in 1..(a + b + c) : \/ i \in 1..(a + b)
                                 \/ i \in (a + b + 1)..(a + b + c) /\ i - (a + b) \in 1..c
  BY ONLY <1>2
<1>13. \A j \in 1..c : j + (a + b) \in (a + b + 1)..(a + b + c) /\ j + (a + b) - (a + b) = j
  BY ONLY <1>2
<1>14. \A i \in 1..(a + b) : i \in 1..(a + b + c)
  BY ONLY <1>2
<1>15. \A i \in (a + b + 1)..(a + b + c) : i \in 1..(a + b + c)
  BY ONLY <1>2
<1>16. SysList(x) = list /\ SysEvents(x) = events
  BY DEF SysList, SysEvents
<1>17. SysTxs(x) = ToSet(mints) \cup ToSet(transacts)
  BY DEF SysTxs
<1> HIDE DEF mints, transacts, ab, list, events
<1>19. ASSUME NEW i \in 1..(a + b)
       PROVE  StandsFor(mints[i], ab[i])
  <2>1. CASE i \in 1..a
    <3> DEFINE e == x.enters[i]
    <3>1. mints[i] = MintToken(Sys.rollup.tokens.weth, Native, e, i - 1)
      BY <1>3, <2>1
    <3>2. ab[i] = e
      BY <1>7, <2>1 DEF IsConcat
    <3>3. e.event.kind = "enter"
      BY <1>5, <2>1
    <3> HIDE DEF e
    <3>4. e.event.kind \in {"enter", "enterToken"}
      BY <3>3
    <3> DEFINE token == Sys.rollup.tokens.weth
    <3> HIDE DEF token
    <3>5. StandsFor(MintToken(token, Native, e, i - 1), e)
      BY ONLY <3>4, MintTokenStandsFor
    <3> QED
      BY ONLY <3>1, <3>2, <3>5 DEF token
  <2>2. CASE i \in (a + 1)..(a + b) /\ i - a \in 1..b
    <3> DEFINE e == x.enterTokens[i - a]
    <3>1. mints[i] = MintEntered(Sys, e, i - 1)
      BY <1>3, <2>2
    <3>2. ab[i] = e
      BY <1>7, <2>2 DEF IsConcat
    <3>3. e.event.kind = "enterToken"
      BY <1>5, <2>2
    <3> HIDE DEF e
    <3>4. e.event.kind \in {"enter", "enterToken"}
      BY <3>3
    <3> DEFINE sys == Sys
    <3> HIDE DEF sys
    <3>5. StandsFor(MintEntered(sys, e, i - 1), e)
      BY ONLY <3>4, MintStandsFor
    <3> QED
      BY ONLY <3>1, <3>2, <3>5 DEF sys
  <2> QED
    BY <1>11, <2>1, <2>2
<1>20. ASSUME NEW i \in 1..(a + b + c)
       PROVE  StandsFor(list[i], events[i])
  <2>1. CASE i \in 1..(a + b)
    <3>1. list[i] = mints[i] /\ events[i] = ab[i]
      BY <1>9, <1>10, <2>1 DEF IsConcat
    <3> QED
      BY <1>19, <2>1, <3>1
  <2>2. CASE i \in (a + b + 1)..(a + b + c) /\ i - (a + b) \in 1..c
    <3>1. list[i] = transacts[i - (a + b)] /\ events[i] = x.transacts[i - (a + b)]
      BY <1>9, <1>10, <2>2 DEF IsConcat
    <3> QED
      BY <1>6, <2>2, <3>1
  <2> QED
    BY <1>12, <2>1, <2>2
<1>21. IsList(list, a + b + c) /\ IsList(events, a + b + c)
  BY <1>9, <1>10 DEF IsConcat
<1>22. ToSet(list) = ToSet(mints) \cup ToSet(transacts)
  <2>1. DOMAIN list = 1..(a + b + c) /\ DOMAIN mints = 1..(a + b) /\ DOMAIN transacts = 1..c
    BY <1>3, <1>6, <1>21, ListIs
  <2>2. \A i \in 1..(a + b) : list[i] = mints[i]
    BY <1>9 DEF IsConcat
  <2>3. \A i \in (a + b + 1)..(a + b + c) : list[i] = transacts[i - (a + b)]
    BY <1>9 DEF IsConcat
  <2>4. \A y \in ToSet(list) : y \in ToSet(mints) \/ y \in ToSet(transacts)
    <3> SUFFICES ASSUME NEW i \in 1..(a + b + c)
                 PROVE  list[i] \in ToSet(mints) \/ list[i] \in ToSet(transacts)
      BY <2>1 DEF ToSet
    <3>1. CASE i \in 1..(a + b)
      BY <2>1, <2>2, <3>1 DEF ToSet
    <3>2. CASE i \in (a + b + 1)..(a + b + c) /\ i - (a + b) \in 1..c
      BY <2>1, <2>3, <3>2 DEF ToSet
    <3> QED
      BY <1>12, <3>1, <3>2
  <2>5. \A y \in ToSet(mints) : y \in ToSet(list)
    BY <1>14, <2>1, <2>2 DEF ToSet
  <2>6. \A j \in 1..c : transacts[j] = list[j + (a + b)]
    <3> SUFFICES ASSUME NEW j \in 1..c
                 PROVE  transacts[j] = list[j + (a + b)]
      OBVIOUS
    <3> DEFINE i == j + (a + b)
    <3>1. i \in (a + b + 1)..(a + b + c) /\ i - (a + b) = j
      BY ONLY <1>2, j \in 1..c
    <3> HIDE DEF i
    <3>2. list[i] = transacts[i - (a + b)]
      BY <2>3, <3>1
    <3> QED
      BY <3>1, <3>2 DEF i
  <2>7. \A y \in ToSet(transacts) : y \in ToSet(list)
    BY <1>13, <1>15, <2>1, <2>6 DEF ToSet
  <2> QED
    BY <2>4, <2>5, <2>7
<1> QED
  BY <1>16, <1>17, <1>18, <1>20, <1>21, <1>22

-----------------------------------------------------------------------------
(* A signature finds the one log that its event was found in.              *)
Pinpoints(sys, spec, e, signature) ==
  /\ \E log : LogsAt(BlockOf(spec), signature) = {log} /\ log.event = e.event
  /\ e.event \in Extractable(sys)
  /\ \E k : e.tx.hash = <<spec.number, k>>

LEMMA OneLog ==
  ASSUME NEW p \in Pairs, NEW sys, sys = p.sys, NEW spec, Sound(sys, spec),
         NEW e, IsSighting(sys, spec, e), e.event.kind \in Executed,
         NEW signature, signature.r = e.tx.hash, signature.index = e.logIndex
  PROVE  Pinpoints(sys, spec, e, signature)
<1> DEFINE R == ReceiptsOf(spec)
           txs == MakeTxns(spec)
<1>1. R \in Seq(Seq(Logged)) /\ IsTxns(txs, spec.number, Len(R))
  BY BlockShape
<1>2. \E i \in DOMAIN R : \E j \in DOMAIN R[i] : \E d \in ExtractLog(sys, R[i][j]) :
        e = Found(txs[i], j, d)
  BY DEF IsSighting
<1>3. BlockOf(spec).receipts = R /\ BlockOf(spec).txs = txs
  BY DEF BlockOf
<1> HIDE DEF R, txs
<1>4. \A i \in DOMAIN R : txs[i].hash = <<spec.number, i>> /\ R[i] \in Seq(Logged)
  <2> DEFINE L == Seq(Logged)
  <2>1. R \in Seq(L)
    BY <1>1
  <2> HIDE DEF L
  <2>2. DOMAIN R = 1..Len(R) /\ \A i \in DOMAIN R : R[i] \in L
    BY <2>1
  <2> QED
    BY <1>1, <2>2 DEF L, IsTxns
<1>5. PICK i \in DOMAIN R : \E j \in DOMAIN R[i] : \E d \in ExtractLog(sys, R[i][j]) :
        e = Found(txs[i], j, d)
  BY <1>2
<1> DEFINE r == R[i]
<1>6. r \in Seq(Logged) /\ DOMAIN r = 1..Len(r)
  BY <1>4
<1>7. PICK j \in DOMAIN r : \E d \in ExtractLog(sys, r[j]) : e = Found(txs[i], j, d)
  BY <1>5
<1> HIDE DEF r
<1> DEFINE log == r[j]
<1>8. log \in Logged /\ j \in Int
  BY <1>6
<1>9. PICK d \in ExtractLog(sys, log) : e = Found(txs[i], j, d)
  BY <1>7
<1>10. e.event = d /\ e.tx.hash = <<spec.number, i>> /\ e.logIndex = j - 1
  BY <1>4, <1>9 DEF Found
<1>11. signature.index + 1 = j
  BY <1>8, <1>10
<1>12. {k \in DOMAIN R : txs[k].hash = signature.r /\ signature.index + 1 \in DOMAIN R[k]} = {i}
  <2>1. i \in DOMAIN R /\ j \in DOMAIN R[i]
    BY DEF r
  <2>2. ASSUME NEW k \in DOMAIN R, txs[k].hash = signature.r
        PROVE  k = i
    <3>1. <<spec.number, k>> = <<spec.number, i>>
      BY <1>4, <1>10, <2>2
    <3> QED
      BY <3>1
  <2> QED
    BY <1>4, <1>10, <1>11, <2>1, <2>2
<1>13. LogsAt(BlockOf(spec), signature) = {log}
  <2> DEFINE At == {k \in DOMAIN R : txs[k].hash = signature.r /\ signature.index + 1 \in DOMAIN R[k]}
  <2>1. LogsAt(BlockOf(spec), signature) = {R[k][signature.index + 1] : k \in At}
    BY <1>3 DEF LogsAt
  <2>2. At = {i}
    BY <1>12
  <2> HIDE DEF At
  <2>3. LogsAt(BlockOf(spec), signature) = {R[i][j]}
    BY <1>11, <2>1, <2>2
  <2> QED
    BY <2>3 DEF r
<1> HIDE DEF log
<1>14. d = log.event
  BY <1>8, <1>9, <1>10, ExtractedAsIs
<1>15. d \in Extractable(sys)
  BY <1>8, <1>9, ExtractLogIs
<1> QED
  BY <1>10, <1>13, <1>14, <1>15 DEF Pinpoints

(* What the signature of a system transaction says.                        *)
SignatureOf(t) == MakeTransaction(t).signature

SpeaksOf(t, e) ==
  /\ SignatureOf(t).r = e.tx.hash /\ SignatureOf(t).index = e.logIndex
  /\ SignatureOf(t).info.flag = e.event.kind
  /\ MakeSysLog(t).subject \in
       IF t.kind = "TransactSysTx" THEN {e.event.sender, AliasAddress(e.event.sender)}
       ELSE {e.event.recipient}
  /\ {RollupSender(m) : m \in FromSignature(SignatureOf(t))} = {EvmSender(t)}
  /\ EvmSender(t) \notin ToAlias

TransactSpeaks(t, e, from) ==
  /\ ToSignature(t.magicSig).r = e.tx.hash /\ ToSignature(t.magicSig).index = e.logIndex
  /\ ToSignature(t.magicSig).info.flag = "transact"
  /\ MakeSysLog(t).subject = from
  /\ {RollupSender(m) : m \in FromSignature(ToSignature(t.magicSig))} = {from}
  /\ EvmSender(t) = from

LEMMA TransactTold ==
  ASSUME NEW t, t.kind = "TransactSysTx", NEW e, e.event.kind = "transact",
         NEW a \in BOOLEAN, t.magicSig = MagicSig(e, e.event.sender, a),
         NEW from, from = IF a THEN AliasAddress(e.event.sender) ELSE e.event.sender
  PROVE  TransactSpeaks(t, e, from)
<1> DEFINE sender == e.event.sender
           sig == [ty |-> "transact", sender |-> sender, aliased |-> a,
                   txid |-> e.tx.hash, eventIdx |-> e.logIndex]
           info == [flag |-> "transact", aliased |-> a, sender |-> sender]
           signature == [r |-> e.tx.hash, sentinel |-> TRUE, index |-> e.logIndex,
                         info |-> info]
           read == [ty |-> "transact", sender |-> sender, aliased |-> a]
           m0 == [ty |-> "transact", sender |-> sender, aliased |-> a,
                  txid |-> Reverse(signature.r), eventIdx |-> signature.index]
<1>1. t.magicSig = sig
  BY DEF MagicSig
<1>2. WriteIntoS(sig) = info
  <2>1. ("transact" = "transact" /\ a) = a
    OBVIOUS
  <2> QED
    BY <2>1 DEF WriteIntoS
<1>3. ToSignature(sig) = signature
  BY <1>2 DEF ToSignature
<1>4. ReadFromS(info) = read
  <2>1. ("transact" = "transact" /\ a) = a
    OBVIOUS
  <2> QED
    BY <2>1 DEF ReadFromS
<1>5. FromSignature(signature) = {m0}
  BY <1>4 DEF FromSignature
<1>6. RollupSender(sig) = from /\ RollupSender(m0) = from
  <2>1. CASE a = TRUE
    BY <2>1 DEF RollupSender
  <2>2. CASE a = FALSE
    BY <2>2 DEF RollupSender
  <2> QED
    BY <2>1, <2>2
<1>7. EvmSender(t) = from
  BY <1>1, <1>6 DEF EvmSender
<1>8. MakeSysLog(t).subject = from
  BY <1>7 DEF MakeSysLog
<1>9. signature.r = e.tx.hash /\ signature.index = e.logIndex /\ signature.info.flag = "transact"
  OBVIOUS
<1> HIDE DEF m0
<1>10. {RollupSender(m) : m \in FromSignature(signature)} = {from}
  <2> HIDE DEF signature
  <2> QED
    BY <1>5, <1>6
<1> QED
  BY <1>1, <1>3, <1>7, <1>8, <1>9, <1>10 DEF TransactSpeaks

LEMMA SignatureTells ==
  ASSUME NEW t, NEW e, StandsFor(t, e), e.event.kind \in Executed,
         e.event.kind = "transact" => e.event.sender \in Account
  PROVE  SpeaksOf(t, e)
<1> DEFINE sig == t.magicSig
           signature == ToSignature(sig)
<1>1. SignatureOf(t) = signature
  BY SignatureIs DEF StandsFor, SignatureOf
<1>2. FromSignature(signature) =
        {[ty |-> ReadFromS(signature.info).ty, sender |-> ReadFromS(signature.info).sender,
          aliased |-> ReadFromS(signature.info).aliased,
          txid |-> Reverse(signature.r), eventIdx |-> signature.index]}
      \/ sig.ty \notin Executed
  BY DEF FromSignature, ToSignature, WriteIntoS, Executed
<1>3. CASE e.event.kind = "transact"
  <2> DEFINE sender == e.event.sender
             from == IF sender \in ToAlias THEN AliasAddress(sender) ELSE sender
  <2>1. /\ sig = MagicSig(e, sender, sender \in ToAlias) /\ t.kind = "TransactSysTx"
    BY <1>3 DEF StandsFor, TransactSig
  <2>2. ASSUME NEW a \in BOOLEAN, a = (sender \in ToAlias),
               NEW to, to = IF a THEN AliasAddress(sender) ELSE sender
        PROVE  TransactSpeaks(t, e, to)
    <3>1. sig = MagicSig(e, sender, a) /\ t.kind = "TransactSysTx"
      BY <2>1, <2>2
    <3> QED
      BY <1>3, <2>2, <3>1, TransactTold
  <2>3. TransactSpeaks(t, e, from)
    <3>1. CASE sender \in ToAlias
      BY <2>2, <3>1
    <3>2. CASE sender \notin ToAlias
      <4>1. FALSE \in BOOLEAN /\ FALSE = (sender \in ToAlias)
        BY <3>2
      <4>2. from = IF FALSE THEN AliasAddress(sender) ELSE sender
        BY <3>2
      <4> HIDE DEF from
      <4> QED
        BY <2>2, <4>1, <4>2
    <3> QED
      BY <3>1, <3>2
  <2>6. from \notin ToAlias
    BY <1>3, AliasAssumption
  <2> HIDE DEF signature, from
  <2>7. from \in {sender, AliasAddress(sender)}
    BY DEF from
  <2> QED
    BY <1>1, <1>3, <2>1, <2>3, <2>6, <2>7 DEF SpeaksOf, TransactSpeaks, signature
<1>4. CASE e.event.kind # "transact"
  <2>1. /\ sig = MagicSig(e, Minter, FALSE) /\ t.kind # "TransactSysTx"
        /\ t.recipient = e.event.recipient
    BY <1>4 DEF StandsFor, EnterSig
  <2>2. /\ signature.r = e.tx.hash /\ signature.index = e.logIndex /\ sig.ty = e.event.kind
        /\ signature.info.flag = e.event.kind
    BY <2>1 DEF ToSignature, MagicSig, WriteIntoS
  <2>3. ReadFromS(signature.info).ty = e.event.kind
    BY <2>2 DEF ReadFromS
  <2>4. EvmSender(t) = Minter
    BY <2>1 DEF EvmSender
  <2>5. {RollupSender(m) : m \in FromSignature(signature)} = {Minter}
    <3> DEFINE m0 == [ty |-> ReadFromS(signature.info).ty,
                      sender |-> ReadFromS(signature.info).sender,
                      aliased |-> ReadFromS(signature.info).aliased,
                      txid |-> Reverse(signature.r), eventIdx |-> signature.index]
    <3>1. FromSignature(signature) = {m0}
      BY <1>2, <2>2
    <3>2. RollupSender(m0) = Minter
      BY <1>4, <2>3 DEF RollupSender
    <3> HIDE DEF m0, signature
    <3> QED
      BY <3>1, <3>2
  <2>6. Minter \notin ToAlias
    BY AliasAssumption
  <2>7. MakeSysLog(t).subject = e.event.recipient
    BY <2>1 DEF MakeSysLog
  <2> HIDE DEF signature
  <2> QED
    BY <1>1, <2>1, <2>2, <2>4, <2>5, <2>6, <2>7 DEF SpeaksOf
<1> QED
  BY <1>3, <1>4

-----------------------------------------------------------------------------
(* What is true of the system transactions of one followed block.          *)
Traced(x, spec, t) ==
  LET sig == SignatureOf(t) IN
    /\ Cardinality(LogsAt(x.hostBlock, sig)) = 1
    /\ \A log \in LogsAt(x.hostBlock, sig) :
         /\ log.event.kind = sig.info.flag
         /\ MakeSysLog(t).subject \in
              IF t.kind = "TransactSysTx"
              THEN {log.event.sender, AliasAddress(log.event.sender)}
              ELSE {log.event.recipient}
    /\ {RollupSender(m) : m \in FromSignature(sig)} = {EvmSender(t)}
    /\ EvmSender(t) \notin ToAlias
    /\ \E k : sig.r = <<spec.number, k>>

LEMMA TracedInBlock ==
  ASSUME NEW x, NEW spec, NEW h, IsFollowed(x, spec, h)
  PROVE  /\ Cardinality(SysTxs(x)) = Len(x.enters) + Len(x.enterTokens) + Len(x.transacts)
         /\ \A t \in SysTxs(x) : Traced(x, spec, t)
         /\ \A t, u \in SysTxs(x) : SignatureOf(t) = SignatureOf(u) => t = u
<1> DEFINE n == Len(x.enters) + Len(x.enterTokens) + Len(x.transacts)
           s == SysList(x)
           es == SysEvents(x)
<1>1. /\ IsList(s, n) /\ IsList(es, n) /\ \A i \in 1..n : StandsFor(s[i], es[i])
      /\ SysTxs(x) = ToSet(s)
  BY SysListIs
<1>2. Keyed(es) /\ \A i \in DOMAIN es : /\ IsSighting(Sys, spec, es[i])
                                        /\ es[i].event.kind \in Executed
  BY SysEventsKeyed
<1>3. x.hostBlock = BlockOf(spec)
  BY FollowedTypes
<1>4. pair \in Pairs /\ Sys = pair.sys /\ Sound(Sys, spec)
  BY DEF IsFollowed, Sys
<1> HIDE DEF n, s, es
<1>5. DOMAIN s = 1..n /\ DOMAIN es = 1..n
  BY <1>1, ListIs
<1>6. ASSUME NEW i \in 1..n
      PROVE  /\ Traced(x, spec, s[i])
             /\ SignatureOf(s[i]).r = es[i].tx.hash /\ SignatureOf(s[i]).index = es[i].logIndex
  <2> DEFINE t == s[i]
             e == es[i]
             sig == SignatureOf(t)
             sys == Sys
  <2>1. StandsFor(t, e) /\ IsSighting(sys, spec, e) /\ e.event.kind \in Executed
    BY <1>1, <1>2, <1>5
  <2>2. pair \in Pairs /\ sys = pair.sys /\ Sound(sys, spec)
    BY <1>4
  <2>3. /\ SignatureOf(t).r = t.magicSig.txid /\ SignatureOf(t).index = t.magicSig.eventIdx
    <3> HIDE DEF t
    <3>1. t.kind \in {"MintNative", "MintToken", "TransactSysTx"}
      BY <2>1 DEF StandsFor
    <3>2. SignatureOf(t) = ToSignature(t.magicSig)
      BY ONLY <3>1, SignatureIs DEF SignatureOf
    <3> QED
      BY <3>2 DEF ToSignature
  <2>4. t.magicSig.txid = e.tx.hash /\ t.magicSig.eventIdx = e.logIndex
    BY <2>1 DEF StandsFor, TransactSig, EnterSig, MagicSig
  <2> HIDE DEF t, e, sys
  <2>5. sig.r = e.tx.hash /\ sig.index = e.logIndex
    BY <2>3, <2>4
  <2> HIDE DEF sig
  <2>6. /\ \E log : LogsAt(BlockOf(spec), sig) = {log} /\ log.event = e.event
        /\ e.event \in Extractable(sys)
        /\ \E k : e.tx.hash = <<spec.number, k>>
    <3>1. pair \in Pairs
      BY <2>2
    <3>2. sys = pair.sys
      BY <2>2
    <3>3. Sound(sys, spec)
      BY <2>2
    <3>4. IsSighting(sys, spec, e)
      BY <2>1
    <3>5. e.event.kind \in Executed
      BY <2>1
    <3>6. Pinpoints(sys, spec, e, sig)
      BY ONLY <3>1, <3>2, <3>3, <3>4, <3>5, <2>5, OneLog
    <3> QED
      BY <3>6 DEF Pinpoints
  <2>7. e.event.kind = "transact" => e.event.sender \in Account
    <3>1. e.event.kind = "transact" => e.event \in Transacted
      BY <2>6, ExtractableKinds
    <3> QED
      BY <3>1 DEF Transacted
  <2>8. SpeaksOf(t, e)
    BY ONLY <2>1, <2>7, SignatureTells
  <2>9. PICK log : LogsAt(BlockOf(spec), sig) = {log} /\ log.event = e.event
    BY <2>6
  <2>10. Cardinality({log}) = 1
    BY FS_Singleton
  <2>11. Traced(x, spec, t)
    BY <1>3, <2>5, <2>6, <2>8, <2>9, <2>10 DEF Traced, SpeaksOf, sig
  <2> QED
    BY <2>5, <2>11 DEF sig, t, e
<1>7. ASSUME NEW i \in 1..n, NEW j \in 1..n, SignatureOf(s[i]) = SignatureOf(s[j])
      PROVE  i = j
  <2>1. SameLog(es[i], es[j])
    BY <1>6, <1>7 DEF SameLog
  <2> QED
    BY <1>2, <1>5, <2>1 DEF Keyed
<1>8. Distinct(s)
  BY <1>5, <1>7 DEF Distinct
<1>9. Cardinality(SysTxs(x)) = n
  BY <1>1, <1>8, DistinctCount
<1>10. \A t \in SysTxs(x) : \E i \in 1..n : t = s[i]
  BY <1>1, <1>5 DEF ToSet
<1>11. \A t \in SysTxs(x) : Traced(x, spec, t)
  BY <1>6, <1>10
<1>12. \A t, u \in SysTxs(x) : SignatureOf(t) = SignatureOf(u) => t = u
  BY <1>7, <1>10
<1> QED
  BY <1>9, <1>11, <1>12 DEF n

(* As many of the recorded events are to be executed as were found.        *)
LEMMA ExecutedCount ==
  ASSUME NEW x, NEW spec, NEW h, IsFollowed(x, spec, h)
  PROVE  Len(x.enters) + Len(x.enterTokens) + Len(x.transacts) = Len(ToExecute(spec.events))
<1> DEFINE sys == Sys
           s == spec.events
           E == Enters \cup EnterTokens \cup Transacted \cup Fills
           P == {e \in E : e.kind # "filled"}
<1>1. /\ pair \in Pairs /\ sys = pair.sys /\ Sound(sys, spec) /\ h \in Nat
      /\ spec.number = sys.host.deployHeight + h /\ x = ExtractOf(sys, spec)
  BY DEF IsFollowed, Sys
<1> HIDE DEF sys
<1>2. /\ EventsOf(x.enters) = OfKind(spec, "enter")
      /\ EventsOf(x.enterTokens) = OfKind(spec, "enterToken")
      /\ EventsOf(x.transacts) = OfKind(spec, "transact")
  BY <1>1, ExtractConforms DEF ConformsTo
<1>3. \A k : OfKind(spec, k) = Those(s, Kind(k))
  BY <1>1, KindRecorded
<1>4. /\ IsList(x.enters, Len(x.enters)) /\ IsList(x.enterTokens, Len(x.enterTokens))
      /\ IsList(x.transacts, Len(x.transacts))
  BY FollowedTypes
<1>5. \A u, n : IsList(u, n) => Len(EventsOf(u)) = n
  <2> SUFFICES ASSUME NEW u, NEW n, IsList(u, n)
               PROVE  Len(EventsOf(u)) = n
    OBVIOUS
  <2>1. DOMAIN u = 1..n /\ n \in Nat
    BY ListIs
  <2> QED
    BY <2>1 DEF EventsOf
<1>6. s \in Seq(E)
  <2> DEFINE seen == Seen(sys, spec.receipts)
  <2>1. /\ s \in Seq(Recorded) /\ spec.receipts \in Seq(Seq(Logged))
        /\ Those(seen, Telling) = s
    BY <1>1 DEF Sound, HostBlock
  <2>2. seen \in Seq(Extractable(sys))
    BY <2>1, SeenType
  <2> HIDE DEF seen, s
  <2>3. s \in Seq(Extractable(sys))
    BY <2>1, <2>2, ThoseType
  <2>4. \A e \in Recorded : e \in Extractable(sys) => e \in E
    <3>1. \A e \in Recorded : e.kind \notin {"submitted"}
      BY DEF Recorded, Enters, EnterTokens, Transacted, Fills, Others
    <3> QED
      BY <3>1, ExtractableKinds
  <2> HIDE DEF E
  <2>5. \A i \in DOMAIN s : s[i] \in E
    BY <2>1, <2>3, <2>4
  <2>6. s \in Seq(Recorded)
    BY <2>1
  <2> QED
    BY ONLY <2>5, <2>6
<1>7. ToExecute(s) = Those(s, P)
  <2> DEFINE at == {i \in DOMAIN s : s[i].kind # "filled"}
             bt == {i \in DOMAIN s : s[i] \in P}
  <2>1. \A i \in DOMAIN s : s[i] \in E
    <3> HIDE DEF E, s
    <3> QED
      BY <1>6
  <2>2. at = bt
    <3> HIDE DEF E, s
    <3> QED
      BY <2>1
  <2> HIDE DEF s, P
  <2> QED
    BY <2>2 DEF ToExecute, Those
<1>8. Len(Those(s, P)) = Len(Those(s, Kind("enter"))) + Len(Those(s, Kind("enterToken")))
                           + Len(Those(s, Kind("transact")))
  <2> DEFINE A == Kind("enter")
             B == Kind("enterToken")
             C == Kind("transact")
  <2>1. \A e \in E : e \in P <=> e \in A \/ e \in B \/ e \in C
    BY DEF Kind, Event, Recorded, Enters, EnterTokens, Transacted, Fills
  <2>2. \A e \in E : ~ (e \in A /\ e \in B) /\ ~ (e \in A /\ e \in C) /\ ~ (e \in B /\ e \in C)
    BY DEF Kind
  <2> HIDE DEF A, B, C, P, E, s
  <2>3. Len(Those(s, P)) = Len(Those(s, A)) + Len(Those(s, B)) + Len(Those(s, C))
    BY ONLY <1>6, <2>1, <2>2, ThoseParts
  <2> QED
    BY <2>3 DEF A, B, C
<1> DEFINE N(k) == Len(Those(s, Kind(k)))
<1>9. Len(x.enters) = N("enter") /\ Len(x.enterTokens) = N("enterToken")
      /\ Len(x.transacts) = N("transact")
  BY <1>2, <1>3, <1>4, <1>5
<1>10. Len(ToExecute(s)) = N("enter") + N("enterToken") + N("transact")
  BY <1>7, <1>8
<1> HIDE DEF N
<1> QED
  BY <1>9, <1>10

(* The signature of a system transaction names the one host log it is for, *)
(* no two in the chain are alike, whoever recovers the sender finds the    *)
(* one the EVM ran it with, and nothing runs as an account with code.      *)
THEOREM SystemTxsAreTraced == FeedSpec => []SystemTxsTraceBack
<1>1. ASSUME FeedInv
      PROVE  SystemTxsTraceBack
  <2> DEFINE sys == pair.sys
             spec(i) == canonical[i + 1]
             x(i) == followed[i]
  <2>1. pair \in Pairs /\ sys.host.deployHeight \in Nat
    BY <1>1, FollowedIs, OfPair DEF IsKept
  <2>2. \A i \in DOMAIN followed :
          /\ i \in Nat /\ IsFollowed(x(i), spec(i), i)
          /\ spec(i).number = sys.host.deployHeight + i
    BY <1>1, FollowedIs DEF IsKept, IsFollowed, Sys
  <2> HIDE DEF spec, x, sys
  <2>3. \A i \in DOMAIN followed :
          /\ Cardinality(SysTxs(x(i))) = Len(ToExecute(spec(i).events))
          /\ \A t \in SysTxs(x(i)) : Traced(x(i), spec(i), t)
          /\ \A t, u \in SysTxs(x(i)) : SignatureOf(t) = SignatureOf(u) => t = u
    BY <2>2, TracedInBlock, ExecutedCount
  <2>4. ASSUME NEW i \in DOMAIN followed, NEW j \in DOMAIN followed,
               NEW t \in SysTxs(x(i)), NEW u \in SysTxs(x(j)),
               SignatureOf(u) = SignatureOf(t)
        PROVE  u = t /\ i = j
    <3>1. PICK k : SignatureOf(t).r = <<spec(i).number, k>>
      BY <2>3 DEF Traced
    <3>2. PICK l : SignatureOf(u).r = <<spec(j).number, l>>
      BY <2>3 DEF Traced
    <3>3. spec(i).number = spec(j).number
      BY <2>4, <3>1, <3>2
    <3>4. i = j
      BY <2>1, <2>2, <3>3
    <3> QED
      BY <2>3, <2>4, <3>4
  <2>5. ASSUME NEW i \in DOMAIN followed, NEW t \in SysTxs(x(i))
        PROVE  Traced(x(i), spec(i), t)
    BY <2>3
  <2> QED
    BY <2>3, <2>4, <2>5, ZenonT(60) DEF SystemTxsTraceBack, Traced, SignatureOf, x, spec
<1> QED
  BY <1>1, FeedInvariant, PTL

-----------------------------------------------------------------------------
(* A power of ten is made of its factors.                                  *)
Positive == Nat \ {0}
IsUnits(h, n) ==
  /\ h \in [0..n -> Positive] /\ h[0] = 1 /\ \A i \in 1..n : h[i] = Base * h[i - 1]

LEMMA UnitsAlong ==
  ASSUME NEW n \in Nat
  PROVE  \E h : IsUnits(h, n) /\ Units(n) = h[n]
<1> DEFINE D == Positive
           step == [i \in 1..n |-> [d \in D |-> Base * d]]
           Is_(h) == h = [i \in 0..n |-> IF i = 0 THEN 1 ELSE Base * h[i - 1]]
           units == CHOOSE h : Is_(h)
<1>1. Base \in D /\ 1 \in D /\ \A d \in D : Base * d \in D
  BY DecimalsAssumption DEF Positive
<1>2. step \in [1..n -> [D -> D]]
  <2> HIDE DEF D
  <2> QED
    BY <1>1
<1> HIDE DEF D
<1>3. \A i \in 1..n, d \in D : step[i][d] = Base * d
  OBVIOUS
<1> HIDE DEF step
<1>4. PICK h \in [0..n -> D] : Along(h, n, 1, step)
  BY <1>1, <1>2, AlongExists
<1>5. h[0] = 1 /\ \A i \in 1..n : h[i] = Base * h[i - 1]
  <2>1. \A i \in 1..n : i - 1 \in 0..n
    OBVIOUS
  <2> QED
    BY <1>3, <1>4, <2>1 DEF Along
<1>6. Is_(h)
  <2>1. \A i \in 0..n : i # 0 => i \in 1..n
    OBVIOUS
  <2>2. h = [i \in 0..n |-> h[i]]
    OBVIOUS
  <2> QED
    BY <1>5, <2>1, <2>2
<1>7. Is_(units)
  BY <1>6
<1>8. Units(n) = units[n]
  BY DEF Units
<1> HIDE DEF units
<1>9. \A i \in 0..n : units[i] = IF i = 0 THEN 1 ELSE Base * units[i - 1]
  BY <1>7
<1> DEFINE T == {i \in 0..n : units[i] = h[i]}
<1>10. 0 \in T
  BY <1>5, <1>9
<1>11. ASSUME NEW i \in 0..(n - 1), i \in T
       PROVE  i + 1 \in T
  <2>1. i + 1 \in 0..n /\ i + 1 \in 1..n /\ i + 1 # 0 /\ (i + 1) - 1 = i
    OBVIOUS
  <2>2. units[i + 1] = Base * units[i]
    BY <1>9, <2>1
  <2>3. h[i + 1] = Base * h[i]
    BY <1>5, <2>1
  <2> QED
    BY <1>11, <2>1, <2>2, <2>3
<1>12. n \in T
  <2> HIDE DEF T
  <2>1. \A i \in 0..n : i \in T
    BY <1>10, <1>11, Induction
  <2> QED
    BY <2>1
<1> QED
  BY <1>4, <1>5, <1>8, <1>12 DEF IsUnits, D

LEMMA UnitsUnique ==
  ASSUME NEW n \in Nat, NEW h, IsUnits(h, n), NEW m \in 0..n
  PROVE  Units(m) = h[m]
<1>1. PICK k : IsUnits(k, m) /\ Units(m) = k[m]
  BY UnitsAlong
<1> DEFINE T == {i \in 0..m : k[i] = h[i]}
<1>2. 0 \in T
  BY <1>1 DEF IsUnits
<1>3. ASSUME NEW i \in 0..(m - 1), i \in T
      PROVE  i + 1 \in T
  <2>1. i + 1 \in 0..m /\ i + 1 \in 1..m /\ i + 1 \in 1..n /\ (i + 1) - 1 = i
    OBVIOUS
  <2> QED
    BY <1>1, <1>3, <2>1 DEF IsUnits
<1>4. m \in T
  <2> HIDE DEF T
  <2>1. \A i \in 0..m : i \in T
    BY <1>2, <1>3, Induction
  <2> QED
    BY <2>1
<1> QED
  BY <1>1, <1>4

LEMMA UnitsAre ==
  ASSUME NEW n \in Nat
  PROVE  Units(n) \in Positive /\ Units(0) = 1 /\ Units(n + 1) = Base * Units(n)
<1> DEFINE m == n + 1
<1>1. m \in Nat /\ 0 \in 0..m /\ n \in 0..m /\ m \in 0..m /\ m \in 1..m /\ m - 1 = n
  OBVIOUS
<1> HIDE DEF m
<1>2. PICK h : IsUnits(h, m)
  BY <1>1, UnitsAlong
<1>3. Units(0) = h[0] /\ Units(n) = h[n] /\ Units(m) = h[m]
  BY <1>1, <1>2, UnitsUnique
<1> QED
  BY <1>1, <1>2, <1>3 DEF IsUnits, m

LEMMA FactorIn ==
  ASSUME NEW a \in Nat, NEW b \in Nat, NEW c \in Nat
  PROVE  c * (a * b) = a * (c * b)
OBVIOUS

LEMMA UnitsSum ==
  ASSUME NEW a \in Nat, NEW b \in Nat
  PROVE  Units(a + b) = Units(a) * Units(b)
<1> DEFINE T == {i \in 0..b : Units(a + i) = Units(a) * Units(i)}
<1>1. 0 \in T
  <2>1. Units(a) \in Nat /\ Units(0) = 1
    BY UnitsAre DEF Positive
  <2>2. a + 0 = a /\ Units(a) * 1 = Units(a)
    BY <2>1
  <2> QED
    BY <2>1, <2>2
<1>2. ASSUME NEW i \in 0..(b - 1), i \in T
      PROVE  i + 1 \in T
  <2>1. i \in Nat /\ i + 1 \in 0..b /\ a + i \in Nat /\ a + (i + 1) = (a + i) + 1
    OBVIOUS
  <2>2. Units(a) \in Nat /\ Units(i) \in Nat /\ Base \in Nat
    BY <2>1, UnitsAre, DecimalsAssumption DEF Positive
  <2>3. Units((a + i) + 1) = Base * Units(a + i)
    BY <2>1, UnitsAre
  <2>4. Units(i + 1) = Base * Units(i)
    BY <2>1, UnitsAre
  <2>5. Base * (Units(a) * Units(i)) = Units(a) * (Base * Units(i))
    BY ONLY <2>2, FactorIn
  <2> QED
    BY <1>2, <2>1, <2>3, <2>4, <2>5
<1>3. b \in T
  <2> HIDE DEF T
  <2>1. \A i \in 0..b : i \in T
    BY <1>1, <1>2, Induction
  <2> QED
    BY <2>1
<1> QED
  BY <1>3

(* The conversion is exact but for the rest of a division.                 *)
Keeps(amount, decimals, minted) ==
  /\ minted * Units(decimals) <= amount * Units(NativeDecimals)
  /\ amount * Units(NativeDecimals) < (minted + 1) * Units(decimals)

LEMMA DivisionKeeps ==
  ASSUME NEW a \in Nat, NEW k \in Positive, NEW u \in Positive,
         NEW q, q = a \div k
  PROVE  q * (u * k) <= a * u /\ a * u < (q + 1) * (u * k) /\ q \in Nat
<1>1. q \in Nat /\ q * k <= a /\ a < (q + 1) * k
  BY DEF Positive
<1>2. k \in Nat /\ u \in Nat /\ u > 0
  BY DEF Positive
<1> DEFINE x == q * k
           y == (q + 1) * k
<1>3. x \in Nat /\ y \in Nat /\ x <= a /\ a < y
  BY <1>1, <1>2
<1>4. q * (u * k) = x * u /\ (q + 1) * (u * k) = y * u
  <2> HIDE DEF Positive
  <2>1. \A m \in Nat : m * (u * k) = (m * k) * u
    BY ONLY <1>2
  <2> QED
    BY ONLY <1>1, <2>1
<1> HIDE DEF x, y
<1>5. x * u <= a * u /\ a * u < y * u
  BY <1>2, <1>3
<1> QED
  BY <1>1, <1>4, <1>5

LEMMA ConversionKeeps ==
  ASSUME NEW amount \in Nat, NEW decimals \in Positive,
         amount * Units(Max({0, NativeDecimals - decimals})) < Wide
  PROVE  Keeps(amount, decimals, AdjustDecimals(amount, decimals, NativeDecimals))
<1> DEFINE n == NativeDecimals
           minted == AdjustDecimals(amount, decimals, n)
<1>1. n \in Nat /\ n # 0 /\ decimals \in Nat /\ decimals # 0
  BY DecimalsAssumption DEF Positive
<1>2. Wide \in Nat \ {0}
  BY FeedAssumption
<1> HIDE DEF n
<1>3. CASE decimals > n
  <2> DEFINE d == decimals - n
             k == Units(d)
             u == Units(n)
  <2>1. d \in Nat /\ n + d = decimals
    BY <1>1, <1>3
  <2> HIDE DEF d
  <2>2. Units(decimals) = u * k /\ u \in Positive /\ k \in Positive
    BY <1>1, <2>1, UnitsSum, UnitsAre
  <2>3. minted = amount \div k
    BY <1>1, <1>3 DEF AdjustDecimals, d
  <2> HIDE DEF k, u, minted
  <2>4. minted * (u * k) <= amount * u /\ amount * u < (minted + 1) * (u * k)
    BY ONLY <2>2, <2>3, amount \in Nat, DivisionKeeps
  <2> QED
    BY <2>2, <2>4 DEF Keeps, minted, n, u
<1>4. CASE ~ (decimals > n)
  <2> DEFINE d == n - decimals
             k == Units(d)
             u == Units(decimals)
  <2>1. d \in Nat /\ decimals + d = n
    BY <1>1, <1>4
  <2>2. Max({0, d}) = d
    <3> HIDE DEF d
    <3> QED
      BY <2>1, MaxWithZero
  <2> HIDE DEF d
  <2>3. Units(n) = u * k /\ u \in Positive /\ k \in Positive
    BY <1>1, <2>1, UnitsSum, UnitsAre
  <2>4. amount * k < Wide
    BY <2>2 DEF d, n
  <2>5. minted = (amount * k) % Wide
    BY <1>1, <1>4 DEF AdjustDecimals, d
  <2> HIDE DEF k, u, minted
  <2>6. amount * k \in Nat
    BY <2>3 DEF Positive
  <2>7. minted = amount * k
    <3> DEFINE x == amount * k
    <3> HIDE DEF x
    <3>1. x \in Nat /\ x < Wide
      BY <2>4, <2>6 DEF x
    <3>2. x % Wide = x
      BY ONLY <1>2, <3>1
    <3> QED
      BY <2>5, <3>2 DEF x
  <2>8. u \in Nat /\ k \in Nat /\ u > 0
    BY <2>3 DEF Positive
  <2>9. (amount * k) * u = amount * (u * k)
    BY ONLY <2>8, amount \in Nat
  <2>10. minted \in Nat /\ (minted + 1) * u = minted * u + u
    BY <2>6, <2>7, <2>8
  <2>11. minted * u = amount * (u * k) /\ minted * u \in Nat
    BY <2>6, <2>7, <2>8, <2>9
  <2> DEFINE w == amount * (u * k)
  <2>12. minted * u = w /\ w \in Nat /\ (minted + 1) * u = w + u
    BY <2>10, <2>11
  <2> HIDE DEF w
  <2>13. minted * u <= w /\ w < (minted + 1) * u
    BY <2>8, <2>12
  <2> QED
    BY <2>3, <2>13 DEF Keeps, minted, n, u, w
<1> QED
  BY <1>3, <1>4 DEF minted, n

-----------------------------------------------------------------------------
(* The record of a USD is the only one with its address.                   *)
LEMMA OneRecord ==
  ASSUME NEW p \in Pairs, NEW tokens, tokens = p.sys.host.tokens, NEW address,
         NEW r \in UsdRecordOf(tokens, address), NEW u \in UsdRecordOf(tokens, address)
  PROVE  r = u /\ r.decimals \in Positive
<1> DEFINE usds == tokens.usds
<1>1. /\ \A a, b \in DOMAIN usds : usds[a].address = usds[b].address => a = b
      /\ \A x \in Range(usds) : x.decimals \in Nat \ {0}
  BY PermittedAssumption, DecimalsAssumption
<1>2. \A x \in UsdRecordOf(tokens, address) : \E a \in DOMAIN usds : x = usds[a] /\ x.address = address
  BY DEF UsdRecordOf, FirstOf
<1>3. PICK a \in DOMAIN usds : r = usds[a] /\ r.address = address
  BY <1>2
<1>4. PICK b \in DOMAIN usds : u = usds[b] /\ u.address = address
  BY <1>2
<1>5. r \in Range(usds)
  BY <1>3 DEF Range
<1> HIDE DEF usds
<1> QED
  BY <1>1, <1>3, <1>4, <1>5 DEF Positive

(* A mint of native value is for a deposit of USD.                         *)
LEMMA NativeMinted ==
  ASSUME NEW x, NEW spec, NEW h, IsFollowed(x, spec, h),
         NEW t \in ToSet(Mints(Sys, x, 0)), t.kind = "MintNative"
  PROVE  \E i \in DOMAIN x.enterTokens : \E n :
           t = MintEntered(Sys, x.enterTokens[i], n) /\ IsUsd(Sys.host.tokens, t.hostToken)
<1> DEFINE a == Len(x.enters)
           b == Len(x.enterTokens)
           mints == Mints(Sys, x, 0)
<1>1. IsList(x.enters, a) /\ IsList(x.enterTokens, b)
  BY FollowedTypes
<1>2. DOMAIN x.enterTokens = 1..b /\ a \in Nat /\ b \in Nat
  BY <1>1, ListIs
<1> HIDE DEF a, b
<1>3. /\ IsList(mints, a + b)
      /\ \A i \in 1..a : mints[i] = MintToken(Sys.rollup.tokens.weth, Native, x.enters[i], i - 1)
      /\ \A i \in (a + 1)..(a + b) : mints[i] = MintEntered(Sys, x.enterTokens[i - a], i - 1)
  <2> DEFINE sys == Sys
             y == x
  <2>1. IsList(y.enters, a) /\ IsList(y.enterTokens, b)
    BY <1>1
  <2>2. mints = Mints(sys, y, 0)
    OBVIOUS
  <2> HIDE DEF sys, mints, y
  <2>3. /\ IsList(Mints(sys, y, 0), a + b)
        /\ \A i \in 1..a : Mints(sys, y, 0)[i] =
              MintToken(sys.rollup.tokens.weth, Native, y.enters[i], i - 1)
        /\ \A i \in (a + 1)..(a + b) :
              Mints(sys, y, 0)[i] = MintEntered(sys, y.enterTokens[i - a], i - 1)
    BY ONLY <2>1, MintsAre
  <2> QED
    BY ONLY <2>2, <2>3 DEF sys, y
<1>4. DOMAIN mints = 1..(a + b)
  <2> HIDE DEF mints
  <2> QED
    BY <1>3, ListIs
<1>5. PICK i \in 1..(a + b) : t = mints[i]
  BY <1>4 DEF ToSet
<1> HIDE DEF mints
<1>6. i \notin 1..a
  <2>1. \A e, n, token : MintToken(token, Native, e, n).kind = "MintToken"
    BY DEF MintToken
  <2> QED
    BY <1>3, <1>5, <2>1
<1>7. i \in (a + 1)..(a + b) /\ i - a \in 1..b
  BY <1>2, <1>6
<1> DEFINE e == x.enterTokens[i - a]
<1>8. t = MintEntered(Sys, e, i - 1)
  BY <1>3, <1>5, <1>7
<1> HIDE DEF e
<1>9. IsUsd(Sys.host.tokens, e.event.token) /\ t.hostToken = e.event.token
  <2>1. \A n, d : MintNative(e, d, n).hostToken = e.event.token
    BY DEF MintNative
  <2>2. \A token, u, n : MintToken(token, u, e, n).kind # "MintNative"
    BY DEF MintToken
  <2> QED
    BY <1>8, <2>1, <2>2 DEF MintEntered
<1> QED
  BY <1>2, <1>7, <1>8, <1>9 DEF e

LEMMA MintKeepsValue ==
  ASSUME NEW x, NEW spec, NEW h, IsFollowed(x, spec, h),
         NEW t \in ToSet(Mints(Sys, x, 0)), t.kind = "MintNative",
         NEW r \in UsdRecordOf(Sys.host.tokens, t.hostToken),
         NEW e, e = CHOOSE d \in ToSet(x.enterTokens) : EnterSig(d) = t.magicSig,
         e.event.amount * Units(Max({0, NativeDecimals - r.decimals})) < Wide
  PROVE  Keeps(e.event.amount, r.decimals, t.amount)
<1>1. PICK i \in DOMAIN x.enterTokens : \E n :
        t = MintEntered(Sys, x.enterTokens[i], n) /\ IsUsd(Sys.host.tokens, t.hostToken)
  BY NativeMinted
<1> DEFINE d == x.enterTokens[i]
           tokens == Sys.host.tokens
<1>2. PICK n : t = MintEntered(Sys, d, n) /\ IsUsd(tokens, t.hostToken)
  BY <1>1
<1>3. pair \in Pairs /\ tokens = pair.sys.host.tokens
  BY DEF IsFollowed, Sys
<1> HIDE DEF d, tokens
<1>4. \A token, u : MintToken(token, u, d, n).kind # "MintNative"
  BY DEF MintToken
<1>5. IsUsd(tokens, d.event.token)
  BY <1>2, <1>4 DEF MintEntered, tokens
<1> DEFINE u == CHOOSE c \in UsdRecordOf(tokens, d.event.token) : TRUE
<1>6. u \in UsdRecordOf(tokens, d.event.token)
  BY <1>5 DEF IsUsd
<1>7. t = MintNative(d, u.decimals, n)
  BY <1>2, <1>5 DEF MintEntered, tokens
<1> HIDE DEF u
<1>8. /\ t.hostToken = d.event.token /\ t.magicSig = EnterSig(d)
      /\ t.amount = AdjustDecimals(d.event.amount, u.decimals, NativeDecimals)
  BY <1>7 DEF MintNative
<1>9. r = u /\ r.decimals \in Positive
  BY <1>3, <1>6, <1>8, OneRecord DEF tokens
<1>10. e = d
  <2>1. d \in ToSet(x.enterTokens) /\ EnterSig(d) = t.magicSig
    BY <1>8 DEF ToSet, d
  <2>2. e \in ToSet(x.enterTokens) /\ EnterSig(e) = EnterSig(d)
    BY <1>8, <2>1
  <2>3. PICK j \in DOMAIN x.enterTokens : e = x.enterTokens[j]
    BY <2>2 DEF ToSet
  <2>4. SameLog(e, d)
    BY <2>2 DEF EnterSig, MagicSig, SameLog
  <2>5. Keyed(x.enterTokens)
    BY SysEventsKeyed
  <2>6. j = i
    BY <2>3, <2>4, <2>5 DEF Keyed, d
  <2> QED
    BY <2>3, <2>6 DEF d
<1>11. d.event.amount \in Nat
  <2> DEFINE sys == Sys
             F == FoundOf(sys, spec, "enterToken")
  <2>1. /\ pair \in Pairs /\ sys = pair.sys /\ Sound(sys, spec) /\ h \in Nat
        /\ spec.number = sys.host.deployHeight + h /\ x = ExtractOf(sys, spec)
    BY DEF IsFollowed, Sys
  <2> HIDE DEF sys
  <2>2. /\ x.enterTokens = F
        /\ \A j \in DOMAIN F : F[j].event \in Extractable(sys) /\ F[j].event.kind = "enterToken"
    BY <2>1, FoundFields
  <2> HIDE DEF F
  <2>3. d.event \in Extractable(sys) /\ d.event.kind = "enterToken"
    BY <2>2 DEF d
  <2>4. d.event \in EnterTokens
    BY <2>3, ExtractableKinds
  <2> QED
    BY <2>4 DEF EnterTokens
<1> DEFINE amount == e.event.amount
<1>12. amount \in Nat /\ t.amount = AdjustDecimals(amount, r.decimals, NativeDecimals)
  BY <1>8, <1>9, <1>10, <1>11
<1>13. amount * Units(Max({0, NativeDecimals - r.decimals})) < Wide
  OBVIOUS
<1> HIDE DEF amount
<1>14. Keeps(amount, r.decimals, AdjustDecimals(amount, r.decimals, NativeDecimals))
  BY ONLY <1>9, <1>12, <1>13, ConversionKeeps
<1> QED
  BY <1>12, <1>14 DEF amount

(* A deposit of USD is worth as much on the rollup, but for the rest of a  *)
(* division: nothing is gained, and less than one unit is lost.            *)
THEOREM MintsKeepValue == FeedSpec => []MintsKeepTheValue
<1>1. ASSUME FeedInv
      PROVE  MintsKeepTheValue
  <2> SUFFICES ASSUME NEW i \in DOMAIN followed,
                      NEW t \in ToSet(Mints(Sys, followed[i], 0)), t.kind = "MintNative",
                      NEW r \in UsdRecordOf(Sys.host.tokens, t.hostToken),
                      NEW e, e = CHOOSE d \in ToSet(followed[i].enterTokens) :
                                   EnterSig(d) = t.magicSig,
                      e.event.amount * Units(Max({0, NativeDecimals - r.decimals})) < Wide
               PROVE  Keeps(e.event.amount, r.decimals, t.amount)
    BY DEF MintsKeepTheValue, Keeps
  <2> DEFINE spec == canonical[i + 1]
             x == followed[i]
  <2>1. IsFollowed(x, spec, i)
    BY <1>1, FollowedIs DEF IsKept, IsFollowed, Sys
  <2>2. t \in ToSet(Mints(Sys, x, 0)) /\ e = CHOOSE d \in ToSet(x.enterTokens) : EnterSig(d) = t.magicSig
    OBVIOUS
  <2> HIDE DEF spec, x
  <2> QED
    BY <2>1, <2>2, MintKeepsValue
<1> QED
  BY <1>1, FeedInvariant, PTL

-----------------------------------------------------------------------------
(* The tables of forks and of their specifications have no repetitions.    *)
LEMMA UntilOsakaIs ==
  /\ IsList(UntilOsaka, 19) /\ Distinct(UntilOsaka)
  /\ UntilOsaka[1] = "Frontier" /\ UntilOsaka[15] = "Paris"
<1>1. UntilOsaka = [i \in 1..19 |-> UntilOsaka[i]]
  BY DEF UntilOsaka
<1>2. /\ UntilOsaka[1] = "Frontier" /\ UntilOsaka[2] = "Homestead" /\ UntilOsaka[3] = "Dao"
      /\ UntilOsaka[4] = "Tangerine" /\ UntilOsaka[5] = "SpuriousDragon"
      /\ UntilOsaka[6] = "Byzantium" /\ UntilOsaka[7] = "Constantinople"
      /\ UntilOsaka[8] = "Petersburg" /\ UntilOsaka[9] = "Istanbul"
      /\ UntilOsaka[10] = "MuirGlacier" /\ UntilOsaka[11] = "Berlin"
      /\ UntilOsaka[12] = "London" /\ UntilOsaka[13] = "ArrowGlacier"
      /\ UntilOsaka[14] = "GrayGlacier" /\ UntilOsaka[15] = "Paris"
      /\ UntilOsaka[16] = "Shanghai" /\ UntilOsaka[17] = "Cancun"
      /\ UntilOsaka[18] = "Prague" /\ UntilOsaka[19] = "Osaka"
  BY DEF UntilOsaka
<1>3. DOMAIN UntilOsaka = 1..19
  BY <1>1
<1>4. Distinct(UntilOsaka)
  BY <1>2, <1>3 DEF Distinct
<1> QED
  BY <1>1, <1>2, <1>4 DEF IsList

LEMMA BposAre ==
  /\ IsList(Bpos, 5) /\ Distinct(Bpos)
  /\ ToSet(Bpos) = {"Bpo1", "Bpo2", "Bpo3", "Bpo4", "Bpo5"}
<1>1. Bpos = [i \in 1..5 |-> Bpos[i]]
  BY DEF Bpos
<1>2. /\ Bpos[1] = "Bpo1" /\ Bpos[2] = "Bpo2" /\ Bpos[3] = "Bpo3" /\ Bpos[4] = "Bpo4"
      /\ Bpos[5] = "Bpo5"
  BY DEF Bpos
<1>3. DOMAIN Bpos = 1..5
  BY <1>1
<1>4. Distinct(Bpos)
  BY <1>2, <1>3 DEF Distinct
<1>5. ToSet(Bpos) = {"Bpo1", "Bpo2", "Bpo3", "Bpo4", "Bpo5"}
  <2>1. \A i \in 1..5 : i \in {1, 2, 3, 4, 5}
    OBVIOUS
  <2>2. 1 \in 1..5 /\ 2 \in 1..5 /\ 3 \in 1..5 /\ 4 \in 1..5 /\ 5 \in 1..5
    OBVIOUS
  <2>3. ToSet(Bpos) = {Bpos[i] : i \in 1..5}
    BY <1>3 DEF ToSet
  <2> QED
    BY <1>2, <2>1, <2>2, <2>3
<1> QED
  BY <1>1, <1>4, <1>5 DEF IsList

(* The forks after Osaka.                                                 *)
UpgradesAfter == {"Bpo1", "Bpo2", "Bpo3", "Bpo4", "Bpo5", "Amsterdam"}
LEMMA NoOthers == \A i \in 1..19 : UntilOsaka[i] \notin UpgradesAfter
<1>2. /\ UntilOsaka[1] = "Frontier" /\ UntilOsaka[2] = "Homestead" /\ UntilOsaka[3] = "Dao"
      /\ UntilOsaka[4] = "Tangerine" /\ UntilOsaka[5] = "SpuriousDragon"
      /\ UntilOsaka[6] = "Byzantium" /\ UntilOsaka[7] = "Constantinople"
      /\ UntilOsaka[8] = "Petersburg" /\ UntilOsaka[9] = "Istanbul"
      /\ UntilOsaka[10] = "MuirGlacier" /\ UntilOsaka[11] = "Berlin"
      /\ UntilOsaka[12] = "London" /\ UntilOsaka[13] = "ArrowGlacier"
      /\ UntilOsaka[14] = "GrayGlacier" /\ UntilOsaka[15] = "Paris"
      /\ UntilOsaka[16] = "Shanghai" /\ UntilOsaka[17] = "Cancun"
      /\ UntilOsaka[18] = "Prague" /\ UntilOsaka[19] = "Osaka"
  BY DEF UntilOsaka
<1> QED
  BY <1>2 DEF UpgradesAfter

LEMMA SpecsAre ==
  IsList(Specs, 20) /\ Distinct(Specs) /\ \A i \in 1..20 : Specs[i] # "FRONTIER_THAWING"
<1>1. Specs = [i \in 1..20 |-> Specs[i]]
  BY DEF Specs
<1>2. /\ Specs[1] = "FRONTIER" /\ Specs[2] = "HOMESTEAD" /\ Specs[3] = "DAO_FORK"
      /\ Specs[4] = "TANGERINE" /\ Specs[5] = "SPURIOUS_DRAGON" /\ Specs[6] = "BYZANTIUM"
      /\ Specs[7] = "CONSTANTINOPLE" /\ Specs[8] = "PETERSBURG" /\ Specs[9] = "ISTANBUL"
      /\ Specs[10] = "MUIR_GLACIER" /\ Specs[11] = "BERLIN" /\ Specs[12] = "LONDON"
      /\ Specs[13] = "ARROW_GLACIER" /\ Specs[14] = "GRAY_GLACIER" /\ Specs[15] = "MERGE"
      /\ Specs[16] = "SHANGHAI" /\ Specs[17] = "CANCUN" /\ Specs[18] = "PRAGUE"
      /\ Specs[19] = "OSAKA" /\ Specs[20] = "AMSTERDAM"
  BY DEF Specs
<1>3. DOMAIN Specs = 1..20
  BY <1>1
<1>4. Distinct(Specs)
  BY <1>2, <1>3 DEF Distinct
<1>5. \A i \in 1..20 : Specs[i] # "FRONTIER_THAWING"
  BY <1>2
<1> QED
  BY <1>1, <1>4, <1>5 DEF IsList

(* Where a fork that has a specification is among all of them.             *)
PlaceOf(k) == IF k = 20 THEN 25 ELSE k

LEMMA OneList == \A x : IsList(<<x>>, 1) /\ <<x>>[1] = x
<1> TAKE x
<1>1. <<x>> = [i \in 1..1 |-> <<x>>[i]]
  OBVIOUS
<1> QED
  BY <1>1 DEF IsList

LEMMA ForksAre ==
  /\ IsList(Forks, 25) /\ Distinct(Forks) /\ IsList(SpecForks, 20)
  /\ \A k \in 1..20 : SpecForks[k] = Forks[PlaceOf(k)] /\ Forks[PlaceOf(k)] \notin ToSet(Bpos)
  /\ \A i \in 20..24 : Forks[i] \in ToSet(Bpos)
  /\ Forks[1] = "Frontier" /\ Forks[15] = "Paris"
<1> DEFINE u == UntilOsaka
           b == Bpos
           a == <<"Amsterdam">>
           ub == u \o b
           uba == ub \o a
           ua == u \o a
<1>1. IsList(u, 19) /\ Distinct(u) /\ u[1] = "Frontier" /\ u[15] = "Paris"
  BY UntilOsakaIs
<1>2. IsList(b, 5) /\ Distinct(b) /\ ToSet(b) = {"Bpo1", "Bpo2", "Bpo3", "Bpo4", "Bpo5"}
  BY BposAre
<1>3. IsList(a, 1) /\ a[1] = "Amsterdam"
  BY OneList
<1>4. \A i \in 1..19 : u[i] \notin ToSet(b) /\ u[i] # "Amsterdam"
  BY <1>2, NoOthers DEF UpgradesAfter
<1>5. \A i \in 1..5 : b[i] \in ToSet(b) /\ b[i] # "Amsterdam"
  <2>1. DOMAIN b = 1..5
    BY <1>2, ListIs
  <2>2. \A i \in 1..5 : b[i] \in ToSet(b)
    BY <2>1 DEF ToSet
  <2> QED
    BY <1>2, <2>2
<1>6. DOMAIN u = 1..19 /\ DOMAIN b = 1..5
  BY <1>1, <1>2, ListIs
<1>7. Forks = uba /\ SpecForks = ua
  <2>1. Append(UntilOsaka, "Amsterdam") = UntilOsaka \o <<"Amsterdam">>
    <3>1. UntilOsaka \in Seq(ToSet(UntilOsaka) \cup {"Amsterdam"})
      <4>1. \A i \in 1..19 : UntilOsaka[i] \in ToSet(UntilOsaka) \cup {"Amsterdam"}
        BY <1>6 DEF ToSet
      <4> DEFINE S == ToSet(UntilOsaka) \cup {"Amsterdam"}
      <4> HIDE DEF S
      <4>2. UntilOsaka \in Seq(S)
        BY <1>1, <4>1, ListIs DEF S
      <4> QED
        BY <4>2 DEF S
    <3> QED
      BY <3>1
  <2> QED
    BY <2>1 DEF Forks, SpecForks
<1> HIDE DEF u, b, a
<1>8. IsConcat(ub, u, 19, b, 5)
  BY <1>1, <1>2, ConcatLists
<1>9. IsConcat(ua, u, 19, a, 1)
  BY <1>1, <1>3, ConcatLists
<1>10. IsList(ub, 24) /\ (\A i \in 1..19 : ub[i] = u[i]) /\ \A i \in 20..24 : ub[i] = b[i - 19]
  <2> HIDE DEF ub, uba, ua
  <2>1. IsList(ub, 19 + 5)
    BY <1>8 DEF IsConcat
  <2>2. \A i \in 1..19 : ub[i] = u[i]
    BY <1>8 DEF IsConcat
  <2>3. \A i \in (19 + 1)..(19 + 5) : ub[i] = b[i - 19]
    BY <1>8 DEF IsConcat
  <2>4. 19 + 5 = 24
    OBVIOUS
  <2>5. IsList(ub, 24)
    BY <2>1, <2>4
  <2> QED
    BY <2>2, <2>3, <2>5
<1> HIDE DEF ub
<1>11. IsConcat(uba, ub, 24, a, 1)
  BY <1>3, <1>10, ConcatLists
<1>12. IsList(uba, 25) /\ (\A i \in 1..24 : uba[i] = ub[i]) /\ uba[25] = a[1]
  <2> HIDE DEF uba, ua
  <2>1. IsList(uba, 24 + 1)
    BY <1>11 DEF IsConcat
  <2>2. \A i \in 1..24 : uba[i] = ub[i]
    BY <1>11 DEF IsConcat
  <2>3. \A i \in (24 + 1)..(24 + 1) : uba[i] = a[i - 24]
    BY <1>11 DEF IsConcat
  <2>4. 24 + 1 = 25
    OBVIOUS
  <2>5. IsList(uba, 25)
    BY <2>1, <2>4
  <2>6. 25 \in (24 + 1)..(24 + 1) /\ 25 - 24 = 1
    OBVIOUS
  <2>7. uba[25] = a[25 - 24]
    BY <2>3, <2>6
  <2> QED
    BY <2>2, <2>5, <2>6, <2>7
<1>13. IsList(ua, 20) /\ (\A i \in 1..19 : ua[i] = u[i]) /\ ua[20] = a[1]
  <2> HIDE DEF uba, ua
  <2>1. IsList(ua, 19 + 1)
    BY <1>9 DEF IsConcat
  <2>2. \A i \in 1..19 : ua[i] = u[i]
    BY <1>9 DEF IsConcat
  <2>3. \A i \in (19 + 1)..(19 + 1) : ua[i] = a[i - 19]
    BY <1>9 DEF IsConcat
  <2>4. 19 + 1 = 20
    OBVIOUS
  <2>5. IsList(ua, 20)
    BY <2>1, <2>4
  <2>6. 20 \in (19 + 1)..(19 + 1) /\ 20 - 19 = 1
    OBVIOUS
  <2>7. ua[20] = a[20 - 19]
    BY <2>3, <2>6
  <2> QED
    BY <2>2, <2>5, <2>6, <2>7
<1> HIDE DEF uba, ua
<1>14. /\ \A i \in 1..19 : uba[i] = u[i]
       /\ \A i \in 20..24 : i - 19 \in 1..5 /\ uba[i] = b[i - 19]
       /\ uba[25] = "Amsterdam"
  BY <1>3, <1>10, <1>12
<1>15. DOMAIN uba = 1..25
  BY <1>12, ListIs
<1>16. Distinct(uba)
  <2> SUFFICES ASSUME NEW i \in 1..25, NEW j \in 1..25, uba[i] = uba[j]
               PROVE  i = j
    BY <1>15 DEF Distinct
  <2>1. \A k \in 1..25 : k \in 1..19 \/ k \in 20..24 \/ k = 25
    OBVIOUS
  <2>2. \A k, l \in 1..19 : u[k] = u[l] => k = l
    BY <1>1, <1>6 DEF Distinct
  <2>3. \A k, l \in 1..5 : b[k] = b[l] => k = l
    BY <1>2, <1>6 DEF Distinct
  <2>4. CASE i \in 20..24 /\ j \in 20..24
    <3>1. i - 19 = j - 19
      BY <1>14, <2>3, <2>4
    <3> QED
      BY <3>1
  <2> QED
    BY <1>4, <1>5, <1>14, <2>1, <2>2, <2>4
<1>17. \A k \in 1..20 : ua[k] = uba[PlaceOf(k)] /\ uba[PlaceOf(k)] \notin ToSet(b)
  <2>1. \A k \in 1..20 : k \in 1..19 \/ k = 20
    OBVIOUS
  <2>2. "Amsterdam" \notin ToSet(b)
    BY <1>2
  <2> QED
    BY <1>3, <1>4, <1>13, <1>14, <2>1, <2>2 DEF PlaceOf
<1>18. \A i \in 20..24 : uba[i] \in ToSet(b)
  BY <1>5, <1>14
<1>19. uba[1] = "Frontier" /\ uba[15] = "Paris"
  BY <1>1, <1>14
<1> QED
  BY <1>7, <1>12, <1>13, <1>16, <1>17, <1>18, <1>19 DEF b

(* The greatest of some numbers up to a bound.                             *)
LEMMA GreatestExists ==
  ASSUME NEW n \in Nat, NEW S, S \subseteq 1..n, S # {}
  PROVE  Max(S) \in S /\ \A i \in S : i <= Max(S)
<1> DEFINE T == {n - i : i \in S}
<1>1. \A i \in S : i \in 1..n /\ n - i \in Nat
  OBVIOUS
<1>2. T \in SUBSET Nat /\ T # {}
  BY <1>1
<1>3. PICK x \in T : \A y \in T : x <= y
  <2> HIDE DEF T
  <2> QED
    BY <1>2, LeastNatural
<1>4. PICK m \in S : x = n - m
  BY <1>3
<1>5. \A i \in S : m >= i
  BY <1>1, <1>3, <1>4
<1>6. \E k \in S : \A i \in S : k >= i
  BY <1>5
<1>7. Max(S) = CHOOSE k \in S : \A i \in S : k >= i
  BY DEF Max
<1>8. Max(S) \in S /\ \A i \in S : Max(S) >= i
  BY <1>6, <1>7
<1> QED
  BY <1>1, <1>8

LEMMA GreatestIs ==
  ASSUME NEW n \in Nat, NEW S, S \subseteq 1..n, NEW m \in S, \A i \in S : i <= m
  PROVE  Max(S) = m
<1>1. Max(S) \in S /\ \A i \in S : i <= Max(S)
  BY GreatestExists
<1> DEFINE k == Max(S)
<1>2. k \in S /\ m <= k
  BY <1>1
<1> HIDE DEF k
<1>3. k \in Int /\ m \in Int /\ k <= m
  BY <1>2
<1> QED
  BY <1>2, <1>3 DEF k

LEMMA PlaceFound ==
  ASSUME NEW n, NEW s, IsList(s, n), Distinct(s), NEW k \in 1..n
  PROVE  IndexIn(s, s[k]) = k
<1>1. DOMAIN s = 1..n
  BY ListIs
<1>2. \A i \in DOMAIN s : s[i] = s[k] => i = k
  BY <1>1 DEF Distinct
<1>3. IndexIn(s, s[k]) = CHOOSE i \in DOMAIN s : s[i] = s[k]
  BY DEF IndexIn
<1>4. IndexIn(s, s[k]) \in DOMAIN s /\ s[IndexIn(s, s[k])] = s[k]
  BY <1>1, <1>3
<1> QED
  BY <1>2, <1>4

(* The two ways to name the newest of some forks agree, and it is newer    *)
(* than all of them.                                                       *)
SpecAgrees(forks) ==
  /\ BitForSpecId(SpecId(forks)) = Forks[Latest(Forks, forks \ ToSet(Bpos))]
  /\ SpecId(FromSpecId(SpecId(forks))) = SpecId(forks)
  /\ \A f \in ToSet(Forks) \cap forks : f \notin ToSet(Bpos) => f \in FromSpecId(SpecId(forks))

LEMMA NewestFork ==
  ASSUME NEW forks, "Frontier" \in forks
  PROVE  SpecAgrees(forks)
<1> DEFINE P == {i \in 1..20 : SpecForks[i] \in forks}
           k == Max(P)
           p == PlaceOf(k)
           spec == SpecId(forks)
<1>1. /\ IsList(Forks, 25) /\ Distinct(Forks) /\ IsList(SpecForks, 20)
      /\ \A j \in 1..20 : SpecForks[j] = Forks[PlaceOf(j)] /\ Forks[PlaceOf(j)] \notin ToSet(Bpos)
      /\ \A i \in 20..24 : Forks[i] \in ToSet(Bpos)
      /\ Forks[1] = "Frontier"
  BY ForksAre
<1>2. DOMAIN Forks = 1..25 /\ DOMAIN SpecForks = 1..20
  BY <1>1, ListIs
<1>3. SpecForks[1] = "Frontier" /\ 1 \in 1..20
  BY <1>1 DEF PlaceOf
<1>4. k \in 1..20 /\ SpecForks[k] \in forks /\ \A j \in 1..20 : SpecForks[j] \in forks => j <= k
  <2>1. P \subseteq 1..20 /\ P # {}
    BY <1>3
  <2>2. 20 \in Nat
    OBVIOUS
  <2> HIDE DEF P
  <2>3. k \in P /\ \A i \in P : i <= k
    BY <2>1, <2>2, GreatestExists
  <2> HIDE DEF k
  <2> QED
    BY <2>3 DEF P
<1>5. spec = Specs[k]
  <2>1. forks \cup {"Frontier"} = forks
    OBVIOUS
  <2>2. {i \in DOMAIN SpecForks : SpecForks[i] \in forks} = P
    BY <1>2
  <2> HIDE DEF P
  <2> QED
    BY <2>1, <2>2 DEF SpecId, Latest
<1> HIDE DEF k, P, spec
<1>6. BitForSpecId(spec) = SpecForks[k]
  <2>1. IsList(Specs, 20) /\ Distinct(Specs) /\ Specs[k] # "FRONTIER_THAWING"
    BY <1>4, SpecsAre
  <2>2. IndexIn(Specs, Specs[k]) = k
    BY <1>4, <2>1, PlaceFound
  <2> QED
    BY <1>5, <2>1, <2>2 DEF BitForSpecId
<1>7. p \in 1..25 /\ SpecForks[k] = Forks[p] /\ Forks[p] \notin ToSet(Bpos)
  BY <1>1, <1>4 DEF PlaceOf
<1>8. \A i \in 1..25 : i \in 20..24 \/ \E j \in 1..20 : i = PlaceOf(j)
  <2>1. \A i \in 1..25 : i \in 20..24 \/ i \in 1..19 \/ i = 25
    OBVIOUS
  <2>2. \A i \in 1..19 : i \in 1..20 /\ PlaceOf(i) = i
    BY DEF PlaceOf
  <2>3. 20 \in 1..20 /\ PlaceOf(20) = 25
    BY DEF PlaceOf
  <2> QED
    BY <2>1, <2>2, <2>3
<1>9. \A j \in 1..20 : PlaceOf(j) \in 1..25 /\ (PlaceOf(j) <= p <=> j <= k)
  BY <1>4 DEF PlaceOf
<1> HIDE DEF p
<1>10. Latest(Forks, forks \ ToSet(Bpos)) = p
  <2> DEFINE S == {i \in 1..25 : Forks[i] \in forks \ ToSet(Bpos)}
  <2>1. p \in S
    BY <1>4, <1>7
  <2>2. ASSUME NEW i \in S
        PROVE  i <= p
    <3>1. PICK j \in 1..20 : i = PlaceOf(j)
      BY <1>1, <1>8
    <3>2. SpecForks[j] \in forks
      BY <1>1, <3>1
    <3> QED
      BY <1>4, <1>9, <3>1, <3>2
  <2>3. S \subseteq 1..25 /\ 25 \in Nat
    OBVIOUS
  <2>4. {i \in DOMAIN Forks : Forks[i] \in forks \ ToSet(Bpos)} = S
    BY <1>2
  <2> HIDE DEF S
  <2>5. Max(S) = p
    BY <2>1, <2>2, <2>3, GreatestIs
  <2> QED
    BY <2>4, <2>5 DEF Latest
<1> DEFINE G == FromSpecId(spec)
<1>11. G = {Forks[i] : i \in 1..p}
  <2>1. IndexIn(Forks, Forks[p]) = p
    BY <1>1, <1>7, PlaceFound
  <2> QED
    BY <1>6, <1>7, <2>1 DEF FromSpecId
<1> HIDE DEF G
<1>12. \A i \in 1..25 : Forks[i] \in G <=> i <= p
  <2>1. \A i, j \in 1..25 : Forks[i] = Forks[j] => i = j
    BY <1>1, <1>2 DEF Distinct
  <2>2. \A i \in 1..p : i \in 1..25 /\ i <= p
    BY <1>7
  <2>3. \A i \in 1..25 : i <= p => i \in 1..p
    BY <1>7
  <2> QED
    BY <1>11, <2>1, <2>2, <2>3
<1>13. SpecId(G) = spec
  <2> DEFINE S == {i \in 1..20 : SpecForks[i] \in G}
  <2>1. "Frontier" \in G
    <3>1. 1 \in 1..25 /\ 1 <= p
      BY <1>7
    <3> QED
      BY <1>1, <1>12, <3>1
  <2>2. G \cup {"Frontier"} = G
    BY <2>1
  <2>3. k \in S
    BY <1>1, <1>4, <1>7, <1>12
  <2>4. \A i \in S : i <= k
    BY <1>1, <1>9, <1>12
  <2>5. S \subseteq 1..20 /\ 20 \in Nat
    OBVIOUS
  <2>6. {i \in DOMAIN SpecForks : SpecForks[i] \in G} = S
    BY <1>2
  <2> HIDE DEF S
  <2>7. Max(S) = k
    BY <2>3, <2>4, <2>5, GreatestIs
  <2> QED
    BY <1>5, <2>2, <2>6, <2>7 DEF SpecId, Latest
<1>14. ASSUME NEW f \in ToSet(Forks) \cap forks, f \notin ToSet(Bpos)
       PROVE  f \in G
  <2>1. PICK i \in 1..25 : f = Forks[i]
    BY <1>2 DEF ToSet
  <2>2. PICK j \in 1..20 : i = PlaceOf(j)
    BY <1>1, <1>8, <1>14, <2>1
  <2>3. j <= k
    BY <1>1, <1>4, <2>1, <2>2
  <2> QED
    BY <1>9, <1>12, <2>1, <2>2, <2>3
<1> QED
  BY <1>6, <1>7, <1>10, <1>13, <1>14 DEF SpecAgrees, G, spec

-----------------------------------------------------------------------------
(* A user's transaction carries its signer, a system one the sentinel.     *)
Recoverable(t) == t.signature.sentinel = FALSE
Sealed(t) == t.signature.sentinel = TRUE

LEMMA UsersRecoverable ==
  ASSUME NEW x, NEW spec, NEW h, IsFollowed(x, spec, h),
         NEW a, IsList(UserTxs(x), a), IsList(UserSenders(x), a)
  PROVE  \A i \in 1..a : /\ Recoverable(UserTxs(x)[i])
                         /\ UserTxs(x)[i].signature.signer = UserSenders(x)[i]
<1>1. DOMAIN UserTxs(x) = 1..a /\ DOMAIN UserSenders(x) = 1..a
  BY ListIs
<1>2. CASE x.submitted = {}
  <2>1. UserTxs(x) = <<>>
    BY <1>2 DEF UserTxs
  <2> QED
    BY <1>1, <2>1
<1>3. CASE x.submitted # {}
  <2> DEFINE D == (CHOOSE s \in x.submitted : TRUE).event.blockDataHash
  <2>1. UserTxs(x) = [j \in DOMAIN D |-> UserTransaction(D[j])] /\ UserSenders(x) = D
    BY <1>3 DEF UserTxs, UserSenders
  <2> HIDE DEF D
  <2>2. \A i \in 1..a : UserTxs(x)[i] = UserTransaction(UserSenders(x)[i])
    BY <1>1, <2>1
  <2>3. \A d : Recoverable(UserTransaction(d)) /\ UserTransaction(d).signature.signer = d
    BY DEF UserTransaction, Recoverable
  <2> QED
    BY <2>2, <2>3
<1> QED
  BY <1>2, <1>3

LEMMA SystemSealed ==
  \A t : t.kind \in {"MintNative", "MintToken", "TransactSysTx"} => Sealed(MakeTransaction(t))
<1> TAKE t
<1>1. \A sig : ToSignature(sig).sentinel = TRUE
  BY DEF ToSignature
<1>2. CASE t.kind = "MintNative"
  <2>1. MakeTransaction(t).signature = ToSignature(t.magicSig)
    BY <1>2 DEF MakeTransaction
  <2> QED
    BY <1>1, <2>1 DEF Sealed
<1>3. CASE t.kind = "MintToken"
  <2>1. MakeTransaction(t).signature = ToSignature(t.magicSig)
    BY <1>3 DEF MakeTransaction
  <2> QED
    BY <1>1, <2>1 DEF Sealed
<1>4. CASE t.kind = "TransactSysTx"
  <2>1. MakeTransaction(t).signature = ToSignature(t.magicSig)
    BY <1>4 DEF MakeTransaction
  <2> QED
    BY <1>1, <2>1 DEF Sealed
<1> QED
  BY <1>2, <1>3, <1>4

LEMMA MintsSealed ==
  ASSUME NEW x, NEW spec, NEW h, IsFollowed(x, spec, h),
         NEW b, b = Len(x.enters) + Len(x.enterTokens), IsList(MintTxs(x), b)
  PROVE  \A i \in 1..b : Sealed(MintTxs(x)[i])
<1> DEFINE m == Len(x.enters)
           n == Len(x.enterTokens)
           mints == Mints(Sys, x, 0)
<1>1. IsList(x.enters, m) /\ IsList(x.enterTokens, n)
  BY FollowedTypes
<1>2. DOMAIN MintTxs(x) = 1..b
  BY ListIs
<1>3. b = m + n
  OBVIOUS
<1> HIDE DEF m, n
<1>4. m \in Nat /\ n \in Nat
  BY <1>1 DEF IsList
<1>5. /\ \A i \in 1..m : mints[i] = MintToken(Sys.rollup.tokens.weth, Native, x.enters[i], i - 1)
      /\ \A i \in (m + 1)..(m + n) : mints[i] = MintEntered(Sys, x.enterTokens[i - m], i - 1)
  <2> DEFINE sys == Sys
             y == x
  <2>1. IsList(y.enters, m) /\ IsList(y.enterTokens, n)
    BY <1>1
  <2>2. mints = Mints(sys, y, 0)
    OBVIOUS
  <2> HIDE DEF sys, mints, y
  <2>3. /\ IsList(Mints(sys, y, 0), m + n)
        /\ \A i \in 1..m : Mints(sys, y, 0)[i] =
              MintToken(sys.rollup.tokens.weth, Native, y.enters[i], i - 1)
        /\ \A i \in (m + 1)..(m + n) :
              Mints(sys, y, 0)[i] = MintEntered(sys, y.enterTokens[i - m], i - 1)
    BY ONLY <2>1, MintsAre
  <2> QED
    BY ONLY <2>2, <2>3 DEF sys, y
<1>6. \A token, host, e, k : MintToken(token, host, e, k).kind = "MintToken"
  BY DEF MintToken
<1>7. \A sys, e, k : MintEntered(sys, e, k).kind \in {"MintNative", "MintToken"}
  BY DEF MintEntered, MintNative, MintToken
<1>8. \A i \in 1..b : i \in 1..m \/ i \in (m + 1)..(m + n)
  BY ONLY <1>3, <1>4
<1>9. \A i \in 1..b : MintTxs(x)[i] = MakeTransaction(mints[i])
  BY <1>2 DEF MintTxs
<1> HIDE DEF mints
<1>10. \A i \in 1..b : mints[i].kind \in {"MintNative", "MintToken"}
  <2>1. \A i \in 1..m : mints[i].kind = "MintToken"
    BY ONLY <1>5, <1>6
  <2>2. \A i \in (m + 1)..(m + n) : mints[i].kind \in {"MintNative", "MintToken"}
    BY ONLY <1>5, <1>7
  <2> QED
    BY ONLY <1>8, <2>1, <2>2
<1> QED
  BY ONLY <1>9, <1>10, SystemSealed

LEMMA TransactsSealed ==
  ASSUME NEW x, NEW c, IsList(TransactTxs(x), c)
  PROVE  \A i \in 1..c : Sealed(TransactTxs(x)[i])
<1> DEFINE runs == Transacts(x, ToAlias)
<1>1. DOMAIN TransactTxs(x) = 1..c
  BY ListIs
<1>2. DOMAIN TransactTxs(x) = DOMAIN runs
      /\ \A i \in DOMAIN runs : TransactTxs(x)[i] = MakeTransaction(runs[i])
  BY DEF TransactTxs
<1>3. \A i \in DOMAIN runs : runs[i].kind = "TransactSysTx"
  BY DEF Transacts, TransactSysTx
<1> HIDE DEF runs
<1>4. \A i \in 1..c : runs[i].kind = "TransactSysTx"
                      /\ TransactTxs(x)[i] = MakeTransaction(runs[i])
  BY ONLY <1>1, <1>2, <1>3
<1> QED
  BY ONLY <1>4, SystemSealed

(* Whether anything is executed for the recorded events.                   *)
LEMMA NothingToExecute ==
  ASSUME NEW S, NEW s \in Seq(S)
  PROVE  (\A e \in ToSet(s) : e.kind = "filled") <=> Len(ToExecute(s)) = 0
<1> DEFINE at == {i \in DOMAIN s : s[i].kind # "filled"}
           k == Kept(s, at)
<1>1. (\A e \in ToSet(s) : e.kind = "filled") <=> at = {}
  BY DEF ToSet
<1>2. ToExecute(s) = k
  BY DEF ToExecute
<1>3. k \in Seq(S)
  BY KeptType
<1>4. CASE at = {}
  <2>1. at \cap DOMAIN s = {}
    BY <1>4
  <2> HIDE DEF at
  <2>2. k = <<>>
    BY <2>1, KeptNone
  <2> QED
    BY <1>1, <1>2, <1>4, <2>2
<1>5. CASE at # {}
  <2>1. PICK i \in DOMAIN s : i \in at
    BY <1>5
  <2>2. \E j \in DOMAIN k : k[j] = s[i]
    <3>1. s \in Seq(S) /\ k = Kept(s, at)
      OBVIOUS
    <3> HIDE DEF at, k
    <3>2. \A l \in DOMAIN s : l \in at => \E j \in DOMAIN k : k[j] = s[l]
      BY ONLY <3>1, KeptElements
    <3> QED
      BY ONLY <2>1, <3>2
  <2> HIDE DEF k, at
  <2>3. Len(k) # 0
    BY <1>3, <2>2
  <2> QED
    BY <1>1, <1>2, <1>5, <2>3
<1> QED
  BY <1>4, <1>5

(* The senders of a block can be recovered unless it has a system          *)
(* transaction, and are those it was executed with.                        *)
Told(spec) == \A e \in ToSet(spec.events) : e.kind = "filled"

LEMMA SystemTxsAreRefused ==
  ASSUME NEW x, NEW spec, NEW h, IsFollowed(x, spec, h), NEW block, block.txs = SignedTxs(Sys, x)
  PROVE  Recover(block) = IF Told(spec) THEN {SendersOf(block)} ELSE {}
<1>1. PICK a, b, c : IsProcessed(x, a, b, c)
  BY ProcessedIs
<1> DEFINE u == UserTxs(x)
           m == MintTxs(x)
           r == TransactTxs(x)
           um == u \o m
           p == Processed(x)
           q == Senders(x)
           us == UserSenders(x)
           ms == MintSenders(x)
           rs == TransactSenders(x)
<1>2. /\ IsList(u, a) /\ IsList(m, b) /\ IsList(r, c) /\ IsList(p, a + b + c)
      /\ IsList(us, a) /\ IsList(ms, b) /\ IsList(rs, c) /\ IsList(q, a + b + c)
      /\ p = um \o r /\ q = us \o ms \o rs
      /\ b = Len(x.enters) + Len(x.enterTokens) /\ c = Len(x.transacts)
  BY <1>1 DEF IsProcessed
<1>3. Told(spec) <=> b + c = 0
  <2>1. Len(x.enters) + Len(x.enterTokens) + Len(x.transacts) = Len(ToExecute(spec.events))
    BY ExecutedCount
  <2>2. spec.events \in Seq(Recorded)
    BY DEF IsFollowed, Sound, HostBlock
  <2>3. Told(spec) <=> Len(ToExecute(spec.events)) = 0
    BY <2>2, NothingToExecute DEF Told
  <2> QED
    BY <1>2, <2>1, <2>3
<1>4. \A i \in 1..a : Recoverable(u[i]) /\ u[i].signature.signer = us[i]
  BY <1>2, UsersRecoverable
<1>5. \A i \in 1..b : Sealed(m[i])
  BY <1>2, MintsSealed
<1>6. \A i \in 1..c : Sealed(r[i])
  BY <1>2, TransactsSealed
<1> HIDE DEF u, m, r, p, q, us, ms, rs
<1>7. /\ IsConcat(um, u, a, m, b) /\ IsConcat(us \o ms, us, a, ms, b)
  BY ONLY <1>2, ConcatLists
<1>8. IsList(um, a + b) /\ IsList(us \o ms, a + b)
  BY <1>7 DEF IsConcat
<1>9. p = um \o r /\ q = (us \o ms) \o rs
  BY <1>2
<1> DEFINE usm == us \o ms
<1>10. IsConcat(p, um, a + b, r, c) /\ IsConcat(q, usm, a + b, rs, c)
  <2> HIDE DEF um, usm
  <2> QED
    BY ONLY <1>2, <1>8, <1>9, ConcatLists DEF usm
<1> DEFINE n == a + b + c
           t == block.txs
<1>11. a \in Nat /\ b \in Nat /\ c \in Nat
  BY <1>2 DEF IsList
<1>12. \A i \in 1..a : p[i] = u[i] /\ q[i] = us[i]
  <2>1. \A i \in 1..a : i \in 1..(a + b)
    BY ONLY <1>11
  <2> HIDE DEF um, usm
  <2>2. \A i \in 1..(a + b) : p[i] = um[i] /\ q[i] = usm[i]
    BY ONLY <1>10 DEF IsConcat
  <2>3. \A i \in 1..a : um[i] = u[i] /\ usm[i] = us[i]
    BY ONLY <1>7 DEF IsConcat, usm
  <2> QED
    BY ONLY <2>1, <2>2, <2>3
<1>13. \A i \in 1..b : a + i \in 1..n /\ p[a + i] = m[i]
  <2>1. \A i \in 1..b : /\ a + i \in 1..n /\ a + i \in 1..(a + b)
                        /\ a + i \in (a + 1)..(a + b) /\ (a + i) - a = i
    BY ONLY <1>11
  <2> HIDE DEF um, n
  <2>2. \A i \in 1..(a + b) : p[i] = um[i]
    BY ONLY <1>10 DEF IsConcat
  <2>3. \A i \in (a + 1)..(a + b) : um[i] = m[i - a]
    BY ONLY <1>7 DEF IsConcat
  <2> QED
    BY ONLY <2>1, <2>2, <2>3
<1>14. \A i \in 1..c : a + b + i \in 1..n /\ p[a + b + i] = r[i]
  <2>1. \A i \in 1..c : /\ a + b + i \in 1..n /\ a + b + i \in (a + b + 1)..(a + b + c)
                        /\ (a + b + i) - (a + b) = i
    BY ONLY <1>11
  <2> HIDE DEF um, n
  <2>2. \A i \in (a + b + 1)..(a + b + c) : p[i] = r[i - (a + b)]
    BY ONLY <1>10 DEF IsConcat
  <2> QED
    BY ONLY <2>1, <2>2
<1> HIDE DEF um, usm
<1>15. DOMAIN t = 1..n /\ \A i \in 1..n : t[i] = [tx |-> p[i], signer |-> q[i]]
  <2>1. DOMAIN p = 1..n
    <3> HIDE DEF n
    <3> QED
      BY <1>2, ListIs DEF n
  <2>2. t = [i \in DOMAIN p |-> [tx |-> p[i], signer |-> q[i]]]
    BY SignedAre DEF p, q
  <2> HIDE DEF n, t
  <2> QED
    BY ONLY <2>1, <2>2
<1> HIDE DEF n, t
<1>16. /\ Recover(block) = IF \E y \in ToSet(t) : y.tx.signature.sentinel THEN {}
                           ELSE {[i \in DOMAIN t |-> t[i].tx.signature.signer]}
       /\ SendersOf(block) = [i \in DOMAIN t |-> t[i].signer]
  BY DEF Recover, SendersOf, t
<1>17. CASE Told(spec)
  <2>1. n = a
    BY <1>3, <1>11, <1>17 DEF n
  <2>2. \A i \in 1..n : /\ t[i].tx.signature.sentinel = FALSE
                        /\ t[i].tx.signature.signer = t[i].signer
    <3>1. \A i \in 1..n : t[i].tx = u[i] /\ t[i].signer = us[i]
      BY ONLY <1>12, <1>15, <2>1
    <3> QED
      BY ONLY <1>4, <2>1, <3>1 DEF Recoverable
  <2>3. \A y \in ToSet(t) : y.tx.signature.sentinel = FALSE
    BY ONLY <1>15, <2>2 DEF ToSet
  <2>4. [i \in DOMAIN t |-> t[i].tx.signature.signer] = [i \in DOMAIN t |-> t[i].signer]
    BY ONLY <1>15, <2>2
  <2>5. ~ \E y \in ToSet(t) : y.tx.signature.sentinel
    BY ONLY <2>3, Zenon
  <2> QED
    BY ONLY <1>16, <1>17, <2>4, <2>5
<1>18. CASE ~ Told(spec)
  <2>1. \E i \in 1..n : Sealed(t[i].tx)
    <3>1. CASE b # 0
      <4>1. 1 \in 1..b
        BY ONLY <1>11, <3>1
      <4>2. a + 1 \in 1..n /\ t[a + 1].tx = m[1]
        BY ONLY <1>13, <1>15, <4>1
      <4> QED
        BY ONLY <1>5, <4>1, <4>2
    <3>2. CASE c # 0
      <4>1. 1 \in 1..c
        BY ONLY <1>11, <3>2
      <4>2. a + b + 1 \in 1..n /\ t[a + b + 1].tx = r[1]
        BY ONLY <1>14, <1>15, <4>1
      <4> QED
        BY ONLY <1>6, <4>1, <4>2
    <3> QED
      BY ONLY <1>3, <1>11, <1>18, <3>1, <3>2
  <2>2. \E y \in ToSet(t) : Sealed(y.tx)
    BY ONLY <1>15, <2>1 DEF ToSet
  <2>3. \E y \in ToSet(t) : y.tx.signature.sentinel
    BY ONLY <2>2, Zenon DEF Sealed
  <2> QED
    BY ONLY <1>16, <1>18, <2>3
<1> QED
  BY <1>17, <1>18

(* A header with roots can be made but of a block without transactions.    *)
LEMMA RootsOfTransactions ==
  ASSUME NEW x, NEW parent
  PROVE  (ConstructHeaderV2(x, parent) = {}) <=> Processed(x) = <<>>
<1> DEFINE base == BaseHeader(x, parent)
           p == Processed(x)
           h == [base EXCEPT !.transactionsRoot = p, !.receiptsRoot = p]
<1>1. \A f \in SharedDefaults : h[f] = DefaultHeader[f]
  <2>1. h["ommersHash"] = DefaultHeader["ommersHash"]
    BY ONLY SMT DEF BaseHeader, DefaultHeader
  <2>2. h["stateRoot"] = DefaultHeader["stateRoot"]
    BY ONLY SMT DEF BaseHeader, DefaultHeader
  <2>3. h["withdrawalsRoot"] = DefaultHeader["withdrawalsRoot"]
    BY ONLY SMT DEF BaseHeader, DefaultHeader
  <2>4. h["blobGasUsed"] = DefaultHeader["blobGasUsed"]
    BY ONLY SMT DEF BaseHeader, DefaultHeader
  <2>5. h["excessBlobGas"] = DefaultHeader["excessBlobGas"]
    BY ONLY SMT DEF BaseHeader, DefaultHeader
  <2>6. h["requestsHash"] = DefaultHeader["requestsHash"]
    BY ONLY SMT DEF BaseHeader, DefaultHeader
  <2>7. h["extraData"] = DefaultHeader["extraData"]
    BY ONLY SMT DEF BaseHeader, DefaultHeader
  <2> HIDE DEF h
  <2> QED
    BY ONLY <2>1, <2>2, <2>3, <2>4, <2>5, <2>6, <2>7 DEF SharedDefaults
<1>2. h["transactionsRoot"] = p /\ h["receiptsRoot"] = p
  BY DEF BaseHeader, DefaultHeader
<1>3. ConstructHeaderV2(x, parent) = HeaderV2(h)
  BY DEF ConstructHeaderV2
<1> HIDE DEF h, p
<1>4. NotDefault(h) = {}
  BY ONLY <1>1 DEF NotDefault
<1>5. RootsEmpty(h) = IF p = <<>> THEN Roots ELSE {}
  <2>1. \A f \in Roots : h[f] = p
    BY ONLY <1>2 DEF Roots
  <2>2. RootsNotEmpty(h) = {f \in Roots : p # <<>>}
    BY ONLY <2>1 DEF RootsNotEmpty, EmptyRoot
  <2> QED
    BY ONLY <2>2 DEF RootsEmpty
<1>6. Roots # {}
  BY DEF Roots
<1>7. HeaderV2(h) = {} <=> p = <<>>
  BY ONLY <1>4, <1>5, <1>6 DEF HeaderV2
<1> QED
  BY ONLY <1>3, <1>7 DEF p

LEMMA FrontierAndParis == "Frontier" \in ToSet(Forks) /\ "Paris" \in ToSet(Forks)
<1>1. IsList(Forks, 25) /\ Forks[1] = "Frontier" /\ Forks[15] = "Paris"
  BY ForksAre
<1>2. DOMAIN Forks = 1..25
  BY ONLY <1>1, ListIs
<1>3. 1 \in 1..25 /\ 15 \in 1..25
  OBVIOUS
<1> QED
  BY <1>1, <1>2, <1>3 DEF ToSet

(* No fork that was active is given up: blocks and their times only grow.  *)
IsBefore(header, later) ==
  /\ header.number \in Nat /\ later.number \in Nat /\ header.number <= later.number
  /\ header.timestamp \in Nat /\ later.timestamp \in Nat
  /\ header.timestamp <= later.timestamp

LEMMA ForksStayActive ==
  ASSUME NEW header, NEW later, IsBefore(header, later)
  PROVE  ActiveAtHeader(RuGenesis.config, header) \subseteq
           ActiveAtHeader(RuGenesis.config, later) \cap ToSet(Forks)
<1> DEFINE config == RuGenesis.config
           b == header.number
           t == header.timestamp
           c == later.number
           u == later.timestamp
<1>1. /\ \A f \in DOMAIN config.byBlock : f \in ToSet(Forks) /\ config.byBlock[f] \in Nat
      /\ \A f \in DOMAIN config.byTime : f \in ToSet(Forks) /\ config.byTime[f] \in Nat
  BY GenesisAssumption
<1>2. b \in Nat /\ c \in Nat /\ b <= c /\ t \in Nat /\ u \in Nat /\ t <= u
  BY DEF IsBefore
<1>3. "Frontier" \in ToSet(Forks) /\ "Paris" \in ToSet(Forks)
  BY FrontierAndParis
<1> HIDE DEF config, b, t, c, u
<1>4. ASSUME NEW f \in ActiveHardforks(config, b, t)
      PROVE  f \in ActiveHardforks(config, c, u) /\ f \in ToSet(Forks)
  <2>1. CASE f = "Frontier"
    BY <1>3, <2>1 DEF ActiveHardforks
  <2>2. CASE f = "Paris" /\ config.ttdPassed
    BY <1>3, <2>2 DEF ActiveHardforks
  <2>3. CASE /\ f \in DOMAIN config.byBlock /\ b >= config.byBlock[f]
             /\ f = "Dao" => config.daoSupport
    <3>1. c >= config.byBlock[f]
      BY ONLY <1>1, <1>2, <2>3
    <3> QED
      BY <1>1, <2>3, <3>1 DEF ActiveHardforks
  <2>4. CASE f \in DOMAIN config.byTime /\ t >= config.byTime[f]
    <3>1. u >= config.byTime[f]
      BY ONLY <1>1, <1>2, <2>4
    <3> QED
      BY <1>1, <2>4, <3>1 DEF ActiveHardforks
  <2> QED
    BY <1>4, <2>1, <2>2, <2>3, <2>4 DEF ActiveHardforks
<1> QED
  BY <1>4 DEF ActiveAtHeader, config, b, t, c, u

(* One block of the rollup, as its readers see it.                         *)
ReadBack(x, spec, block, before) ==
  LET id == SpecId(ActiveAtHeader(RuGenesis.config, block.header))
  IN  /\ IF Told(spec) THEN Recover(block) = {SendersOf(block)} ELSE Recover(block) = {}
      /\ (ConstructHeaderV2(x, before) = {}) = (block.txs = <<>>)
      /\ BitForSpecId(id) = LatestHardfork(RuGenesis.config, block.header.number,
                                           block.header.timestamp)
      /\ SpecId(FromSpecId(id)) = id
      /\ ActiveAtHeader(RuGenesis.config, before) \ ToSet(Bpos) \subseteq FromSpecId(id)

LEMMA BlockReadBack ==
  ASSUME NEW x, NEW spec, NEW h, IsFollowed(x, spec, h),
         NEW b, NEW before, NEW prev, IsBlockOn(b, x, before, prev),
         IsBefore(before, b.block.header)
  PROVE  ReadBack(x, spec, b.block, before)
<1> DEFINE block == b.block
           header == block.header
           forks == ActiveAtHeader(RuGenesis.config, header)
           id == SpecId(forks)
<1>1. block.txs = SignedTxs(Sys, x)
  BY DEF IsBlockOn
<1>2. IF Told(spec) THEN Recover(block) = {SendersOf(block)} ELSE Recover(block) = {}
  BY <1>1, SystemTxsAreRefused
<1>3. block.txs = <<>> <=> Processed(x) = <<>>
  <2>1. PICK k, m, n : IsProcessed(x, k, m, n)
    BY ProcessedIs
  <2> DEFINE p == Processed(x)
             l == k + m + n
             t == block.txs
  <2>2. IsList(p, l)
    BY <2>1 DEF IsProcessed
  <2>3. DOMAIN t = DOMAIN p /\ t = [i \in DOMAIN t |-> t[i]]
    <3>1. t = [i \in DOMAIN p |-> [tx |-> p[i], signer |-> Senders(x)[i]]]
      BY <1>1, SignedAre
    <3> HIDE DEF t, p
    <3> QED
      BY ONLY <3>1
  <2> HIDE DEF p, l, t
  <2>4. IsList(t, l)
    BY ONLY <2>2, <2>3, ListMapped
  <2>5. \A s : IsList(s, l) => (s = <<>> <=> l = 0)
    <3> SUFFICES ASSUME NEW s, IsList(s, l)
                 PROVE  s = <<>> <=> l = 0
      OBVIOUS
    <3>1. Len(s) = l /\ DOMAIN s = 1..l /\ l \in Nat /\ s = [i \in 1..l |-> s[i]]
      BY ListIs DEF IsList
    <3> QED
      BY ONLY <3>1
  <2> QED
    BY <2>2, <2>4, <2>5 DEF p, t
<1>4. (ConstructHeaderV2(x, before) = {}) = (block.txs = <<>>)
  BY <1>3, RootsOfTransactions
<1>5. "Frontier" \in forks
  BY DEF ActiveAtHeader, ActiveHardforks
<1>6. SpecAgrees(forks)
  <2> HIDE DEF forks
  <2> QED
    BY <1>5, NewestFork
<1>7. ActiveAtHeader(RuGenesis.config, before) \subseteq forks \cap ToSet(Forks)
  BY ForksStayActive
<1>8. LatestHardfork(RuGenesis.config, header.number, header.timestamp)
        = Forks[Latest(Forks, forks \ ToSet(Bpos))]
  BY DEF LatestHardfork, ActiveAtHeader
<1> HIDE DEF forks, header, block
<1>9. /\ BitForSpecId(id) = LatestHardfork(RuGenesis.config, header.number, header.timestamp)
      /\ SpecId(FromSpecId(id)) = id
      /\ ActiveAtHeader(RuGenesis.config, before) \ ToSet(Bpos) \subseteq FromSpecId(id)
  BY <1>6, <1>7, <1>8 DEF SpecAgrees
<1> QED
  BY <1>2, <1>4, <1>9 DEF ReadBack, forks, header, block

(* A block of the rollup is after the one it is on.                        *)
LEMMA HeadersAdvance ==
  ASSUME NEW n, NEW xs, NEW blocks, Built(xs, blocks, n), NEW first \in Nat,
         \A i \in 1..n : xs[i].ruHeight = i /\ xs[i].hostBlock.number = first + i
  PROVE  \A i \in 1..n : IsBefore(ParentAt(blocks, i), blocks[i].block.header)
<1>1. n \in Nat /\ \A i \in 1..n : IsBlockOn(blocks[i], xs[i], ParentAt(blocks, i), PrevAt(blocks, i))
  BY DEF Built, IsList
<1>2. \A i \in 1..n : /\ blocks[i].block.header.number = i
                      /\ blocks[i].block.header.timestamp = HostTime(first + i)
  BY <1>1 DEF IsBlockOn
<1>3. Genesis.number = 0 /\ Genesis.timestamp = 0
  BY DEF Genesis, GenesisHeader, DefaultHeader
<1>4. \A i \in 1..n : i \in Nat /\ (i # 1 => i - 1 \in 1..n)
  BY <1>1
<1> SUFFICES ASSUME NEW i \in 1..n
             PROVE  IsBefore(ParentAt(blocks, i), blocks[i].block.header)
  OBVIOUS
<1> DEFINE header == blocks[i].block.header
           parent == ParentAt(blocks, i)
<1>5. i \in Nat /\ header.number = i /\ header.timestamp = 12 * (first + i)
  BY <1>2, <1>4 DEF HostTime
<1>6. CASE i = 1
  <2>1. parent.number = 0 /\ parent.timestamp = 0
    BY <1>3, <1>6 DEF ParentAt
  <2> HIDE DEF parent, header
  <2> QED
    BY <1>5, <2>1 DEF IsBefore, parent, header
<1>7. CASE i # 1
  <2>1. parent = blocks[i - 1].block.header
    BY <1>7 DEF ParentAt
  <2>2. parent.number = i - 1 /\ parent.timestamp = 12 * (first + (i - 1)) /\ i - 1 \in Nat
    BY <1>2, <1>4, <1>7, <2>1 DEF HostTime
  <2> HIDE DEF parent, header
  <2> QED
    BY <1>5, <2>2 DEF IsBefore, parent, header
<1> QED
  BY <1>6, <1>7

(* Readers of the rollup recover its senders and agree on its forks.       *)
THEOREM ReadersAgree == RollupSpec => []BlocksReadBack
<1>1. ASSUME RollupInv
      PROVE  BlocksReadBack
  <2> DEFINE n == Len(followed)
             first == Sys.host.deployHeight
  <2>1. IsKept(pair, canonical, followed) /\ Built(followed, rollup, n)
    BY <1>1, FollowedIs DEF RollupInv
  <2>2. n \in Nat /\ DOMAIN followed = 1..n /\ DOMAIN rollup = 1..n
    <3>1. IsList(rollup, n)
      BY <2>1 DEF Built
    <3> HIDE DEF n
    <3>2. DOMAIN rollup = 1..n /\ n \in Nat
      BY <3>1, ListIs
    <3> QED
      BY <2>1, <3>2 DEF IsKept, n
  <2>3. first \in Nat
    BY <2>1, FeedAssumption DEF IsKept, Sys
  <2>4. \A i \in 1..n : IsFollowed(followed[i], canonical[i + 1], i)
    BY <2>1, <2>2 DEF IsKept, IsFollowed, Sys
  <2>5. \A i \in 1..n : /\ followed[i].ruHeight = i
                        /\ followed[i].hostBlock.number = first + i
    <3> SUFFICES ASSUME NEW i \in 1..n
                 PROVE  followed[i].ruHeight = i /\ followed[i].hostBlock.number = first + i
      OBVIOUS
    <3> DEFINE x == followed[i]
               spec == canonical[i + 1]
    <3>1. IsFollowed(x, spec, i)
      BY <2>4
    <3>2. spec.number = first + i
      BY <3>1 DEF IsFollowed
    <3> HIDE DEF x, spec
    <3>3. x.ruHeight = i /\ x.hostBlock = BlockOf(spec)
      BY <3>1, FollowedTypes
    <3>4. x.hostBlock.number = spec.number
      BY <3>3 DEF BlockOf
    <3> QED
      BY <3>2, <3>3, <3>4 DEF x
  <2> HIDE DEF n, first
  <2>6. \A i \in 1..n : IsBefore(ParentAt(rollup, i), rollup[i].block.header)
    BY <2>1, <2>3, <2>5, HeadersAdvance
  <2>7. ASSUME NEW i \in 1..n
        PROVE  ReadBack(followed[i], canonical[i + 1], rollup[i].block, ParentAt(rollup, i))
    <3> DEFINE x == followed[i]
               spec == canonical[i + 1]
               b == rollup[i]
               parent == ParentAt(rollup, i)
               prev == PrevAt(rollup, i)
    <3>1. IsFollowed(x, spec, i)
      BY <2>4
    <3>2. IsBlockOn(b, x, parent, prev)
      BY <2>1 DEF Built
    <3>3. IsBefore(parent, b.block.header)
      BY <2>6
    <3> HIDE DEF x, spec, b, parent, prev
    <3>4. ReadBack(x, spec, b.block, parent)
      BY <3>1, <3>2, <3>3, BlockReadBack
    <3> QED
      BY <3>4 DEF x, spec, b, parent
  <2> QED
    BY <2>2, <2>7 DEF BlocksReadBack, ReadBack, Told, ParentAt
<1> QED
  BY <1>1, RollupInvariant, PTL

-----------------------------------------------------------------------------

(* What a notification has of the blocks that were submitted.              *)
SidecarOf(spec) ==
  [number |-> spec.number, sidecar |-> CHOOSE s \in spec.sidecar : TRUE,
   tx |-> Last(MakeTxns(spec))]
SidecarNotes ==
  [number : Nat, sidecar : {ru.txs : ru \in RuBlocks},
   tx : [hash : Seq(Nat), blob : BOOLEAN]]

LEMMA SidecarType ==
  ASSUME NEW sys, NEW spec, Sound(sys, spec), spec.sidecar # {}
  PROVE  SidecarOf(spec) \in SidecarNotes
<1> DEFINE n == Len(spec.receipts)
           At(i, blob) == [hash |-> <<spec.number, i>>, blob |-> blob]
           own == [i \in 1..n |-> At(i, FALSE)]
           last == [i \in 1..1 |-> At(n + 1, TRUE)]
<1>1. spec.number \in Nat /\ n \in Nat
  BY DEF Sound, HostBlock
<1>2. PICK ru \in RuBlocks : spec.sidecar = {ru.txs}
  BY DEF Sound, HasBlock, HasNoBlock
<1>3. Cardinality(spec.sidecar) = 1
  BY <1>2, FS_Singleton
<1>4. MakeTxns(spec) = own \o last
  <2>1. MakeTxns(spec) = own \o [i \in 1..Cardinality(spec.sidecar) |-> At(n + 1, TRUE)]
    BY DEF MakeTxns
  <2> QED
    BY <1>3, <2>1
<1>5. Last(MakeTxns(spec)) = At(n + 1, TRUE)
  <2>1. IsList(own, n) /\ IsList(last, 1)
    BY <1>1 DEF IsList
  <2> DEFINE all == own \o last
  <2>2. last[1] = At(n + 1, TRUE)
    OBVIOUS
  <2> HIDE DEF own, last, n
  <2>3. IsConcat(own \o last, own, n, last, 1)
    BY ONLY <2>1, ConcatLists
  <2>4. IsList(all, n + 1) /\ \A i \in (n + 1)..(n + 1) : all[i] = last[i - n]
    BY <2>3 DEF IsConcat
  <2>5. n + 1 \in (n + 1)..(n + 1) /\ (n + 1) - n = 1
    BY <1>1
  <2>6. all[n + 1] = last[1]
    BY <2>4, <2>5
  <2>7. Len(all) = n + 1
    <3> HIDE DEF all
    <3> QED
      BY <2>4, ListIs
  <2> QED
    BY <1>4, <2>2, <2>6, <2>7 DEF Last
<1>6. At(n + 1, TRUE) \in [hash : Seq(Nat), blob : BOOLEAN]
  <2>1. <<spec.number, n + 1>> \in Seq(Nat)
    BY <1>1
  <2> QED
    BY <2>1
<1>7. (CHOOSE s \in spec.sidecar : TRUE) = ru.txs
  BY <1>2
<1> HIDE DEF At
<1> QED
  BY <1>1, <1>5, <1>6, <1>7 DEF SidecarOf, SidecarNotes

LEMMA NumberedSound ==
  ASSUME NEW sys, NEW specs \in Seq(HostBlock), AllSound(sys, specs)
  PROVE  Numbered(specs) \in Seq(HostBlock) /\ AllSound(sys, Numbered(specs))
<1> DEFINE s == Numbered(specs)
           first == specs[1].number
<1>1. /\ s \in Seq(HostBlock) /\ Len(s) = Len(specs)
      /\ \A i \in 1..Len(specs) : s[i] = [specs[i] EXCEPT !.number = first + i - 1]
  BY NumberedIs
<1> HIDE DEF s
<1>2. DOMAIN s = 1..Len(specs) /\ DOMAIN specs = 1..Len(specs) /\ Len(specs) \in Nat
  BY <1>1
<1>3. ASSUME NEW i \in 1..Len(specs)
      PROVE  Sound(sys, s[i])
  <2>1. 1 \in 1..Len(specs)
    BY <1>2
  <2>2. specs[1] \in HostBlock
    BY <2>1
  <2>3. first \in Nat
    BY <2>2 DEF HostBlock
  <2> DEFINE k == first + i - 1
             spec == specs[i]
  <2>4. k \in Nat /\ s[i] = [spec EXCEPT !.number = k] /\ Sound(sys, spec)
    BY <1>1, <1>2, <2>3 DEF AllSound
  <2> HIDE DEF k, spec
  <2> QED
    BY <2>4, NumberSound
<1> QED
  BY <1>1, <1>2, <1>3 DEF AllSound, s

LEMMA SidecarsType ==
  ASSUME NEW sys, NEW specs \in Seq(HostBlock), AllSound(sys, specs)
  PROVE  Sidecars(specs) \subseteq SidecarNotes
<1> DEFINE s == Numbered(specs)
<1>1. AllSound(sys, s)
  BY NumberedSound
<1>2. Sidecars(specs) = {SidecarOf(spec) : spec \in {t \in ToSet(s) : t.sidecar # {}}}
  BY DEF Sidecars, SidecarOf
<1> HIDE DEF s
<1>3. ASSUME NEW spec \in ToSet(s), spec.sidecar # {}
      PROVE  SidecarOf(spec) \in SidecarNotes
  <2>1. Sound(sys, spec)
    BY <1>1 DEF AllSound, ToSet
  <2> QED
    BY <1>3, <2>1, SidecarType
<1> QED
  BY <1>2, <1>3

(* Blocks that are put on the chain are numbered twice.                    *)
LEMMA NewSidecars ==
  ASSUME NEW sys, NEW n \in Nat, NEW specs \in Seq(HostBlock), AllSound(sys, specs)
  PROVE  Sidecars(Numbered([i \in DOMAIN specs |-> [specs[i] EXCEPT !.number = n]]))
           \subseteq SidecarNotes
<1> DEFINE s == [i \in DOMAIN specs |-> [specs[i] EXCEPT !.number = n]]
           t == Numbered(s)
<1>1. \A i \in DOMAIN specs : [specs[i] EXCEPT !.number = n] \in HostBlock
  <2> TAKE i \in DOMAIN specs
  <2>1. specs[i] \in HostBlock
    OBVIOUS
  <2> QED
    BY <2>1, Renumbered
<1>2. s \in Seq(HostBlock)
  BY <1>1
<1>3. \A i \in DOMAIN specs : Sound(sys, [specs[i] EXCEPT !.number = n])
  <2> TAKE i \in DOMAIN specs
  <2>1. Sound(sys, specs[i])
    BY DEF AllSound
  <2> QED
    BY <2>1, NumberSound
<1>4. AllSound(sys, s)
  BY <1>3 DEF AllSound
<1> HIDE DEF s
<1>5. t \in Seq(HostBlock) /\ AllSound(sys, t)
  BY <1>2, <1>4, NumberedSound
<1> HIDE DEF t
<1>6. Sidecars(t) \subseteq SidecarNotes
  BY <1>5, SidecarsType
<1> QED
  BY <1>6 DEF t, s

FeedTypeInv ==
  /\ FeedInv
  /\ notified.sidecars \subseteq SidecarNotes
  /\ emitted \in 0..MaxLogs /\ mined \in 0..MaxBlocks

LEMMA FeedTypeInit == FeedInit => FeedTypeInv
<1> SUFFICES ASSUME FeedInit PROVE FeedTypeInv
  OBVIOUS
<1>1. FeedInv
  BY FeedInitInv
<1>2. <<>> \in Seq(HostBlock) /\ AllSound(pair.sys, <<>>)
  BY DEF AllSound
<1>3. Sidecars(<<>>) \subseteq SidecarNotes
  BY <1>2, SidecarsType
<1>4. notified.sidecars = Sidecars(<<>>)
  BY DEF FeedInit, Notification
<1>5. emitted \in 0..MaxLogs /\ mined \in 0..MaxBlocks
  BY FeedAssumption DEF FeedInit
<1> QED
  BY <1>1, <1>3, <1>4, <1>5 DEF FeedTypeInv

LEMMA FeedTypeNext == FeedTypeInv /\ [FeedNext]_feedVars => FeedTypeInv'
<1> SUFFICES ASSUME FeedTypeInv, [FeedNext]_feedVars PROVE FeedTypeInv'
  OBVIOUS
<1>1. FeedInv'
  BY FeedNextInv DEF FeedTypeInv
<1>2. /\ emitted \in 0..MaxLogs /\ mined \in 0..MaxBlocks
      /\ notified.sidecars \subseteq SidecarNotes /\ MaxLogs \in Nat /\ MaxBlocks \in Nat
  BY FeedAssumption DEF FeedTypeInv
<1>3. ASSUME NEW a, NEW e, NEW seen, Emit(a, e, seen)
      PROVE  FeedTypeInv'
  <2>1. emitted < MaxLogs /\ emitted' = emitted + 1 /\ mined' = mined /\ notified' = notified
    BY <1>3 DEF Emit
  <2>2. emitted' \in 0..MaxLogs /\ mined' \in 0..MaxBlocks
        /\ notified'.sidecars \subseteq SidecarNotes
    BY <1>2, <2>1
  <2> QED
    BY <1>1, <2>2 DEF FeedTypeInv
<1>4. CASE Enter \/ EnterToken \/ Transact \/ Fill \/ Ignored \/ OtherLog
  <2>1. \E a, e, seen : Emit(a, e, seen)
    BY <1>4 DEF Enter, EnterToken, Transact, Fill, Ignored, OtherLog
  <2> QED
    BY <1>3, <2>1
<1>5. CASE SubmitBlock
  <2>1. emitted < MaxLogs /\ emitted' = emitted + 1 /\ mined' = mined /\ notified' = notified
    BY <1>5 DEF SubmitBlock
  <2>2. emitted' \in 0..MaxLogs /\ mined' \in 0..MaxBlocks
        /\ notified'.sidecars \subseteq SidecarNotes
    BY <1>2, <2>1
  <2> QED
    BY <1>1, <2>2 DEF FeedTypeInv
<1>6. CASE CommitBlock
  <2>1. mined < MaxBlocks /\ mined' = mined + 1 /\ emitted' = emitted /\ notified' = notified
    BY <1>6 DEF CommitBlock
  <2>2. emitted' \in 0..MaxLogs /\ mined' \in 0..MaxBlocks
        /\ notified'.sidecars \subseteq SidecarNotes
    BY <1>2, <2>1
  <2> QED
    BY <1>1, <2>2 DEF FeedTypeInv
<1>7. CASE Notify
  <2>1. PICK k \in 0..Len(canonical) :
          LET kept == SubSeq(canonical, 1, Len(canonical) - k)
              old == SubSeq(canonical, Len(kept) + 1, Len(canonical))
              new == Numbered([i \in DOMAIN fresh |->
                                 [fresh[i] EXCEPT !.number = FirstNumber + Len(kept)]])
              left == Len(followed) - Len(Extracts(old))
          IN  /\ notified' = Notification(old, new, SubSeq(followed, left + 1, Len(followed)))
              /\ UNCHANGED <<pair, draft, emitted, mined>>
    BY <1>7 DEF Notify
  <2> DEFINE n == FirstNumber + Len(SubSeq(canonical, 1, Len(canonical) - k))
             new == Numbered([i \in DOMAIN fresh |-> [fresh[i] EXCEPT !.number = n]])
  <2>2. notified'.sidecars = Sidecars(new) /\ emitted' = emitted /\ mined' = mined
    BY <2>1 DEF Notification
  <2>3. n \in Nat
    <3>1. pair \in Pairs /\ canonical \in Seq(HostBlock)
      BY DEF FeedTypeInv, FeedInv, Follows
    <3>2. FirstNumber \in Nat
      BY <3>1, FeedAssumption DEF FirstNumber, Sys
    <3>3. Len(SubSeq(canonical, 1, Len(canonical) - k)) \in Nat
      BY <3>1
    <3> QED
      BY <3>2, <3>3
  <2>4. fresh \in Seq(HostBlock) /\ AllSound(pair.sys, fresh)
    BY DEF FeedTypeInv, FeedInv
  <2>5. Sidecars(new) \subseteq SidecarNotes
    <3> DEFINE s == fresh
               sys == pair.sys
    <3>1. s \in Seq(HostBlock) /\ AllSound(sys, s)
      BY <2>4
    <3> HIDE DEF n, s, sys
    <3>2. Sidecars(Numbered([i \in DOMAIN s |-> [s[i] EXCEPT !.number = n]]))
            \subseteq SidecarNotes
      BY ONLY <2>3, <3>1, NewSidecars
    <3> QED
      BY ONLY <3>2 DEF s
  <2> HIDE DEF new
  <2>6. notified'.sidecars \subseteq SidecarNotes /\ emitted' \in 0..MaxLogs
        /\ mined' \in 0..MaxBlocks
    BY <1>2, <2>2, <2>5
  <2> QED
    BY <1>1, <2>6 DEF FeedTypeInv
<1>8. CASE UNCHANGED feedVars
  BY <1>1, <1>8 DEF FeedTypeInv, feedVars
<1> QED
  BY <1>4, <1>5, <1>6, <1>7, <1>8 DEF FeedNext

(* The host chain and its notifications stay well-formed.                  *)
THEOREM FeedTypeCorrect == FeedSpec => []FeedTypeOK
<1>1. ASSUME FeedTypeInv
      PROVE  FeedTypeOK
  <2>1. IsKept(pair, canonical, followed)
    BY <1>1, FollowedIs DEF FeedTypeInv
  <2>2. /\ pair \in Pairs /\ draft.number = 0
        /\ \A i \in DOMAIN canonical : canonical[i].number = FirstNumber + i - 1
    BY <1>1 DEF FeedTypeInv, FeedInv, Follows, Consecutive, FirstNumber, Sys
  <2>3. ASSUME NEW i \in DOMAIN followed
        PROVE  followed[i].hostBlock.number \in Nat
    <3> DEFINE x == followed[i]
               spec == canonical[i + 1]
    <3>1. IsFollowed(x, spec, i)
      BY <2>1 DEF IsKept, IsFollowed, Sys
    <3>2. spec.number \in Nat
      BY <3>1 DEF IsFollowed, Sound, HostBlock
    <3> HIDE DEF x, spec
    <3>3. x.hostBlock = BlockOf(spec)
      BY <3>1, FollowedTypes
    <3> QED
      BY <3>2, <3>3 DEF BlockOf, x
  <2> QED
    BY <1>1, <2>2, <2>3 DEF FeedTypeInv, FeedTypeOK, SidecarNotes
<1> QED
  BY <1>1, FeedTypeInit, FeedTypeNext, PTL DEF FeedSpec
===========================================================================
