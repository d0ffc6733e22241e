------------------------ MODULE OrderDetectorProofs -------------------------
(***************************************************************************)
(* The boundaries of the order detector match the open call frames, and    *)
(* its logs, cut at them, follow the call tree, for trees of any depth and *)
(* any number of events, as long as no contract destroys itself.           *)
(***************************************************************************)
EXTENDS OrderDetector, SequenceTheorems, TLAPS

(* Entering a frame adds a boundary after all the events.                  *)
LEMMA EnterFramed ==
  ASSUME NEW f \in FramedType, NEW d \in Nat, WellFramed(f, d)
  PROVE  EnterFrame(f) \in FramedType /\ WellFramed(EnterFrame(f), d + 1)
<1> DEFINE n == Len(f.boundaries)
           b == f.boundaries
           g == EnterFrame(f)
<1>1. /\ f.events \in Seq(Event) /\ b \in Seq(Nat) /\ n \in Nat /\ n = d
      /\ Len(f.events) \in Nat
  BY DEF FramedType, WellFramed, Frames
<1>2. g = [events |-> f.events, boundaries |-> Append(b, Len(f.events))]
  BY DEF EnterFrame
<1>3. g \in FramedType
  BY <1>1, <1>2 DEF FramedType
<1>4. /\ Frames(g) = d + 1
      /\ \A i \in 1..n : g.boundaries[i] = b[i]
      /\ g.boundaries[n + 1] = Len(f.events)
  BY <1>1, <1>2 DEF Frames
<1>5. \A i \in 1..n : b[i] \in Nat /\ b[i] <= Len(f.events)
  BY <1>1 DEF WellFramed, Frames
<1>6. \A i \in 1..(n + 1) : g.boundaries[i] <= Len(f.events)
  BY <1>1, <1>4, <1>5
<1>7. ASSUME NEW i \in 1..(n + 1), NEW j \in 1..(n + 1), i <= j
      PROVE  g.boundaries[i] <= g.boundaries[j]
  <2>1. CASE j = n + 1
    BY <1>4, <1>6, <2>1
  <2>2. CASE j # n + 1
    <3>1. i \in 1..n /\ j \in 1..n
      BY <1>1, <1>7, <2>2
    <3>2. b[i] <= b[j]
      BY <1>7, <3>1 DEF WellFramed, Frames
    <3> QED
      BY <1>4, <3>1, <3>2
  <2> QED
    BY <2>1, <2>2
<1> QED
  <2> HIDE DEF g
  <2>1. g.events = f.events
    BY <1>2
  <2>2. WellFramed(g, d + 1)
    BY <1>1, <1>4, <1>6, <1>7, <2>1 DEF WellFramed
  <2> QED
    BY <1>3, <2>2 DEF g

(* A frame that is open can be exited or reverted, and the frames below it *)
(* keep their boundaries.                                                  *)
LEMMA PopFramed ==
  ASSUME NEW f \in FramedType, NEW d \in Nat \ {0}, WellFramed(f, d)
  PROVE  /\ HasFrame(f)
         /\ ExitFrame(f) \in FramedType /\ WellFramed(ExitFrame(f), d - 1)
         /\ RevertFrame(f) \in FramedType /\ WellFramed(RevertFrame(f), d - 1)
<1> DEFINE n == Len(f.boundaries)
           b == f.boundaries
           e == f.events
           rest == SubSeq(b, 1, n - 1)
<1>1. e \in Seq(Event) /\ b \in Seq(Nat) /\ n \in Nat /\ n = d /\ Len(e) \in Nat
  BY DEF FramedType, WellFramed, Frames
<1>2. HasFrame(f)
  BY <1>1 DEF HasFrame
<1>3. /\ rest \in Seq(Nat) /\ Len(rest) = n - 1
      /\ \A i \in 1..(n - 1) : rest[i] = b[i]
  BY <1>1
<1>4. b[n] \in Nat /\ b[n] <= Len(e)
  BY <1>1 DEF WellFramed, Frames
<1>5. \A i, j \in 1..(n - 1) : i <= j => rest[i] <= rest[j]
  BY <1>1, <1>3 DEF WellFramed, Frames
<1>6. \A i \in 1..(n - 1) : rest[i] <= b[n]
  BY <1>1, <1>3 DEF WellFramed, Frames
<1>7. \A i \in 1..(n - 1) : rest[i] <= Len(e)
  BY <1>1, <1>3 DEF WellFramed, Frames
<1>8. ExitFrame(f) \in FramedType /\ WellFramed(ExitFrame(f), d - 1)
  <2>1. ExitFrame(f) = [events |-> e, boundaries |-> rest]
    BY DEF ExitFrame, Frames
  <2> QED
    BY <1>1, <1>3, <1>5, <1>7, <2>1 DEF FramedType, WellFramed, Frames
<1>9. RevertFrame(f) \in FramedType /\ WellFramed(RevertFrame(f), d - 1)
  <2> DEFINE cut == SubSeq(e, 1, b[n])
  <2>1. RevertFrame(f) = [events |-> cut, boundaries |-> rest]
    BY DEF RevertFrame, Frames
  <2>2. cut \in Seq(Event) /\ Len(cut) = b[n]
    BY <1>1, <1>4
  <2> HIDE DEF cut
  <2> QED
    BY <1>1, <1>3, <1>5, <1>6, <2>1, <2>2 DEF FramedType, WellFramed, Frames
<1> QED
  BY <1>2, <1>8, <1>9

(* Adding an event disturbs no boundary.                                   *)
LEMMA AddFramed ==
  ASSUME NEW f \in FramedType, NEW d \in Nat, WellFramed(f, d), NEW e \in Event
  PROVE  AddEvent(f, e) \in FramedType /\ WellFramed(AddEvent(f, e), d)
<1>1. /\ f.events \in Seq(Event) /\ f.boundaries \in Seq(Nat)
      /\ Len(f.events) \in Nat /\ Len(f.boundaries) \in Nat
  BY DEF FramedType
<1>2. AddEvent(f, e) = [events |-> Append(f.events, e), boundaries |-> f.boundaries]
  BY DEF AddEvent
<1>3. Append(f.events, e) \in Seq(Event) /\ Len(Append(f.events, e)) = Len(f.events) + 1
  BY <1>1
<1>4. \A i \in 1..Len(f.boundaries) :
        f.boundaries[i] \in Nat /\ f.boundaries[i] <= Len(f.events)
  BY <1>1 DEF WellFramed, Frames
<1>5. \A i \in 1..Len(f.boundaries) : f.boundaries[i] <= Len(f.events) + 1
  BY <1>1, <1>4
<1>6. AddEvent(f, e) \in FramedType
  BY <1>1, <1>2, <1>3 DEF FramedType
<1>7. \A i, j \in 1..Len(f.boundaries) :
        i <= j => f.boundaries[i] <= f.boundaries[j]
  BY DEF WellFramed, Frames
<1>8. Len(f.boundaries) = d
  BY DEF WellFramed, Frames
<1> QED
  BY <1>2, <1>3, <1>5, <1>6, <1>7, <1>8 DEF WellFramed, Frames

-----------------------------------------------------------------------------
(* The boundaries match the frames, and no frame is ending by itself.      *)
IInv == DetectorTypeOK /\ FramesMatchCalls /\ ~ending

LEMMA InitFramed == DetectorInit => IInv
<1> SUFFICES ASSUME DetectorInit PROVE IInv
  OBVIOUS
<1>1. EmptyFramed \in FramedType /\ WellFramed(EmptyFramed, 0)
  BY DEF EmptyFramed, FramedType, WellFramed, Frames
<1>2. <<>> \in Seq(Event) /\ 0 \in 0..MaxLogs
  BY DetectorAssumption
<1>3. taken \in [orders : Seq(Event), filleds : Seq(Event)]
  BY <1>2 DEF DetectorInit
<1>4. DetectorTypeOK
  BY <1>1, <1>2, <1>3 DEF DetectorInit, DetectorTypeOK
<1> QED
  BY <1>1, <1>4 DEF DetectorInit, IInv, FramesMatchCalls

LEMMA NextFramed == IInv /\ [DetectorNext]_inspectorVars => IInv'
<1> SUFFICES ASSUME IInv, [DetectorNext]_inspectorVars PROVE IInv'
  OBVIOUS
<1>1. /\ orders \in FramedType /\ WellFramed(orders, depth)
      /\ filleds \in FramedType /\ WellFramed(filleds, depth)
      /\ depth \in Nat /\ ~panicked /\ ~ending
  BY DEF IInv, DetectorTypeOK, FramesMatchCalls
<1> USE DEF IInv, FramesMatchCalls
<1>2. ASSUME NEW kind \in {"filled", "order", "other"}, Log(kind)
      PROVE  IInv'
  <2>1. logs' \in Event /\ logs' \in 0..MaxLogs
    BY <1>2, DetectorAssumption DEF Log, DetectorTypeOK, Event
  <2>2. filleds' \in FramedType /\ WellFramed(filleds', depth)
    BY <1>1, <1>2, <2>1, AddFramed DEF Log
  <2>3. orders' \in FramedType /\ WellFramed(orders', depth)
    BY <1>1, <1>2, <2>1, AddFramed DEF Log
  <2> QED
    BY <1>1, <1>2, <2>1, <2>2, <2>3 DEF Log, DetectorTypeOK
<1>3. CASE Call
  <2>1. /\ orders' \in FramedType /\ WellFramed(orders', depth + 1)
        /\ filleds' \in FramedType /\ WellFramed(filleds', depth + 1)
    BY <1>1, <1>3, EnterFramed DEF Call
  <2> QED
    BY <1>1, <1>3, <2>1 DEF Call, DetectorTypeOK
<1>4. CASE CallEndOk
  <2>1. depth \in Nat \ {0} /\ HasFrame(orders) /\ HasFrame(filleds)
    BY <1>1, <1>4, PopFramed DEF CallEndOk
  <2>2. orders' = ExitFrame(orders) /\ filleds' = ExitFrame(filleds) /\ UNCHANGED panicked
    BY <1>4, <2>1 DEF CallEndOk, Pop
  <2>3. /\ orders' \in FramedType /\ WellFramed(orders', depth - 1)
        /\ filleds' \in FramedType /\ WellFramed(filleds', depth - 1)
    BY <1>1, <2>1, <2>2, PopFramed
  <2>4. /\ depth' = depth - 1 /\ depth' \in Nat /\ result' = "ok" /\ ending' = FALSE
        /\ UNCHANGED <<started, panicked, logs, taken>>
    BY <1>1, <1>4, <2>1, <2>2 DEF CallEndOk
  <2>5. DetectorTypeOK'
    BY <2>3, <2>4 DEF DetectorTypeOK
  <2> QED
    BY <1>1, <2>3, <2>4, <2>5
<1>5. CASE CallEndRevert
  <2>1. depth \in Nat \ {0} /\ HasFrame(orders) /\ HasFrame(filleds)
    BY <1>1, <1>5, PopFramed DEF CallEndRevert, Running
  <2>2. orders' = RevertFrame(orders) /\ filleds' = RevertFrame(filleds) /\ UNCHANGED panicked
    BY <1>5, <2>1 DEF CallEndRevert, Pop
  <2>3. /\ orders' \in FramedType /\ WellFramed(orders', depth - 1)
        /\ filleds' \in FramedType /\ WellFramed(filleds', depth - 1)
    BY <1>1, <2>1, <2>2, PopFramed
  <2> QED
    BY <1>1, <1>5, <2>1, <2>2, <2>3 DEF CallEndRevert, DetectorTypeOK
<1>6. CASE TakeAggregates
  <2>1. EmptyFramed \in FramedType /\ WellFramed(EmptyFramed, 0)
    BY DEF EmptyFramed, FramedType, WellFramed, Frames
  <2>2. orders.events \in Seq(Event) /\ filleds.events \in Seq(Event)
    BY <1>1 DEF FramedType
  <2> QED
    BY <1>1, <1>6, <2>1, <2>2 DEF TakeAggregates, DetectorTypeOK
<1>7. CASE UNCHANGED inspectorVars
  BY <1>7 DEF inspectorVars, DetectorTypeOK
<1> QED
  BY <1>2, <1>3, <1>4, <1>5, <1>6, <1>7 DEF DetectorNext

(* No hook of the detector panics and every revert truncates at the        *)
(* boundary of its own frame, whatever tree of calls the EVM runs, as long *)
(* as no contract destroys itself.                                         *)
THEOREM FramesFollowCalls == DetectorSpec => []FramesMatchCalls
<1>1. DetectorSpec => []IInv
  BY InitFramed, NextFramed, PTL DEF DetectorSpec
<1>2. IInv => FramesMatchCalls
  BY DEF IInv
<1> QED
  BY <1>1, <1>2, PTL

-----------------------------------------------------------------------------
(* Cuts of a sequence that is appended to or truncated.                    *)
LEMMA CutIsSeq ==
  ASSUME NEW S, NEW s \in Seq(S), NEW lo \in Nat \ {0}, NEW hi \in Nat,
         lo <= hi + 1, hi <= Len(s)
  PROVE  /\ SubSeq(s, lo, hi) \in Seq(S) /\ Len(SubSeq(s, lo, hi)) = (hi - lo) + 1
         /\ \A i \in 1..((hi - lo) + 1) : SubSeq(s, lo, hi)[i] = s[lo + i - 1]
<1>1. \A i \in lo..hi : s[i] \in S
  <2>1. \A i \in lo..hi : i \in 1..Len(s)
    BY LenProperties
  <2> QED
    BY <2>1, ElementOfSeq
<1>2. /\ SubSeq(s, lo, hi) \in Seq(S)
      /\ Len(SubSeq(s, lo, hi)) = IF lo <= hi THEN hi - lo + 1 ELSE 0
      /\ \A i \in 1..(hi - lo + 1) : SubSeq(s, lo, hi)[i] = s[lo + i - 1]
  BY <1>1, SubSeqProperties
<1> QED
  BY <1>2

LEMMA CutAfterAppend ==
  ASSUME NEW S, NEW s \in Seq(S), NEW x \in S, NEW lo \in Nat \ {0}, NEW hi \in Nat,
         lo <= hi + 1, hi <= Len(s)
  PROVE  SubSeq(Append(s, x), lo, hi) = SubSeq(s, lo, hi)
<1> DEFINE t == Append(s, x)
<1>1. /\ t \in Seq(S) /\ Len(t) = Len(s) + 1 /\ Len(s) \in Nat
      /\ \A i \in 1..Len(s) : t[i] = s[i]
  BY AppendProperties, LenProperties
<1> HIDE DEF t
<1>2. /\ SubSeq(s, lo, hi) \in Seq(S) /\ Len(SubSeq(s, lo, hi)) = (hi - lo) + 1
      /\ \A i \in 1..((hi - lo) + 1) : SubSeq(s, lo, hi)[i] = s[lo + i - 1]
  BY CutIsSeq
<1>3. /\ SubSeq(t, lo, hi) \in Seq(S) /\ Len(SubSeq(t, lo, hi)) = (hi - lo) + 1
      /\ \A i \in 1..((hi - lo) + 1) : SubSeq(t, lo, hi)[i] = t[lo + i - 1]
  BY <1>1, CutIsSeq
<1>4. \A i \in 1..((hi - lo) + 1) : lo + i - 1 \in 1..Len(s)
  BY <1>1
<1> QED
  BY <1>1, <1>2, <1>3, <1>4, SeqEqual DEF t

LEMMA CutOfAppended ==
  ASSUME NEW S, NEW s \in Seq(S), NEW x \in S, NEW lo \in Nat \ {0}, lo <= Len(s) + 1
  PROVE  SubSeq(Append(s, x), lo, Len(s) + 1) = Append(SubSeq(s, lo, Len(s)), x)
<1> DEFINE t == Append(s, x)
           n == Len(s)
           c == SubSeq(s, lo, n)
<1>1. /\ t \in Seq(S) /\ Len(t) = n + 1 /\ n \in Nat
      /\ (\A i \in 1..n : t[i] = s[i]) /\ t[n + 1] = x
  BY AppendProperties, LenProperties
<1>2. /\ c \in Seq(S) /\ Len(c) = (n - lo) + 1
      /\ \A i \in 1..((n - lo) + 1) : c[i] = s[lo + i - 1]
  BY <1>1, CutIsSeq
<1> HIDE DEF t, n
<1>3. /\ SubSeq(t, lo, n + 1) \in Seq(S) /\ Len(SubSeq(t, lo, n + 1)) = (n + 1 - lo) + 1
      /\ \A i \in 1..((n + 1 - lo) + 1) : SubSeq(t, lo, n + 1)[i] = t[lo + i - 1]
  <2>1. n + 1 \in Nat /\ lo <= (n + 1) + 1 /\ n + 1 <= Len(t)
    BY <1>1 DEF n
  <2> QED
    BY <1>1, <2>1, CutIsSeq
<1> HIDE DEF c
<1>4. /\ Append(c, x) \in Seq(S) /\ Len(Append(c, x)) = Len(c) + 1
      /\ (\A i \in 1..Len(c) : Append(c, x)[i] = c[i]) /\ Append(c, x)[Len(c) + 1] = x
  <2>1. c \in Seq(S)
    BY <1>2
  <2> QED
    BY <2>1, AppendProperties
<1>5. ASSUME NEW i \in 1..((n + 1 - lo) + 1)
      PROVE  t[lo + i - 1] = Append(c, x)[i]
  <2>1. CASE i \in 1..((n - lo) + 1)
    <3>1. lo + i - 1 \in 1..n
      BY <1>1, <2>1
    <3> QED
      BY <1>1, <1>2, <1>4, <2>1, <3>1
  <2>2. CASE i \notin 1..((n - lo) + 1)
    <3>1. i = Len(c) + 1 /\ lo + i - 1 = n + 1
      BY <1>1, <1>2, <2>2
    <3> QED
      BY <1>1, <1>4, <3>1
  <2> QED
    BY <2>1, <2>2
<1>6. Len(SubSeq(t, lo, n + 1)) = Len(Append(c, x))
  BY <1>1, <1>2, <1>3, <1>4
<1>7. SubSeq(t, lo, n + 1) = Append(c, x)
  BY <1>3, <1>4, <1>5, <1>6, SeqEqual
<1> QED
  BY <1>7 DEF t, n, c

LEMMA CutOfCut ==
  ASSUME NEW S, NEW s \in Seq(S), NEW lo \in Nat \ {0}, NEW hi \in Nat, NEW cut \in Nat,
         lo <= hi + 1, hi <= cut, cut <= Len(s)
  PROVE  SubSeq(SubSeq(s, 1, cut), lo, hi) = SubSeq(s, lo, hi)
<1> DEFINE t == SubSeq(s, 1, cut)
<1>1. /\ t \in Seq(S) /\ Len(t) = cut /\ Len(s) \in Nat
      /\ \A i \in 1..cut : t[i] = s[i]
  <2>1. /\ t \in Seq(S) /\ Len(t) = (cut - 1) + 1
        /\ \A i \in 1..((cut - 1) + 1) : t[i] = s[1 + i - 1]
    BY CutIsSeq
  <2> QED
    BY <2>1, LenProperties
<1> HIDE DEF t
<1>2. /\ SubSeq(s, lo, hi) \in Seq(S) /\ Len(SubSeq(s, lo, hi)) = (hi - lo) + 1
      /\ \A i \in 1..((hi - lo) + 1) : SubSeq(s, lo, hi)[i] = s[lo + i - 1]
  BY <1>1, CutIsSeq
<1>3. /\ SubSeq(t, lo, hi) \in Seq(S) /\ Len(SubSeq(t, lo, hi)) = (hi - lo) + 1
      /\ \A i \in 1..((hi - lo) + 1) : SubSeq(t, lo, hi)[i] = t[lo + i - 1]
  BY <1>1, CutIsSeq
<1>4. \A i \in 1..((hi - lo) + 1) : lo + i - 1 \in 1..cut
  BY <1>1
<1> QED
  BY <1>1, <1>2, <1>3, <1>4, SeqEqual DEF t

-----------------------------------------------------------------------------
(* Where the segment of a frame begins and ends in the log.                *)
From(f, i) == IF i = 1 THEN 1 ELSE f.boundaries[i - 1] + 1
To(f, i) == IF i > Frames(f) THEN Len(f.events) ELSE f.boundaries[i]

LEMMA SegmentTypes ==
  ASSUME NEW f \in FramedType, NEW d \in Nat, WellFramed(f, d)
  PROVE  /\ f.events \in Seq(Event) /\ f.boundaries \in Seq(Nat) /\ Len(f.events) \in Nat
         /\ Frames(f) = d /\ Len(f.boundaries) = d
         /\ \A i \in 1..d : f.boundaries[i] \in Nat /\ f.boundaries[i] <= Len(f.events)
         /\ \A i \in 1..(d + 1) :
              /\ From(f, i) \in Nat \ {0} /\ To(f, i) \in Nat
              /\ From(f, i) <= To(f, i) + 1 /\ To(f, i) <= Len(f.events)
              /\ Segments(f)[i] = SubSeq(f.events, From(f, i), To(f, i))
              /\ Segments(f)[i] \in Seq(Event)
         /\ Segments(f) \in Seq(Seq(Event)) /\ Len(Segments(f)) = d + 1
<1>1. /\ f.events \in Seq(Event) /\ f.boundaries \in Seq(Nat) /\ Len(f.events) \in Nat
      /\ Frames(f) = d /\ Len(f.boundaries) = d
  BY DEF FramedType, WellFramed, Frames
<1>2. \A i \in 1..d : f.boundaries[i] \in Nat /\ f.boundaries[i] <= Len(f.events)
  BY <1>1, ElementOfSeq DEF WellFramed
<1>3. \A i, j \in 1..d : i <= j => f.boundaries[i] <= f.boundaries[j]
  BY <1>1 DEF WellFramed
<1>4. ASSUME NEW i \in 1..(d + 1)
      PROVE  /\ From(f, i) \in Nat \ {0} /\ To(f, i) \in Nat
             /\ From(f, i) <= To(f, i) + 1 /\ To(f, i) <= Len(f.events)
  <2>1. i # 1 => i - 1 \in 1..d
    OBVIOUS
  <2>2. ~(i > d) => i \in 1..d
    OBVIOUS
  <2>3. i # 1 /\ ~(i > d) => f.boundaries[i - 1] <= f.boundaries[i]
    BY <1>3, <2>1, <2>2
  <2>4. i # 1 => /\ f.boundaries[i - 1] \in Nat
                 /\ f.boundaries[i - 1] <= Len(f.events)
    BY <1>2, <2>1
  <2>5. ~(i > d) => f.boundaries[i] \in Nat /\ f.boundaries[i] <= Len(f.events)
    BY <1>2, <2>2
  <2>6. /\ From(f, i) = IF i = 1 THEN 1 ELSE f.boundaries[i - 1] + 1
        /\ To(f, i) = IF i > d THEN Len(f.events) ELSE f.boundaries[i]
    BY <1>1 DEF From, To
  <2> DEFINE lo == From(f, i)
             hi == To(f, i)
             before == f.boundaries[i - 1]
             here == f.boundaries[i]
             all == Len(f.events)
  <2>7. /\ i # 1 => lo = before + 1 /\ before \in Nat /\ before <= all
        /\ i = 1 => lo = 1
        /\ i > d => hi = all
        /\ ~(i > d) => hi = here /\ here \in Nat /\ here <= all
        /\ i # 1 /\ ~(i > d) => before <= here
        /\ all \in Nat
    BY <1>1, <2>3, <2>4, <2>5, <2>6
  <2> HIDE DEF lo, hi, before, here, all
  <2>8. CASE i > d
    BY <2>7, <2>8 DEF lo, hi, all
  <2>9. CASE ~(i > d)
    BY <2>7, <2>9 DEF lo, hi, all
  <2> QED
    BY <2>8, <2>9
<1>5. /\ DOMAIN Segments(f) = 1..(d + 1)
      /\ \A i \in 1..(d + 1) : Segments(f)[i] = SubSeq(f.events, From(f, i), To(f, i))
  BY <1>1 DEF Segments, From, To
<1>6. ASSUME NEW i \in 1..(d + 1)
      PROVE  Segments(f)[i] \in Seq(Event)
  <2>1. /\ From(f, i) \in Nat \ {0} /\ To(f, i) \in Nat
        /\ From(f, i) <= To(f, i) + 1 /\ To(f, i) <= Len(f.events)
    BY <1>4
  <2>2. SubSeq(f.events, From(f, i), To(f, i)) \in Seq(Event)
    BY <1>1, <2>1, CutIsSeq
  <2> QED
    BY <1>5, <2>2
<1>7. Segments(f) \in Seq(Seq(Event)) /\ Len(Segments(f)) = d + 1
  <2>1. Segments(f) = [i \in 1..(d + 1) |-> Segments(f)[i]]
    BY <1>1 DEF Segments
  <2>2. Segments(f) \in [1..(d + 1) -> Seq(Event)]
    BY <1>6, <2>1
  <2> QED
    BY <1>5, <2>2
<1> QED
  BY <1>1, <1>2, <1>4, <1>5, <1>6, <1>7

(* The hooks of the detector on the log are the steps of the tree on its   *)
(* segments.                                                               *)
LEMMA EnterSegments ==
  ASSUME NEW f \in FramedType, NEW d \in Nat, WellFramed(f, d)
  PROVE  Segments(EnterFrame(f)) = Append(Segments(f), <<>>)
<1> DEFINE g == EnterFrame(f)
           b == f.boundaries
<1>1. g \in FramedType /\ WellFramed(g, d + 1) /\ d + 1 \in Nat
  BY EnterFramed
<1>2. /\ g.events = f.events /\ g.boundaries = Append(b, Len(f.events))
  BY DEF EnterFrame
<1>3. /\ b \in Seq(Nat) /\ Len(b) = d /\ Len(f.events) \in Nat
      /\ (\A i \in 1..d : g.boundaries[i] = b[i]) /\ g.boundaries[d + 1] = Len(f.events)
  <2>1. b \in Seq(Nat) /\ Len(b) = d /\ Len(f.events) \in Nat
    BY SegmentTypes
  <2> HIDE DEF g, b
  <2>2. /\ \A i \in 1..Len(b) : Append(b, Len(f.events))[i] = b[i]
        /\ Append(b, Len(f.events))[Len(b) + 1] = Len(f.events)
    BY <2>1, AppendProperties
  <2> QED
    BY <1>2, <2>1, <2>2
<1> HIDE DEF g, b
<1>4. /\ Segments(g) \in Seq(Seq(Event)) /\ Len(Segments(g)) = (d + 1) + 1
      /\ Frames(g) = d + 1
      /\ \A i \in 1..((d + 1) + 1) : Segments(g)[i] = SubSeq(g.events, From(g, i), To(g, i))
  BY <1>1, SegmentTypes
<1>5. /\ Segments(f) \in Seq(Seq(Event)) /\ Len(Segments(f)) = d + 1 /\ Frames(f) = d
      /\ \A i \in 1..(d + 1) : Segments(f)[i] = SubSeq(f.events, From(f, i), To(f, i))
  BY SegmentTypes
<1>6. <<>> \in Seq(Event)
  BY EmptySeq
<1>7. /\ Append(Segments(f), <<>>) \in Seq(Seq(Event))
      /\ Len(Append(Segments(f), <<>>)) = (d + 1) + 1
      /\ \A i \in 1..(d + 1) : Append(Segments(f), <<>>)[i] = Segments(f)[i]
      /\ Append(Segments(f), <<>>)[(d + 1) + 1] = <<>>
  BY <1>5, <1>6, AppendProperties
<1>8. ASSUME NEW i \in 1..((d + 1) + 1)
      PROVE  Segments(g)[i] = Append(Segments(f), <<>>)[i]
  <2>1. CASE i \in 1..(d + 1)
    <3>1. From(g, i) = From(f, i)
      <4>1. i # 1 => i - 1 \in 1..d
        BY <2>1
      <4> QED
        BY <1>3, <4>1 DEF From, b
    <3>2. To(g, i) = To(f, i)
      <4>1. CASE i \in 1..d
        <5>1. ~(i > d) /\ ~(i > d + 1)
          BY <4>1
        <5>2. To(f, i) = b[i]
          BY <1>5, <5>1 DEF To, b
        <5>3. To(g, i) = g.boundaries[i]
          BY <1>4, <5>1 DEF To
        <5> QED
          BY <1>3, <4>1, <5>2, <5>3
      <4>2. CASE i = d + 1
        <5>1. i > d /\ ~(i > d + 1)
          BY <4>2
        <5>2. To(f, i) = Len(f.events)
          BY <1>5, <5>1 DEF To
        <5>3. To(g, i) = g.boundaries[i]
          BY <1>4, <5>1 DEF To
        <5> QED
          BY <1>3, <4>2, <5>2, <5>3
      <4> QED
        BY <2>1, <4>1, <4>2
    <3> QED
      BY <1>2, <1>4, <1>5, <1>7, <2>1, <3>1, <3>2
  <2>2. CASE i = (d + 1) + 1
    <3>1. From(g, i) = Len(f.events) + 1 /\ To(g, i) = Len(f.events)
      BY <1>2, <1>3, <1>4, <2>2 DEF From, To
    <3>2. SubSeq(g.events, From(g, i), To(g, i)) = <<>>
      BY <1>3, <3>1, SubSeqEmpty
    <3> QED
      BY <1>4, <1>7, <2>2, <3>2
  <2>3. i \in 1..(d + 1) \/ i = (d + 1) + 1
    OBVIOUS
  <2> QED
    BY <2>1, <2>2, <2>3
<1>9. Segments(g) = Append(Segments(f), <<>>)
  BY <1>4, <1>7, <1>8, SeqEqual
<1> QED
  BY <1>9 DEF g

LEMMA AddSegments ==
  ASSUME NEW f \in FramedType, NEW d \in Nat, WellFramed(f, d), NEW e \in Event
  PROVE  Segments(AddEvent(f, e)) =
           [Segments(f) EXCEPT ![Len(Segments(f))] = Append(@, e)]
<1> DEFINE g == AddEvent(f, e)
           last == Append(Segments(f)[d + 1], e)
<1>1. g \in FramedType /\ WellFramed(g, d)
  BY AddFramed
<1>2. g.events = Append(f.events, e) /\ g.boundaries = f.boundaries
  BY DEF AddEvent
<1> HIDE DEF g
<1>3. /\ Segments(g) \in Seq(Seq(Event)) /\ Len(Segments(g)) = d + 1 /\ Frames(g) = d
      /\ \A i \in 1..(d + 1) : Segments(g)[i] = SubSeq(g.events, From(g, i), To(g, i))
  BY <1>1, SegmentTypes
<1>4. /\ Segments(f) \in Seq(Seq(Event)) /\ Len(Segments(f)) = d + 1 /\ Frames(f) = d
      /\ f.events \in Seq(Event) /\ Len(f.events) \in Nat
      /\ Len(g.events) = Len(f.events) + 1
      /\ \A i \in 1..(d + 1) :
           /\ Segments(f)[i] = SubSeq(f.events, From(f, i), To(f, i))
           /\ Segments(f)[i] \in Seq(Event)
           /\ From(f, i) \in Nat \ {0} /\ To(f, i) \in Nat
           /\ From(f, i) <= To(f, i) + 1 /\ To(f, i) <= Len(f.events)
  <2>1. Len(g.events) = Len(f.events) + 1
    BY <1>2, SegmentTypes, AppendProperties
  <2> QED
    BY <2>1, SegmentTypes
<1>5. \A i \in 1..(d + 1) : From(g, i) = From(f, i)
  BY <1>2 DEF From
<1>6. ASSUME NEW i \in 1..d
      PROVE  Segments(g)[i] = Segments(f)[i]
  <2>1. To(g, i) = To(f, i)
    BY <1>2, <1>3, <1>4 DEF To
  <2> i \in 1..(d + 1)
    OBVIOUS
  <2>2. /\ From(f, i) \in Nat \ {0} /\ To(f, i) \in Nat
        /\ From(f, i) <= To(f, i) + 1 /\ To(f, i) <= Len(f.events)
    BY <1>4
  <2>3. SubSeq(g.events, From(f, i), To(f, i)) = SubSeq(f.events, From(f, i), To(f, i))
    <3> DEFINE lo == From(f, i)
               hi == To(f, i)
               s == f.events
    <3>1. s \in Seq(Event) /\ lo \in Nat \ {0} /\ hi \in Nat /\ lo <= hi + 1 /\ hi <= Len(s)
      BY <1>4, <2>2
    <3> HIDE DEF lo, hi, s
    <3>2. SubSeq(Append(s, e), lo, hi) = SubSeq(s, lo, hi)
      BY <3>1, CutAfterAppend
    <3> QED
      BY <1>2, <3>2 DEF lo, hi, s
  <2> QED
    BY <1>3, <1>4, <1>5, <2>1, <2>2, <2>3
<1>7. Segments(g)[d + 1] = last
  <2>1. To(f, d + 1) = Len(f.events) /\ To(g, d + 1) = Len(f.events) + 1 /\ d + 1 \in 1..(d + 1)
    BY <1>3, <1>4 DEF To
  <2>2. /\ From(f, d + 1) \in Nat \ {0} /\ From(f, d + 1) <= Len(f.events) + 1
        /\ Segments(f)[d + 1] = SubSeq(f.events, From(f, d + 1), Len(f.events))
    BY <1>4, <2>1
  <2>3. SubSeq(Append(f.events, e), From(f, d + 1), Len(f.events) + 1) =
          Append(SubSeq(f.events, From(f, d + 1), Len(f.events)), e)
    BY <1>4, <2>2, CutOfAppended
  <2> QED
    BY <1>2, <1>3, <1>5, <2>1, <2>2, <2>3
<1>8. last \in Seq(Event) /\ d + 1 \in 1..Len(Segments(f))
  <2>1. Segments(f)[d + 1] \in Seq(Event) /\ d + 1 \in 1..Len(Segments(f))
    BY <1>4
  <2> QED
    BY <2>1, AppendProperties
<1> HIDE DEF last
<1>9. Segments(g) = [Segments(f) EXCEPT ![d + 1] = last]
  <2> DEFINE h == [Segments(f) EXCEPT ![d + 1] = last]
  <2>1. /\ h \in Seq(Seq(Event)) /\ Len(h) = d + 1
        /\ \A i \in 1..(d + 1) : h[i] = IF i = d + 1 THEN last ELSE Segments(f)[i]
    BY <1>4, <1>8, ExceptSeq
  <2>2. \A i \in 1..(d + 1) : Segments(g)[i] = h[i]
    BY <1>6, <1>7, <2>1
  <2> HIDE DEF h
  <2>3. Segments(g) = h
    BY <1>3, <2>1, <2>2, SeqEqual
  <2> QED
    BY <2>3 DEF h
<1> QED
  BY <1>4, <1>9 DEF g, last

(* A frame that is exited leaves its events to its caller.                 *)
LEMMA ExitSegments ==
  ASSUME NEW f \in FramedType, NEW d \in Nat \ {0}, WellFramed(f, d)
  PROVE  Segments(ExitFrame(f)) =
           [SubSeq(Segments(f), 1, d) EXCEPT ![d] = @ \o Segments(f)[d + 1]]
<1> DEFINE g == ExitFrame(f)
           callers == SubSeq(Segments(f), 1, d)
           joined == Segments(f)[d] \o Segments(f)[d + 1]
<1>1. g \in FramedType /\ WellFramed(g, d - 1) /\ d - 1 \in Nat
  BY PopFramed
<1>2. /\ g.events = f.events
      /\ g.boundaries = SubSeq(f.boundaries, 1, d - 1)
  BY DEF ExitFrame, WellFramed
<1>3. /\ f.events \in Seq(Event) /\ f.boundaries \in Seq(Nat) /\ Len(f.events) \in Nat
      /\ Frames(f) = d /\ Len(f.boundaries) = d
      /\ \A i \in 1..d : f.boundaries[i] \in Nat /\ f.boundaries[i] <= Len(f.events)
      /\ Segments(f) \in Seq(Seq(Event)) /\ Len(Segments(f)) = d + 1
  BY SegmentTypes
<1>4. \A i \in 1..(d + 1) :
        /\ From(f, i) \in Nat \ {0} /\ To(f, i) \in Nat
        /\ From(f, i) <= To(f, i) + 1 /\ To(f, i) <= Len(f.events)
        /\ Segments(f)[i] = SubSeq(f.events, From(f, i), To(f, i))
        /\ Segments(f)[i] \in Seq(Event)
  BY SegmentTypes
<1> HIDE DEF g
<1>5. /\ Segments(g) \in Seq(Seq(Event)) /\ Len(Segments(g)) = d /\ Frames(g) = d - 1
      /\ \A i \in 1..d : Segments(g)[i] = SubSeq(g.events, From(g, i), To(g, i))
  <2>1. (d - 1) + 1 = d
    OBVIOUS
  <2> QED
    BY <1>1, <2>1, SegmentTypes
<1>6. \A i \in 1..(d - 1) : g.boundaries[i] = f.boundaries[i]
  <2>1. 1 <= (d - 1) + 1 /\ d - 1 <= Len(f.boundaries) /\ 1 \in Nat \ {0} /\ d - 1 \in Nat
    BY <1>3
  <2>2. \A i \in 1..(((d - 1) - 1) + 1) :
          SubSeq(f.boundaries, 1, d - 1)[i] = f.boundaries[1 + i - 1]
    BY <1>3, <2>1, CutIsSeq
  <2> QED
    BY <1>2, <2>2
<1>7. /\ callers \in Seq(Seq(Event)) /\ Len(callers) = d
      /\ \A i \in 1..d : callers[i] = Segments(f)[i]
  <2>1. 1 <= d + 1 /\ d <= Len(Segments(f)) /\ 1 \in Nat \ {0} /\ d \in Nat
    BY <1>3
  <2>2. /\ callers \in Seq(Seq(Event)) /\ Len(callers) = (d - 1) + 1
        /\ \A i \in 1..((d - 1) + 1) : callers[i] = Segments(f)[1 + i - 1]
    BY <1>3, <2>1, CutIsSeq
  <2> QED
    BY <2>2
<1> HIDE DEF callers
<1>8. \A i \in 1..d : From(g, i) = From(f, i)
  <2> TAKE i \in 1..d
  <2>1. i # 1 => i - 1 \in 1..(d - 1)
    OBVIOUS
  <2> QED
    BY <1>6, <2>1 DEF From
<1>9. ASSUME NEW i \in 1..(d - 1)
      PROVE  Segments(g)[i] = Segments(f)[i]
  <2>1. i \in 1..d /\ i \in 1..(d + 1) /\ ~(i > d) /\ ~(i > d - 1)
    OBVIOUS
  <2>2. To(g, i) = To(f, i)
    BY <1>3, <1>5, <1>6, <2>1 DEF To
  <2> QED
    BY <1>2, <1>4, <1>5, <1>8, <2>1, <2>2
<1>10. Segments(g)[d] = joined
  <2> DEFINE lo == From(f, d)
             m == f.boundaries[d]
             hi == Len(f.events)
  <2>1. d \in 1..d /\ d \in 1..(d + 1) /\ d + 1 \in 1..(d + 1) /\ ~(d > d) /\ d + 1 > d
        /\ d > d - 1 /\ d + 1 # 1
    OBVIOUS
  <2>2. To(f, d) = m /\ From(f, d + 1) = m + 1 /\ To(f, d + 1) = hi
    BY <1>3, <2>1 DEF From, To
  <2>3. From(g, d) = lo /\ To(g, d) = hi
    BY <1>2, <1>5, <1>8, <2>1 DEF To
  <2>4. lo \in 1..(Len(f.events) + 1) /\ m \in (lo - 1)..Len(f.events) /\ hi \in m..Len(f.events)
    <3>1. lo \in Nat \ {0} /\ lo <= m + 1 /\ m <= Len(f.events) /\ m \in Nat
      BY <1>4, <2>1, <2>2
    <3> HIDE DEF lo, m
    <3> QED
      BY <1>3, <3>1
  <2>5. /\ Segments(f)[d] = SubSeq(f.events, lo, m)
        /\ Segments(f)[d + 1] = SubSeq(f.events, m + 1, hi)
        /\ Segments(g)[d] = SubSeq(f.events, lo, hi)
    BY <1>2, <1>4, <1>5, <2>1, <2>2, <2>3
  <2> HIDE DEF lo, m, hi
  <2>6. SubSeq(f.events, lo, m) \o SubSeq(f.events, m + 1, hi) = SubSeq(f.events, lo, hi)
    BY <1>3, <2>4, ConcatAdjacentSubSeq
  <2> QED
    BY <2>5, <2>6
<1>11. joined \in Seq(Event)
  <2>1. Segments(f)[d] \in Seq(Event) /\ Segments(f)[d + 1] \in Seq(Event)
    <3>1. d \in 1..(d + 1) /\ d + 1 \in 1..(d + 1)
      OBVIOUS
    <3> QED
      BY <1>4, <3>1
  <2> QED
    BY <2>1, ConcatProperties
<1> HIDE DEF joined
<1>12. Segments(g) = [callers EXCEPT ![d] = joined]
  <2> DEFINE h == [callers EXCEPT ![d] = joined]
  <2>1. /\ h \in Seq(Seq(Event)) /\ Len(h) = d
        /\ \A i \in 1..d : h[i] = IF i = d THEN joined ELSE callers[i]
    BY <1>7, <1>11, ExceptSeq
  <2> HIDE DEF h
  <2>2. ASSUME NEW i \in 1..d
        PROVE  Segments(g)[i] = h[i]
    <3>1. CASE i = d
      BY <1>10, <2>1, <3>1
    <3>2. CASE i # d
      <4>1. i \in 1..(d - 1)
        BY <3>2
      <4> QED
        BY <1>7, <1>9, <2>1, <3>2, <4>1
    <3> QED
      BY <3>1, <3>2
  <2>3. Segments(g) = h
    BY <1>5, <2>1, <2>2, SeqEqual
  <2> QED
    BY <2>3 DEF h
<1>13. callers[d] = Segments(f)[d]
  BY <1>7
<1> QED
  BY <1>12, <1>13 DEF g, callers, joined

(* A frame that reverts leaves the segments of its callers as they are.    *)
LEMMA RevertSegments ==
  ASSUME NEW f \in FramedType, NEW d \in Nat \ {0}, WellFramed(f, d)
  PROVE  Segments(RevertFrame(f)) = SubSeq(Segments(f), 1, d)
<1> DEFINE g == RevertFrame(f)
           callers == SubSeq(Segments(f), 1, d)
           cut == f.boundaries[d]
<1>1. g \in FramedType /\ WellFramed(g, d - 1) /\ d - 1 \in Nat
  BY PopFramed
<1>2. /\ g.events = SubSeq(f.events, 1, cut)
      /\ g.boundaries = SubSeq(f.boundaries, 1, d - 1)
  BY DEF RevertFrame, WellFramed
<1>3. /\ f.events \in Seq(Event) /\ f.boundaries \in Seq(Nat) /\ Len(f.events) \in Nat
      /\ Frames(f) = d /\ Len(f.boundaries) = d
      /\ \A i \in 1..d : f.boundaries[i] \in Nat /\ f.boundaries[i] <= Len(f.events)
      /\ Segments(f) \in Seq(Seq(Event)) /\ Len(Segments(f)) = d + 1
  BY SegmentTypes
<1>4. \A i \in 1..(d + 1) :
        /\ From(f, i) \in Nat \ {0} /\ To(f, i) \in Nat
        /\ From(f, i) <= To(f, i) + 1 /\ To(f, i) <= Len(f.events)
        /\ Segments(f)[i] = SubSeq(f.events, From(f, i), To(f, i))
  BY SegmentTypes
<1> HIDE DEF g
<1>5. /\ Segments(g) \in Seq(Seq(Event)) /\ Len(Segments(g)) = d /\ Frames(g) = d - 1
      /\ \A i \in 1..d : Segments(g)[i] = SubSeq(g.events, From(g, i), To(g, i))
  <2>1. (d - 1) + 1 = d
    OBVIOUS
  <2> QED
    BY <1>1, <2>1, SegmentTypes
<1>6. \A i \in 1..(d - 1) : g.boundaries[i] = f.boundaries[i]
  <2>1. 1 <= (d - 1) + 1 /\ d - 1 <= Len(f.boundaries) /\ 1 \in Nat \ {0} /\ d - 1 \in Nat
    BY <1>3
  <2>2. \A i \in 1..(((d - 1) - 1) + 1) :
          SubSeq(f.boundaries, 1, d - 1)[i] = f.boundaries[1 + i - 1]
    BY <1>3, <2>1, CutIsSeq
  <2> QED
    BY <1>2, <2>2
<1>7. /\ callers \in Seq(Seq(Event)) /\ Len(callers) = d
      /\ \A i \in 1..d : callers[i] = Segments(f)[i]
  <2>1. 1 <= d + 1 /\ d <= Len(Segments(f)) /\ 1 \in Nat \ {0} /\ d \in Nat
    BY <1>3
  <2>2. /\ callers \in Seq(Seq(Event)) /\ Len(callers) = (d - 1) + 1
        /\ \A i \in 1..((d - 1) + 1) : callers[i] = Segments(f)[1 + i - 1]
    BY <1>3, <2>1, CutIsSeq
  <2> QED
    BY <2>2
<1> HIDE DEF callers
<1>8. cut \in Nat /\ cut <= Len(f.events) /\ \A i \in 1..d : f.boundaries[i] <= cut
  <2>1. d \in 1..d
    OBVIOUS
  <2>2. \A i, j \in 1..d : i <= j => f.boundaries[i] <= f.boundaries[j]
    BY <1>3 DEF WellFramed
  <2> QED
    BY <1>3, <2>1, <2>2
<1> HIDE DEF cut
<1>9. Len(g.events) = cut
  <2>1. 1 <= cut + 1 /\ 1 \in Nat \ {0}
    BY <1>8
  <2>2. Len(SubSeq(f.events, 1, cut)) = (cut - 1) + 1
    BY <1>3, <1>8, <2>1, CutIsSeq
  <2> QED
    BY <1>2, <1>8, <2>2
<1>10. ASSUME NEW i \in 1..d
       PROVE  Segments(g)[i] = callers[i]
  <2>1. i \in 1..(d + 1) /\ ~(i > d)
    OBVIOUS
  <2>2. From(g, i) = From(f, i)
    <3>1. i # 1 => i - 1 \in 1..(d - 1)
      OBVIOUS
    <3> QED
      BY <1>6, <3>1 DEF From
  <2>3. To(f, i) = f.boundaries[i]
    BY <1>3, <2>1 DEF To
  <2>4. To(g, i) = To(f, i)
    <3>1. CASE i = d
      <4>1. i > d - 1
        BY <3>1
      <4> QED
        BY <1>5, <1>9, <2>3, <3>1, <4>1 DEF To, cut
    <3>2. CASE i # d
      <4>1. i \in 1..(d - 1) /\ ~(i > d - 1)
        BY <3>2
      <4> QED
        BY <1>5, <1>6, <2>3, <4>1 DEF To
    <3> QED
      BY <3>1, <3>2
  <2>5. /\ From(f, i) \in Nat \ {0} /\ To(f, i) \in Nat
        /\ From(f, i) <= To(f, i) + 1 /\ To(f, i) <= cut
    BY <1>4, <1>8, <2>1, <2>3
  <2>6. SubSeq(SubSeq(f.events, 1, cut), From(f, i), To(f, i)) =
          SubSeq(f.events, From(f, i), To(f, i))
    <3> DEFINE lo == From(f, i)
               hi == To(f, i)
               s == f.events
    <3>1. /\ s \in Seq(Event) /\ lo \in Nat \ {0} /\ hi \in Nat /\ cut \in Nat
          /\ lo <= hi + 1 /\ hi <= cut /\ cut <= Len(s)
      BY <1>3, <1>8, <2>5
    <3> HIDE DEF lo, hi, s
    <3>2. SubSeq(SubSeq(s, 1, cut), lo, hi) = SubSeq(s, lo, hi)
      BY <3>1, CutOfCut
    <3> QED
      BY <3>2 DEF lo, hi, s
  <2> QED
    BY <1>2, <1>4, <1>5, <1>7, <2>1, <2>2, <2>4, <2>6
<1>11. Segments(g) = callers
  BY <1>5, <1>7, <1>10, SeqEqual
<1> QED
  BY <1>11 DEF g, callers

(* With no frame open, the only segment is the whole log.                  *)
LEMMA WholeSegment ==
  ASSUME NEW f \in FramedType, WellFramed(f, 0)
  PROVE  Segments(f)[1] = f.events /\ Len(Segments(f)) = 1
<1>1. /\ f.events \in Seq(Event) /\ Frames(f) = 0 /\ Len(Segments(f)) = 0 + 1
      /\ \A i \in 1..(0 + 1) : Segments(f)[i] = SubSeq(f.events, From(f, i), To(f, i))
  BY SegmentTypes
<1>2. From(f, 1) = 1 /\ To(f, 1) = Len(f.events)
  BY <1>1 DEF From, To
<1>3. SubSeq(f.events, 1, Len(f.events)) = f.events
  BY <1>1, SubSeqFull
<1>4. 1 \in 1..(0 + 1) /\ 0 + 1 = 1
  OBVIOUS
<1>5. Segments(f)[1] = SubSeq(f.events, 1, Len(f.events))
  BY <1>1, <1>2, <1>4
<1> QED
  BY <1>1, <1>3, <1>4, <1>5

LEMMA EmptySegments == Segments(EmptyFramed) = << <<>> >>
<1>1. EmptyFramed \in FramedType /\ WellFramed(EmptyFramed, 0) /\ EmptyFramed.events = <<>>
  BY DEF EmptyFramed, FramedType, WellFramed, Frames
<1>2. Segments(EmptyFramed)[1] = <<>> /\ Len(Segments(EmptyFramed)) = 1
  BY <1>1, WholeSegment
<1>3. Segments(EmptyFramed) \in Seq(Seq(Event))
  BY <1>1, SegmentTypes
<1> HIDE DEF EmptyFramed
<1> QED
  BY <1>2, <1>3

-----------------------------------------------------------------------------
(* Each hook is a step of the tree on each of the two logs, or leaves it.  *)
LEMMA OrdersFollowTree ==
  IInv /\ [DetectorNext]_inspectorVars => [OrderTree!Next]_(OrderTree!treeVars)
<1> SUFFICES ASSUME IInv, [DetectorNext]_inspectorVars
             PROVE  [OrderTree!Next]_(OrderTree!treeVars)
  OBVIOUS
<1> DEFINE f == orders
           tree == Segments(f)
<1>1. f \in FramedType /\ WellFramed(f, depth) /\ depth \in Nat /\ ~panicked
  BY DEF IInv, DetectorTypeOK, FramesMatchCalls
<1>2. Len(tree) = depth + 1
  BY <1>1, SegmentTypes
<1>3. ASSUME NEW kind \in {"filled", "order", "other"}, Log(kind)
      PROVE  OrderTree!Emit \/ UNCHANGED OrderTree!treeVars
  <2>1. logs' \in Event /\ UNCHANGED <<result, taken>>
    BY <1>3, DetectorAssumption DEF Log, IInv, DetectorTypeOK, Event
  <2>2. CASE kind = "order" /\ ~FillsOnly
    <3>1. orders' = AddEvent(f, logs')
      BY <1>3, <2>2 DEF Log
    <3>2. Segments(orders') = [tree EXCEPT ![Len(tree)] = Append(@, logs')]
      BY <1>1, <2>1, <3>1, AddSegments
    <3> QED
      BY <2>1, <3>2 DEF OrderTree!Emit
  <2>3. CASE ~(kind = "order" /\ ~FillsOnly)
    BY <1>3, <2>1, <2>3 DEF Log, OrderTree!treeVars
  <2> QED
    BY <2>2, <2>3
<1>4. CASE Call
  <2>1. orders' = EnterFrame(f) /\ UNCHANGED <<result, taken>>
    BY <1>4 DEF Call
  <2>2. Segments(orders') = Append(tree, <<>>)
    BY <1>1, <2>1, EnterSegments
  <2> QED
    BY <2>1, <2>2 DEF OrderTree!Next, OrderTree!Enter
<1>5. CASE CallEndOk
  <2>1. depth \in Nat \ {0} /\ HasFrame(orders) /\ HasFrame(filleds)
    BY <1>1, <1>5, PopFramed DEF CallEndOk, IInv, DetectorTypeOK, FramesMatchCalls
  <2>2. orders' = ExitFrame(f) /\ result' = "ok" /\ UNCHANGED taken
    BY <1>5, <2>1 DEF CallEndOk, Pop
  <2>3. Segments(orders') = [SubSeq(tree, 1, depth) EXCEPT ![depth] = @ \o tree[depth + 1]]
    BY <1>1, <2>1, <2>2, ExitSegments
  <2> HIDE DEF tree
  <2>4. Len(tree) - 1 = depth /\ depth > 0
    BY <1>2, <2>1
  <2> QED
    BY <1>2, <2>2, <2>3, <2>4
       DEF OrderTree!Next, OrderTree!Return, OrderTree!Open, OrderTree!Callers, tree
<1>6. CASE CallEndRevert
  <2>1. depth \in Nat \ {0} /\ HasFrame(orders) /\ HasFrame(filleds)
    BY <1>1, <1>6, PopFramed DEF CallEndRevert, Running, IInv, DetectorTypeOK, FramesMatchCalls
  <2>2. orders' = RevertFrame(f) /\ result' = "reverted" /\ UNCHANGED taken
    BY <1>6, <2>1 DEF CallEndRevert, Pop
  <2>3. Segments(orders') = SubSeq(tree, 1, depth)
    BY <1>1, <2>1, <2>2, RevertSegments
  <2> HIDE DEF tree
  <2>4. Len(tree) - 1 = depth /\ depth > 0
    BY <1>2, <2>1
  <2> QED
    BY <2>2, <2>3, <2>4
       DEF OrderTree!Next, OrderTree!Revert, OrderTree!Open, OrderTree!Callers, tree
<1>7. CASE TakeAggregates
  <2>1. /\ depth = 0 /\ orders' = EmptyFramed /\ UNCHANGED result
        /\ taken'.orders = f.events
    BY <1>7 DEF TakeAggregates
  <2>2. tree[1] = f.events /\ Len(tree) = 1 /\ Segments(orders') = << <<>> >>
    BY <1>1, <2>1, WholeSegment, EmptySegments
  <2> HIDE DEF tree
  <2> QED
    BY <2>1, <2>2 DEF OrderTree!Next, OrderTree!Take, OrderTree!Open, tree
<1>8. CASE UNCHANGED inspectorVars
  BY <1>8 DEF inspectorVars, OrderTree!treeVars
<1> QED
  BY <1>3, <1>4, <1>5, <1>6, <1>7, <1>8 DEF DetectorNext, OrderTree!Next

LEMMA FilledsFollowTree ==
  IInv /\ [DetectorNext]_inspectorVars => [FilledTree!Next]_(FilledTree!treeVars)
<1> SUFFICES ASSUME IInv, [DetectorNext]_inspectorVars
             PROVE  [FilledTree!Next]_(FilledTree!treeVars)
  OBVIOUS
<1> DEFINE f == filleds
           tree == Segments(f)
<1>1. f \in FramedType /\ WellFramed(f, depth) /\ depth \in Nat /\ ~panicked
  BY DEF IInv, DetectorTypeOK, FramesMatchCalls
<1>2. Len(tree) = depth + 1
  BY <1>1, SegmentTypes
<1>3. ASSUME NEW kind \in {"filled", "order", "other"}, Log(kind)
      PROVE  FilledTree!Emit \/ UNCHANGED FilledTree!treeVars
  <2>1. logs' \in Event /\ UNCHANGED <<result, taken>>
    BY <1>3, DetectorAssumption DEF Log, IInv, DetectorTypeOK, Event
  <2>2. CASE kind = "filled"
    <3>1. filleds' = AddEvent(f, logs')
      BY <1>3, <2>2 DEF Log
    <3>2. Segments(filleds') = [tree EXCEPT ![Len(tree)] = Append(@, logs')]
      BY <1>1, <2>1, <3>1, AddSegments
    <3> QED
      BY <2>1, <3>2 DEF FilledTree!Emit
  <2>3. CASE kind # "filled"
    BY <1>3, <2>1, <2>3 DEF Log, FilledTree!treeVars
  <2> QED
    BY <2>2, <2>3
<1>4. CASE Call
  <2>1. filleds' = EnterFrame(f) /\ UNCHANGED <<result, taken>>
    BY <1>4 DEF Call
  <2>2. Segments(filleds') = Append(tree, <<>>)
    BY <1>1, <2>1, EnterSegments
  <2> QED
    BY <2>1, <2>2 DEF FilledTree!Next, FilledTree!Enter
<1>5. CASE CallEndOk
  <2>1. depth \in Nat \ {0} /\ HasFrame(orders) /\ HasFrame(filleds)
    BY <1>1, <1>5, PopFramed DEF CallEndOk, IInv, DetectorTypeOK, FramesMatchCalls
  <2>2. filleds' = ExitFrame(f) /\ result' = "ok" /\ UNCHANGED taken
    BY <1>5, <2>1 DEF CallEndOk, Pop
  <2>3. Segments(filleds') = [SubSeq(tree, 1, depth) EXCEPT ![depth] = @ \o tree[depth + 1]]
    BY <1>1, <2>1, <2>2, ExitSegments
  <2> HIDE DEF tree
  <2>4. Len(tree) - 1 = depth /\ depth > 0
    BY <1>2, <2>1
  <2> QED
    BY <1>2, <2>2, <2>3, <2>4
       DEF FilledTree!Next, FilledTree!Return, FilledTree!Open, FilledTree!Callers, tree
<1>6. CASE CallEndRevert
  <2>1. depth \in Nat \ {0} /\ HasFrame(orders) /\ HasFrame(filleds)
    BY <1>1, <1>6, PopFramed DEF CallEndRevert, Running, IInv, DetectorTypeOK, FramesMatchCalls
  <2>2. filleds' = RevertFrame(f) /\ result' = "reverted" /\ UNCHANGED taken
    BY <1>6, <2>1 DEF CallEndRevert, Pop
  <2>3. Segments(filleds') = SubSeq(tree, 1, depth)
    BY <1>1, <2>1, <2>2, RevertSegments
  <2> HIDE DEF tree
  <2>4. Len(tree) - 1 = depth /\ depth > 0
    BY <1>2, <2>1
  <2> QED
    BY <2>2, <2>3, <2>4
       DEF FilledTree!Next, FilledTree!Revert, FilledTree!Open, FilledTree!Callers, tree
<1>7. CASE TakeAggregates
  <2>1. /\ depth = 0 /\ filleds' = EmptyFramed /\ UNCHANGED result
        /\ taken'.filleds = f.events
    BY <1>7 DEF TakeAggregates
  <2>2. tree[1] = f.events /\ Len(tree) = 1 /\ Segments(filleds') = << <<>> >>
    BY <1>1, <2>1, WholeSegment, EmptySegments
  <2> HIDE DEF tree
  <2> QED
    BY <2>1, <2>2 DEF FilledTree!Next, FilledTree!Take, FilledTree!Open, tree
<1>8. CASE UNCHANGED inspectorVars
  BY <1>8 DEF inspectorVars, FilledTree!treeVars
<1> QED
  BY <1>3, <1>4, <1>5, <1>6, <1>7, <1>8 DEF DetectorNext, FilledTree!Next

(* What take_aggregates returns, of orders and of fills, are the events of *)
(* the frames that survived, they and all their callers, in the order they *)
(* were emitted: the detector implements the tree of calls on both logs.   *)
THEOREM EventsOfSurvivingFrames == DetectorSpec => EventsFollowCalls
<1>1. DetectorSpec => []IInv
  BY InitFramed, NextFramed, PTL DEF DetectorSpec
<1>2. DetectorInit => OrderTree!Init /\ FilledTree!Init
  BY EmptySegments DEF DetectorInit, OrderTree!Init, FilledTree!Init
<1> QED
  BY <1>1, <1>2, OrdersFollowTree, FilledsFollowTree, PTL
     DEF DetectorSpec, EventsFollowCalls, OrderTree!Spec, FilledTree!Spec

=============================================================================
