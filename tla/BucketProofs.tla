---------------------------- MODULE BucketProofs ----------------------------
(***************************************************************************)
(* Theorems about the token bucket for every number of callers, every rate *)
(* and every capacity: its types, and the bound on the calls of take()     *)
(* that a window of any length lets through.                               *)
(***************************************************************************)
EXTENDS BucketRate, SequenceTheorems, TLAPS

(* The capacity is a whole number of units, worth at least one token.      *)
LEMMA CapFacts == Cap \in Nat /\ Cap >= Period /\ Period \in Nat /\ Period > 0
<1> DEFINE b == IF Burst < 1 THEN 1 ELSE Burst
<1>1. b \in Nat /\ b >= 1
  BY BucketAssumption
<1>2. ASSUME NEW x \in Nat, x >= 1
      PROVE  x * Period \in Nat /\ x * Period >= Period
  BY <1>2, BucketAssumption
<1> QED
  BY <1>1, <1>2, BucketAssumption DEF Cap

(* A full bucket with nobody in line satisfies the type invariant.         *)
LEMMA BucketInit == Init => TypeOK
<1> SUFFICES ASSUME Init PROVE TypeOK
  OBVIOUS
<1>1. level \in 0..Cap /\ age \in 0..Cap
  BY CapFacts DEF Init
<1>2. sleeping \in BOOLEAN /\ ~sleeping
  BY DEF Init
<1>3. queue \in Seq(Callers)
  BY EmptySeq DEF Init
<1> QED
  BY <1>1, <1>2, <1>3 DEF TypeOK

(* One step per action of take().                                          *)
LEMMA BucketStep == TypeOK /\ [Next]_bucketVars => TypeOK'
<1> USE CapFacts
<1> SUFFICES ASSUME TypeOK, [Next]_bucketVars PROVE TypeOK'
  OBVIOUS
<1> USE DEF TypeOK
<1>1. Refilled \in 0..Cap
  BY DEF Refilled, LesserOf
<1>2. ASSUME NEW c \in Callers, Enter(c) PROVE TypeOK'
  <2>1. queue' \in Seq(Callers) /\ queue' # <<>>
    BY <1>2, AppendProperties DEF Enter
  <2> QED
    BY <1>2, <2>1 DEF Enter
<1>3. ASSUME NEW c \in Callers, Leave(c) PROVE queue' \in Seq(Callers)
  BY <1>3, HeadTailProperties DEF Leave
<1>4. ASSUME NEW c \in Callers, TakeNow(c) PROVE TypeOK'
  <2>1. level' \in 0..Cap /\ age' \in 0..Cap
    BY <1>1, <1>4 DEF TakeNow
  <2>2. sleeping' \in BOOLEAN /\ ~sleeping'
    BY <1>4 DEF TakeNow
  <2> QED
    BY <1>3, <1>4, <2>1, <2>2 DEF TakeNow
<1>5. CASE FallAsleep
  BY <1>1, <1>5 DEF FallAsleep
<1>6. ASSUME NEW c \in Callers, WakeUp(c) PROVE TypeOK'
  <2>1. level' \in 0..Cap /\ age' \in 0..Cap
    BY <1>6 DEF WakeUp
  <2>2. sleeping' \in BOOLEAN /\ ~sleeping'
    BY <1>6 DEF WakeUp
  <2> QED
    BY <1>3, <1>6, <2>1, <2>2 DEF WakeUp
<1>7. CASE Tick
  <2>1. LesserOf(Cap, age + 1) \in 0..Cap
    BY DEF LesserOf
  <2> QED
    BY <1>7, <2>1 DEF Tick
<1>8. CASE UNCHANGED bucketVars
  BY <1>8 DEF bucketVars
<1> QED
  BY <1>2, <1>4, <1>5, <1>6, <1>7, <1>8 DEF Next

(* The bucket never overflows nor goes into debt, and its sleeper holds    *)
(* the lock, whatever take() finds (governor.py:45-54).                    *)
THEOREM TypeCorrect == Spec => []TypeOK
BY BucketInit, BucketStep, PTL DEF Spec

----------------------------------------------------------------------------
(* The bucket under observation.                                           *)

(* The types of the bucket and of its observer are inductive.              *)
LEMMA RateTypes == RateTypeOK /\ [RateNext]_rateVars => RateTypeOK'
<1> SUFFICES ASSUME RateTypeOK, [RateNext]_rateVars PROVE RateTypeOK'
  OBVIOUS
<1>1. [Next]_bucketVars
  BY DEF RateNext, rateVars, Grant, Unobserved, TimePasses, StartWatch, Next
<1>2. TypeOK'
  BY <1>1, BucketStep DEF RateTypeOK
<1>3. ASSUME NEW c \in Callers, Grant(c) PROVE RateTypeOK'
  BY <1>2, <1>3 DEF Grant, RateTypeOK
<1>4. CASE Unobserved
  BY <1>2, <1>4 DEF Unobserved, watchVars, RateTypeOK
<1>5. CASE TimePasses
  <2>1. span' \in 0..MaxSpan /\ since' \in Nat
    BY <1>5, SpanAssumption DEF TimePasses, RateTypeOK
  <2>2. watching' \in BOOLEAN
    BY <1>5 DEF TimePasses
  <2> QED
    BY <1>2, <2>1, <2>2 DEF RateTypeOK
<1>6. CASE StartWatch
  BY <1>2, <1>6, SpanAssumption DEF StartWatch, RateTypeOK
<1>7. CASE UNCHANGED rateVars
  BY <1>2, <1>7 DEF rateVars, watchVars, RateTypeOK
<1> QED
  BY <1>3, <1>4, <1>5, <1>6, <1>7 DEF RateNext

(* One more grant is worth one more Period, and none is worth nothing.     *)
LEMMA OneMore ==
  ASSUME NEW n \in Nat
  PROVE  n * Period \in Nat /\ (n + 1) * Period = n * Period + Period
         /\ 0 * Period = 0
BY CapFacts

(* CreditBound is inductive, one step per action.                          *)
LEMMA RateStep == RateTypeOK /\ RateTypeOK' /\ CreditBound /\ [RateNext]_rateVars => CreditBound'
<1> SUFFICES ASSUME RateTypeOK, RateTypeOK', CreditBound, [RateNext]_rateVars, watching'
             PROVE  since' * Period + Credit' <= Cap + Period + 2 * span'
  BY DEF CreditBound
<1> USE CapFacts
<1> DEFINE paid == since * Period
<1>0. (since + 1) * Period = paid + Period
  BY OneMore DEF RateTypeOK
<1>1. paid \in Nat
  BY OneMore DEF RateTypeOK
<1>2. level \in 0..Cap /\ age \in 0..Cap /\ span \in Nat /\ sleeping \in BOOLEAN
      /\ (sleeping => level < Period)
  BY SpanAssumption DEF RateTypeOK, TypeOK
<1>3. Refilled \in 0..Cap /\ Credit \in Nat
  BY <1>2 DEF Refilled, Credit, LesserOf
<1>4. ASSUME NEW c \in Callers, Grant(c)
      PROVE  since' * Period + Credit' <= Cap + Period + 2 * span'
  <2>1. watching /\ since' = since + 1 /\ span' = span
    BY <1>4 DEF Grant
  <2>2. \E room \in Int : Credit = Period + room /\ Credit' = room
    <3>1. CASE TakeNow(c)
      <4>1. ~sleeping /\ ~sleeping' /\ level' = Refilled - Period /\ age' = 0
        BY <3>1 DEF TakeNow
      <4>2. Credit = Refilled /\ Credit' = LesserOf(Cap, Refilled - Period + 0)
        BY <4>1 DEF Credit, Refilled
      <4>3. Refilled - Period \in Int /\ Refilled - Period <= Cap
        BY <1>3
      <4> HIDE DEF Refilled
      <4>4. Credit' = Refilled - Period /\ Credit = Period + (Refilled - Period)
        BY <1>3, <4>2, <4>3 DEF LesserOf
      <4> QED
        BY <4>3, <4>4
    <3>2. CASE WakeUp(c)
      <4>1. sleeping /\ ~sleeping' /\ level' = 0 /\ age' = age /\ level + age >= Period
        BY <3>2 DEF WakeUp
      <4>2. Credit = Period + age /\ Credit' = age /\ age \in Int
        BY <1>2, <4>1 DEF Credit, Refilled, LesserOf
      <4> QED
        BY <4>2
    <3> QED
      BY <1>4, <3>1, <3>2 DEF Grant
  <2>3. PICK room \in Int : Credit = Period + room /\ Credit' = room
    BY <2>2
  <2>4. paid + (Period + room) <= Cap + Period + 2 * span
    BY <2>1, <2>3 DEF CreditBound
  <2>5. since' * Period = paid + Period
    BY <1>0, <2>1
  <2> HIDE DEF paid
  <2>6. paid + Period + room <= Cap + Period + 2 * span
    BY <1>1, <1>2, <2>4
  <2> QED
    BY <2>1, <2>3, <2>5, <2>6
<1>5. CASE Unobserved
  <2>1. Credit' <= Credit /\ Credit' \in Nat
    <3>1. CASE FallAsleep
      BY <1>2, <1>3, <3>1 DEF FallAsleep, Credit, Refilled, LesserOf
    <3>2. ASSUME NEW c \in Callers, Enter(c) PROVE Credit' = Credit
      BY <3>2 DEF Enter, Credit, Refilled
    <3> QED
      BY <1>3, <1>5, <3>1, <3>2 DEF Unobserved
  <2>2. watching /\ since' = since /\ span' = span
    BY <1>5 DEF Unobserved, watchVars
  <2>3. paid + Credit <= Cap + Period + 2 * span /\ since' * Period = paid
    BY <2>2 DEF CreditBound
  <2> HIDE DEF paid
  <2> QED
    BY <1>1, <1>2, <1>3, <2>1, <2>2, <2>3
<1>6. CASE TimePasses
  <2>1. Credit' <= Credit + 2 /\ Credit' \in Nat
    BY <1>2, <1>6 DEF TimePasses, Tick, Credit, Refilled, LesserOf
  <2>2. watching /\ since' = since /\ span' = span + 1
    BY <1>6 DEF TimePasses
  <2>3. paid + Credit <= Cap + Period + 2 * span
    BY <2>2 DEF CreditBound
  <2>4. since' * Period = paid
    BY <2>2
  <2> HIDE DEF paid
  <2>5. PICK room \in Int : Credit' = room
    BY <2>1
  <2>6. PICK past \in Int : Credit = past
    BY <1>3
  <2>7. room <= past + 2 /\ paid + past <= Cap + Period + 2 * span
    BY <2>1, <2>3, <2>5, <2>6
  <2>8. paid + room <= Cap + Period + (2 * span + 2)
    BY <1>1, <1>2, <2>7
  <2>9. 2 * span' = 2 * span + 2
    BY <1>2, <2>2
  <2> QED
    BY <2>4, <2>5, <2>8, <2>9
<1>7. CASE StartWatch
  <2>1. Credit' <= Cap + Period /\ Credit' \in Nat
    BY <1>2, <1>7 DEF StartWatch, bucketVars, Credit, Refilled, LesserOf
  <2>2. since' * Period = 0 /\ 2 * span' = 0
    BY <1>7, OneMore DEF StartWatch
  <2> QED
    BY <2>1, <2>2
<1>8. CASE UNCHANGED rateVars
  BY <1>8 DEF rateVars, bucketVars, watchVars, CreditBound, Credit, Refilled
<1> QED
  BY <1>4, <1>5, <1>6, <1>7, <1>8 DEF RateNext

(* The bound on grants follows from the inductive core, the credit being   *)
(* never negative.                                                         *)
LEMMA CoreBounds == RateTypeOK /\ CreditBound => GrantBound
<1> SUFFICES ASSUME RateTypeOK, CreditBound, watching
             PROVE  since * Period <= Cap + Period + 2 * span
  BY DEF GrantBound
<1>1. Credit \in Nat
  BY CapFacts DEF Credit, Refilled, LesserOf, RateTypeOK, TypeOK
<1>2. since * Period + Credit <= Cap + Period + 2 * span
  BY DEF CreditBound
<1>3. since * Period \in Nat
  BY OneMore DEF RateTypeOK
<1>4. Cap + Period + 2 * span \in Int
  BY CapFacts, SpanAssumption DEF RateTypeOK
<1> DEFINE paid == since * Period
           bound == Cap + Period + 2 * span
<1> HIDE DEF paid, bound
<1>5. paid <= bound
  BY <1>1, <1>2, <1>3, <1>4 DEF paid, bound
<1> QED
  BY <1>5 DEF paid, bound

(* The inductive invariant: the types, and the credit within the bound     *)
(* (governor.py:38-54).                                                    *)
THEOREM RateInvariant == RateSpec => []RateInv
<1>1. RateInit => RateInv
  <2> SUFFICES ASSUME RateInit PROVE RateTypeOK /\ ~watching
    BY DEF RateInv, CreditBound
  <2>1. TypeOK
    BY BucketInit DEF RateInit
  <2>2. span \in 0..MaxSpan /\ since \in Nat
    BY SpanAssumption DEF RateInit
  <2>3. watching \in BOOLEAN /\ ~watching
    BY DEF RateInit
  <2> QED
    BY <2>1, <2>2, <2>3 DEF RateTypeOK
<1>2. RateInv /\ [RateNext]_rateVars => RateInv'
  BY RateTypes, RateStep DEF RateInv
<1> QED
  BY <1>1, <1>2, PTL DEF RateSpec

(* At no rate and no capacity does a window of any length let more than    *)
(* capacity + 1 calls through, plus two per token earned (governor.py:48-  *)
(* 52): the factor two of the sleeping tick is the worst that happens.     *)
THEOREM RateBounded == RateSpec => []GrantBound
<1>1. RateInv => GrantBound
  BY CoreBounds DEF RateInv
<1> QED
  BY <1>1, RateInvariant, PTL

=============================================================================
