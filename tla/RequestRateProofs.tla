------------------------- MODULE RequestRateProofs --------------------------
(***************************************************************************)
(* The bound that RequestRate keeps, for any number of tasks, any count    *)
(* and any period.                                                         *)
(***************************************************************************)
EXTENDS RequestRate, FiniteSetTheorems, TLAPS

N == Cardinality(Tasks)

\* Those whose sleep may end within the period: they fell asleep in an earlier
\* one, and each lets Count more requests pass when it counts from zero.
Early == {task \in Sleepers : wakeAt[task] < nextFlush}

\* What is left to k early sleepers.
Spendable(k) == (N - 1 - k) * Count

\* Within the period the early sleepers that woke have paid for what was spent
\* beyond the count; after its end no task passes twice.
RateInv ==
    /\ RateType
    /\ nextFlush = NoTime => spent = 0 /\ Sleepers = {}
    /\ nextFlush # NoTime =>
         /\ nextFlush <= now + Period
         /\ now < nextFlush =>
              /\ usage <= Count
              /\ Cardinality(Early) <= N - 1
              /\ spent <= usage + Spendable(Cardinality(Early))
         /\ now >= nextFlush => spent <= N * Count + (N - Cardinality(Sleepers))

-----------------------------------------------------------------------------
LEMMA SpendableProps ==
  ASSUME NEW n \in Nat, NEW c \in Nat, NEW k \in Nat, k <= n - 1
  PROVE  /\ (n - 1 - k) * c \in Nat
         /\ c + (n - 1 - k) * c <= n * c
         /\ k > 0 => c + (n - 1 - k) * c = (n - 1 - (k - 1)) * c
         /\ n * c \in Nat
<1>1. (n - 1 - k) * c \in Nat /\ n * c \in Nat
  OBVIOUS
<1>2. c + (n - 1 - k) * c = (n - k) * c
  OBVIOUS
<1>3. (n - k) * c <= n * c
  OBVIOUS
<1>4. n - 1 - (k - 1) = n - k
  OBVIOUS
<1> QED
  BY <1>1, <1>2, <1>3, <1>4

LEMMA Sizes ==
  ASSUME RateType
  PROVE  /\ N \in Nat /\ IsFiniteSet(Sleepers) /\ IsFiniteSet(Early)
         /\ Cardinality(Sleepers) \in Nat /\ Cardinality(Early) \in Nat
         /\ Cardinality(Early) <= Cardinality(Sleepers) /\ Cardinality(Sleepers) <= N
<1>1. Sleepers \subseteq Tasks /\ Early \subseteq Sleepers
  BY DEF Sleepers, Early
<1>2. IsFiniteSet(Tasks)
  BY RateAssumption
<1>3. IsFiniteSet(Sleepers) /\ Cardinality(Sleepers) <= N
  BY <1>1, <1>2, FS_Subset DEF N
<1>4. IsFiniteSet(Early) /\ Cardinality(Early) <= Cardinality(Sleepers)
  BY <1>1, <1>3, FS_Subset
<1> QED
  BY <1>2, <1>3, <1>4, FS_CardinalityType DEF N

\* A task that is awake leaves at most N - 1 asleep.
LEMMA AwakeSizes ==
  ASSUME RateType, NEW task \in Tasks, wakeAt[task] = NoTime
  PROVE  N \in Nat \ {0} /\ Cardinality(Sleepers) <= N - 1
<1>1. Sleepers \subseteq Tasks \ {task}
  BY DEF Sleepers
<1>2. IsFiniteSet(Tasks \ {task}) /\ Cardinality(Tasks \ {task}) = N - 1 /\ N \in Nat
  BY RateAssumption, FS_RemoveElement, FS_CardinalityType DEF N
<1>3. Cardinality(Sleepers) <= N - 1
  BY <1>1, <1>2, FS_Subset
<1>4. N - 1 \in Nat
  BY <1>2, FS_CardinalityType
<1> QED
  BY <1>2, <1>3, <1>4

-----------------------------------------------------------------------------
\* What the lemmas on the steps start from: the task and the time it reads.
Step(task, t) ==
    /\ RateInv
    /\ task \in Tasks /\ t \in Nat /\ now < t /\ now' = t /\ UNCHANGED optimistic

LEMMA RateTypeStep ==
  ASSUME NEW task, NEW t, Step(task, t), Notify(task, t) \/ Wake(task, t)
  PROVE  RateType'
<1>0. Count \in Nat \ {0} /\ Period \in Nat \ {0} /\ NoTime \notin Nat
  BY RateAssumption
<1>1. /\ usage \in Nat /\ spent \in Nat /\ nextFlush \in Nat \cup {NoTime}
      /\ wakeAt \in [Tasks -> Nat \cup {NoTime}] /\ t \in Nat
  BY DEF Step, RateInv, RateType
<1>2. optimistic' \in BOOLEAN /\ now' \in Nat
  BY DEF Step, RateInv, RateType
<1>3. usage' \in Nat /\ spent' \in Nat /\ nextFlush' \in Nat \cup {NoTime}
  BY <1>0, <1>1 DEF Notify, Wake, BeginPeriod, GoOn, Sleep
<1>4. wakeAt' \in [Tasks -> Nat \cup {NoTime}]
  <2>1. CASE Notify(task, t) /\ Sleep(task, t)
    <3>1. nextFlush \in Nat /\ t + Period \in Nat
      BY <1>0, <1>1, <2>1 DEF Sleep
    <3>2. (IF optimistic THEN nextFlush ELSE t + Period) \in Nat
      BY <3>1
    <3> QED
      BY <1>1, <2>1, <3>2 DEF Sleep
  <2>2. CASE Notify(task, t) /\ (BeginPeriod(t) \/ GoOn(t))
    BY <1>1, <2>2 DEF BeginPeriod, GoOn
  <2>3. CASE Wake(task, t)
    BY <1>1, <2>3 DEF Wake
  <2> QED
    BY <2>1, <2>2, <2>3 DEF Notify
<1> QED
  BY <1>2, <1>3, <1>4, Zenon DEF RateType

LEMMA BeginPeriodStep ==
  ASSUME NEW task, NEW t, Step(task, t), Notify(task, t), BeginPeriod(t)
  PROVE  RateInv'
<1>0. Count \in Nat \ {0} /\ Period \in Nat \ {0} /\ NoTime \notin Nat
  BY RateAssumption
<1>1. RateType /\ RateType' /\ task \in Tasks /\ t \in Nat /\ now' = t
  BY RateTypeStep DEF Step, RateInv
<1>2. Sleepers' = Sleepers /\ nextFlush' = t + Period /\ usage' = 1 /\ spent' = 1
  BY DEF BeginPeriod, Sleepers
<1>3. t + Period # NoTime /\ t < t + Period
  BY <1>0, <1>1
<1>4. N \in Nat \ {0} /\ Cardinality(Sleepers) <= N - 1
  BY <1>1, AwakeSizes DEF Notify
<1>5. Cardinality(Early') \in Nat /\ Cardinality(Early') <= N - 1
  <2>1. Early' \subseteq Sleepers
    BY <1>2 DEF Early
  <2>2. IsFiniteSet(Sleepers) /\ Cardinality(Sleepers) \in Nat
    BY <1>1, Sizes
  <2>3. IsFiniteSet(Early') /\ Cardinality(Early') <= Cardinality(Sleepers)
    BY <2>1, <2>2, FS_Subset
  <2>4. Cardinality(Early') \in Nat
    BY <2>3, FS_CardinalityType
  <2> QED
    BY <1>4, <2>2, <2>3, <2>4
<1>6. Spendable(Cardinality(Early')) \in Nat
  BY <1>0, <1>4, <1>5, SpendableProps DEF Spendable
<1>7. 1 <= 1 + Spendable(Cardinality(Early')) /\ 1 <= Count
  BY <1>0, <1>6
<1>8. Spendable(Cardinality(Early))' = Spendable(Cardinality(Early')) /\ N' = N
  BY DEF Spendable, N
<1>9. ~(t >= t + Period) /\ t + Period <= t + Period
  BY <1>0, <1>1
<1> QED
  BY <1>1, <1>2, <1>3, <1>5, <1>7, <1>8, <1>9 DEF RateInv

LEMMA GoOnStep ==
  ASSUME NEW task, NEW t, Step(task, t), Notify(task, t), GoOn(t)
  PROVE  RateInv'
<1>0. Count \in Nat \ {0} /\ Period \in Nat \ {0} /\ NoTime \notin Nat
  BY RateAssumption
<1>1. RateType /\ RateType' /\ task \in Tasks /\ t \in Nat /\ now \in Nat /\ now < t /\ now' = t
  BY RateTypeStep DEF Step, RateInv, RateType
<1>2. /\ Sleepers' = Sleepers /\ Early' = Early /\ N' = N
      /\ Spendable(Cardinality(Early))' = Spendable(Cardinality(Early))
  BY DEF GoOn, Sleepers, Early, N, Spendable
<1>3. /\ nextFlush' = nextFlush /\ nextFlush \in Nat /\ nextFlush # NoTime /\ t <= nextFlush
      /\ usage' = usage + 1 /\ spent' = spent + 1
  BY <1>1 DEF GoOn, RateType
<1>4. /\ usage \in Nat /\ spent \in Nat /\ usage <= Count
      /\ Cardinality(Early) <= N - 1 /\ spent <= usage + Spendable(Cardinality(Early))
      /\ nextFlush <= now + Period
  BY <1>1, <1>3 DEF Step, RateInv, RateType
<1>5. N \in Nat \ {0} /\ Cardinality(Sleepers) <= N - 1
  BY <1>1, AwakeSizes DEF Notify
<1>6. /\ Cardinality(Early) \in Nat /\ Cardinality(Sleepers) \in Nat
      /\ Spendable(Cardinality(Early)) \in Nat /\ N * Count \in Nat
      /\ Count + Spendable(Cardinality(Early)) <= N * Count
  BY <1>0, <1>1, <1>4, <1>5, Sizes, SpendableProps DEF Spendable
<1>7. t < nextFlush =>
        usage + 1 <= Count /\ spent + 1 <= usage + 1 + Spendable(Cardinality(Early))
  BY <1>0, <1>4, <1>6 DEF GoOn
<1>8. spent + 1 <= N * Count + (N - Cardinality(Sleepers))
  BY <1>0, <1>4, <1>5, <1>6
<1>9. nextFlush <= t + Period
  BY <1>0, <1>1, <1>3, <1>4
<1> QED
  BY <1>1, <1>2, <1>3, <1>4, <1>7, <1>8, <1>9 DEF RateInv

LEMMA SleepStep ==
  ASSUME NEW task, NEW t, Step(task, t), Notify(task, t), Sleep(task, t)
  PROVE  RateInv'
<1>0. Count \in Nat \ {0} /\ Period \in Nat \ {0} /\ NoTime \notin Nat
  BY RateAssumption
<1>1. RateType /\ RateType' /\ task \in Tasks /\ t \in Nat /\ now \in Nat /\ now < t /\ now' = t
  BY RateTypeStep DEF Step, RateInv, RateType
<1>2. /\ nextFlush' = nextFlush /\ nextFlush \in Nat /\ nextFlush # NoTime /\ t < nextFlush
      /\ usage' = usage /\ spent' = spent
  BY <1>1 DEF Sleep, RateType
<1>3. /\ usage <= Count /\ nextFlush <= now + Period
      /\ Cardinality(Early) <= N - 1 /\ spent <= usage + Spendable(Cardinality(Early))
  BY <1>1, <1>2 DEF Step, RateInv
<1>4. nextFlush <= t + Period /\ t + Period \in Nat
  BY <1>0, <1>1, <1>2, <1>3
<1>5. wakeAt'[task] \in Nat /\ wakeAt'[task] >= nextFlush
  <2>1. wakeAt'[task] = IF optimistic THEN nextFlush ELSE t + Period
    BY <1>1 DEF Sleep, RateType
  <2>2. CASE optimistic
    BY <1>2, <2>1, <2>2
  <2>3. CASE ~optimistic
    <3>1. wakeAt'[task] = t + Period
      BY <2>1, <2>3
    <3> QED
      BY <1>2, <1>4, <3>1
  <2> QED
    BY <2>2, <2>3
<1>6. \A other \in Tasks \ {task} : wakeAt'[other] = wakeAt[other]
  BY <1>1 DEF Sleep, RateType
<1>7. Early' = Early
  <2>1. task \notin Early
    BY DEF Early, Sleepers, Notify
  <2>2. task \notin Early'
    BY <1>2, <1>5 DEF Early
  <2>3. \A other \in Tasks \ {task} : other \in Early' <=> other \in Early
    BY <1>2, <1>6 DEF Early, Sleepers
  <2>4. Early \subseteq Tasks /\ Early' \subseteq Tasks
    BY DEF Early, Sleepers
  <2> QED
    BY <2>1, <2>2, <2>3, <2>4
<1>8. /\ Spendable(Cardinality(Early))' = Spendable(Cardinality(Early)) /\ N' = N
      /\ Cardinality(Early)' = Cardinality(Early)
  BY <1>7 DEF Spendable, N
<1>9. ~(t >= nextFlush)
  BY <1>1, <1>2
<1> QED
  BY <1>1, <1>2, <1>3, <1>4, <1>8, <1>9 DEF RateInv

LEMMA WakeStep ==
  ASSUME NEW task, NEW t, Step(task, t), Wake(task, t)
  PROVE  RateInv'
<1>0. Count \in Nat \ {0} /\ Period \in Nat \ {0} /\ NoTime \notin Nat
  BY RateAssumption
<1>1. /\ RateType /\ RateType' /\ task \in Tasks /\ RateInv
      /\ t \in Nat /\ now \in Nat /\ now < t /\ now' = t
  BY RateTypeStep DEF Step, RateInv, RateType
<1>2. task \in Sleepers /\ Sleepers' = Sleepers \ {task} /\ N' = N
  BY <1>1 DEF Wake, Sleepers, RateType, N
<1>3. /\ nextFlush' = nextFlush /\ nextFlush \in Nat /\ nextFlush # NoTime
      /\ usage' = 1 /\ spent' = spent + 1 /\ spent \in Nat /\ usage \in Nat
  BY <1>1, <1>2 DEF Wake, RateInv, RateType
<1>4. wakeAt[task] \in Nat /\ wakeAt[task] <= t
  BY <1>1 DEF Wake, RateType
<1>5. /\ N \in Nat /\ Cardinality(Early) \in Nat /\ Cardinality(Sleepers) \in Nat
      /\ Cardinality(Sleepers) <= N
  BY <1>1, Sizes
<1>6. Cardinality(Sleepers') = Cardinality(Sleepers) - 1
  BY <1>1, <1>2, Sizes, FS_RemoveElement
<1>7. nextFlush <= now + Period
  BY <1>1, <1>3 DEF RateInv
<1>8. nextFlush <= t + Period
  BY <1>0, <1>1, <1>3, <1>7
<1>9. now < nextFlush =>
        /\ usage <= Count /\ Cardinality(Early) <= N - 1
        /\ spent <= usage + Spendable(Cardinality(Early))
  BY <1>1, <1>3 DEF RateInv
<1>10. now < nextFlush =>
         /\ Spendable(Cardinality(Early)) \in Nat /\ N * Count \in Nat
         /\ Count + Spendable(Cardinality(Early)) <= N * Count
         /\ Cardinality(Early) > 0 =>
              Count + Spendable(Cardinality(Early)) = Spendable(Cardinality(Early) - 1)
  BY <1>0, <1>5, <1>9, SpendableProps DEF Spendable
<1>11. CASE t < nextFlush
  <2>1. task \in Early /\ Early' = Early \ {task}
    <3>1. \A other \in Tasks \ {task} : wakeAt'[other] = wakeAt[other]
      BY <1>1 DEF Wake, RateType
    <3>2. wakeAt[task] < nextFlush
      BY <1>1, <1>3, <1>4, <1>11
    <3>3. task \in Early
      BY <1>2, <3>2 DEF Early
    <3>4. \A other \in Sleepers \ {task} : other \in Early' <=> other \in Early
      BY <1>2, <1>3, <3>1 DEF Early, Sleepers
    <3>5. Early \subseteq Sleepers /\ Early' \subseteq Sleepers \ {task}
      BY <1>2 DEF Early
    <3> QED
      BY <3>3, <3>4, <3>5
  <2>2. IsFiniteSet(Early)
    BY <1>1, Sizes
  <2>3. Cardinality(Early') = Cardinality(Early) - 1 /\ Cardinality(Early') \in Nat
    BY <2>1, <2>2, FS_RemoveElement, FS_CardinalityType
  <2>4. now < nextFlush
    BY <1>1, <1>3, <1>11
  <2>5. Cardinality(Early) > 0
    BY <1>5, <2>3
  <2>6. Spendable(Cardinality(Early) - 1) = Count + Spendable(Cardinality(Early))
    BY <1>10, <2>4, <2>5
  <2>7. spent + 1 <= 1 + (Count + Spendable(Cardinality(Early)))
    BY <1>0, <1>3, <1>9, <1>10, <2>4
  <2>8. Spendable(Cardinality(Early))' = Count + Spendable(Cardinality(Early))
    BY <2>3, <2>6 DEF Spendable, N
  <2>9. Cardinality(Early) - 1 <= N - 1 /\ 1 <= Count
    BY <1>0, <1>5, <1>9, <2>4
  <2>10. ~(t >= nextFlush)
    BY <1>1, <1>3, <1>11
  <2> QED
    BY <1>1, <1>2, <1>3, <1>8, <2>3, <2>7, <2>8, <2>9, <2>10 DEF RateInv
<1>12. CASE t >= nextFlush
  <2>1. spent <= N * Count + (N - Cardinality(Sleepers))
    <3>1. CASE now < nextFlush
      BY <1>0, <1>3, <1>5, <1>9, <1>10, <3>1
    <3>2. CASE now >= nextFlush
      BY <1>1, <1>3, <3>2 DEF RateInv
    <3> QED
      BY <1>1, <1>3, <3>1, <3>2
  <2>2. N * Count \in Nat
    BY <1>0, <1>5
  <2>3. spent + 1 <= N * Count + (N - (Cardinality(Sleepers) - 1))
    BY <1>3, <1>5, <2>1, <2>2
  <2>4. ~(t < nextFlush)
    BY <1>1, <1>3, <1>12
  <2> QED
    BY <1>1, <1>2, <1>3, <1>6, <1>8, <2>3, <2>4 DEF RateInv
<1> QED
  BY <1>1, <1>3, <1>11, <1>12

-----------------------------------------------------------------------------
\* RateInv is inductive.
LEMMA RateInvariant == RateSpec => []RateInv
<1>1. RateInit => RateInv
  <2> SUFFICES ASSUME RateInit PROVE RateInv
    OBVIOUS
  <2>1. RateType
    BY DEF RateInit, NewRate, RateType
  <2>2. Sleepers = {}
    BY DEF RateInit, NewRate, Sleepers
  <2> QED
    BY <2>1, <2>2 DEF RateInit, NewRate, RateInv
<1>2. RateInv /\ [RateNext]_rateVars => RateInv'
  <2> SUFFICES ASSUME RateInv, [RateNext]_rateVars PROVE RateInv'
    OBVIOUS
  <2>1. CASE UNCHANGED rateVars
    <3>1. UNCHANGED <<RateType, Sleepers, Early, N, nextFlush, now, usage, spent>>
      BY <2>1, Zenon DEF rateVars, RateType, Sleepers, Early, N
    <3>2. Spendable(Cardinality(Early))' = Spendable(Cardinality(Early))
      BY <3>1 DEF Spendable, N
    <3> QED
      BY <3>1, <3>2 DEF RateInv
  <2>2. CASE RateNext
    <3>1. PICK task \in Tasks, t \in Times :
             (Notify(task, t) \/ Wake(task, t)) /\ now' = t /\ UNCHANGED optimistic
      BY <2>2 DEF RateNext
    <3>2. Step(task, t)
      <4>1. now \in Nat /\ MaxTime \in Nat
        BY RateAssumption DEF RateInv, RateType
      <4>2. t \in Nat /\ now < t
        BY <4>1 DEF Times
      <4> QED
        BY <3>1, <4>2 DEF Step
    <3>3. CASE Notify(task, t)
      BY <3>2, <3>3, BeginPeriodStep, GoOnStep, SleepStep DEF Notify
    <3>4. CASE Wake(task, t)
      BY <3>2, <3>4, WakeStep
    <3> QED
      BY <3>1, <3>3, <3>4
  <2> QED
    BY <2>1, <2>2
<1> QED
  BY <1>1, <1>2, PTL DEF RateSpec

\* In a period RequestRate lets at most Count requests and one more through for
\* each task, however many tasks there are and however late they wake.
THEOREM Rate == RateSpec => []RateIsKept
<1>0. Count \in Nat \ {0}
  BY RateAssumption
<1>1. RateInv => RateIsKept
  <2> SUFFICES ASSUME RateInv PROVE RateIsKept
    OBVIOUS
  <2>1. /\ N \in Nat /\ Cardinality(Early) \in Nat /\ Cardinality(Sleepers) \in Nat
        /\ spent \in Nat /\ usage \in Nat /\ now \in Nat
    BY Sizes DEF RateInv, RateType
  <2>2. N * Count \in Nat /\ N * (Count + 1) = N * Count + N
    BY <1>0, <2>1
  <2>3. CASE nextFlush = NoTime
    BY <2>1, <2>2, <2>3 DEF RateInv, RateIsKept, N
  <2>4. CASE nextFlush # NoTime /\ now < nextFlush
    <3>1. /\ usage <= Count /\ Cardinality(Early) <= N - 1
          /\ spent <= usage + Spendable(Cardinality(Early))
      BY <2>4 DEF RateInv
    <3>2. Count + Spendable(Cardinality(Early)) <= N * Count /\ Spendable(Cardinality(Early)) \in Nat
      BY <1>0, <2>1, <3>1, SpendableProps DEF Spendable
    <3>3. spent <= N * Count + N
      BY <1>0, <2>1, <2>2, <3>1, <3>2
    <3> QED
      BY <2>2, <3>3 DEF RateIsKept, N
  <2>5. CASE nextFlush # NoTime /\ now >= nextFlush
    <3>1. spent <= N * Count + (N - Cardinality(Sleepers))
      BY <2>5 DEF RateInv
    <3>2. spent <= N * Count + N
      BY <2>1, <2>2, <3>1
    <3> QED
      BY <2>2, <3>2 DEF RateIsKept, N
  <2>6. nextFlush # NoTime => now < nextFlush \/ now >= nextFlush
    BY <2>1 DEF RateInv, RateType
  <2> QED
    BY <2>3, <2>4, <2>5, <2>6
<1> QED
  BY <1>1, RateInvariant, PTL
=============================================================================
