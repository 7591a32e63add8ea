-------------------------- MODULE TiltSensorProofs --------------------------
(* Proofs about TiltSensor, for any number of ticks and any times.         *)
EXTENDS TiltSensor, TLAPS

-----------------------------------------------------------------------------
(* Arithmetic of the clock.                                                *)

LEMMA Division ==
  ASSUME NEW w \in Int, NEW b \in Nat, b > 0
  PROVE  /\ w = b * (w \div b) + (w % b)
         /\ w \div b \in Int
         /\ w % b \in 0..b - 1
BY SMTT(30)

LEMMA Remainder ==
  ASSUME NEW b \in Nat, b > 0, NEW d \in Int, NEW r \in 0..b - 1
  PROVE  (b * d + r) % b = r
BY SMTT(30)

\* The ring goes round.
LEMMA SuccessorIs ==
  ASSUME NEW i \in Slots
  PROVE  /\ Successor(i) \in Slots
         /\ Successor(i) = IF i = Times - 1 THEN 0 ELSE i + 1
<1> USE TiltAssumption
<1>1. CASE i = Times - 1
  <2>1. i + 1 = Times * 1 + 0
    BY <1>1
  <2>2. (i + 1) % Times = 0
    BY <2>1, Remainder
  <2> QED BY <1>1, <2>2 DEF Successor, Slots
<1>2. CASE i # Times - 1
  <2>1. i + 1 = Times * 0 + (i + 1) /\ i + 1 \in 0..Times - 1
    BY <1>2 DEF Slots
  <2>2. (i + 1) % Times = i + 1
    BY <2>1, Remainder
  <2> QED BY <1>2, <2>1, <2>2 DEF Successor, Slots
<1> QED BY <1>1, <1>2

LEMMA PositiveWord == Word \in Nat /\ Word > 0
<1>1. Times * Interval \in Nat
  BY TiltAssumption
<1> QED BY <1>1, TiltAssumption

\* Differences of times that are less than a round apart are not touched by the
\* wrap of the clock.
LEMMA ElapsedIs ==
  ASSUME NEW s \in Nat, NEW t \in Nat, s <= t, t - s < Word
  PROVE  Minus(t % Word, s % Word) = t - s
<1>0. Word \in Nat /\ Word > 0
  BY PositiveWord
<1> DEFINE d == t \div Word
           e == s \div Word
           y == t % Word
           x == s % Word
<1>1. t = Word * d + y /\ d \in Int /\ y \in 0..Word - 1
  BY <1>0, Division
<1>2. s = Word * e + x /\ e \in Int /\ x \in 0..Word - 1
  BY <1>0, Division
<1> HIDE DEF d, e, x, y
<1>3. Word * (e - d) = Word * e - Word * d /\ Word * e \in Int /\ Word * d \in Int
  BY <1>0, <1>1, <1>2
<1>4. y - x = Word * (e - d) + (t - s)
  BY <1>1, <1>2, <1>3
<1>5. t - s \in 0..Word - 1 /\ e - d \in Int
  BY <1>0, <1>1, <1>2
<1>6. (Word * (e - d) + (t - s)) % Word = t - s
  BY <1>0, <1>5, Remainder
<1> QED BY <1>4, <1>6 DEF Minus, x, y

\* The times that a reset puts into the table lie an interval apart.
LEMMA FreshIs ==
  ASSUME NEW i \in Slots
  PROVE  /\ FreshTable[i] = i * Interval
         /\ i * Interval \in Nat
         /\ i * Interval + Interval <= Times * Interval
<1>1. i \in Nat /\ i + 1 <= Times /\ Times \in Nat /\ Interval \in Nat
  BY TiltAssumption DEF Slots
<1>2. i * Interval \in Nat /\ (i + 1) * Interval = i * Interval + Interval
  BY <1>1
<1>3. (i + 1) * Interval <= Times * Interval
  <2>1. Times = (i + 1) + (Times - (i + 1)) /\ Times - (i + 1) \in Nat
    BY <1>1
  <2>2. Times * Interval = (i + 1) * Interval + (Times - (i + 1)) * Interval
    BY <1>1, <2>1
  <2>3. (Times - (i + 1)) * Interval \in Nat
    BY <1>1, <2>1
  <2> QED BY <1>1, <1>2, <2>2, <2>3
<1>4. i * Interval \in 0..Word - 1 /\ i * Interval = Word * 0 + i * Interval
  <2>1. Times * Interval \in Nat /\ Times * Interval < Word
    BY TiltAssumption
  <2> QED BY <1>1, <1>2, <1>3, <2>1, PositiveWord, TiltAssumption
<1>5. (i * Interval) % Word = i * Interval
  BY <1>4, PositiveWord, Remainder
<1> QED BY <1>2, <1>3, <1>5 DEF FreshTable

\* The history after one more tick.
LEMMA NotedIs ==
  ASSUME ticks \in Seq(Nat), Len(ticks) <= Times, NEW t \in Nat
  PROVE  /\ Noted(t) \in Seq(Nat)
         /\ Len(Noted(t)) = IF Len(ticks) < Times THEN Len(ticks) + 1 ELSE Times
         /\ Len(Noted(t)) \in 1..Times
         /\ Noted(t)[Len(Noted(t))] = t
         /\ \A k \in 1..Len(Noted(t)) - 1 :
              Noted(t)[k] = IF Len(ticks) < Times THEN ticks[k] ELSE ticks[k + 1]
<1> USE TiltAssumption
<1>1. CASE Len(ticks) < Times
  BY <1>1 DEF Noted
<1>2. CASE Len(ticks) = Times
  <2>1. ticks # <<>> /\ Tail(ticks) \in Seq(Nat) /\ Len(Tail(ticks)) = Times - 1
    BY <1>2
  <2>2. \A k \in 1..Times - 1 : Tail(ticks)[k] = ticks[k + 1]
    BY <1>2, <2>1
  <2> QED BY <1>2, <2>1, <2>2 DEF Noted
<1> QED BY <1>1, <1>2

-----------------------------------------------------------------------------
(* The ring holds the ticks of the history, and what a reset left.         *)

\* The place in the table of the tick that is j before the newest.
Back(j) == IF j <= index THEN index - j ELSE index - j + Times

Ring ==
  /\ \A j \in 0..Len(ticks) - 1 : table[Back(j)] = ticks[Len(ticks) - j] % Word
  /\ \A j \in Len(ticks)..Times - 1 : table[Back(j)] = Back(j) * Interval

Past ==
  /\ Start <= now /\ now - Start < Word
  /\ \A i \in DOMAIN ticks : Start <= ticks[i] /\ ticks[i] <= now
  /\ \A i, k \in DOMAIN ticks : i <= k => ticks[i] <= ticks[k]

\* A shake that was not reported is not older than the last look of the loop.
Fresh == Burst => now - ticks[Times] <= gap

IInv == TypeOK /\ Ring /\ Past /\ Fresh

LEMMA BackIs ==
  ASSUME index \in Slots
  PROVE  /\ \A j \in Slots : Back(j) \in Slots
         /\ Back(0) = index
         /\ Back(Times - 1) = Successor(index)
         /\ \A j \in 0..Times - 2 : Back(j) # Successor(index)
BY TiltAssumption, SuccessorIs DEF Back, Slots

\* The newest time in the table and the one that checkEvent() compares it with.
LEMMA NewestAndOldest ==
  ASSUME IInv
  PROVE  /\ table[index] = IF ticks = <<>> THEN index * Interval
                             ELSE ticks[Len(ticks)] % Word
         /\ table[Successor(index)] = IF Len(ticks) = Times THEN ticks[1] % Word
                                        ELSE Successor(index) * Interval
<1>1. /\ index \in Slots /\ ticks \in Seq(Nat) /\ Len(ticks) \in 0..Times
      /\ Times \in Nat /\ Times > 1
  BY TiltAssumption DEF IInv, TypeOK
<1>2. CASE ticks = <<>>
  <2>1. Len(ticks) = 0
    BY <1>2
  <2> QED BY <1>1, <1>2, <2>1, BackIs DEF IInv, Ring
<1>3. CASE ticks # <<>>
  <2>1. Len(ticks) > 0
    BY <1>1, <1>3
  <2>2. table[Back(0)] = ticks[Len(ticks) - 0] % Word
    BY <1>1, <2>1 DEF IInv, Ring
  <2>3. Len(ticks) = Times => table[Back(Times - 1)] = ticks[Len(ticks) - (Times - 1)] % Word
    BY <1>1, <2>1 DEF IInv, Ring
  <2>4. Len(ticks) # Times => table[Back(Times - 1)] = Back(Times - 1) * Interval
    BY <1>1, <2>1 DEF IInv, Ring
  <2> QED BY <1>1, <1>3, <2>1, <2>2, <2>3, <2>4, BackIs
<1> QED BY <1>2, <1>3

\* A shake is reported, and the time since its last tick is the one that the
\* interrupt computes.
LEMMA BurstIsShake ==
  ASSUME IInv, Burst
  PROVE  /\ IsShake
         /\ Minus(millis, table[index]) = now - ticks[Times]
<1>1. /\ ticks \in Seq(Nat) /\ Len(ticks) = Times /\ Times \in Nat /\ Times > 1
      /\ 1 \in DOMAIN ticks /\ Times \in DOMAIN ticks /\ ticks # <<>>
      /\ ticks[1] \in Nat /\ ticks[Times] \in Nat /\ now \in Nat /\ Start \in Nat
  BY TiltAssumption DEF IInv, TypeOK, Burst
<1>2. /\ ticks[1] <= ticks[Times] /\ ticks[Times] <= now /\ Start <= ticks[1]
      /\ now - Start < Word
  BY <1>1 DEF IInv, Past
<1>3. ticks[Times] - ticks[1] < Word /\ now - ticks[Times] < Word
  BY <1>1, <1>2, PositiveWord
<1>4. table[index] = ticks[Times] % Word /\ table[Successor(index)] = ticks[1] % Word
  BY <1>1, NewestAndOldest
<1>5. Minus(table[index], table[Successor(index)]) = ticks[Times] - ticks[1]
  BY <1>1, <1>2, <1>3, <1>4, ElapsedIs
<1>6. Minus(millis, table[index]) = now - ticks[Times]
  BY <1>1, <1>2, <1>3, <1>4, ElapsedIs DEF millis
<1> QED BY <1>5, <1>6 DEF IsShake, Burst

-----------------------------------------------------------------------------
(* The invariant.                                                          *)

LEMMA FreshTypes == FreshTable \in [Slots -> Millis]
<1>1. \A i \in Slots : (i * Interval) % Word \in 0..Word - 1
  <2> TAKE i \in Slots
  <2>1. i * Interval \in Int
    BY FreshIs
  <2> QED BY <2>1, PositiveWord, Division
<1> QED BY <1>1 DEF FreshTable, Millis

LEMMA AtFirst == Init => IInv
<1> SUFFICES ASSUME Init PROVE IInv
  OBVIOUS
<1> USE DEF Init
<1>1. Len(ticks) = 0 /\ ticks \in Seq(Nat) /\ DOMAIN ticks = {}
  OBVIOUS
<1>2. index \in Slots
  BY TiltAssumption DEF Slots
<1>3. TypeOK
  <2>1. now \in Nat /\ gap \in 0..MaxGap
    BY TiltAssumption
  <2>4. shake \in BOOLEAN
    OBVIOUS
  <2>2. ticks \in Seq(Nat) /\ Len(ticks) <= Times
    BY <1>1, TiltAssumption
  <2>3. table \in [Slots -> Millis]
    BY FreshTypes
  <2> QED BY <1>2, <2>1, <2>2, <2>3, <2>4 DEF TypeOK
<1>4. Ring
  <2>1. \A j \in Slots : Back(j) \in Slots
    BY <1>2, BackIs
  <2> QED BY <1>1, <2>1, FreshIs DEF Ring, Slots
<1>5. Past
  BY <1>1, PositiveWord, TiltAssumption DEF Past
<1>6. Fresh
  BY <1>1, TiltAssumption DEF Fresh, Burst
<1> QED BY <1>3, <1>4, <1>5, <1>6 DEF IInv

LEMMA TickKeeps == IInv /\ Tick => IInv'
<1> SUFFICES ASSUME IInv, Tick PROVE IInv'
  OBVIOUS
<1> DEFINE n == Len(ticks)
<1>1. /\ index' = Successor(index)
      /\ table' = [table EXCEPT ![Successor(index)] = millis]
      /\ ticks' = Noted(now) /\ now' = now /\ gap' = gap /\ shake' = shake
  BY DEF Tick
<1>2. /\ now \in Nat /\ table \in [Slots -> Millis] /\ index \in Slots
      /\ gap \in 0..MaxGap /\ shake \in BOOLEAN
      /\ ticks \in Seq(Nat) /\ n \in 0..Times
      /\ Times \in Nat /\ Times > 1 /\ Start \in Nat /\ DOMAIN ticks = 1..n
  BY TiltAssumption DEF IInv, TypeOK
<1>0. ticks \in Seq(Nat) /\ Len(ticks) <= Times /\ now \in Nat
  BY <1>2
<1>3. /\ ticks' \in Seq(Nat)
      /\ Len(ticks') = IF n < Times THEN n + 1 ELSE Times
      /\ Len(ticks') \in 1..Times
      /\ ticks'[Len(ticks')] = now
      /\ \A k \in 1..Len(ticks') - 1 :
           ticks'[k] = IF n < Times THEN ticks[k] ELSE ticks[k + 1]
  BY <1>0, <1>1, NotedIs
<1> HIDE DEF n
<1>4. index' \in Slots /\ millis \in Millis
  BY <1>1, <1>2, SuccessorIs, PositiveWord, Division DEF millis, Millis
<1>5. TypeOK'
  BY <1>1, <1>2, <1>3, <1>4 DEF TypeOK
<1>6. \A j \in 1..Times - 1 : Back(j)' = Back(j - 1) /\ Back(j - 1) # Successor(index)
  <2>1. index' = IF index = Times - 1 THEN 0 ELSE index + 1
    BY <1>1, <1>2, SuccessorIs
  <2>2. \A j \in 1..Times - 1 : Back(j)' = Back(j - 1)
    BY <1>2, <2>1 DEF Back, Slots
  <2> QED BY <1>2, <2>2, BackIs
<1>7. Back(0)' = Successor(index)
  BY <1>1, <1>2, <1>4 DEF Back, Slots
<1>8. /\ \A j \in 0..n - 1 : table[Back(j)] = ticks[n - j] % Word
      /\ \A j \in n..Times - 1 : table[Back(j)] = Back(j) * Interval
  BY DEF IInv, Ring, n
<1>9. table'[Back(0)'] = ticks'[Len(ticks')] % Word
  BY <1>1, <1>2, <1>3, <1>4, <1>7 DEF millis
<1>10. \A j \in 1..Times - 1 : table'[Back(j)'] = table[Back(j - 1)]
  <2>1. \A j \in 1..Times - 1 : Back(j - 1) \in Slots
    BY <1>2, BackIs DEF Slots
  <2> QED BY <1>1, <1>2, <1>6, <2>1
<1>11. Ring'
  <2>1. ASSUME NEW j \in 0..Len(ticks') - 1
        PROVE  table'[Back(j)'] = ticks'[Len(ticks') - j] % Word
    <3>1. CASE j = 0
      BY <1>3, <1>9, <3>1
    <3>2. CASE j # 0
      <4>1. j \in 1..Times - 1 /\ j - 1 \in 0..n - 1
        BY <1>2, <1>3, <3>2
      <4>2. table'[Back(j)'] = ticks[n - (j - 1)] % Word
        BY <1>8, <1>10, <4>1
      <4>3. Len(ticks') - j \in 1..Len(ticks') - 1
        BY <1>3, <3>2
      <4>4. ticks'[Len(ticks') - j] = ticks[n - (j - 1)]
        <5>1. CASE n < Times
          <6>1. Len(ticks') - j = n - (j - 1)
            BY <1>2, <1>3, <5>1
          <6> QED BY <1>3, <4>3, <5>1, <6>1
        <5>2. CASE n = Times
          <6>1. Len(ticks') - j + 1 = n - (j - 1)
            BY <1>2, <1>3, <5>2
          <6> QED BY <1>2, <1>3, <4>3, <5>2, <6>1
        <5> QED BY <1>2, <5>1, <5>2
      <4> QED BY <4>2, <4>4
    <3> QED BY <3>1, <3>2
  <2>2. ASSUME NEW j \in Len(ticks')..Times - 1
        PROVE  table'[Back(j)'] = Back(j)' * Interval
    <3>1. j \in 1..Times - 1 /\ j - 1 \in n..Times - 1
      BY <1>2, <1>3
    <3> QED BY <1>6, <1>8, <1>10, <3>1
  <2> QED BY <2>1, <2>2 DEF Ring
<1>12. Past'
  <2>1. /\ now - Start < Word
        /\ \A i \in 1..n : ticks[i] \in Nat /\ Start <= ticks[i] /\ ticks[i] <= now
        /\ \A i, k \in 1..n : i <= k => ticks[i] <= ticks[k]
    <3>1. DOMAIN ticks = 1..n /\ \A i \in 1..n : ticks[i] \in Nat
      BY <1>2 DEF n
    <3> QED BY <3>1 DEF IInv, Past
  <2> DEFINE before(k) == IF n < Times THEN k ELSE k + 1
  <2>2. \A k \in 1..Len(ticks') - 1 : before(k) \in 1..n /\ ticks'[k] = ticks[before(k)]
    BY <1>2, <1>3
  <2>6. \A i, k \in Nat : i <= k => before(i) <= before(k)
    OBVIOUS
  <2> HIDE DEF before
  <2>3. \A k \in 1..Len(ticks') - 1 :
          ticks'[k] \in Nat /\ Start <= ticks'[k] /\ ticks'[k] <= now
    BY <2>1, <2>2
  <2>4. \A i, k \in 1..Len(ticks') - 1 : i <= k => ticks'[i] <= ticks'[k]
    <3> SUFFICES ASSUME NEW i \in 1..Len(ticks') - 1, NEW k \in 1..Len(ticks') - 1, i <= k
                 PROVE  ticks'[i] <= ticks'[k]
      OBVIOUS
    <3>1. before(i) <= before(k)
      BY <1>3, <2>6
    <3> QED BY <2>1, <2>2, <3>1
  <2>5. Start <= now
    BY DEF IInv, Past
  <2>7. DOMAIN ticks' = 1..Len(ticks')
    BY <1>3
  <2>8. \A i \in DOMAIN ticks' : Start <= ticks'[i] /\ ticks'[i] <= now
    BY <1>2, <1>3, <2>3, <2>5, <2>7
  <2>9. \A i, k \in DOMAIN ticks' : i <= k => ticks'[i] <= ticks'[k]
    <3> SUFFICES ASSUME NEW i \in DOMAIN ticks', NEW k \in DOMAIN ticks', i <= k
                 PROVE  ticks'[i] <= ticks'[k]
      OBVIOUS
    <3>1. CASE k = Len(ticks')
      BY <1>3, <2>8, <3>1
    <3>2. CASE k # Len(ticks')
      BY <1>3, <2>4, <2>7, <3>2
    <3> QED BY <3>1, <3>2
  <2> QED
    BY <1>1, <2>1, <2>5, <2>8, <2>9 DEF Past
<1>13. Fresh'
  BY <1>1, <1>2, <1>3 DEF Fresh, Burst
<1> QED BY <1>5, <1>11, <1>12, <1>13 DEF IInv

LEMMA CheckKeeps == IInv /\ CheckEvent => IInv'
<1> SUFFICES ASSUME IInv, CheckEvent PROVE IInv'
  OBVIOUS
<1>1. /\ now \in Nat /\ table \in [Slots -> Millis] /\ index \in Slots
      /\ ticks \in Seq(Nat) /\ Len(ticks) <= Times
      /\ Times \in Nat /\ Times > 1 /\ MaxGap \in Nat
  BY TiltAssumption DEF IInv, TypeOK
<1>2. gap' = 0 /\ shake' = IsShake /\ now' = now /\ index' = index
  BY DEF CheckEvent
<1>3. shake' \in BOOLEAN
  BY <1>2 DEF IsShake
<1>4. CASE IsShake
  <2>1. table' = FreshTable /\ ticks' = <<>>
    BY <1>4 DEF CheckEvent
  <2>2. Len(ticks') = 0 /\ ticks' \in Seq(Nat) /\ DOMAIN ticks' = {}
    BY <2>1
  <2>3. TypeOK'
    BY <1>1, <1>2, <1>3, <2>1, <2>2, FreshTypes DEF TypeOK
  <2>4. \A j \in Slots : Back(j)' \in Slots /\ Back(j)' = Back(j)
    BY <1>1, <1>2, BackIs DEF Back
  <2>5. Ring'
    <3>1. \A j \in 0..Times - 1 : FreshTable[Back(j)'] = Back(j)' * Interval
      BY <2>4, FreshIs DEF Slots
    <3> QED BY <2>1, <2>2, <3>1 DEF Ring
  <2>6. Past'
    BY <1>2, <2>2 DEF IInv, Past
  <2>7. Fresh'
    BY <1>1, <2>2 DEF Fresh, Burst
  <2> QED BY <2>3, <2>5, <2>6, <2>7 DEF IInv
<1>5. CASE ~IsShake
  <2>1. table' = table /\ ticks' = ticks
    BY <1>5 DEF CheckEvent
  <2>2. ~Burst
    BY <1>5, BurstIsShake
  <2>3. TypeOK'
    BY <1>1, <1>2, <1>3, <2>1 DEF TypeOK
  <2>4. Ring' /\ Past'
    BY <1>2, <2>1 DEF IInv, Ring, Past, Back
  <2>5. Fresh'
    BY <2>1, <2>2 DEF Fresh, Burst
  <2> QED BY <2>3, <2>4, <2>5 DEF IInv
<1> QED BY <1>4, <1>5

LEMMA AdvanceKeeps == IInv /\ Advance => IInv'
<1> SUFFICES ASSUME IInv, Advance PROVE IInv'
  OBVIOUS
<1>1. /\ now \in Nat /\ gap \in 0..MaxGap /\ MaxGap \in Nat /\ MaxTime \in Nat
      /\ ticks \in Seq(Nat) /\ Start \in Nat /\ Times \in Nat /\ Times > 1
      /\ DOMAIN ticks = 1..Len(ticks) /\ Word \in Nat
  BY TiltAssumption DEF IInv, TypeOK
<1>2. /\ now' = now + 1 /\ gap' = gap + 1 /\ gap < MaxGap /\ now < MaxTime
      /\ table' = table /\ index' = index /\ shake' = shake /\ ticks' = ticks
  BY DEF Advance
<1>3. TypeOK'
  BY <1>1, <1>2 DEF IInv, TypeOK
<1>4. Ring'
  BY <1>2 DEF IInv, Ring, Back
<1>5. Past'
  <2>1. now' - Start < Word
    BY <1>1, <1>2, ShortAssumption
  <2>2. \A i \in 1..Len(ticks) : ticks[i] \in Nat
    BY <1>1
  <2> QED BY <1>1, <1>2, <2>1, <2>2 DEF IInv, Past
<1>6. Fresh'
  <2>1. Burst => Times \in 1..Len(ticks) /\ ticks[Times] \in Nat
    BY <1>1 DEF Burst
  <2> QED BY <1>1, <1>2, <2>1 DEF IInv, Fresh, Burst
<1> QED BY <1>3, <1>4, <1>5, <1>6 DEF IInv

LEMMA Inductive == IInv /\ [Next]_vars => IInv'
<1> SUFFICES ASSUME IInv, [Next]_vars PROVE IInv'
  OBVIOUS
<1>1. CASE Tick
  BY <1>1, TickKeeps
<1>2. CASE CheckEvent
  BY <1>2, CheckKeeps
<1>3. CASE Advance
  BY <1>3, AdvanceKeeps
<1>4. CASE UNCHANGED vars
  BY <1>4 DEF vars, IInv, TypeOK, Ring, Past, Fresh, Burst, Back
<1> QED BY <1>1, <1>2, <1>3, <1>4 DEF Next

\* The invariant that the other theorems use.
THEOREM TiltInvariance == Spec => []IInv
<1> QED BY AtFirst, Inductive, PTL DEF Spec

\* The interrupt writes only inside its table (tiltSensor.cpp:34-40), for any
\* length of it.
THEOREM TiltTypes == Spec => []TypeOK
<1>1. IInv => TypeOK
  BY DEF IInv
<1> QED BY <1>1, TiltInvariance, PTL

-----------------------------------------------------------------------------
(* What the loop hears of.                                                 *)

\* Two times of a table that was reset are never taken for a shake.
LEMMA FreshIsQuiet ==
  ASSUME NEW i \in Slots
  PROVE  Minus(i * Interval, Successor(i) * Interval) >= Interval
<1>1. /\ Times \in Nat /\ Times > 1 /\ Interval \in Nat /\ Interval > 0
      /\ i \in Nat /\ i <= Times - 1
  BY TiltAssumption DEF Slots
<1>2. /\ i * Interval \in Nat /\ i * Interval + Interval <= Times * Interval
      /\ Times * Interval \in Nat /\ Times * Interval < Word
  BY <1>1, FreshIs, TiltAssumption
<1>3. Times * Interval >= Interval + Interval
  <2>1. 1 \in Slots
    BY <1>1 DEF Slots
  <2>2. 1 * Interval + Interval <= Times * Interval
    BY <2>1, FreshIs
  <2> QED BY <1>1, <2>2
<1>4. CASE i = Times - 1
  <2>1. Successor(i) * Interval = 0
    BY <1>1, <1>4, SuccessorIs
  <2>2. i * Interval = Times * Interval - Interval
    BY <1>1, <1>4
  <2>3. i * Interval >= Interval /\ i * Interval < Word
    BY <1>1, <1>2, <1>3, <2>2, PositiveWord
  <2>4. i * Interval - 0 = Word * 0 + i * Interval /\ i * Interval \in 0..Word - 1
    BY <1>2, <2>3, PositiveWord
  <2>5. (i * Interval - 0) % Word = i * Interval
    BY <2>4, PositiveWord, Remainder
  <2> QED BY <2>1, <2>3, <2>5 DEF Minus
<1>5. CASE i # Times - 1
  <2>1. Successor(i) = i + 1
    BY <1>5, SuccessorIs
  <2>2. Successor(i) * Interval = i * Interval + Interval
    BY <1>1, <2>1
  <2>3. i * Interval - Successor(i) * Interval = -Interval
    BY <1>1, <1>2, <2>2
  <2>4. -Interval = Word * (-1) + (Word - Interval) /\ Word - Interval \in 0..Word - 1
    BY <1>1, <1>2, <1>3, PositiveWord
  <2>5. (-Interval) % Word = Word - Interval
    BY <2>4, PositiveWord, Remainder
  <2>6. Word - Interval >= Interval
    BY <1>1, <1>2, <1>3, PositiveWord
  <2> QED BY <2>3, <2>5, <2>6 DEF Minus
<1> QED BY <1>4, <1>5

\* A report is about a real shake, unless one tick came too soon after the start.
LEMMA ReportIsBurst ==
  ASSUME IInv, Report, ticks # <<>> => Settled(ticks[Len(ticks)])
  PROVE  Burst
<1>1. /\ index \in Slots /\ ticks \in Seq(Nat) /\ Len(ticks) \in 0..Times
      /\ now \in Nat /\ Times \in Nat /\ Times > 1 /\ Interval \in Nat /\ Interval > 0
  BY TiltAssumption DEF IInv, TypeOK
<1>2. Minus(table[index], table[Successor(index)]) < Interval
  BY DEF Report, CheckEvent, IsShake
<1> DEFINE n == Len(ticks)
<1>3. CASE n = 0
  <2>1. ticks = <<>>
    BY <1>1, <1>3
  <2>2. table[index] = index * Interval
    BY <2>1, NewestAndOldest
  <2>3. table[Successor(index)] = Successor(index) * Interval
    BY <1>1, <1>3, NewestAndOldest
  <2>4. Minus(index * Interval, Successor(index) * Interval) \in Int
    <3>1. index * Interval \in Nat /\ Successor(index) * Interval \in Nat
      BY <1>1, SuccessorIs, FreshIs
    <3> QED BY <3>1, PositiveWord, Division DEF Minus
  <2> QED BY <1>1, <1>2, <2>2, <2>3, <2>4, FreshIsQuiet
<1>4. CASE n # 0 /\ n # Times
  <2> DEFINE x == ticks[n] % Word
             y == Successor(index) * Interval
  <2>1. ticks # <<>> /\ ticks[n] \in Nat
    BY <1>1, <1>4
  <2>2. x >= Times * Interval /\ x \in 0..Word - 1
    BY <2>1, PositiveWord, Division DEF Settled
  <2>3. y \in Nat /\ y + Interval <= Times * Interval /\ Times * Interval \in Nat
    BY <1>1, SuccessorIs, FreshIs
  <2>4. table[index] = x /\ table[Successor(index)] = y
    BY <1>1, <1>4, <2>1, NewestAndOldest
  <2> HIDE DEF x, y
  <2>5. x - y = Word * 0 + (x - y) /\ x - y \in 0..Word - 1 /\ x - y >= Interval
    BY <1>1, <2>2, <2>3, PositiveWord
  <2>6. Minus(x, y) = x - y
    BY <2>5, PositiveWord, Remainder DEF Minus
  <2> QED BY <1>1, <1>2, <2>2, <2>3, <2>4, <2>5, <2>6
<1>5. CASE n = Times
  <2>1. /\ ticks # <<>> /\ 1 \in DOMAIN ticks /\ Times \in DOMAIN ticks
        /\ ticks[1] \in Nat /\ ticks[Times] \in Nat /\ Start \in Nat
    BY <1>1, <1>5, TiltAssumption
  <2>2. /\ ticks[1] <= ticks[Times] /\ ticks[Times] <= now /\ Start <= ticks[1]
        /\ now - Start < Word
    BY <1>1, <2>1 DEF IInv, Past
  <2>3. ticks[Times] - ticks[1] < Word
    BY <1>1, <2>1, <2>2, PositiveWord
  <2>4. table[index] = ticks[Times] % Word /\ table[Successor(index)] = ticks[1] % Word
    BY <1>5, <2>1, NewestAndOldest
  <2>5. Minus(table[index], table[Successor(index)]) = ticks[Times] - ticks[1]
    BY <2>1, <2>2, <2>3, <2>4, ElapsedIs
  <2> QED BY <1>2, <1>5, <2>5 DEF Burst
<1> QED BY <1>1, <1>3, <1>4, <1>5

\* checkEvent() (tiltSensor.cpp:47-73) reports only shakes, for any number of
\* ticks, any interval and any place of the wrap of millis().
THEOREM ReportsAreReal == Spec => ShakesAreReal
<1>1. IInv /\ [Next]_vars =>
        [Report /\ (ticks # <<>> => Settled(ticks[Len(ticks)])) => Burst]_vars
  BY ReportIsBurst
<1> QED BY <1>1, TiltInvariance, PTL DEF Spec, ShakesAreReal

\* The tick that follows a shake comes after the loop looked, or the loop has not
\* looked since before the shake was complete.
LEMMA BurstIsSeen ==
  ASSUME IInv, [Next]_vars, Burst
  PROVE  \/ Report
         \/ now' # now /\ UNCHANGED <<table, ticks>>
         \/ Tick /\ gap > MinTick
         \/ UNCHANGED vars
<1>1. IsShake /\ Minus(millis, table[index]) = now - ticks[Times]
  BY BurstIsShake
<1>2. /\ now \in Nat /\ gap \in 0..MaxGap /\ MaxGap \in Nat /\ MinTick \in Nat
      /\ ticks[Times] \in Nat
  <2>1. Times \in 1..Len(ticks) /\ ticks \in Seq(Nat)
    BY TiltAssumption DEF IInv, TypeOK, Burst
  <2> QED BY <2>1, TiltAssumption DEF IInv, TypeOK
<1>3. now - ticks[Times] <= gap
  BY <1>2 DEF IInv, Fresh
<1>4. CASE Tick
  BY <1>1, <1>2, <1>3, <1>4 DEF Tick
<1>5. CASE CheckEvent
  BY <1>1, <1>5 DEF CheckEvent, Report
<1>6. CASE Advance
  BY <1>2, <1>6 DEF Advance
<1> QED BY <1>4, <1>5, <1>6 DEF Next

\* And it reports every one that was complete when it was not blocked for longer
\* than MinTick, however long and however often it is blocked.
THEOREM ReportsAreComplete == Spec => ShakesAreSeen
<1>1. IInv /\ [Next]_vars =>
        [Burst => \/ Report
                  \/ now' # now /\ UNCHANGED <<table, ticks>>
                  \/ Tick /\ gap > MinTick]_vars
  BY BurstIsSeen
<1> QED BY <1>1, TiltInvariance, PTL DEF Spec, ShakesAreSeen

=============================================================================
