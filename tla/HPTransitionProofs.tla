-------------------------- MODULE HPTransitionProofs --------------------------
(***************************************************************************)
(* The lock scan and the HP transitions, for lists of records of every     *)
(* length and for every value of the constants.                            *)
(***************************************************************************)
EXTENDS HPTransition, DataLemmas, TLAPS

(* The states of the scan.                                                 *)
Start == [lock |-> NoLock, stopped |-> FALSE]

At(records, kind, s, i) ==
  IF i = Len(records) + 1 THEN Start ELSE Scanned(records[i], i, kind, s[i + 1])

IsScan(records, kind, s) ==
  s = [i \in 1 .. Len(records) + 1 |-> At(records, kind, s, i)]

(* The recursion of LockScan defines a function.                           *)
LEMMA ScanExists ==
  ASSUME NEW records \in Seq(Lock), NEW kind
  PROVE  \E s : IsScan(records, kind, s)
<1> DEFINE N == Len(records)
           From(k, s) == s = [i \in N + 1 - k .. N + 1 |-> At(records, kind, s, i)]
           T == {k \in Nat : k <= N => \E s : From(k, s)}
<1>1. N \in Nat
  OBVIOUS
<1>2. 0 \in T
  <2> DEFINE s == [i \in N + 1 .. N + 1 |-> Start]
  <2>1. s = [i \in N + 1 - 0 .. N + 1 |-> At(records, kind, s, i)]
    BY <1>1 DEF At
  <2> QED
    BY <2>1
<1>3. ASSUME NEW k \in Nat, k \in T
      PROVE  k + 1 \in T
  <2>1. SUFFICES ASSUME k + 1 <= N
                 PROVE  \E s : From(k + 1, s)
    OBVIOUS
  <2>2. PICK g : From(k, g)
    BY <1>1, <1>3, <2>1
  <2> DEFINE j == N - k
             s == [i \in j .. N + 1 |-> At(records, kind, g, i)]
  <2>3. j \in Nat /\ j = N + 1 - (k + 1) /\ j + 1 = N + 1 - k /\ j <= N
    BY <1>1, <2>1
  <2>4. \A i \in j + 1 .. N + 1 : s[i] = g[i]
    BY <1>1, <2>2, <2>3
  <2>5. ASSUME NEW i \in j .. N + 1
        PROVE  At(records, kind, s, i) = At(records, kind, g, i)
    <3>1. i # N + 1 => i + 1 \in j + 1 .. N + 1
      BY <1>1, <2>3
    <3>2. i # N + 1 => s[i + 1] = g[i + 1]
      BY <2>4, <3>1
    <3> QED
      BY <3>2 DEF At
  <2>6. From(k + 1, s)
    BY <2>3, <2>5
  <2> QED
    BY <2>6
<1>4. N \in T
  <2> HIDE DEF T
  <2> QED
    BY <1>1, <1>2, <1>3, Induction
<1>5. PICK s : From(N, s)
  BY <1>1, <1>4
<1>6. N + 1 - N = 1
  BY <1>1
<1> QED
  BY <1>5, <1>6 DEF IsScan

(* What LockScan returns is the first state of that function.              *)
LEMMA ScanIsRecursive ==
  ASSUME NEW records \in Seq(Lock), NEW kind
  PROVE  \E s : IsScan(records, kind, s) /\ LockScan(records, kind) = s[1].lock
<1> DEFINE scan == CHOOSE s : IsScan(records, kind, s)
<1>1. IsScan(records, kind, scan)
  BY ScanExists
<1>2. LockScan(records, kind) = scan[1].lock
  BY DEF LockScan, IsScan, At, Start
<1> QED
  BY <1>1, <1>2

(* What a state knows of the records from i on: the value of the newest    *)
(* that qualifies, the oldest of the run that agrees with it, and whether  *)
(* another value ended the run.                                            *)
QualifyingFrom(records, kind, i) == {j \in i .. Len(records) : records[j].kind >= kind}

Run(records, Q, b, stopped) ==
  /\ \A j \in Q : j >= b => records[j].value = records[b].value
  /\ ~stopped => \A j \in Q : j >= b
  /\ stopped => \E j \in Q : /\ j < b /\ records[j].value # records[b].value
                             /\ \A l \in Q : l < b => l <= j

Hit(records, b, stopped) ==
  [lock |-> [hit |-> TRUE, value |-> records[b].value, best |-> b], stopped |-> stopped]

Knows(records, Q, s) ==
  IF Q = {} THEN s = Start
  ELSE \E b \in Q, stopped \in BOOLEAN :
         s = Hit(records, b, stopped) /\ Run(records, Q, b, stopped)

LEMMA QualifierKnows ==
  ASSUME NEW records, NEW kind \in Int, NEW i \in Int, NEW s, NEW Q,
         \A j \in Q : j \in Int /\ j > i,
         records[i].kind \in Int, records[i].kind >= kind,
         Knows(records, Q, s)
  PROVE  Knows(records, Q \cup {i}, Scanned(records[i], i, kind, s))
<1> DEFINE P == Q \cup {i}
           t == Scanned(records[i], i, kind, s)
<1>1. ~(records[i].kind < kind)
  OBVIOUS
<1>2. CASE Q = {}
  <2>1. s = Start
    BY <1>2 DEF Knows
  <2>2. t = Hit(records, i, FALSE)
    BY <1>1, <2>1 DEF Scanned, Start, NoLock, Hit
  <2>3. Run(records, P, i, FALSE)
    BY <1>2 DEF Run
  <2> QED
    BY <2>2, <2>3 DEF Knows
<1>3. CASE Q # {}
  <2>1. PICK b \in Q, stopped \in BOOLEAN :
          s = Hit(records, b, stopped) /\ Run(records, Q, b, stopped)
    BY <1>3 DEF Knows
  <2>2. b \in Int /\ b > i /\ b \in P /\ i \in P /\ P # {}
    OBVIOUS
  <2>3. s.stopped = stopped /\ s.lock.hit = TRUE /\ s.lock.value = records[b].value
    BY <2>1 DEF Hit
  <2>4. CASE stopped
    <3>1. t = Hit(records, b, TRUE)
      BY <2>1, <2>3, <2>4 DEF Scanned
    <3>2. Run(records, P, b, TRUE)
      BY <2>1, <2>2, <2>4 DEF Run
    <3> QED
      BY <2>2, <3>1, <3>2 DEF Knows
  <2>5. CASE ~stopped /\ records[i].value # records[b].value
    <3>1. t = [s EXCEPT !.stopped = TRUE]
      BY <1>1, <2>3, <2>5 DEF Scanned
    <3>2. t = Hit(records, b, TRUE)
      BY <2>1, <3>1 DEF Hit
    <3>3. Run(records, P, b, TRUE)
      BY <2>1, <2>2, <2>5 DEF Run
    <3> QED
      BY <2>2, <3>2, <3>3 DEF Knows
  <2>6. CASE ~stopped /\ records[i].value = records[b].value
    <3>1. t = Hit(records, i, FALSE)
      BY <1>1, <2>3, <2>6 DEF Scanned, Hit
    <3>2. \A j \in Q : j >= b
      BY <2>1, <2>6 DEF Run
    <3>3. \A j \in P : j >= i /\ records[j].value = records[i].value
      BY <2>1, <2>6, <3>2 DEF Run
    <3>4. Run(records, P, i, FALSE)
      BY <3>3 DEF Run
    <3> QED
      BY <2>2, <3>1, <3>4 DEF Knows
  <2> QED
    BY <2>4, <2>5, <2>6
<1> QED
  BY <1>2, <1>3

LEMMA StepKnows ==
  ASSUME NEW records \in Seq(Lock), NEW kind \in Int, NEW i \in 1 .. Len(records), NEW s,
         Knows(records, QualifyingFrom(records, kind, i + 1), s)
  PROVE  Knows(records, QualifyingFrom(records, kind, i), Scanned(records[i], i, kind, s))
<1>1. Len(records) \in Nat /\ i \in Int /\ records[i] \in Lock
  OBVIOUS
<1>2. records[i].kind \in Int
  BY <1>1, LockAssumption DEF Lock
<1>3. \A j \in QualifyingFrom(records, kind, i + 1) : j \in Int /\ j > i
  BY <1>1 DEF QualifyingFrom
<1>4. CASE records[i].kind < kind
  <2>1. QualifyingFrom(records, kind, i) = QualifyingFrom(records, kind, i + 1)
    BY <1>1, <1>2, <1>4 DEF QualifyingFrom
  <2>2. Scanned(records[i], i, kind, s) = s
    BY <1>4 DEF Scanned
  <2> QED
    BY <2>1, <2>2
<1>5. CASE records[i].kind >= kind
  <2>1. QualifyingFrom(records, kind, i) = QualifyingFrom(records, kind, i + 1) \cup {i}
    BY <1>1, <1>2, <1>5 DEF QualifyingFrom
  <2> QED
    BY <1>1, <1>2, <1>3, <1>5, <2>1, QualifierKnows
<1> QED
  BY <1>2, <1>4, <1>5

LEMMA ScanKnows ==
  ASSUME NEW records \in Seq(Lock), NEW kind \in Int, NEW s, IsScan(records, kind, s)
  PROVE  Knows(records, Qualifying(records, kind), s[1])
<1> DEFINE N == Len(records)
           Right(i) == Knows(records, QualifyingFrom(records, kind, i), s[i])
           T == {k \in Nat : k <= N => Right(N + 1 - k)}
<1>1. N \in Nat /\ DOMAIN records = 1 .. N
  OBVIOUS
<1>2. \A i \in 1 .. N + 1 : s[i] = At(records, kind, s, i)
  BY DEF IsScan
<1>3. 0 \in T
  <2>1. s[N + 1] = Start
    BY <1>1, <1>2 DEF At
  <2>2. QualifyingFrom(records, kind, N + 1) = {}
    BY <1>1 DEF QualifyingFrom
  <2>3. Right(N + 1)
    BY <2>1, <2>2 DEF Knows
  <2> QED
    BY <1>1, <2>3
<1>4. ASSUME NEW k \in Nat, k \in T
      PROVE  k + 1 \in T
  <2>1. SUFFICES ASSUME k + 1 <= N
                 PROVE  Right(N + 1 - (k + 1))
    OBVIOUS
  <2> DEFINE i == N - k
  <2>2. i \in 1 .. N /\ i = N + 1 - (k + 1) /\ i + 1 = N + 1 - k
    <3> HIDE DEF N
    <3> QED  BY <1>1, <2>1
  <2>3. Knows(records, QualifyingFrom(records, kind, i + 1), s[i + 1])
    BY <1>1, <1>4, <2>1, <2>2
  <2>4. s[i] = Scanned(records[i], i, kind, s[i + 1])
    BY <1>1, <1>2, <2>2 DEF At
  <2> HIDE DEF i
  <2>5. Right(i)
    BY <2>2, <2>3, <2>4, StepKnows
  <2> QED
    BY <2>2, <2>5
<1>5. N \in T
  <2> HIDE DEF T
  <2> QED
    BY <1>1, <1>3, <1>4, Induction
<1>6. Right(N + 1 - N)
  BY <1>1, <1>5
<1>7. N + 1 - N = 1
  BY <1>1
<1>8. QualifyingFrom(records, kind, 1) = Qualifying(records, kind)
  BY <1>1 DEF QualifyingFrom, Qualifying
<1> QED
  BY <1>6, <1>7, <1>8

LEMMA QualifyingHasNewest ==
  ASSUME NEW records \in Seq(Lock), NEW kind, Qualifying(records, kind) # {}
  PROVE  /\ Max(Qualifying(records, kind)) \in Qualifying(records, kind)
         /\ \A j \in Qualifying(records, kind) : Max(Qualifying(records, kind)) >= j
<1> DEFINE Q == Qualifying(records, kind)
           N == Len(records)
           T == {k \in Nat : \E j \in Q : k = N - j}
<1>1. N \in Nat /\ \A j \in Q : j \in Int /\ N - j \in Nat
  BY DEF Qualifying
<1> HIDE DEF Q, N
<1>2. T # {} /\ T \subseteq Nat
  BY <1>1 DEF Q
<1>3. PICK k \in T : \A m \in T : k <= m
  BY <1>2, LeastNatural
<1>4. PICK n \in Q : k = N - n
  BY <1>3
<1>5. ASSUME NEW j \in Q PROVE n >= j
  <2>1. N - j \in T
    BY <1>1
  <2>2. N - n <= N - j
    BY <1>3, <1>4, <2>1
  <2> QED
    BY <1>1, <2>2
<1>6. \E x \in Q : \A y \in Q : x >= y
  BY <1>5
<1> QED
  BY <1>6 DEF Max, Q

LEMMA LeastIsMin ==
  ASSUME NEW S, \A x \in S : x \in Int, NEW b \in S, \A y \in S : b <= y
  PROVE  Min(S) = b
<1>1. \E x \in S : \A y \in S : x <= y
  OBVIOUS
<1>2. Min(S) \in S /\ \A y \in S : Min(S) <= y
  BY <1>1 DEF Min
<1> QED
  BY <1>2

(* The loop of TryGetLockHP finds what it is for on a list of any length.  *)
LEMMA ScanIsRight ==
  ASSUME NEW records \in Seq(Lock), NEW kind \in Int
  PROVE  LockScan(records, kind) = LockFor(records, kind)
<1> DEFINE Q == Qualifying(records, kind)
           newest == Max(Q)
           agreeing == {i \in Q : \A j \in Q : j >= i => records[j].value = records[newest].value}
<1>1. PICK s : IsScan(records, kind, s) /\ LockScan(records, kind) = s[1].lock
  BY ScanIsRecursive
<1>2. Knows(records, Q, s[1])
  BY <1>1, ScanKnows
<1>3. \A j \in Q : j \in Int
  BY DEF Qualifying
<1>4. CASE Q = {}
  BY <1>1, <1>2, <1>4 DEF Knows, Start, LockFor
<1>5. CASE Q # {}
  <2>1. PICK b \in Q, stopped \in BOOLEAN :
          s[1] = Hit(records, b, stopped) /\ Run(records, Q, b, stopped)
    BY <1>2, <1>5 DEF Knows
  <2>2. newest \in Q /\ \A j \in Q : newest >= j
    BY <1>5, QualifyingHasNewest
  <2>3. records[b].value = records[newest].value
    BY <2>1, <2>2 DEF Run
  <2> HIDE DEF Q, newest
  <2>4. b \in agreeing
    BY <2>1, <2>3 DEF Run
  <2>5. ASSUME NEW i \in agreeing
        PROVE  b <= i
    <3>1. CASE ~stopped
      BY <2>1, <3>1, <1>3 DEF Run
    <3>2. CASE stopped
      <4>1. PICK j \in Q : /\ j < b /\ records[j].value # records[b].value
                           /\ \A l \in Q : l < b => l <= j
        BY <2>1, <3>2 DEF Run
      <4>2. ~(j >= i)
        BY <2>3, <4>1
      <4> QED
        BY <1>3, <4>1, <4>2
    <3> QED
      BY <3>1, <3>2
  <2>6. Min(agreeing) = b
    BY <1>3, <2>4, <2>5, LeastIsMin
  <2>7. s[1].lock = [hit |-> TRUE, value |-> records[newest].value, best |-> b]
    BY <2>1, <2>3 DEF Hit
  <2> QED
    BY <1>1, <1>5, <2>6, <2>7 DEF LockFor, Q, newest
<1> QED
  BY <1>4, <1>5

-----------------------------------------------------------------------------
(* The value of the lock in force is a ratio.                              *)
LEMMA LockValueIsRatio ==
  ASSUME NEW records \in Seq(Lock), NEW kind \in Int, LockFor(records, kind).hit
  PROVE  LockFor(records, kind).value \in 0 .. One
<1> DEFINE Q == Qualifying(records, kind)
<1>1. Q # {}
  BY DEF LockFor, NoLock
<1>2. Max(Q) \in Q
  BY <1>1, QualifyingHasNewest
<1>3. Max(Q) \in DOMAIN records
  BY <1>2 DEF Qualifying
<1>4. records[Max(Q)] \in Lock
  BY <1>3
<1>5. LockFor(records, kind).value = records[Max(Q)].value
  BY <1>1 DEF LockFor
<1> QED
  BY <1>4, <1>5, LockListsAssumption DEF Lock

LEMMA Division ==
  ASSUME NEW a \in Int, NEW b \in Int, b > 0
  PROVE  /\ a \div b \in Int /\ a % b \in 0 .. b - 1
         /\ a = b * (a \div b) + (a % b)
  OBVIOUS

(* A ratio of a number is not larger than the number.                      *)
LEMMA TimesBounds ==
  ASSUME NEW m \in Nat, NEW r \in 0 .. One
  PROVE  Times(m, r) \in 0 .. m
<1> DEFINE q == (m * r) \div One
           e == (m * r) % One
<1>1. One \in Int /\ One > 0
  BY NumberAssumption
<1>2. m * r \in Int /\ 0 <= m * r /\ m * r <= m * One
  <2>1. 0 <= m * r
    BY <1>1
  <2>2. 0 <= m * (One - r)
    BY <1>1
  <2>3. m * (One - r) = m * One - m * r
    BY <1>1
  <2> QED
    BY <1>1, <2>1, <2>2, <2>3
<1>3. q \in Int /\ e \in 0 .. One - 1 /\ m * r = One * q + e
  BY <1>1, <1>2, Division
<1> HIDE DEF q, e
<1>4. 0 <= q
  <2>1. SUFFICES ASSUME q <= -1 PROVE FALSE
    BY <1>3
  <2>2. One * (-1 - q) >= 0
    BY <1>1, <1>3, <2>1
  <2>3. One * (-1 - q) = -One - One * q
    BY <1>1, <1>3
  <2> QED
    BY <1>1, <1>2, <1>3, <2>2, <2>3
<1>5. q <= m
  <2>1. SUFFICES ASSUME q >= m + 1 PROVE FALSE
    BY <1>3
  <2>2. One * (q - m - 1) >= 0
    BY <1>1, <1>3, <2>1
  <2>3. One * (q - m - 1) = One * q - m * One - One
    BY <1>1, <1>3
  <2> QED
    BY <1>1, <1>2, <1>3, <2>2, <2>3
<1> QED
  BY <1>3, <1>4, <1>5 DEF Times, q

LEMMA TimesIsInteger ==
  ASSUME NEW a \in Int, NEW b \in Int
  PROVE  Times(a, b) \in Int
  BY NumberAssumption, Division DEF Times

(* What a call in a typed state computes with.                             *)
LEMMA LockInForce ==
  ASSUME TypeOK, NEW kind \in Int
  PROVE  /\ LockScan(locks, kind) = LockFor(locks, kind)
         /\ LockFor(locks, kind).hit \in BOOLEAN
         /\ LockFor(locks, kind).hit =>
              \E c \in 0 .. maxHP : \A h \in Int :
                Threshold(LockFor(locks, kind), h, maxHP) = Smaller(h, c)
<1>1. locks \in Seq(Lock) /\ maxHP \in Nat
  BY RangeAssumption DEF TypeOK
<1>2. LockScan(locks, kind) = LockFor(locks, kind)
  BY <1>1, ScanIsRight
<1>3. LockFor(locks, kind).hit \in BOOLEAN
  BY DEF LockFor, NoLock
<1>4. ASSUME LockFor(locks, kind).hit
      PROVE  \E c \in 0 .. maxHP : \A h \in Int :
               Threshold(LockFor(locks, kind), h, maxHP) = Smaller(h, c)
  <2> DEFINE v == LockFor(locks, kind).value
             c == Larger(Smaller(2 * One, maxHP), Times(maxHP, v))
  <2>1. Times(maxHP, v) \in 0 .. maxHP
    BY <1>1, <1>4, LockValueIsRatio, TimesBounds
  <2>2. c \in 0 .. maxHP
    BY <1>1, <2>1, NumberAssumption DEF Larger, Smaller
  <2>3. \A h \in Int : Threshold(LockFor(locks, kind), h, maxHP) = Smaller(h, c)
    BY DEF Threshold
  <2> HIDE DEF c
  <2> QED
    BY <2>2, <2>3
<1> QED
  BY <1>2, <1>3, <1>4

-----------------------------------------------------------------------------
(* A step is the damage of one call, or a write that leaves HP and the     *)
(* call as they are.                                                       *)
Damage == \E delta, kind \in Int, gate \in BOOLEAN : DirectDamage(delta, kind, gate)

Write ==
  \/ \E records \in LockLists : SetLocks(records)
  \/ \E m \in MaxHPs : ChangeMaxHP(m)
  \/ \E ratio \in Ratios : ChangeDirtyRatio(ratio)
  \/ InstallNegativeHP

LEMMA StepIsDamageOrWrite ==
  ASSUME TypeOK, Next
  PROVE  Damage \/ Write
<1>1. ASSUME NEW kind \in Kinds, NEW gate \in BOOLEAN, NEW value \in SetValues,
             NEW ratio \in SetRatios, SetHP(value, ratio, kind, gate)
      PROVE  \E delta \in Int : DirectDamage(delta, kind, gate)
  <2>1. maxHP \in Int /\ hp \in Int /\ value \in Int /\ ratio \in Int
    BY RangeAssumption DEF TypeOK
  <2>2. value + Times(maxHP, ratio) - hp \in Int
    BY <2>1, TimesIsInteger
  <2> QED
    BY <1>1, <2>2 DEF SetHP
<1>2. Kinds \subseteq Int /\ Deltas \subseteq Int
  BY RangeAssumption
<1> QED
  BY <1>1, <1>2 DEF Next, Damage, Write

LEMMA WriteIsQuiet ==
  ASSUME Write
  PROVE  UNCHANGED <<hp, call>>
  BY DEF Write, SetLocks, ChangeMaxHP, ChangeDirtyRatio, InstallNegativeHP

(* What a call that lands does to HP.                                      *)
LEMMA LandsAt ==
  ASSUME TypeOK, NEW delta \in Int, NEW kind \in Int, NEW gate \in BOOLEAN,
         Land(delta, kind, gate)
  PROVE  /\ hp' \in Int /\ call' \in Call /\ call'.kind = kind /\ ~call'.blocked
         /\ negative' = negative
         /\ dirty = Missing <=> call'.status = "no_dirty_ratio"
         /\ dirty = Missing => hp' = hp
         /\ dirty # Missing => /\ DirtyBound(maxHP, dirty) \in 0 .. maxHP
                               /\ hp' = Clamped(hp + delta, DirtyBound(maxHP, dirty), maxHP)
<1>1. hp \in Int /\ maxHP \in Nat
  BY RangeAssumption DEF TypeOK
<1>2. CASE dirty = Missing
  <2>1. call' = [status |-> "no_dirty_ratio", delta |-> delta, kind |-> kind, gate |-> gate,
                 blocked |-> FALSE, applied |-> 0] /\ hp' = hp /\ negative' = negative
    BY <1>2 DEF Land, Returns
  <2> QED
    BY <1>1, <1>2, <2>1 DEF Call
<1>3. CASE dirty # Missing
  <2>1. dirty \in 0 .. One
    BY <1>3, RangeAssumption DEF TypeOK
  <2>2. DirtyBound(maxHP, dirty) \in 0 .. maxHP
    BY <1>1, <2>1, TimesBounds DEF DirtyBound
  <2>3. /\ hp' = Clamped(hp + delta, DirtyBound(maxHP, dirty), maxHP)
        /\ call' = [status |-> "done", delta |-> delta, kind |-> kind, gate |-> gate,
                    blocked |-> FALSE, applied |-> hp' - hp]
        /\ negative' = negative
    BY <1>3 DEF Land, Returns
  <2>4. hp' \in Int
    BY <1>1, <2>2, <2>3 DEF Clamped, Larger, Smaller
  <2> QED
    BY <1>1, <1>3, <2>2, <2>3, <2>4 DEF Call
<1> QED
  BY <1>2, <1>3

(* What a call that a lock holds back does.                                *)
LEMMA BlocksAt ==
  ASSUME TypeOK, NEW delta \in Int, NEW kind \in Int, NEW gate \in BOOLEAN,
         Block(delta, kind, gate)
  PROVE  LET t == Threshold(LockFor(locks, kind), hp, maxHP)
         IN /\ t \in Int /\ t <= maxHP /\ maxHP > 0 /\ hp + delta < t
            /\ hp' = t /\ call' \in Call /\ call'.kind = kind /\ call'.blocked
            /\ call'.status # "no_dirty_ratio"
            /\ negative' \in Nat \cup {Missing}
            /\ call'.gate /\ call'.status = "done" =>
                 /\ negative' - negative = (hp' - hp) - call'.delta
                 /\ call'.applied = -call'.delta
<1> DEFINE lock == LockFor(locks, kind)
           t == Threshold(lock, hp, maxHP)
<1>1. hp \in Int /\ maxHP \in Nat /\ negative \in Nat \cup {Missing}
  BY RangeAssumption DEF TypeOK
<1>2. LockScan(locks, kind) = lock
  BY LockInForce
<1>3. lock.hit /\ maxHP > 0 /\ hp + delta < t
  BY <1>2 DEF Block, IsBlocked
<1>4. PICK c \in 0 .. maxHP : t = Smaller(hp, c)
  BY <1>1, <1>3, LockInForce
<1>5. hp' = Clamped(t, maxHP, maxHP)
  BY <1>2 DEF Block
<1>6. \/ /\ gate /\ negative # Missing
         /\ negative' = negative + Overflow(hp, t, delta)
         /\ Returns(delta, kind, gate, "done", TRUE, -delta)
      \/ /\ gate /\ negative = Missing
         /\ Returns(delta, kind, gate, "no_negative_hp", TRUE, 0)
         /\ UNCHANGED negative
      \/ /\ ~gate
         /\ Returns(delta, kind, gate, "done", TRUE, hp' - hp)
         /\ UNCHANGED negative
  BY <1>2 DEF Block
<1> HIDE DEF lock, t
<1>7. t \in Int /\ t <= maxHP
  BY <1>1, <1>4 DEF Smaller
<1>8. hp' = t
  BY <1>1, <1>3, <1>5, <1>7 DEF Clamped, Larger, Smaller
<1>9. CASE gate /\ negative # Missing
  <2>1. negative \in Nat
    BY <1>1, <1>9
  <2>2. negative' = negative + (t - (hp + delta))
    BY <1>6, <1>9 DEF Overflow
  <2>3. call' = [status |-> "done", delta |-> delta, kind |-> kind, gate |-> gate,
                 blocked |-> TRUE, applied |-> -delta]
    BY <1>6, <1>9 DEF Returns
  <2>4. negative' \in Nat
    BY <1>1, <1>3, <1>7, <2>1, <2>2
  <2>5. negative' - negative = (hp' - hp) - delta
    BY <1>1, <1>7, <1>8, <2>1, <2>2
  <2> QED
    BY <1>3, <1>7, <1>8, <2>3, <2>4, <2>5 DEF Call, lock, t
<1>10. CASE gate /\ negative = Missing
  <2>1. call' = [status |-> "no_negative_hp", delta |-> delta, kind |-> kind, gate |-> gate,
                 blocked |-> TRUE, applied |-> 0] /\ negative' = negative
    BY <1>6, <1>10 DEF Returns
  <2> QED
    BY <1>1, <1>3, <1>7, <1>8, <2>1 DEF Call, lock, t
<1>11. CASE ~gate
  <2>1. call' = [status |-> "done", delta |-> delta, kind |-> kind, gate |-> gate,
                 blocked |-> TRUE, applied |-> hp' - hp] /\ negative' = negative
    BY <1>6, <1>11 DEF Returns
  <2> QED
    BY <1>1, <1>3, <1>7, <1>8, <1>11, <2>1 DEF Call, lock, t
<1> QED
  BY <1>9, <1>10, <1>11

-----------------------------------------------------------------------------
(* Every variable keeps its type: NegativeHP in particular never becomes   *)
(* negative, a lock only ever adds to it.                                  *)
THEOREM HPTypeCorrect == Spec => []TypeOK
<1>1. Init => TypeOK
  BY NumberAssumption DEF Init, TypeOK, NoCall, Call
<1>2. ASSUME TypeOK, Next PROVE TypeOK'
  <2>1. ASSUME NEW delta \in Int, NEW kind \in Int, NEW gate \in BOOLEAN,
               DirectDamage(delta, kind, gate)
        PROVE  TypeOK'
    <3>1. UNCHANGED <<maxHP, dirty, locks>>
      BY <2>1 DEF DirectDamage
    <3>2. hp' \in Int /\ call' \in Call /\ negative' \in Nat \cup {Missing}
      <4>1. CASE Land(delta, kind, gate)
        BY <1>2, <4>1, LandsAt DEF TypeOK
      <4>2. CASE Block(delta, kind, gate)
        BY <1>2, <4>2, BlocksAt
      <4> QED
        BY <2>1, <4>1, <4>2 DEF DirectDamage
    <3> QED
      BY <1>2, <3>1, <3>2 DEF TypeOK
  <2>2. ASSUME NEW records \in LockLists, SetLocks(records) PROVE TypeOK'
    BY <1>2, <2>2, LockListsAssumption DEF TypeOK, SetLocks
  <2>3. ASSUME NEW m \in MaxHPs, ChangeMaxHP(m) PROVE TypeOK'
    BY <1>2, <2>3 DEF TypeOK, ChangeMaxHP
  <2>4. ASSUME NEW ratio \in Ratios, ChangeDirtyRatio(ratio) PROVE TypeOK'
    BY <1>2, <2>4 DEF TypeOK, ChangeDirtyRatio
  <2>5. ASSUME InstallNegativeHP PROVE TypeOK'
    BY <1>2, <2>5 DEF TypeOK, InstallNegativeHP
  <2> QED
    BY <1>2, <2>1, <2>2, <2>3, <2>4, <2>5, StepIsDamageOrWrite DEF Damage, Write
<1>3. TypeOK /\ UNCHANGED vars => TypeOK'
  BY DEF TypeOK, vars
<1> QED
  BY <1>1, <1>2, <1>3, PTL DEF Spec

(* The loop of TryGetLockHP finds the newest qualifying value and the      *)
(* oldest record of the run that agrees with it, on every list of records. *)
THEOREM ScanIsRightAlways == Spec => []ScanFindsLock
<1>1. ScanFindsLock
  <2>1. \A n \in Nat : \A f : f \in [1 .. n -> Lock] => f \in Seq(Lock)
    OBVIOUS
  <2>2. \A records \in BoundedSeq(Lock, MaxLocks) : records \in Seq(Lock)
    BY <2>1, LockAssumption DEF BoundedSeq, SeqOf
  <2>3. \A records \in Seq(Lock), kind \in LockKinds :
          LockScan(records, kind) = LockFor(records, kind)
    BY ScanIsRight, LockAssumption
  <2> QED
    BY <2>2, <2>3 DEF ScanFindsLock, ScanAgrees
<1> QED
  BY <1>1, PTL

(* Damage never takes HP below what the lock in force protects, except to  *)
(* the dirty bound.                                                        *)
THEOREM LocksProtect == Spec => LockHolds
<1> DEFINE Protects ==
      Damaged /\ LockFor(locks, call'.kind).hit /\ maxHP > 0 =>
        \/ hp' >= Threshold(LockFor(locks, call'.kind), hp, maxHP)
        \/ ~call'.blocked /\ hp' = Larger(DirtyBound(maxHP, dirty), 0)
<1>1. ASSUME TypeOK, Next PROVE Protects
  <2>1. ASSUME NEW delta \in Int, NEW kind \in Int, NEW gate \in BOOLEAN,
               Land(delta, kind, gate), LockFor(locks, kind).hit, maxHP > 0
        PROVE  Protects
    <3> DEFINE t == Threshold(LockFor(locks, kind), hp, maxHP)
    <3>1. hp \in Int /\ maxHP \in Nat
      BY <1>1, RangeAssumption DEF TypeOK
    <3>2. PICK c \in 0 .. maxHP : t = Smaller(hp, c)
      BY <1>1, <2>1, <3>1, LockInForce
    <3>3. t \in Int /\ t <= hp
      BY <3>1, <3>2 DEF Smaller
    <3>4. ~(hp + delta < t)
      BY <1>1, <2>1, LockInForce DEF Land, IsBlocked
    <3> HIDE DEF t
    <3>5. /\ call'.kind = kind /\ ~call'.blocked
          /\ dirty = Missing => hp' = hp
          /\ dirty # Missing => /\ DirtyBound(maxHP, dirty) \in 0 .. maxHP
                                /\ hp' = Clamped(hp + delta, DirtyBound(maxHP, dirty), maxHP)
      BY <1>1, <2>1, LandsAt
    <3>6. dirty # Missing => hp' >= t \/ hp' = Larger(DirtyBound(maxHP, dirty), 0)
      BY <2>1, <3>1, <3>3, <3>4, <3>5 DEF Clamped, Larger, Smaller
    <3>7. dirty = Missing => hp' >= t
      BY <3>1, <3>3, <3>5
    <3> QED
      BY <3>5, <3>6, <3>7 DEF t
  <2>2. ASSUME NEW delta \in Int, NEW kind \in Int, NEW gate \in BOOLEAN,
               Block(delta, kind, gate)
        PROVE  Protects
    BY <1>1, <2>2, BlocksAt
  <2>3. ASSUME NEW delta \in Int, NEW kind \in Int, NEW gate \in BOOLEAN,
               Land(delta, kind, gate)
        PROVE  Protects
    <3>1. call'.kind = kind
      BY <1>1, <2>3, LandsAt
    <3> QED
      BY <2>1, <2>3, <3>1
  <2>4. Damage => Protects
    BY <2>2, <2>3 DEF Damage, DirectDamage
  <2>5. Write => Protects
    BY WriteIsQuiet DEF Damaged
  <2> QED
    BY <1>1, <2>4, <2>5, StepIsDamageOrWrite
<1>2. UNCHANGED vars => Protects
  BY DEF vars, Damaged
<1>3. TypeOK /\ [Next]_vars => [Protects]_vars
  BY <1>1, <1>2
<1> QED
  BY <1>3, HPTypeCorrect, PTL DEF Spec, LockHolds

(* Damage never leaves HP above MaxHP, and above the dirty bound only at   *)
(* the threshold of a lock.                                                *)
THEOREM DamageIsCapped == Spec => CapHolds
<1> DEFINE Cap == Larger(DirtyBound(maxHP, IF dirty = Missing THEN 0 ELSE dirty), 0)
           Capped == Damaged /\ call'.status # "no_dirty_ratio" =>
                       /\ hp' <= maxHP
                       /\ hp' > Cap => call'.blocked
<1>1. ASSUME TypeOK, Next PROVE Capped
  <2>1. ASSUME NEW delta \in Int, NEW kind \in Int, NEW gate \in BOOLEAN,
               Land(delta, kind, gate), dirty # Missing
        PROVE  hp' <= maxHP /\ ~(hp' > Cap)
    <3>1. hp \in Int /\ maxHP \in Nat
      BY <1>1, RangeAssumption DEF TypeOK
    <3>2. /\ DirtyBound(maxHP, dirty) \in 0 .. maxHP
          /\ hp' = Clamped(hp + delta, DirtyBound(maxHP, dirty), maxHP)
      BY <1>1, <2>1, LandsAt
    <3>3. Cap = Larger(DirtyBound(maxHP, dirty), 0)
      BY <2>1
    <3> HIDE DEF Cap
    <3> QED
      BY <3>1, <3>2, <3>3 DEF Clamped, Larger, Smaller
  <2>2. ASSUME NEW delta \in Int, NEW kind \in Int, NEW gate \in BOOLEAN,
               Land(delta, kind, gate)
        PROVE  Capped
    <3>1. dirty = Missing <=> call'.status = "no_dirty_ratio"
      BY <1>1, <2>2, LandsAt
    <3> HIDE DEF Cap
    <3> QED
      BY <2>1, <2>2, <3>1
  <2>3. ASSUME NEW delta \in Int, NEW kind \in Int, NEW gate \in BOOLEAN,
               Block(delta, kind, gate)
        PROVE  Capped
    <3>1. hp' <= maxHP /\ call'.blocked
      BY <1>1, <2>3, BlocksAt
    <3> QED
      BY <3>1
  <2>4. Damage => Capped
    BY <2>2, <2>3 DEF Damage, DirectDamage
  <2>5. Write => Capped
    BY WriteIsQuiet DEF Damaged
  <2> QED
    BY <1>1, <2>4, <2>5, StepIsDamageOrWrite
<1>2. UNCHANGED vars => Capped
  BY DEF vars, Damaged
<1>3. TypeOK /\ [Next]_vars => [Capped]_vars
  BY <1>1, <1>2
<1> QED
  BY <1>3, HPTypeCorrect, PTL DEF Spec, CapHolds

(* With the gate, what HP does not lose under a lock, NegativeHP gains.    *)
THEOREM LocksMoveDamage == Spec => GatedDamageConserved
<1> DEFINE Conserved ==
      Damaged /\ call'.blocked /\ call'.gate /\ call'.status = "done" =>
        /\ negative' - negative = (hp' - hp) - call'.delta
        /\ call'.applied = -call'.delta
<1>1. ASSUME TypeOK, Next PROVE Conserved
  <2>1. ASSUME NEW delta \in Int, NEW kind \in Int, NEW gate \in BOOLEAN,
               Land(delta, kind, gate)
        PROVE  Conserved
    BY <1>1, <2>1, LandsAt
  <2>2. ASSUME NEW delta \in Int, NEW kind \in Int, NEW gate \in BOOLEAN,
               Block(delta, kind, gate)
        PROVE  Conserved
    BY <1>1, <2>2, BlocksAt
  <2>3. Damage => Conserved
    BY <2>1, <2>2 DEF Damage, DirectDamage
  <2>4. Write => Conserved
    BY WriteIsQuiet DEF Damaged
  <2> QED
    BY <1>1, <2>3, <2>4, StepIsDamageOrWrite
<1>2. UNCHANGED vars => Conserved
  BY DEF vars, Damaged
<1>3. TypeOK /\ [Next]_vars => [Conserved]_vars
  BY <1>1, <1>2
<1> QED
  BY <1>3, HPTypeCorrect, PTL DEF Spec, GatedDamageConserved

(* Two hits of one kind leave the same HP as one hit of their sum.         *)
THEOREM HitsAreAdditive == Spec => []HitsAddUp
<1>1. ASSUME TypeOK PROVE HitsAddUp
  <2>1. SUFFICES ASSUME NEW kind \in Kinds, NEW d \in Deltas, NEW e \in Deltas,
                        d < 0, e < 0, hp <= maxHP
                 PROVE  AfterHit(AfterHit(hp, d, kind), e, kind) = AfterHit(hp, d + e, kind)
    BY DEF HitsAddUp
  <2>2. /\ hp \in Int /\ maxHP \in Nat /\ kind \in Int /\ d \in Int /\ e \in Int
    BY <1>1, RangeAssumption DEF TypeOK
  <2>3. d + e \in Int /\ d + e < 0 /\ hp + d \in Int /\ hp + d <= maxHP
    BY <2>1, <2>2
  <2> DEFINE lock == LockFor(locks, kind)
             guarded == lock.hit /\ maxHP > 0
  <2>4. ASSUME guarded
        PROVE  \E c \in 0 .. maxHP : \A h, x \in Int : h <= maxHP /\ x < 0 =>
                 AfterHit(h, x, kind) = IF h + x < Smaller(h, c) THEN Smaller(h, c) ELSE h + x
    <3>1. PICK c \in 0 .. maxHP : \A h \in Int : Threshold(lock, h, maxHP) = Smaller(h, c)
      BY <1>1, <2>2, <2>4, LockInForce
    <3>2. ASSUME NEW h \in Int, NEW x \in Int, h <= maxHP, x < 0
          PROVE  AfterHit(h, x, kind) = IF h + x < Smaller(h, c) THEN Smaller(h, c) ELSE h + x
      <4>1. AfterHit(h, x, kind) = IF h + x < Smaller(h, c) THEN Clamped(Smaller(h, c), maxHP, maxHP)
                                   ELSE Clamped(h + x, maxHP, maxHP)
        BY <2>4, <3>1, <3>2 DEF AfterHit, IsBlocked
      <4>2. Clamped(h + x, maxHP, maxHP) = h + x
        BY <2>2, <3>2 DEF Clamped
      <4>3. Clamped(Smaller(h, c), maxHP, maxHP) = Smaller(h, c)
        BY <2>2, <2>4, <3>2 DEF Clamped, Smaller, Larger
      <4> QED
        BY <4>1, <4>2, <4>3
    <3> QED
      BY <3>2
  <2>5. ASSUME ~guarded
        PROVE  \A h, x \in Int : h <= maxHP /\ x < 0 => AfterHit(h, x, kind) = h + x
    BY <2>2, <2>5 DEF AfterHit, IsBlocked, Clamped
  <2> HIDE DEF guarded
  <2>6. CASE guarded
    <3>1. PICK c \in 0 .. maxHP : \A h, x \in Int : h <= maxHP /\ x < 0 =>
            AfterHit(h, x, kind) = IF h + x < Smaller(h, c) THEN Smaller(h, c) ELSE h + x
      BY <2>4, <2>6
    <3> DEFINE first == IF hp + d < Smaller(hp, c) THEN Smaller(hp, c) ELSE hp + d
    <3>2. AfterHit(hp, d, kind) = first
      BY <2>1, <2>2, <3>1
    <3>3. first \in Int /\ first <= maxHP
      BY <2>1, <2>2, <3>1 DEF Smaller
    <3>4. AfterHit(first, e, kind) =
            IF first + e < Smaller(first, c) THEN Smaller(first, c) ELSE first + e
      BY <2>1, <2>2, <3>1, <3>3
    <3>5. AfterHit(hp, d + e, kind) =
            IF hp + (d + e) < Smaller(hp, c) THEN Smaller(hp, c) ELSE hp + (d + e)
      BY <2>1, <2>3, <3>1, <2>2
    <3>6. (IF first + e < Smaller(first, c) THEN Smaller(first, c) ELSE first + e)
            = IF hp + (d + e) < Smaller(hp, c) THEN Smaller(hp, c) ELSE hp + (d + e)
      BY <2>1, <2>2, <3>1 DEF Smaller
    <3> QED
      BY <3>2, <3>4, <3>5, <3>6
  <2>7. CASE ~guarded
    <3>1. \A h, x \in Int : h <= maxHP /\ x < 0 => AfterHit(h, x, kind) = h + x
      BY <2>5, <2>7
    <3>2. AfterHit(hp, d, kind) = hp + d
      BY <2>1, <2>2, <3>1
    <3>3. AfterHit(hp + d, e, kind) = hp + d + e
      BY <2>1, <2>2, <2>3, <3>1
    <3>4. AfterHit(hp, d + e, kind) = hp + (d + e)
      BY <2>1, <2>2, <2>3, <3>1
    <3> QED
      BY <2>2, <3>2, <3>3, <3>4
  <2> QED
    BY <2>6, <2>7
<1> QED
  BY <1>1, HPTypeCorrect, PTL
=============================================================================
