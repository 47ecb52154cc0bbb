----------------------------- MODULE HPTransition -----------------------------
(***************************************************************************)
(* The HP of a component: direct_damage_hp_transition and the SetHP path   *)
(* into it (battle_runtime/hp.py), over CurrentHP, NegativeHP, MaxHP and   *)
(* DirtyHPRatio entries that show their source zero, and the lock records. *)
(*                                                                         *)
(* A fixed-point number x is the integer x * One; saturation and the       *)
(* extended encoding of large numbers are left out.                        *)
(***************************************************************************)
EXTENDS Integers, Sequences, SequencesExt

CONSTANTS LockKinds,   \* kinds of the lock records
          LockValues,  \* values of the lock records
          MaxLocks     \* bound on the length of the lists compared

ASSUME LockAssumption ==
  LockKinds \subseteq Int /\ LockValues \subseteq Int /\ MaxLocks \in Nat

(* The lock-HP records of a component: an ordered list of records that     *)
(* each keep HP from falling below a ratio of MaxHP for damage up to a     *)
(* kind, and the scan that picks the one that counts.                      *)
(* LockHPRecord, without the opaque action ref.                            *)
Lock == [kind : LockKinds, value : LockValues]

NoLock == [hit |-> FALSE, value |-> 0, best |-> 0]

(* Mutant: a record of another value is skipped instead of ending the scan.*)
ScanPastOthers(records, kind) ==
  LET scan[i \in 1 .. Len(records) + 1] ==
        IF i = Len(records) + 1 THEN NoLock
        ELSE LET after == scan[i + 1]
                 r == records[i]
             IN IF r.kind < kind \/ (after.hit /\ after.value # r.value)
                THEN after
                ELSE [hit |-> TRUE, value |-> r.value, best |-> i]
  IN scan[1]

(* The loop of try_get_lock_hp from the last record down: skip a record of *)
(* a lower kind, take the first that qualifies, go on over equal values    *)
(* and stop for good at another one.                                       *)
Scanned(r, i, kind, after) ==
  IF after.stopped \/ r.kind < kind THEN after
  ELSE IF after.lock.hit /\ after.lock.value # r.value THEN [after EXCEPT !.stopped = TRUE]
  ELSE [lock |-> [hit |-> TRUE, value |-> r.value, best |-> i], stopped |-> FALSE]

LockScan(records, kind) ==
  LET scan[i \in 1 .. Len(records) + 1] ==
        IF i = Len(records) + 1 THEN [lock |-> NoLock, stopped |-> FALSE]
        ELSE Scanned(records[i], i, kind, scan[i + 1])
  IN scan[1].lock

Qualifying(records, kind) == {i \in DOMAIN records : records[i].kind >= kind}

(* What the scan is for: the newest qualifying record decides the value,   *)
(* and the submitted actions start at the oldest of the unbroken run of    *)
(* qualifying records that agree with it.                                  *)
LockFor(records, kind) ==
  LET Q == Qualifying(records, kind)
      newest == Max(Q)
      agreeing == {i \in Q : \A j \in Q : j >= i => records[j].value = records[newest].value}
  IN IF Q = {} THEN NoLock
     ELSE [hit |-> TRUE, value |-> records[newest].value, best |-> Min(agreeing)]

-----------------------------------------------------------------------------
(* For every damage kind the loop and its purpose agree on a list.         *)
ScanAgrees(records) ==
  \A kind \in LockKinds : LockScan(records, kind) = LockFor(records, kind)

-----------------------------------------------------------------------------
CONSTANTS One,        \* the fixed-point number 1
          MaxHPs,     \* values the MaxHP entry takes
          Ratios,     \* values the DirtyHPRatio entry takes
          StartHP,    \* CurrentHP before the first transition
          Deltas,     \* damage deltas, mostly negative
          Kinds,      \* damage kinds
          SetValues,  \* ModifyValue of SetHP
          SetRatios,  \* ModifyRatio of SetHP
          LockLists,  \* record lists a caller stores
          Missing,    \* the entry does not exist
          Lowest,     \* bound: CurrentHP does not fall below it
          Highest     \* bound: NegativeHP does not rise above it

ASSUME NumberAssumption == One \in Nat \ {0} /\ StartHP \in Int
ASSUME RangeAssumption ==
  /\ MaxHPs \subseteq Nat
  /\ Ratios \subseteq 0 .. One
  /\ Deltas \subseteq Int /\ Kinds \subseteq Int
  /\ SetValues \subseteq Int /\ SetRatios \subseteq Int
ASSUME LockListsAssumption ==
  /\ LockLists \subseteq Seq(Lock)
  /\ LockValues \subseteq 0 .. One
ASSUME MissingAssumption == Missing \notin Int
ASSUME HPBoundAssumption == Lowest \in Int /\ Highest \in Int

VARIABLES hp,        \* property 10, CurrentHP
          negative,  \* property 9, NegativeHP
          maxHP,     \* property 1, MaxHP
          dirty,     \* property 7, DirtyHPRatio
          locks,     \* component_lock_hp_records of the component
          call       \* the last transition: its inputs and what it returned

vars == <<hp, negative, maxHP, dirty, locks, call>>

NoCall == [status |-> "none", delta |-> 0, kind |-> 0, gate |-> FALSE,
           blocked |-> FALSE, applied |-> 0]

Call == [status : {"none", "done", "no_dirty_ratio", "no_negative_hp"},
         delta : Int, kind : Int, gate : BOOLEAN, blocked : BOOLEAN, applied : Int]

TypeOK ==
  /\ hp \in Int
  /\ negative \in Nat \cup {Missing}
  /\ maxHP \in MaxHPs
  /\ dirty \in Ratios \cup {Missing}
  /\ locks \in Seq(Lock)
  /\ call \in Call

-----------------------------------------------------------------------------
Times(a, b) == (a * b) \div One  \* fixedpoint_multiply
Smaller(a, b) == IF a < b THEN a ELSE b
Larger(a, b) == IF a > b THEN a ELSE b

ThresholdOfHP(lock, h, m) ==  \* mutant
  Smaller(h, Larger(Smaller(2 * One, m), Times(h, lock.value)))

(* HP does not go below this while the lock counts, two HP or less at      *)
(* worst, and never above the present HP.                                  *)
Threshold(lock, h, m) ==
  Smaller(h, Larger(Smaller(2 * One, m), Times(m, lock.value)))

IsBlockedByRatio(lock, h, m, delta) ==  \* mutant
  lock.hit /\ m > 0 /\ h + delta < Times(m, lock.value)

IsBlocked(lock, h, m, delta) ==
  lock.hit /\ m > 0 /\ h + delta < Threshold(lock, h, m)

OverflowFromHP(h, threshold, delta) == -delta  \* mutant
(* The damage a lock keeps from CurrentHP.                                 *)
Overflow(h, threshold, delta) == threshold - (h + delta)

DirtyBound(m, ratio) == m - Times(m, ratio)

ClampedToMax(x, bound, m) ==  \* mutant
  IF x < m THEN x
  ELSE IF x >= 0 /\ m > 0 THEN Larger(bound, 0)
  ELSE Smaller(x, m)

(* The shared clamp of x against a bound.                                  *)
Clamped(x, bound, m) ==
  IF x < bound THEN x
  ELSE IF x >= 0 /\ m > 0 THEN Larger(bound, 0)
  ELSE Smaller(x, m)

Returns(delta, kind, gate, status, blocked, applied) ==
  call' = [status |-> status, delta |-> delta, kind |-> kind, gate |-> gate,
           blocked |-> blocked, applied |-> applied]

-----------------------------------------------------------------------------
Init ==
  /\ hp = StartHP
  /\ negative \in {0, Missing}
  /\ maxHP \in MaxHPs
  /\ dirty \in Ratios \cup {Missing}
  /\ locks = <<>>
  /\ call = NoCall

(* No lock holds the damage back: the dirty ratio bounds the result.       *)
Land(delta, kind, gate) ==
  /\ ~IsBlocked(LockScan(locks, kind), hp, maxHP, delta)
  /\ IF dirty = Missing
     THEN /\ Returns(delta, kind, gate, "no_dirty_ratio", FALSE, 0)
          /\ UNCHANGED hp
     ELSE /\ hp' = Clamped(hp + delta, DirtyBound(maxHP, dirty), maxHP)
          /\ Returns(delta, kind, gate, "done", FALSE, hp' - hp)
  /\ UNCHANGED negative

(* A lock holds the damage back at the threshold.  With the gate the rest  *)
(* goes to NegativeHP, whose entry is looked up after CurrentHP is stored. *)
Block(delta, kind, gate) ==
  LET lock == LockScan(locks, kind)
      threshold == Threshold(lock, hp, maxHP)
  IN /\ IsBlocked(lock, hp, maxHP, delta)
     /\ hp' = Clamped(threshold, maxHP, maxHP)
     /\ \/ /\ gate /\ negative # Missing
           /\ negative' = negative + Overflow(hp, threshold, delta)
           /\ Returns(delta, kind, gate, "done", TRUE, -delta)
        \/ /\ gate /\ negative = Missing
           /\ Returns(delta, kind, gate, "no_negative_hp", TRUE, 0)
           /\ UNCHANGED negative
        \/ /\ ~gate
           /\ Returns(delta, kind, gate, "done", TRUE, hp' - hp)
           /\ UNCHANGED negative

(* direct_damage_hp_transition, mode 0.                                    *)
DirectDamage(delta, kind, gate) ==
  /\ Land(delta, kind, gate) \/ Block(delta, kind, gate)
  /\ UNCHANGED <<maxHP, dirty, locks>>

(* direct_change_hp_mode1_negative: SetHP with a target below CurrentHP.   *)
SetHP(value, ratio, kind, gate) ==
  LET delta == value + Times(maxHP, ratio) - hp
  IN delta < 0 /\ DirectDamage(delta, kind, gate)

SetLocks(records) ==
  /\ locks' = records
  /\ UNCHANGED <<hp, negative, maxHP, dirty, call>>

(* The property runtime writes MaxHP and DirtyHPRatio, and a caller may    *)
(* install the NegativeHP entry at any time.                               *)
ChangeMaxHP(m) ==
  /\ maxHP' = m
  /\ UNCHANGED <<hp, negative, dirty, locks, call>>

ChangeDirtyRatio(ratio) ==
  /\ dirty' = ratio
  /\ UNCHANGED <<hp, negative, maxHP, locks, call>>

InstallNegativeHP ==
  /\ negative = Missing
  /\ negative' = 0
  /\ UNCHANGED <<hp, maxHP, dirty, locks, call>>

Next ==
  /\ \/ \E kind \in Kinds, gate \in BOOLEAN :
          \/ \E delta \in Deltas : DirectDamage(delta, kind, gate)
          \/ \E value \in SetValues, ratio \in SetRatios : SetHP(value, ratio, kind, gate)
     \/ \E records \in LockLists : SetLocks(records)
     \/ \E m \in MaxHPs : ChangeMaxHP(m)
     \/ \E ratio \in Ratios : ChangeDirtyRatio(ratio)
     \/ InstallNegativeHP
  /\ hp' >= Lowest /\ (negative' # Missing => negative' <= Highest)

Spec == Init /\ [][Next]_vars

-----------------------------------------------------------------------------
(* Whatever list of records is in store when the damage begins, the loop   *)
(* of TryGetLockHP finds the newest qualifying value and the oldest record *)
(* of the run that agrees with it, for every damage kind.                  *)
ScanFindsLock ==
  call = NoCall => \A records \in BoundedSeq(Lock, MaxLocks) : ScanAgrees(records)

Damaged == call' # call \/ hp' # hp

(* Damage never takes HP below what the lock in force protects, whatever   *)
(* the clamps and the dirty ratio do, and also when the call raises after  *)
(* CurrentHP is stored.  Only the dirty bound goes below a lock.           *)
LockHolds ==
  [][Damaged /\ LockFor(locks, call'.kind).hit /\ maxHP > 0 =>
       \/ hp' >= Threshold(LockFor(locks, call'.kind), hp, maxHP)
       \/ ~call'.blocked /\ hp' = Larger(DirtyBound(maxHP, dirty), 0)]_vars

(* Damage never leaves HP above MaxHP, and HP above the dirty bound only   *)
(* at the threshold of a lock.                                             *)
CapHolds ==
  [][Damaged /\ call'.status # "no_dirty_ratio" =>
       /\ hp' <= maxHP
       /\ hp' > Larger(DirtyBound(maxHP, IF dirty = Missing THEN 0 ELSE dirty), 0)
            => call'.blocked]_vars

(* With the gate, a lock only moves damage: what HP does not lose,         *)
(* NegativeHP gains, and the returned delta is the whole damage.           *)
GatedDamageConserved ==
  [][Damaged /\ call'.blocked /\ call'.gate /\ call'.status = "done" =>
       /\ negative' - negative = (hp' - hp) - call'.delta
       /\ call'.applied = -call'.delta]_vars

(* Hits add up under a lock: while the locks, MaxHP and a zero dirty ratio *)
(* stay, two hits of one kind leave the same HP as one hit of their sum.   *)
AfterHit(h, delta, kind) ==
  LET lock == LockFor(locks, kind)
  IN IF IsBlocked(lock, h, maxHP, delta)
     THEN Clamped(Threshold(lock, h, maxHP), maxHP, maxHP)
     ELSE Clamped(h + delta, maxHP, maxHP)

HitsAddUp ==
  \A kind \in Kinds : \A d, e \in {delta \in Deltas : delta < 0} :
    hp <= maxHP => AfterHit(AfterHit(hp, d, kind), e, kind) = AfterHit(hp, d + e, kind)
=============================================================================
