-------------------------- MODULE SandboxKernelProofs --------------------------
(***************************************************************************)
(* For any number of branches, snapshots, callers and values: no object is *)
(* ever shared, so the kernel implements isolated values, and every trace  *)
(* can be read back.                                                       *)
(***************************************************************************)
EXTENDS SandboxKernel, SequenceTheorems, TLAPS

(* Every place names its own dictionary, and whatever is nested in it was  *)
(* made for it.                                                            *)
AtHome ==
  /\ dict = [h \in Place |-> h]
  /\ held \in [Object -> Object \cup {Nil}]
  /\ item \in [Object -> Value \cup {Nil}]
  /\ \A h \in Place : held[h] \in {h, Nil}

(* While nothing is shared, a place's own names are free.                  *)
LEMMA OwnNamesFree ==
  ASSUME AtHome, NEW h \in Place
  PROVE  NewDict(h) = h /\ NewList(h) = h
<1>1. h # Nil
  BY StoreAssumption DEF Place
<1>2. \A g \in Place \ {h} : dict[g] # h /\ held[dict[g]] # h
  BY <1>1 DEF AtHome
<1> QED
  BY <1>2 DEF NewDict, NewList, Unreached

LEMMA WhatIsStored ==
  ASSUME AtHome
  PROVE  /\ \A h \in Place : StoredAt(h) = IF held[h] = Nil THEN Nil ELSE item[h]
         /\ \A h \in Place : StoredAt(h) \in Value \cup {Nil}
<1>1. \A h \in Place : dict[h] = h
  BY DEF AtHome
<1>2. \A h \in Place : held[h] # Nil => held[h] = h
  BY DEF AtHome
<1>3. \A h \in Place : h \in Object
  BY DEF Object
<1> QED
  BY <1>1, <1>2, <1>3 DEF StoredAt, AtHome

(* A place whose nested container is replaced by a new one holding c.      *)
LEMMA PutAtHome ==
  ASSUME AtHome, NEW h \in Place, NEW c \in Value \cup {Nil},
         dict' = dict,
         held' = [held EXCEPT ![h] = IF c = Nil THEN Nil ELSE h],
         item' = [item EXCEPT ![h] = c]
  PROVE  AtHome' /\ Logical' = [Logical EXCEPT ![h] = c]
<1>1. h \in Object /\ h # Nil
  BY StoreAssumption DEF Object, Place
<1>2. AtHome'
  <2>1. dict' = [g \in Place |-> g]
    BY DEF AtHome
  <2>2. held' \in [Object -> Object \cup {Nil}]
    BY <1>1 DEF AtHome
  <2>3. item' \in [Object -> Value \cup {Nil}]
    BY <1>1 DEF AtHome
  <2>4. \A g \in Place : held'[g] \in {g, Nil}
    BY <1>1 DEF AtHome, Object
  <2> QED
    BY <2>1, <2>2, <2>3, <2>4 DEF AtHome
<1>3. \A g \in Place : StoredAt(g)' = IF held'[g] = Nil THEN Nil ELSE item'[g]
  BY <1>2, StoreAssumption DEF AtHome, StoredAt
<1>4. \A g \in Place \ {h} : StoredAt(g)' = StoredAt(g)
  BY <1>3, WhatIsStored DEF AtHome, Object
<1>5. StoredAt(h)' = c
  BY <1>1, <1>3 DEF AtHome
<1> QED
  BY <1>2, <1>4, <1>5 DEF Logical

LEMMA CopyAtHome ==
  ASSUME AtHome, NEW g \in Place, NEW h \in Place, DeepCopy(g, h)
  PROVE  AtHome' /\ Logical' = [Logical EXCEPT ![h] = Logical[g]]
<1>1. NewDict(h) = h /\ NewList(h) = h
  BY OwnNamesFree
<1>2. StoredAt(g) \in Value \cup {Nil}
  BY WhatIsStored
<1>3. dict' = dict
  BY <1>1 DEF DeepCopy, AtHome
<1>4. /\ held' = [held EXCEPT ![h] = IF StoredAt(g) = Nil THEN Nil ELSE h]
      /\ item' = [item EXCEPT ![h] = StoredAt(g)]
  BY <1>1 DEF DeepCopy
<1>5. AtHome' /\ Logical' = [Logical EXCEPT ![h] = StoredAt(g)]
  BY <1>2, <1>3, <1>4, PutAtHome
<1> QED
  BY <1>5 DEF Logical

LEMMA AssignAtHome ==
  ASSUME AtHome, NEW h \in Place, NEW c \in Value \cup {Nil}, Assign(h, c)
  PROVE  AtHome' /\ Logical' = [Logical EXCEPT ![h] = c]
<1>1. NewList(h) = h /\ dict[h] = h
  BY OwnNamesFree DEF AtHome
<1> QED
  BY <1>1, PutAtHome DEF Assign

LEMMA EditAtHome ==
  ASSUME AtHome, NEW h \in Place, NEW v \in Value, EditInPlace(h, v)
  PROVE  AtHome' /\ Logical' = [Logical EXCEPT ![h] = v]
<1>1. dict[h] = h /\ held[h] # Nil /\ held[h] = h
  BY DEF AtHome, EditInPlace
<1>2. /\ dict' = dict
      /\ held' = [held EXCEPT ![h] = IF v = Nil THEN Nil ELSE h]
      /\ item' = [item EXCEPT ![h] = v]
  BY <1>1, StoreAssumption DEF EditInPlace, AtHome
<1> QED
  BY <1>2, PutAtHome

LEMMA FreshAtHome ==
  ASSUME AtHome, NEW h \in Place, Fresh(h)
  PROVE  AtHome' /\ Logical' = [Logical EXCEPT ![h] = Nil]
<1>1. NewDict(h) = h /\ NewList(h) = h
  BY OwnNamesFree
<1>2. /\ dict' = dict
      /\ held' = [held EXCEPT ![h] = IF Nil = Nil THEN Nil ELSE h]
      /\ item' = [item EXCEPT ![h] = Nil]
  BY <1>1 DEF Fresh, AtHome
<1> QED
  BY <1>2, PutAtHome

(* One step of the kernel keeps objects apart and is a step of the values. *)
LEMMA OneStep ==
  ASSUME AtHome, [Next]_vars
  PROVE  AtHome' /\ [Branches!Next]_Logical
<1> DEFINE Contents == Value \cup {Nil}
<1>1. /\ Branch \subseteq Place
      /\ Snapshot \subseteq Place
      /\ Caller \subseteq Place
  BY DEF Place
<1>2. ASSUME NEW h \in Branch \cup Caller, NEW c \in Contents,
             Logical' = [Logical EXCEPT ![h] = c]
      PROVE  Branches!Next
  BY <1>2 DEF Branches!Next, Branches!Own, Branches!Becomes
<1>3. ASSUME NEW g \in Place, NEW h \in Place,
             Logical' = [Logical EXCEPT ![h] = Logical[g]]
      PROVE  Branches!Next
  BY <1>3 DEF Branches!Next, Branches!CopyOf, Branches!Becomes, Branches!Place, Place
<1>4. ASSUME UNCHANGED store
      PROVE  AtHome' /\ Logical' = Logical
  BY <1>4 DEF store, AtHome, Logical, StoredAt
<1>5. ASSUME NEW b \in Branch, Execute(b)
      PROVE  AtHome' /\ [Branches!Next]_Logical
  <2>1. CASE UNCHANGED store
    BY <2>1, <1>4
  <2>2. ASSUME NEW c \in Value \cup {Nil}, Assign(b, c)
        PROVE  AtHome' /\ [Branches!Next]_Logical
    BY <2>2, <1>1, <1>2, AssignAtHome
  <2>3. ASSUME NEW v \in Value, EditInPlace(b, v)
        PROVE  AtHome' /\ [Branches!Next]_Logical
    BY <2>3, <1>1, <1>2, EditAtHome
  <2> QED
    BY <1>5, <2>1, <2>2, <2>3 DEF Execute
<1>6. ASSUME NEW b \in Branch, RemoveExtension(b)
      PROVE  AtHome' /\ [Branches!Next]_Logical
  BY <1>6, <1>1, <1>2, AssignAtHome DEF RemoveExtension
<1>7. ASSUME NEW b \in Branch, Reset(b)
      PROVE  AtHome' /\ [Branches!Next]_Logical
  BY <1>7, <1>1, <1>2, FreshAtHome DEF Reset
<1>8. ASSUME NEW g \in Place, NEW h \in Place, DeepCopy(g, h)
      PROVE  AtHome' /\ [Branches!Next]_Logical
  BY <1>8, <1>3, CopyAtHome
<1>9. ASSUME NEW b \in Branch, NEW v \in Caller, SetExtension(b, v)
      PROVE  AtHome' /\ [Branches!Next]_Logical
  <2>1. StoredAt(v) \in Value \cup {Nil}
    BY <1>1, WhatIsStored
  <2> QED
    BY <1>9, <1>1, <1>2, <2>1, AssignAtHome DEF SetExtension
<1>10. ASSUME NEW v \in Caller, CallerEdits(v)
       PROVE  AtHome' /\ [Branches!Next]_Logical
  <2>1. ASSUME NEW c \in Value \cup {Nil}, Assign(v, c)
        PROVE  AtHome' /\ [Branches!Next]_Logical
    BY <2>1, <1>1, <1>2, AssignAtHome
  <2>2. ASSUME NEW x \in Value, EditInPlace(v, x)
        PROVE  AtHome' /\ [Branches!Next]_Logical
    BY <2>2, <1>1, <1>2, EditAtHome
  <2> QED
    BY <1>10, <2>1, <2>2 DEF CallerEdits
<1>11. CASE UNCHANGED vars
  BY <1>11, <1>4 DEF vars, store
<1>12. ASSUME NEW b \in Branch, NEW c \in Branch \ {b}, Clone(b, c)
       PROVE  AtHome' /\ [Branches!Next]_Logical
  BY <1>12, <1>1, <1>8 DEF Clone
<1>13. ASSUME NEW b \in Branch, NEW s \in Snapshot, Capture(b, s) \/ Restore(s, b)
       PROVE  AtHome' /\ [Branches!Next]_Logical
  BY <1>13, <1>1, <1>8 DEF Capture, Restore
<1>14. ASSUME NEW b \in Branch, NEW v \in Caller, Load(v, b)
       PROVE  AtHome' /\ [Branches!Next]_Logical
  BY <1>14, <1>1, <1>8 DEF Load
<1>15. ASSUME NEW v \in Caller, NEW h \in Branch \cup Snapshot, Export(h, v)
       PROVE  AtHome' /\ [Branches!Next]_Logical
  BY <1>15, <1>1, <1>8 DEF Export
<1>16. ASSUME NEW v \in Caller, NEW s \in Snapshot, Import(v, s)
       PROVE  AtHome' /\ [Branches!Next]_Logical
  BY <1>16, <1>1, <1>8 DEF Import
<1> QED
  BY <1>5, <1>6, <1>7, <1>9, <1>10, <1>11, <1>12, <1>13, <1>14, <1>15, <1>16 DEF Next

LEMMA StartsAtHome ==
  ASSUME Init
  PROVE  AtHome /\ Branches!Init
<1>1. AtHome
  BY DEF Init, StoreInit, AtHome, Object
<1>2. Logical \in [Place -> Value \cup {Nil}]
  BY <1>1, WhatIsStored DEF Logical
<1> QED
  BY <1>1, <1>2 DEF Branches!Init, Branches!Place, Place

(* No two places ever reach the same dictionary or the same container:     *)
(* every boundary of the kernel copies at both levels.                     *)
NothingShared ==
  \A g, h \in Place : g # h =>
    /\ dict[g] # dict[h]
    /\ held[dict[g]] = held[dict[h]] => held[dict[g]] = Nil

THEOREM NothingIsShared == Spec => []NothingShared
<1>1. AtHome => NothingShared
  BY DEF AtHome, NothingShared
<1> QED
  BY <1>1, StartsAtHome, OneStep, PTL DEF Spec

(* Whatever the sandboxes are asked to do, each of them, every snapshot    *)
(* and every exported dictionary behaves as a value of its own.            *)
THEOREM KernelIsIsolated == Spec => BranchesIsolated
  BY StartsAtHome, OneStep, PTL DEF Spec, BranchesIsolated, Branches!IsolatedSpec

-----------------------------------------------------------------------------
(* The traces.  The inductive invariant knows more than that ids increase: *)
(* an event's id is its position, so counting on after the largest id is   *)
(* counting on after the length.                                           *)

Positional(events) == \A i \in DOMAIN events : events[i].id = i

GoodTrace(events) ==
  /\ events \in Seq(Event)
  /\ Positional(events)
  /\ WellNested(events)

GoodTraces ==
  /\ trace \in [Branch \cup Snapshot -> Seq(Event)]
  /\ \A h \in Branch \cup Snapshot : GoodTrace(trace[h])
  /\ nextId \in [Branch -> Nat]
  /\ \A b \in Branch : nextId[b] = Len(trace[b]) + 1

LEMMA LargestOfInterval ==
  ASSUME NEW n \in Nat
  PROVE  Max(0 .. n) = n
<1>1. n \in 0 .. n /\ \A k \in 0 .. n : n >= k
  OBVIOUS
<1>2. ASSUME NEW m \in 0 .. n, \A k \in 0 .. n : m >= k
      PROVE  m = n
  <2>1. m >= n
    BY <1>1, <1>2
  <2> QED
    BY <2>1
<1> QED
  BY <1>1, <1>2 DEF Max

LEMMA IdAfterIsLength ==
  ASSUME NEW events \in Seq(Event), Positional(events)
  PROVE  IdAfter(events) = Len(events) + 1
<1> DEFINE ids == {0} \cup {events[i].id : i \in DOMAIN events}
<1>1. DOMAIN events = 1 .. Len(events) /\ Len(events) \in Nat
  OBVIOUS
<1>2. ids = 0 .. Len(events)
  BY <1>1 DEF Positional
<1> QED
  BY <1>1, <1>2, LargestOfInterval DEF IdAfter

LEMMA Joined ==
  ASSUME NEW s \in Seq(Event), NEW t \in Seq(Event)
  PROVE  /\ s \o t \in Seq(Event)
         /\ Len(s \o t) = Len(s) + Len(t)
         /\ \A i \in 1 .. Len(s) : (s \o t)[i] = s[i]
         /\ \A i \in 1 .. Len(t) : (s \o t)[Len(s) + i] = t[i]
<1>1. Len(s) \in Nat /\ Len(t) \in Nat
  OBVIOUS
<1>2. \A i \in 1 .. Len(s) + Len(t) :
        (s \o t)[i] = IF i <= Len(s) THEN s[i] ELSE t[i - Len(s)]
  BY ConcatProperties
<1>3. \A i \in 1 .. Len(s) : (s \o t)[i] = s[i]
  BY <1>1, <1>2
<1>4. ASSUME NEW i \in 1 .. Len(t)
      PROVE  (s \o t)[Len(s) + i] = t[i]
  <2>1. /\ Len(s) + i \in 1 .. Len(s) + Len(t)
        /\ ~(Len(s) + i <= Len(s))
        /\ (Len(s) + i) - Len(s) = i
    BY <1>1
  <2> QED
    BY <1>2, <2>1
<1> QED
  BY <1>3, <1>4, ConcatProperties

(* What a call records when n events are there already: k pairs, and r is  *)
(* 1 if the implementation returned.                                       *)
CallShape(call, n, k, r) ==
  /\ Len(call) = 1 + 2 * k + r
  /\ call[1] = Started(n + 1)
  /\ \A j \in 1 .. k : /\ call[2 * j] = Started(n + 2 * j)
                      /\ call[2 * j + 1] = Finished(n + 2 * j + 1, n + 2 * j)
  /\ r = 1 => call[2 * k + 2] = Finished(n + 2 * k + 2, n + 1)

(* Every position of a call is its start, one half of a pair, or its end.  *)
LEMMA Positions ==
  ASSUME NEW k \in Nat, NEW r \in {0, 1}, NEW i \in 1 .. 1 + 2 * k + r
  PROVE  \/ i = 1
         \/ \E j \in 1 .. k : i = 2 * j
         \/ \E j \in 1 .. k : i = 2 * j + 1
         \/ r = 1 /\ i = 2 * k + 2
<1>1. PICK j \in Int : i = 2 * j \/ i = 2 * j + 1
  <2>1. /\ i \div 2 \in Int
        /\ i = 2 * (i \div 2) \/ i = 2 * (i \div 2) + 1
    OBVIOUS
  <2> QED
    BY <2>1
<1>2. CASE j \in 1 .. k
  BY <1>1, <1>2
<1>3. CASE j \notin 1 .. k
  BY <1>1, <1>3
<1> QED
  BY <1>2, <1>3

LEMMA WhatACallRecords ==
  ASSUME NEW n \in Nat, NEW k \in Nat, NEW returned \in BOOLEAN,
         NEW call, call = CallEvents(n + 1, k, returned)
  PROVE  call \in Seq(Event) /\ \E r \in {0, 1} : CallShape(call, n, k, r)
<1>1. PICK r \in {0, 1} : (returned => r = 1) /\ (~returned => r = 0)
  OBVIOUS
<1> DEFINE last == 1 + 2 * k + r
           EventAt(i) == CASE i = 1 -> Started(n + 1)
                           [] i \in 2 .. 1 + 2 * k /\ i % 2 = 0 -> Started((n + 1) + i - 1)
                           [] i \in 2 .. 1 + 2 * k /\ i % 2 = 1 ->
                                Finished((n + 1) + i - 1, (n + 1) + i - 2)
                           [] i = (1 + 2 * k) + 1 -> Finished((n + 1) + i - 1, n + 1)
<1>2. call = [i \in 1 .. last |-> EventAt(i)]
  <2>1. (IF returned THEN (1 + 2 * k) + 1 ELSE 1 + 2 * k) = last
    BY <1>1
  <2> QED
    BY <2>1 DEF CallEvents
<1>3. EventAt(1) = Started(n + 1)
  OBVIOUS
<1>4. ASSUME NEW j \in 1 .. k
      PROVE  /\ EventAt(2 * j) = Started(n + 2 * j)
             /\ EventAt(2 * j + 1) = Finished(n + 2 * j + 1, n + 2 * j)
  <2>1. /\ 2 * j \in 2 .. 1 + 2 * k /\ (2 * j) % 2 = 0
        /\ (n + 1) + 2 * j - 1 = n + 2 * j
    OBVIOUS
  <2>2. /\ 2 * j + 1 \in 2 .. 1 + 2 * k /\ (2 * j + 1) % 2 = 1
        /\ (n + 1) + (2 * j + 1) - 1 = n + 2 * j + 1
        /\ (n + 1) + (2 * j + 1) - 2 = n + 2 * j
    OBVIOUS
  <2>3. EventAt(2 * j) = Started(n + 2 * j)
    BY <2>1
  <2>4. EventAt(2 * j + 1) = Finished(n + 2 * j + 1, n + 2 * j)
    BY <2>2
  <2> QED
    BY <2>3, <2>4
<1>5. EventAt(2 * k + 2) = Finished(n + 2 * k + 2, n + 1)
  <2>1. /\ 2 * k + 2 = (1 + 2 * k) + 1 /\ 2 * k + 2 \notin 2 .. 1 + 2 * k
        /\ 2 * k + 2 # 1 /\ (n + 1) + (2 * k + 2) - 1 = n + 2 * k + 2
    OBVIOUS
  <2> QED
    BY <2>1
<1>6. last \in Nat
  OBVIOUS
<1> HIDE DEF EventAt
<1>7. ASSUME NEW i \in 1 .. last
      PROVE  EventAt(i) \in Event
  <2>1. \A a \in Nat : Started(a) \in Event
    BY DEF Started, Event
  <2>2. \A a, c \in Nat : Finished(a, c) \in Event
    BY DEF Finished, Event
  <2>3. CASE i = 1
    BY <1>3, <2>1, <2>3
  <2>4. ASSUME NEW j \in 1 .. k, i = 2 * j
        PROVE  EventAt(i) \in Event
    BY <1>4, <2>1, <2>4
  <2>5. ASSUME NEW j \in 1 .. k, i = 2 * j + 1
        PROVE  EventAt(i) \in Event
    BY <1>4, <2>2, <2>5
  <2>6. CASE i = 2 * k + 2
    BY <1>5, <2>2, <2>6
  <2> QED
    BY <2>3, <2>4, <2>5, <2>6, Positions
<1>8. call \in Seq(Event) /\ Len(call) = last /\ \A i \in 1 .. last : call[i] = EventAt(i)
  BY <1>2, <1>6, <1>7
<1>9. ASSUME NEW j \in 1 .. k
      PROVE  /\ call[2 * j] = Started(n + 2 * j)
             /\ call[2 * j + 1] = Finished(n + 2 * j + 1, n + 2 * j)
  <2>1. 2 * j \in 1 .. last /\ 2 * j + 1 \in 1 .. last
    OBVIOUS
  <2> QED
    BY <1>4, <1>8, <2>1
<1>10. call[1] = Started(n + 1)
  BY <1>3, <1>6, <1>8
<1>11. ASSUME r = 1
       PROVE  call[2 * k + 2] = Finished(n + 2 * k + 2, n + 1)
  BY <1>5, <1>8, <1>11
<1>12. CallShape(call, n, k, r)
  BY <1>8, <1>9, <1>10, <1>11 DEF CallShape
<1> QED
  BY <1>8, <1>12

LEMMA EndsKept ==
  ASSUME NEW old, NEW new, NEW n \in Nat, \A i \in 1 .. n : new[i] = old[i],
         NEW i \in 1 .. n, NEW j \in 1 .. n
  PROVE  Ends(new, i, j) <=> Ends(old, i, j)
  BY DEF Ends

LEMMA CallKeepsGood ==
  ASSUME NEW events, GoodTrace(events),
         NEW k \in Nat, NEW returned \in BOOLEAN, NEW call,
         call = CallEvents(Len(events) + 1, k, returned)
  PROVE  /\ GoodTrace(events \o call)
         /\ call \in Seq(Event)
         /\ Len(events \o call) = Len(events) + Len(call)
<1> DEFINE n == Len(events)
           all == events \o call
<1>1. n \in Nat /\ DOMAIN events = 1 .. n /\ events \in Seq(Event)
  BY DEF GoodTrace
<1>2. call \in Seq(Event)
  BY <1>1, WhatACallRecords
<1>3. PICK r \in {0, 1} : CallShape(call, n, k, r)
  BY <1>1, WhatACallRecords
<1> DEFINE last == n + 1 + 2 * k + r
<1>4. /\ all \in Seq(Event)
      /\ Len(all) = last
      /\ \A i \in 1 .. n : all[i] = events[i]
      /\ \A i \in 1 .. 1 + 2 * k + r : all[n + i] = call[i]
  <2>1. Len(call) = 1 + 2 * k + r
    BY <1>3 DEF CallShape
  <2>2. /\ all \in Seq(Event)
        /\ Len(all) = n + Len(call)
        /\ \A i \in 1 .. n : all[i] = events[i]
        /\ \A i \in 1 .. Len(call) : all[n + i] = call[i]
    BY <1>1, <1>2, Joined
  <2> HIDE DEF all
  <2> QED
    BY <1>1, <1>3, <2>1, <2>2
<1> HIDE DEF all, n
<1>5. DOMAIN all = 1 .. last
  BY <1>4
<1>6. all[n + 1] = Started(n + 1)
  BY <1>3, <1>4 DEF CallShape
<1>7. ASSUME NEW j \in 1 .. k
      PROVE  /\ all[n + 2 * j] = Started(n + 2 * j)
             /\ all[n + 2 * j + 1] = Finished(n + 2 * j + 1, n + 2 * j)
  <2>1. 2 * j \in 1 .. 1 + 2 * k + r /\ 2 * j + 1 \in 1 .. 1 + 2 * k + r
    OBVIOUS
  <2>2. all[n + 2 * j] = call[2 * j] /\ all[n + (2 * j + 1)] = call[2 * j + 1]
    BY <1>4, <2>1
  <2>3. n + (2 * j + 1) = n + 2 * j + 1
    BY <1>1
  <2> QED
    BY <1>3, <2>2, <2>3 DEF CallShape
<1>8. ASSUME r = 1
      PROVE  all[n + 2 * k + 2] = Finished(n + 2 * k + 2, n + 1)
  <2>1. 2 * k + 2 \in 1 .. 1 + 2 * k + r /\ n + (2 * k + 2) = n + 2 * k + 2
    BY <1>1, <1>8
  <2> QED
    BY <1>3, <1>4, <1>8, <2>1 DEF CallShape
<1>9. ASSUME NEW i \in 1 .. last
      PROVE  \/ i <= n
             \/ i = n + 1
             \/ \E j \in 1 .. k : i = n + 2 * j
             \/ \E j \in 1 .. k : i = n + 2 * j + 1
             \/ r = 1 /\ i = n + 2 * k + 2
  <2>1. CASE i > n
    <3> DEFINE at == i - n
    <3>1. at \in 1 .. 1 + 2 * k + r /\ i = n + at
      BY <1>1, <2>1
    <3> HIDE DEF at
    <3>2. \/ at = 1
          \/ \E j \in 1 .. k : at = 2 * j
          \/ \E j \in 1 .. k : at = 2 * j + 1
          \/ r = 1 /\ at = 2 * k + 2
      BY <3>1, Positions
    <3> QED
      BY <1>1, <3>1, <3>2
  <2> QED
    BY <1>1, <2>1
<1>10. Positional(all)
  <2>1. ASSUME NEW i \in 1 .. last
        PROVE  all[i].id = i
    <3>1. CASE i <= n
      BY <1>1, <1>4, <3>1 DEF GoodTrace, Positional
    <3>2. CASE i = n + 1
      BY <1>6, <3>2 DEF Started
    <3>3. ASSUME NEW j \in 1 .. k, i = n + 2 * j \/ i = n + 2 * j + 1
          PROVE  all[i].id = i
      <4>1. all[i] = Started(i) \/ all[i] = Finished(i, n + 2 * j)
        BY <1>7, <3>3
      <4> QED
        BY <4>1 DEF Started, Finished
    <3>4. CASE r = 1 /\ i = n + 2 * k + 2
      BY <1>8, <3>4 DEF Finished
    <3> QED
      BY <1>9, <3>1, <3>2, <3>3, <3>4
  <2> QED
    BY <1>5, <2>1 DEF Positional
<1>11. ASSUME NEW j \in 1 .. k
       PROVE  Ends(all, n + 2 * j, n + 2 * j + 1)
  <2> DEFINE half == n + 2 * j
  <2>1. all[half] = Started(half) /\ all[half + 1] = Finished(half + 1, half)
    BY <1>7
  <2>2. half \in Nat
    BY <1>1
  <2> HIDE DEF half
  <2>3. Ends(all, half, half + 1)
    BY <2>1, <2>2 DEF Ends, Started, Finished
  <2> QED
    BY <2>3 DEF half
<1>12. ASSUME NEW j \in 1 .. last, all[j].event = "PrimitiveFinished"
       PROVE  \E i \in 1 .. last : Ends(all, i, j) /\ NothingOpen(all, i, j)
  <2>1. CASE j <= n
    <3>1. j \in 1 .. n /\ events[j].event = "PrimitiveFinished" /\ WellNested(events)
      BY <1>1, <1>4, <1>12, <2>1 DEF GoodTrace
    <3>2. \E i \in DOMAIN events : Ends(events, i, j) /\ NothingOpen(events, i, j)
      BY <1>1, <3>1 DEF WellNested
    <3>3. PICK i \in 1 .. n : Ends(events, i, j) /\ NothingOpen(events, i, j)
      BY <1>1, <3>2
    <3>4. i + 1 .. j - 1 \subseteq 1 .. n /\ i \in 1 .. last
      BY <1>1, <1>3, <2>1
    <3>5. \A p, q \in 1 .. n : Ends(all, p, q) <=> Ends(events, p, q)
      BY <1>1, <1>4, EndsKept
    <3>6. Ends(all, i, j)
      BY <3>1, <3>3, <3>5
    <3>7. NothingOpen(all, i, j)
      <4> SUFFICES ASSUME NEW m \in i + 1 .. j - 1
                   PROVE  \E p, q \in i + 1 .. j - 1 : m \in {p, q} /\ Ends(all, p, q)
        BY DEF NothingOpen
      <4>1. PICK p \in i + 1 .. j - 1, q \in i + 1 .. j - 1 :
              m \in {p, q} /\ Ends(events, p, q)
        BY <3>3 DEF NothingOpen
      <4> QED
        BY <3>4, <3>5, <4>1
    <3> QED
      BY <3>4, <3>6, <3>7
  <2>2. CASE j = n + 1
    BY <1>6, <1>12, <2>2 DEF Started
  <2>3. ASSUME NEW g \in 1 .. k, j = n + 2 * g
        PROVE  FALSE
    <3>1. all[j] = Started(j)
      BY <1>7, <2>3
    <3> QED
      BY <1>12, <3>1 DEF Started
  <2>4. ASSUME NEW g \in 1 .. k, j = n + 2 * g + 1
        PROVE  \E i \in 1 .. last : Ends(all, i, j) /\ NothingOpen(all, i, j)
    <3>1. n + 2 * g \in 1 .. last /\ (n + 2 * g) + 1 .. j - 1 = {}
      BY <1>1, <2>4
    <3>2. NothingOpen(all, n + 2 * g, j)
      BY <3>1 DEF NothingOpen
    <3>3. Ends(all, n + 2 * g, j)
      BY <1>11, <2>4
    <3> QED
      BY <3>1, <3>2, <3>3
  <2>5. CASE r = 1 /\ j = n + 2 * k + 2
    <3>1. Ends(all, n + 1, j) /\ n + 1 \in 1 .. last
      <4>1. n + 1 < j /\ n + 1 \in 1 .. last
        BY <1>1, <2>5
      <4> QED
        BY <1>6, <1>8, <2>5, <4>1 DEF Ends, Started, Finished
    <3>2. ASSUME NEW m \in (n + 1) + 1 .. j - 1
          PROVE  \E p, q \in (n + 1) + 1 .. j - 1 : m \in {p, q} /\ Ends(all, p, q)
      <4>1. m \in 1 .. last /\ ~(m <= n) /\ m # n + 1 /\ m # n + 2 * k + 2
        BY <1>1, <2>5, <3>2
      <4>2. PICK g \in 1 .. k : m \in {n + 2 * g, n + 2 * g + 1}
        BY <1>9, <4>1
      <4>3. /\ n + 2 * g \in (n + 1) + 1 .. j - 1
            /\ n + 2 * g + 1 \in (n + 1) + 1 .. j - 1
        BY <1>1, <2>5
      <4> QED
        BY <1>11, <4>2, <4>3
    <3>3. NothingOpen(all, n + 1, j)
      BY <3>2 DEF NothingOpen
    <3> QED
      BY <3>1, <3>3
  <2> QED
    BY <1>9, <2>1, <2>2, <2>3, <2>4, <2>5
<1>13. \A i, j \in DOMAIN all : i < j => all[i].id < all[j].id
  BY <1>10 DEF Positional
<1>14. WellNested(all)
  BY <1>5, <1>12, <1>13 DEF WellNested
<1>15. Len(call) = 1 + 2 * k + r
  BY <1>3 DEF CallShape
<1> QED
  BY <1>1, <1>2, <1>4, <1>10, <1>14, <1>15 DEF GoodTrace, all, n

LEMMA NoEventsAreGood == GoodTrace(<<>>)
<1>1. DOMAIN <<>> = {} /\ <<>> \in Seq(Event)
  OBVIOUS
<1> QED
  BY <1>1 DEF GoodTrace, Positional, WellNested

LEMMA StartsGood == Init => GoodTraces
<1> SUFFICES ASSUME Init PROVE GoodTraces
  OBVIOUS
<1>1. <<>> \in Seq(Event) /\ Len(<<>>) = 0
  OBVIOUS
<1> QED
  BY <1>1, NoEventsAreGood DEF Init, GoodTraces

(* A branch that goes on from a good trace.                                *)
LEMMA NewTraceKeepsGood ==
  ASSUME GoodTraces, NEW b \in Branch, NEW events, GoodTrace(events), NewTrace(b, events)
  PROVE  GoodTraces'
<1>1. events \in Seq(Event) /\ IdAfter(events) = Len(events) + 1 /\ Len(events) \in Nat
  BY IdAfterIsLength DEF GoodTrace
<1>2. b \in Branch \cup Snapshot
  OBVIOUS
<1>3. trace' = [trace EXCEPT ![b] = events] /\ nextId' = [nextId EXCEPT ![b] = Len(events) + 1]
  BY <1>1 DEF NewTrace
<1>4. trace' \in [Branch \cup Snapshot -> Seq(Event)] /\ nextId' \in [Branch -> Nat]
  BY <1>1, <1>2, <1>3 DEF GoodTraces
<1>5. \A h \in Branch \cup Snapshot : GoodTrace(trace'[h])
  BY <1>2, <1>3 DEF GoodTraces
<1>6. \A c \in Branch : nextId'[c] = Len(trace'[c]) + 1
  BY <1>2, <1>3 DEF GoodTraces
<1> QED
  BY <1>4, <1>5, <1>6 DEF GoodTraces

(* A snapshot that takes a good trace; the identities stay apart from the  *)
(* branches' ones.                                                         *)
LEMMA SnapshotKeepsGood ==
  ASSUME GoodTraces, NEW s \in Snapshot, NEW events, GoodTrace(events),
         trace' = [trace EXCEPT ![s] = events], UNCHANGED nextId
  PROVE  GoodTraces'
<1>1. events \in Seq(Event) /\ s \in Branch \cup Snapshot /\ s \notin Branch
  BY StoreAssumption DEF GoodTrace
<1>2. trace' \in [Branch \cup Snapshot -> Seq(Event)]
  BY <1>1 DEF GoodTraces
<1>3. \A h \in Branch \cup Snapshot : GoodTrace(trace'[h])
  BY <1>1 DEF GoodTraces
<1>4. ASSUME NEW c \in Branch
      PROVE  nextId'[c] = Len(trace'[c]) + 1
  <2>1. nextId'[c] = nextId[c] /\ trace'[c] = trace[c]
    BY <1>1 DEF GoodTraces
  <2> QED
    BY <2>1 DEF GoodTraces
<1> QED
  BY <1>2, <1>3, <1>4 DEF GoodTraces

LEMMA ExecuteKeepsGood ==
  ASSUME GoodTraces, NEW b \in Branch, Execute(b)
  PROVE  GoodTraces'
<1>1. PICK k \in 0 .. MaxEvents, returned \in BOOLEAN :
        Record(b, CallEvents(nextId[b], k, returned))
  BY DEF Execute
<1>10. k \in Nat
  BY BoundAssumption
<1> DEFINE call == CallEvents(Len(trace[b]) + 1, k, returned)
           all == trace[b] \o call
<1>2. nextId[b] = Len(trace[b]) + 1 /\ GoodTrace(trace[b]) /\ b \in Branch \cup Snapshot
  BY DEF GoodTraces
<1>3. GoodTrace(all) /\ call \in Seq(Event) /\ Len(all) = Len(trace[b]) + Len(call)
  BY <1>2, <1>10, CallKeepsGood
<1>4. trace' = [trace EXCEPT ![b] = all] /\ nextId' = [nextId EXCEPT ![b] = nextId[b] + Len(call)]
  BY <1>1, <1>2 DEF Record
<1>5. Len(trace[b]) \in Nat /\ Len(call) \in Nat /\ all \in Seq(Event)
  BY <1>2, <1>3 DEF GoodTrace
<1> HIDE DEF call, all
<1>6. trace' \in [Branch \cup Snapshot -> Seq(Event)]
  BY <1>2, <1>4, <1>5 DEF GoodTraces
<1>7. nextId' \in [Branch -> Nat]
  BY <1>2, <1>4, <1>5 DEF GoodTraces
<1>8. \A h \in Branch \cup Snapshot : GoodTrace(trace'[h])
  BY <1>2, <1>3, <1>4 DEF GoodTraces
<1>9. ASSUME NEW c \in Branch
      PROVE  nextId'[c] = Len(trace'[c]) + 1
  <2>1. CASE c = b
    <3>1. nextId'[b] = nextId[b] + Len(call) /\ trace'[b] = all
      BY <1>2, <1>4 DEF GoodTraces
    <3> QED
      BY <1>2, <1>3, <1>5, <2>1, <3>1
  <2>2. CASE c # b
    <3>1. nextId'[c] = nextId[c] /\ trace'[c] = trace[c]
      BY <1>4, <2>2 DEF GoodTraces
    <3> QED
      BY <3>1 DEF GoodTraces
  <2> QED
    BY <2>1, <2>2
<1> QED
  BY <1>6, <1>7, <1>8, <1>9 DEF GoodTraces

LEMMA StaysGood == GoodTraces /\ [Next]_vars => GoodTraces'
<1> SUFFICES ASSUME GoodTraces, [Next]_vars PROVE GoodTraces'
  OBVIOUS
<1>1. CASE UNCHANGED <<trace, nextId>>
  BY <1>1 DEF GoodTraces
<1>2. ASSUME NEW b \in Branch, Execute(b)
      PROVE  GoodTraces'
  BY <1>2, ExecuteKeepsGood
<1>3. ASSUME NEW b \in Branch, NEW events, GoodTrace(events), NewTrace(b, events)
      PROVE  GoodTraces'
  BY <1>3, NewTraceKeepsGood
<1>4. \A h \in Branch \cup Snapshot : GoodTrace(trace[h])
  BY DEF GoodTraces
<1>5. ASSUME NEW b \in Branch, NEW c \in Branch, Clone(b, c)
      PROVE  GoodTraces'
  <2>1. PICK events \in {<<>>, trace[b]} : NewTrace(c, events)
    BY <1>5 DEF Clone
  <2>2. GoodTrace(events)
    BY <1>4, <2>1, NoEventsAreGood
  <2> QED
    BY <1>3, <2>1, <2>2
<1>6. ASSUME NEW b \in Branch, Reset(b) \/ \E v \in Caller : Load(v, b)
      PROVE  GoodTraces'
  BY <1>3, <1>6, NoEventsAreGood DEF Reset, Load
<1>7. ASSUME NEW s \in Snapshot, NEW b \in Branch, Restore(s, b)
      PROVE  GoodTraces'
  BY <1>3, <1>4, <1>7 DEF Restore
<1>8. ASSUME NEW b \in Branch, NEW s \in Snapshot, Capture(b, s)
      PROVE  GoodTraces'
  BY <1>4, <1>8, SnapshotKeepsGood DEF Capture
<1>9. ASSUME NEW v \in Caller, NEW s \in Snapshot, Import(v, s)
      PROVE  GoodTraces'
  BY <1>9, NoEventsAreGood, SnapshotKeepsGood DEF Import
<1>10. ASSUME \/ \E b \in Branch : RemoveExtension(b)
              \/ \E b \in Branch, v \in Caller : SetExtension(b, v)
              \/ \E v \in Caller : CallerEdits(v)
              \/ \E v \in Caller, h \in Branch \cup Snapshot : Export(h, v)
       PROVE  UNCHANGED <<trace, nextId>>
  BY <1>10 DEF RemoveExtension, SetExtension, CallerEdits, Export
<1> QED
  BY <1>1, <1>2, <1>5, <1>6, <1>7, <1>8, <1>9, <1>10 DEF Next, vars

(* The kernel's types.                                                     *)
THEOREM KernelTyped == Spec => []TypeOK
<1>1. AtHome /\ GoodTraces => TypeOK
  <2> SUFFICES ASSUME AtHome, GoodTraces PROVE TypeOK
    OBVIOUS
  <2>1. dict \in [Place -> Object]
    BY DEF AtHome, Object
  <2>2. ASSUME NEW b \in Branch
        PROVE  nextId[b] \in Nat \ {0}
    <3>1. trace[b] \in Seq(Event) /\ nextId[b] = Len(trace[b]) + 1
      BY DEF GoodTraces
    <3> QED
      BY <3>1
  <2>3. nextId \in [Branch -> Nat \ {0}]
    BY <2>2 DEF GoodTraces
  <2> QED
    BY <2>1, <2>3 DEF AtHome, GoodTraces, TypeOK
<1> QED
  BY <1>1, StartsAtHome, OneStep, StartsGood, StaysGood, PTL DEF Spec

(* Every trace, over clones, restores and failed calls, can be read back.  *)
THEOREM TracesAreReadBack == Spec => []TracesReadBack
<1>1. GoodTraces => TracesReadBack
  BY IdAfterIsLength DEF GoodTraces, GoodTrace, TracesReadBack
<1> QED
  BY <1>1, StartsGood, StaysGood, PTL DEF Spec
=============================================================================
