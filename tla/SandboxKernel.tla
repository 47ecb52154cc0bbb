----------------------------- MODULE SandboxKernel -----------------------------
(***************************************************************************)
(* The sandbox kernel: the executor with its trace, and everything that    *)
(* makes one battle state from another - clone, reset, snapshot, restore,  *)
(* to_dict and from_dict.  What a primitive computes is left open: it may  *)
(* read, assign a key or change a nested container in place, announce      *)
(* boundaries to the trace, and return or raise after any of that.  The    *)
(* generator and the context's target entities are immutable values that   *)
(* are copied or dropped in the same calls; they are not kept here.        *)
(* Source: battle_sandbox/executor.py, trace.py, context.py, sandbox.py,   *)
(* snapshot.py.                                                            *)
(***************************************************************************)
EXTENDS SandboxStore, Integers, Sequences, FiniteSetsExt

CONSTANT MaxEvents  \* bound: no call makes a trace longer

ASSUME BoundAssumption == MaxEvents \in Nat

VARIABLES trace,   \* trace[h]: events of a branch or in a snapshot
          nextId   \* nextId[b]: the id a branch gives next

vars == <<dict, held, item, trace, nextId>>

Started(n) == [event |-> "PrimitiveStarted", id |-> n, of |-> n]
Finished(n, s) == [event |-> "PrimitiveFinished", id |-> n, of |-> s]

(* ExecutionTrace(events): counting goes on after the largest id.          *)
IdAfter(events) == Max({0} \cup {events[i].id : i \in DOMAIN events}) + 1

(* What one call records: its start, a pair for every boundary announced   *)
(* on the way, and its end unless the implementation raised.               *)
CallEvents(n, boundaries, returned) ==
  LET paired == 1 + 2 * boundaries
      EventAt(i) == CASE i = 1 -> Started(n)
                      [] i \in 2 .. paired /\ i % 2 = 0 -> Started(n + i - 1)
                      [] i \in 2 .. paired /\ i % 2 = 1 -> Finished(n + i - 1, n + i - 2)
                      [] i = paired + 1 -> Finished(n + i - 1, n)
  IN [i \in 1 .. IF returned THEN paired + 1 ELSE paired |-> EventAt(i)]

Record(b, events) ==
  /\ Len(trace[b]) + Len(events) <= MaxEvents
  /\ trace' = [trace EXCEPT ![b] = @ \o events]
  /\ nextId' = [nextId EXCEPT ![b] = @ + Len(events)]

(* Slip: a trace that was read back counts from one again.                 *)
NewTraceCountsFromOne(b, events) ==
  /\ trace' = [trace EXCEPT ![b] = events]
  /\ nextId' = [nextId EXCEPT ![b] = 1]

NewTrace(b, events) ==
  /\ trace' = [trace EXCEPT ![b] = events]
  /\ nextId' = [nextId EXCEPT ![b] = IdAfter(events)]

Init ==
  /\ StoreInit
  /\ trace = [h \in Branch \cup Snapshot |-> <<>>]
  /\ nextId = [b \in Branch |-> 1]

(* PrimitiveExecutor.execute: whatever was written before a raise stays.   *)
Execute(b) ==
  /\ \E boundaries \in 0 .. MaxEvents, returned \in BOOLEAN :
       Record(b, CallEvents(nextId[b], boundaries, returned))
  /\ \/ UNCHANGED store
     \/ \E c \in Value \cup {Nil} : Assign(b, c)
     \/ \E v \in Value : EditInPlace(b, v)

(* BattleState.set_extension with a container the caller keeps.            *)
SetExtension(b, v) ==
  /\ StoredAt(v) # Nil
  /\ Assign(b, StoredAt(v))
  /\ UNCHANGED <<trace, nextId>>

RemoveExtension(b) ==
  /\ Assign(b, Nil)
  /\ UNCHANGED <<trace, nextId>>

(* ExecutionContext.clone, with or without the trace.                      *)
Clone(b, c) ==
  /\ DeepCopy(b, c)
  /\ \E events \in {<<>>, trace[b]} : NewTrace(c, events)

(* Sandbox.reset                                                           *)
Reset(b) ==
  /\ Fresh(b)
  /\ NewTrace(b, <<>>)

(* capture_snapshot                                                        *)
Capture(b, s) ==
  /\ DeepCopy(b, s)
  /\ trace' = [trace EXCEPT ![s] = trace[b]]
  /\ UNCHANGED nextId

(* SandboxSnapshot.restore_context                                         *)
Restore(s, b) ==
  /\ DeepCopy(s, b)
  /\ NewTrace(b, trace[s])

(* to_dict of a state or a snapshot, or a snapshot's properties.           *)
Export(h, v) ==
  /\ DeepCopy(h, v)
  /\ UNCHANGED <<trace, nextId>>

(* SandboxSnapshot.from_dict without the optional trace.                   *)
Import(v, s) ==
  /\ DeepCopy(v, s)
  /\ trace' = [trace EXCEPT ![s] = <<>>]
  /\ UNCHANGED nextId

(* A context of its own around BattleState.from_dict.                      *)
Load(v, b) ==
  /\ DeepCopy(v, b)
  /\ NewTrace(b, <<>>)

(* A caller changes a dictionary it was given, at either level.            *)
CallerEdits(v) ==
  /\ \/ \E c \in Value \cup {Nil} : Assign(v, c)
     \/ \E x \in Value : EditInPlace(v, x)
  /\ UNCHANGED <<trace, nextId>>

Next ==
  \/ \E b \in Branch :
       \/ Execute(b)
       \/ RemoveExtension(b)
       \/ Reset(b)
       \/ \E c \in Branch \ {b} : Clone(b, c)
       \/ \E s \in Snapshot : Capture(b, s) \/ Restore(s, b)
       \/ \E v \in Caller : SetExtension(b, v) \/ Load(v, b)
  \/ \E v \in Caller :
       \/ CallerEdits(v)
       \/ \E h \in Branch \cup Snapshot : Export(h, v)
       \/ \E s \in Snapshot : Import(v, s)

Spec == Init /\ [][Next]_vars

-----------------------------------------------------------------------------
(* Properties                                                              *)

Event == [event : {"PrimitiveStarted", "PrimitiveFinished"}, id : Nat, of : Nat]

TypeOK ==
  /\ dict \in [Place -> Object]
  /\ held \in [Object -> Object \cup {Nil}]
  /\ item \in [Object -> Value \cup {Nil}]
  /\ trace \in [Branch \cup Snapshot -> Seq(Event)]
  /\ nextId \in [Branch -> Nat \ {0}]

(* The logical state of a place.                                           *)
Logical == [h \in Place |-> StoredAt(h)]

Branches == INSTANCE IsolatedBranches
  WITH content <- Logical, Content <- Value \cup {Nil}

(* Clones, snapshots, exports and imports behave like values: no sequence  *)
(* of calls and edits on one of them, in place or not, failing or not,     *)
(* changes the logical state of another.                                   *)
BranchesIsolated == Branches!IsolatedSpec

Ends(events, i, j) ==
  /\ i < j
  /\ events[i].event = "PrimitiveStarted"
  /\ events[j].event = "PrimitiveFinished"
  /\ events[j].of = events[i].id

NothingOpen(events, i, j) ==
  \A k \in i + 1 .. j - 1 :
    \E p, q \in i + 1 .. j - 1 : k \in {p, q} /\ Ends(events, p, q)

WellNested(events) ==
  /\ \A i, j \in DOMAIN events : i < j => events[i].id < events[j].id
  /\ \A j \in DOMAIN events :
       events[j].event = "PrimitiveFinished" =>
         \E i \in DOMAIN events : Ends(events, i, j) /\ NothingOpen(events, i, j)

(* A trace can be read back: ids increase, also over clones that take the  *)
(* trace along and over restores, every end belongs to one earlier start,  *)
(* and within a call that finished nothing is left open - an open start is *)
(* a call that raised, not one still to be closed.                         *)
TracesReadBack ==
  /\ \A h \in Branch \cup Snapshot : WellNested(trace[h])
  /\ \A b \in Branch : nextId[b] = IdAfter(trace[b])
=============================================================================
