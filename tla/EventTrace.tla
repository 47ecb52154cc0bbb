----------------------------- MODULE EventTrace -----------------------------
(***************************************************************************)
(* The event tracer (game_data/semantic_event_trace.py): entrypoints are   *)
(* registered for events, and a trace dispatches a queue of events to      *)
(* them, operation by operation, each with its children, while operations  *)
(* emit further events.  The recursion over children is an agenda.         *)
(***************************************************************************)
EXTENDS Integers, SequencesExt

CONSTANTS Event, NoEvent,
          OperationId,
          ChildrenOf,   \* operations of the child groups, in their order
          EmitsOf,      \* nested_events_after_operation
          Uncompiled,   \* operations that are opaque or require a packet
          Entrypoints,  \* records of an event, a priority and operations
          MaxRegistrations, MaxGiven  \* bounds

ASSUME EventAssumption ==
  /\ NoEvent \notin Event /\ Uncompiled \subseteq OperationId
  /\ ChildrenOf \in [OperationId -> Seq(OperationId)]
  /\ EmitsOf \in [OperationId -> Seq(Event)]
  /\ \A l \in Entrypoints :
       l.event \in Event /\ l.priority \in Int /\ l.operations \in Seq(OperationId)

(* The children of an operation are inside it.                             *)
ASSUME NestingAssumption ==
  /\ IsFiniteSet(OperationId)
  /\ \E height \in [OperationId -> 0 .. Cardinality(OperationId)] :
       \A o \in OperationId : \A i \in DOMAIN ChildrenOf[o] :
         height[ChildrenOf[o][i]] < height[o]

VARIABLES registrations,  \* in the order of their registration_sequence
          mode,           \* "idle", or a trace that is "strict" or "lenient"
          pending,        \* the events to be dispatched
          dispatched,     \* the event that is being dispatched
          eventSequence,  \* number of events that were
          agenda,         \* what is left of it
          emitted,        \* by its operations so far
          queued,         \* all events of the trace
          trace,
          executable      \* no operation was blocked

eventVars == <<registrations, mode, pending, dispatched, eventSequence, agenda,
               emitted, queued, trace, executable>>

Enter(r, operations) ==
  [i \in DOMAIN operations |->
     [registration |-> r, operation |-> operations[i], entered |-> FALSE]]

(* The registrations of an event, sorted by priority, then by sequence.    *)
Registered(e) == {r \in DOMAIN registrations : registrations[r].event = e}
Earlier(r, s) ==
  \/ registrations[r].priority < registrations[s].priority
  \/ registrations[r].priority = registrations[s].priority /\ r < s
Matching(e) ==
  CHOOSE l \in [1 .. Cardinality(Registered(e)) -> Registered(e)] :
    \A i, j \in DOMAIN l : i < j => Earlier(l[i], l[j])

-----------------------------------------------------------------------------
EventInit ==
  /\ registrations = <<>> /\ mode = "idle" /\ dispatched = NoEvent
  /\ pending = <<>> /\ agenda = <<>> /\ emitted = <<>> /\ queued = <<>> /\ trace = <<>>
  /\ eventSequence = 0 /\ executable = TRUE

(* register; an identifier that is taken raises.                           *)
Register(entrypoint) ==
  /\ mode = "idle" /\ Len(registrations) < MaxRegistrations
  /\ registrations' = Append(registrations, entrypoint)
  /\ UNCHANGED <<mode, pending, dispatched, eventSequence, agenda, emitted, queued,
                 trace, executable>>

(* trace is called.                                                        *)
Trace(events, m) ==
  /\ mode = "idle"
  /\ mode' = m /\ pending' = events /\ queued' = events
  /\ UNCHANGED <<registrations, dispatched, eventSequence, agenda, emitted, trace, executable>>

DispatchEvent ==
  /\ mode # "idle" /\ dispatched = NoEvent /\ pending # <<>>
  /\ dispatched' = Head(pending) /\ pending' = Tail(pending)
  /\ agenda' = FlattenSeq([i \in DOMAIN Matching(dispatched') |->
                             LET r == Matching(dispatched')[i]
                             IN Enter(r, registrations[r].operations)])
  /\ UNCHANGED <<registrations, mode, eventSequence, emitted, queued, trace, executable>>

(* _trace_operation down to its children, ...                              *)
EnterOperation ==
  LET item == Head(agenda)
      o == item.operation
  IN /\ agenda # <<>> /\ ~item.entered
     /\ ~(mode = "strict" /\ o \in Uncompiled)
     /\ trace' = Append(trace, [at |-> eventSequence, by |-> item.registration, operation |-> o])
     /\ executable' = (executable /\ o \notin Uncompiled)
     /\ agenda' = Enter(item.registration, ChildrenOf[o])
                    \o <<[item EXCEPT !.entered = TRUE]>> \o Tail(agenda)
     /\ UNCHANGED <<registrations, mode, pending, dispatched, eventSequence, emitted, queued>>

(* ... and after them.                                                     *)
LeaveOperation ==
  /\ agenda # <<>> /\ Head(agenda).entered
  /\ emitted' = emitted \o EmitsOf[Head(agenda).operation]
  /\ agenda' = Tail(agenda)
  /\ UNCHANGED <<registrations, mode, pending, dispatched, eventSequence, queued, trace, executable>>

EndEventNested ==  \* mutant
  /\ dispatched # NoEvent /\ agenda = <<>>
  /\ pending' = emitted \o pending /\ queued' = queued \o emitted
  /\ dispatched' = NoEvent /\ emitted' = <<>> /\ eventSequence' = eventSequence + 1
  /\ UNCHANGED <<registrations, mode, agenda, trace, executable>>

EndEvent ==
  /\ dispatched # NoEvent /\ agenda = <<>>
  /\ pending' = pending \o emitted /\ queued' = queued \o emitted
  /\ dispatched' = NoEvent /\ emitted' = <<>> /\ eventSequence' = eventSequence + 1
  /\ UNCHANGED <<registrations, mode, agenda, trace, executable>>

(* The result is returned, or an uncompiled operation raises.              *)
TraceEnds ==
  /\ mode # "idle"
  /\ \/ dispatched = NoEvent /\ pending = <<>>
     \/ /\ mode = "strict" /\ agenda # <<>>
        /\ ~Head(agenda).entered /\ Head(agenda).operation \in Uncompiled
  /\ mode' = "idle" /\ dispatched' = NoEvent
  /\ pending' = <<>> /\ agenda' = <<>> /\ emitted' = <<>> /\ queued' = <<>> /\ trace' = <<>>
  /\ eventSequence' = 0 /\ executable' = TRUE
  /\ UNCHANGED registrations

EventNext ==
  \/ \E entrypoint \in Entrypoints : Register(entrypoint)
  \/ \E n \in 1 .. MaxGiven, m \in {"strict", "lenient"} :
       \E events \in [1 .. n -> Event] : Trace(events, m)
  \/ DispatchEvent \/ EnterOperation \/ LeaveOperation \/ EndEvent \/ TraceEnds

EventSpec == EventInit /\ [][EventNext]_eventVars

-----------------------------------------------------------------------------
(* What a trace should be: the operations of a registration depth first,   *)
(* their events as they are left, ...                                      *)
DepthFirst[o \in OperationId] ==
  <<o>> \o FlattenSeq([i \in DOMAIN ChildrenOf[o] |-> DepthFirst[ChildrenOf[o][i]]])
Emissions[o \in OperationId] ==
  FlattenSeq([i \in DOMAIN ChildrenOf[o] |-> Emissions[ChildrenOf[o][i]]]) \o EmitsOf[o]

(* ... the registrations of an event in their order: the k-th is the one   *)
(* that k - 1 others precede.                                              *)
Listeners(e) ==
  [k \in 1 .. Cardinality(Registered(e)) |->
     CHOOSE r \in Registered(e) : Cardinality({s \in Registered(e) : Earlier(s, r)}) = k - 1]

(* What the operations of a registration give, over the listeners of e.    *)
OverListeners(e, gives) ==
  FlattenSeq([k \in DOMAIN Listeners(e) |->
    LET r == Listeners(e)[k]
        roots == registrations[r].operations
    IN FlattenSeq([i \in DOMAIN roots |-> gives[r][roots[i]]])])

StepsAt(at) ==
  [r \in DOMAIN registrations |-> [o \in OperationId |->
     [i \in DOMAIN DepthFirst[o] |-> [at |-> at, by |-> r, operation |-> DepthFirst[o][i]]]]]
StepsOfFirst(n) == FlattenSeq([i \in 1 .. n |-> OverListeners(queued[i], StepsAt(i - 1))])

EventsOf == [r \in DOMAIN registrations |-> Emissions]
EventsOfFirst(n) == FlattenSeq([i \in 1 .. n |-> OverListeners(queued[i], EventsOf)])

(* "The queue is not drained until the current event's entire registration *)
(* pass has completed": events are dispatched in the order in which they   *)
(* were given or emitted, each to all its registrations by priority and    *)
(* then by age, depth first, one after the other; and nothing blocked is   *)
(* passed off as executable.                                               *)
DispatchIsBreadthFirst ==
  mode # "idle" =>
    LET begun == eventSequence + (IF dispatched = NoEvent THEN 0 ELSE 1)
    IN /\ pending = SubSeq(queued, begun + 1, Len(queued))
       /\ IsSuffix(EventsOfFirst(eventSequence), queued)
       /\ IsPrefix(StepsOfFirst(eventSequence), trace)
       /\ IsPrefix(trace, StepsOfFirst(begun))
       /\ executable <=> \A i \in DOMAIN trace : trace[i].operation \notin Uncompiled
=============================================================================
