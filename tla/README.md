# Verification of hsr-battle-agent

TLA+ specifications of the battle engine, of the second, declarative engine it is
compared with, and of the pipeline that fetches and builds its content, all under
`src/src/hsr_battle_agent`; TLC configurations that check them on small instances;
and TLAPS proofs of the properties that should hold for every instance. Paths of
the form `battle_runtime/turns.py` are relative to `src/src/hsr_battle_agent`.

## 1. The system

**The engine** (`battle_runtime/`, `battle_sandbox/`) is a library of *primitives*
over a mutable `BattleState`, single threaded, without sockets, timers or files.
**The reference engine** (`game_data/reference_execution.py` and the
`*_reference.py` modules) executes the compiled behaviour of the content over
immutable records. **The content pipeline** (`game_data/nanoka_content.py`,
`game_data/external_reconstruction.py`) downloads raw files with small thread pools,
keeps their provenance in index files, and builds JSON tables and an SQLite
database from them. What makes these hard is

* **protocols between calls**: an effect is created, refreshed, destroyed, swept
  and popped by separate calls, in an order the engine does not enforce;
* **held copies**: callers keep frozen `ModifierState` values, `ModifierRef`s and
  slot indices across calls that change what they stand for;
* **relative quantities**: remaining delays, cached materialized values and
  next-ordinal rules are only right over a whole history of calls;
* **raises in the middle**: a primitive that raises after its first writes leaves
  them; nothing is rolled back;
* **files and crashes**: a fetcher writes raw files and their index separately and
  in place, its pool finishes requests in any order, and the next process starts
  from whatever the last one left.

### Inventory

| Component | State | Operations | Hard behaviour | What makes it correct |
|---|---|---|---|---|
| Turn timeline, `battle_runtime/turns.py` | action list, current actor, phase, elapsed delay, turn index; one property-38 entry per entity | initialize, advance to the next actor, acknowledge completion; outside writes of a delay | ties, relative delays, a raise half-way through the writes, negative delays, starvation | implements a clock with absolute due times; nobody is overtaken; everyone acts |
| Modifier lifecycle, `battle_runtime/modifiers.py` | ordered container of instances per entity | task append, `try_add` decision tree, redd (refresh), activate, destroy, sweep | wildcard lookups, global policies over several containers, sentinel lives, reuse of ordinals, null target in a list | one live instance per key, destroyed is final, survivors stay, lives do not shrink |
| Property entries, `battle_runtime/property.py` | slots (value, active), last changed index, cached materialized value | allocate, update, remove a slot; source-zero writes; rebuild | slot reuse, a cache that must be rebuilt, kinds with stale inputs | the value shown is what the slots say |
| Contributions, same file | records per modifier reference | StackProperty task, refresh, pop | shared cells, index reuse, a raise mid-list, stale copies, reused references | one owner per slot, no interference, implements a ledger |
| Fixed-point numbers, `battle_runtime/predicates.py`, `property.py` | none; 64-bit words in two modes | comparisons, conversion, add, subtract, multiply, modify functions | mixed modes, saturation, a bit the common scale drops | comparisons are exact; a word is a saturating integer |
| HP transition and locks, `battle_runtime/hp.py` | CurrentHP, MaxHP, NegativeHP, dirty ratio, lock records | direct damage, SetHP, lock scan | overlapping clamps, a raise after CurrentHP is stored, order of lock records | locks and caps hold, gated damage is conserved |
| Sandbox kernel, `battle_sandbox/` | battle state dictionaries, trace, context, snapshots, rng, registry | execute, clone, reset, snapshot, restore, export, import | a raise between Started and Finished; what a copy shares; counting on after a restore | traces can be read back, branches are isolated |
| Reference scheduler, `game_data/scheduler_semantics_reference.py` | action order, remaining delays, current actor, elapsed | select the first actor, complete and advance | units that die or are not eligible are dropped from the order | implements a clock for the living; no living unit is missing |
| Reference survival and toughness, `damage_survival_reference.py`, `toughness_break_reference.py` | HP, shield, lock, alive; toughness bars | absorb, heal, shield, lock, kill, reduce, recover | a hit, its stance and its break on one target that may die of the first | a break is paid once; alive exactly with HP |
| Reference battle, `reference_execution.py` | units, bars, weaknesses, skill points, tasks, delay shifts, insertion queue | the operations of `SemanticExecutor`, task markers, `advance_ordinary_after_completed_action` | aliases resolved at the moment of an operation; shared holders written by an operation on many targets | the clock above; one gain per team |
| Reference modifiers, `modifier_lifecycle_reference.py` | tuple of instances of a unit | add under three policies, activate, tick, destroy, remove by name, dirty removal, dynamic values | ids from the length of the list repeat | twins of a source share a repeated id; the removed come back only as new instances |
| Dynamic values, `dynamic_value_reference.py`, `predicate_semantics_reference.py`, `reference_execution.py` | store of owner, key, value | define, set (from a formula, a layer, a property), condition, predicate | scopes searched in two orders, names and hashes, raises in the middle of a formula | a condition finds what an operation set; a program means its expression |
| Event tracer, `semantic_event_trace.py` | registrations; queue, trace and flags of a trace | register, trace | events emitted while others are dispatched; strict mode | breadth first over events, depth first inside |
| Raw snapshot fetcher, `nanoka_content.py` | raw files, `provenance/index.json`, memory of the process, pool | fetch with its stages, refresh, retries, checkpoints | crashes between a file and its entry, conditional requests, a server that republishes | entries tell the truth, plain runs replace nothing, a clean run is complete |
| External fetcher, `external_reconstruction.py` | cached files, `manifest.json` | `fetch`, `fetch_explicit_paths` | two writers of one manifest, payloads in any order, cut files | what a process was asked for is verified when it ends |
| Canonical build and database, both files | tables, JSON files, SQLite database | normalize, emit, build, augment | one key from several files, augmentation in place and repeated | every source is accounted for, nothing is lost |
| Targets, values, healing formula (`battle_runtime/`) | none | pure functions | - | - |
| Battle IR, catalog, behavior compiler | immutable values | validation, loading, compilation, evaluation | - | - |
| `tools/`, `scripts/`, `apps/`, `data/`, `docs/` | none at run time | extraction, reports | - | - |

How they interact. In the engine the executor dispatches a primitive by name to one
of the runtime functions with the shared `BattleState`. The timeline keeps its
remaining delays *in the property entries* (property 38), so every property write is
also a scheduler write. Contributions are recorded under the reference of a modifier,
but neither destroying nor sweeping a modifier touches them: the caller must pop
them. HP is four property entries and a list of lock records. A planner explores by
cloning or snapshotting the whole state, so the runtime functions, which change
nested lists in place, rely on no two branches reaching the same list.

In the reference engine an operation resolves its alias against the living units, and
treats the targets one by one; deaths are seen by the scheduler at its next advance
only. An entrypoint that raises leaves its caller with the old record.

The pipeline's parts share files and nothing else: the fetcher leaves raw files and
an index, the builder reads both and cites the hashes of the index, and augmentation
adds the records of the pinned repositories to the database the builder wrote.

## 2. Modules

```
 ActionClock    <== implemented by == TurnTimeline --extends--> TurnOrder
                                      TurnLoop     --extends--> TurnOrder
 ModifierLifecycle <--extends-- ModifierIdentity
        ^
        | INSTANCE
 ModifierEffects ----INSTANCE----> PropertyContributions
                                        ^ extends
 ContributionLedger <== implemented by == PropertyLedger
 ClippedInteger     <== implemented by == FixPoint
 IsolatedBranches   <== implemented by == SandboxKernel --extends--> SandboxStore
 LivingClock        <== implemented by == ReferenceBattle
        ReferenceBattle --extends--> ReferenceScheduler, ReferenceSurvival, ReferenceTargets
 HPTransition      ReferenceModifiers      EventTrace      ReferenceValues
 SnapshotFetch     ExternalFetch           ContentBuild
```

Modules named `MC...` fix data for TLC; modules named `...Proofs` hold theorems, and
**DataLemmas** what several of them need to know of numbers, finite sets, sums and
sequences.
Where an MC module holds several components that never meet, a variable `family`
says which of them a behaviour explores; the others stand still.

* **ActionClock** (abstract): every entity has an absolute due time; the clock
  jumps to the earliest; the actor settles and gets a new due time.
* **TurnOrder**: one call of `turns.py` per action, without counters. The action
  list is a strict total order, so Python's stable sort is the lexicographic order
  of delay and old position; `Advance` writes everybody's delay, `AdvanceFails` is
  the same loop stopped by an entry without a slot 0 - the writes made before
  the raise stay, the timeline dictionary does not change.
* **TurnTimeline** adds elapsed delay and turn index; due time = elapsed +
  remaining. **TurnLoop** is the counter-free driver for progress.
* **ModifierLifecycle**: `mods[entity][ordinal]` is the container list (list
  order is ordinal order because appends take max+1). `TryAddAppends`,
  `TryAddReplaces`, `TryAddProcesses` are the three outcomes of
  `try_add_modifier_instance`; `AddModifierTask` is the unchecked leaf append over
  a target list, whose null-target prefix is again a choice of counts; `Redd` is
  `_apply_redd_life_core`. **ModifierIdentity** adds the set of references that
  have left a list.
* **PropertyContributions**: slots of cells (entity, property), the value shown,
  records per owner. `Rebuilt` is `_materialize_by_kind`; a refresh updates the
  first record of the cell; a pop disables recorded slots only. `held` are the
  slot indices that callers of the component-level primitives keep.
  **PropertyLedger** relates it to **ContributionLedger**: lists of amounts per
  owner, no slots. Only cells of the additive kind have a base and an effective
  value there; what is contributed to the other kinds is in the lists alone.
* **ModifierEffects** composes both under references, with task executors that
  carry a frozen copy of the modifier's state. `CarefulSpec` is the discipline a
  caller must follow; `Spec` has none.
* **FixPoint**: the words of both modes, conversion from int32, the six comparisons,
  the sign leaves, decoding to the common scale, saturation and encoding, and the
  modify functions on one property. Limit, Scale and Shift are parameters: 2^30,
  2^26 and 2^7 in the code. **ClippedInteger** (abstract) is an integer between two
  bounds.
* **HPTransition**: the scan of the lock records, and damage and SetHP over
  CurrentHP, MaxHP, DirtyHPRatio, NegativeHP.
* **SandboxStore**, **SandboxKernel**: the objects behind battle states. Every
  place - a sandbox, a snapshot, a dictionary a caller was given - names a
  dictionary object that may hold a nested container object, both changed in place;
  two levels tell a deep copy from a shallow one and from a shared reference.
  `Execute` is any primitive: it writes or not, announces any number of boundaries,
  and returns or raises after that. **IsolatedBranches** (abstract) has no objects:
  a place has a content, a step sets one content or copies one to another.
  All seven fields of a battle state are copied by the same function and stand for
  one another. Left out: the generator and the transient target entities, immutable
  values copied or dropped in the same calls as the state.
* **ReferenceScheduler**: `OrdinaryTurnTimeline` over the members of the list, the
  order of their positions and their delays. **ReferenceSurvival**: what a hit, heal,
  shield, lock, kill, reduction and recovery make of a record. **ReferenceTargets**:
  which units an alias names. **ReferenceBattle** composes them: one action per
  operation of the executor on all its targets, per task marker, per advance, and
  per direct edit of a record. `paid` is a history variable, the breaks dealt since
  the bar was whole. **LivingClock** (abstract) is the clock of those who live.
* **ReferenceModifiers**: the instances of one unit, numbered by the length of the list
  as the executor does, so that ids repeat after a cleanup. Whatever goes by an id goes
  by it here too: most transitions change the first instance that has it, a value write
  all of them. `destroy_guard`, which would keep an instance through a cleanup, is left
  out: nothing that the executor does sets it.
* **ReferenceValues**: the store; the scopes and the three ways to find an owner in
  them (to write, to read in an operation, to read in a condition); postfix programs
  token by token; predicates and operations by number, as functions that call
  themselves on children. What raises is `Failed`, and an entrypoint that fails changes
  nothing. A predicate about units is the set of units it holds of; division is the
  parameter `Quotient`. `ConditionsFindWrites` speaks of stores in which something was
  written; `SetThenEqual` is what it says of them. `PostfixMeansTree` compares the stack
  with a reading of the program that has none: `Ending` says of each token where the
  expression starts that it ends and what its value is, the right operand ending just
  before an operation and the left one just before the right one starts; `Meaning` is the
  value of one expression that all tokens are a part of.
* **EventTrace**: the recursion of `_trace_operation` over children is an agenda of
  operations to be entered and left; the events of an operation are emitted when it
  is left, and queued when the event that is being dispatched has ended. Operations
  are nested documents: `NestingAssumption` says that there are finitely many and that
  a child is inside its parent, so the recursion ends. `Matching` is a list of
  registrations that `Earlier` sorts, as `sorted` makes it; the property counts the
  registrations that come before one instead.
* **SnapshotFetch**: one process at a time, whose pool threads and main thread
  interleave: a request, a retry, an answer that stores its file, the recording of
  its entry in memory and either end of a write of the index are steps, each of
  which may be the last of a process. A payload is the version the server had. What
  the files list and cite are parameters; `LayerAssumption` is what the paths in
  `fetch` say of them: a collection lists details, which are no front files, and a
  detail binds buffs, which bind nothing.
* **ExternalFetch**: the two kinds of processes over one manifest; bytes are whole or
  cut, an entry is the bytes its hash is of.
* **ContentBuild**: normalization, emission and publication, and augmentation with one
  external release after the other. `Candidates` are the rows of the raw files in the
  order in which the builder meets them, `AddAll` gives them to `_add` one by one. A
  record is what it was normalized from and the provenance it cites.
  `PublicationAccounts` is what a step that publishes owes to the files it read. **MCContentPipeline** gives it the
  snapshots the fetcher may leave, complete or not.

Deliberate abstractions, all of them places where the model says less than the
code and never something else. Except in FixPoint, 64-bit fixed point numbers are
integers (no saturation or rounding; `Times` of PropertyContributions rounds towards
minus infinity). Array lengths and generations of slots are not kept: nothing reads
them but the allocator, which takes the first inactive index. Delay and HP entries
exist and are of kind 1. Boundary events, lock action references, names and layers
are observational; the `activate` argument of `try_add` is only type checked by the
code. A raise before the first write is the absence of the step. In the reference
engine an amount is what the damage formula gave, and an operation of ReferenceBattle
gets its numbers from small sets; the evaluation of expressions is in ReferenceValues. In the pipeline HTTP and JSON are
their outcomes (an answer, "not modified", a failure), and no clock is modelled.

## 3. Runs

| Run | Instance | Shows |
|---|---|---|
| `turn_timeline` | 3 entities, one without slot 0, delays -1, 1, 2, recharges 0, 1, 3, 3 turns; and the driver over 3 slotted entities without a bound | refinement of ActionClock, no overtaking, a failed advance keeps the acting order; everybody acts infinitely often |
| `modifier_leaf` | 1 entity, all lengthening policies, one by provider, a global one, leaf calls | survivors keep their identity, lives do not shrink |
| `modifier_effects` | 2 entities with global, wildcard and specific keys; 1 cell and careful callers | one live instance per key, globally one, destroyed is final; no contribution without its modifier, none of the dead |
| `property_ledger` | 2 additive cells and 2 owners, slots 0..2; one cell of each other kind; one word of a format with Limit 3, Scale 4, Shift 4 | one owner per slot, non-interference, refinement of the ledger; the value shown is the rebuilt one; exact comparisons and refinement of ClippedInteger |
| `hp_transition` | MaxHP 0, 4, 20; 4 lock lists; all lists of 3 locks for the scan | scan, locks, caps, conservation, additivity |
| `sandbox_branches` | 2 sandboxes, 1 snapshot, 1 exported dictionary, 2 values, traces of 4 events | refinement of IsolatedBranches, traces can be read back |
| `reference_engine` | 3 units in 2 teams, one with a toughness bar; one unit's modifiers under 3 policies; 4 operations and 3 events; 2 owners, 3 keys, 7 contexts, 10 operations and 8 predicates on values | living units are scheduled, breaks are paid once, refinement of LivingClock; live twins of a source share an id that a cleanup let repeat, the removed come back only as new instances; events are dispatched breadth first; conditions find what operations set, every expression of two levels has the value of its postfix program |
| `content_pipeline` | a collection, two details and a buff, 2 versions, 2 threads, 2 attempts, a checkpoint every 3 records; 4 paths of a repository, 2 threads, 2 attempts; 5 raw files, 7 snapshots, 2 releases | entries tell the truth, plain runs replace nothing, clean runs are complete; finished jobs are verified, whole files stay; the published database accounts for its snapshot, augmentation loses nothing; every process ends |
| `modifier_identity` (violation) | 2 names | ordinals are reused, against the docstring |
| `snapshot_resume` (violation) | the snapshot fetcher of `content_pipeline` | a crash leaves an index or a file the next run refuses |
| `reference_removal` (violation) | ids numbered by length | removal by name misses an instance |
| `external_hashes` (violation) | the external fetcher of `content_pipeline` | `fetch()` drops the hashes of a family's files |

Sizes: up to 395,303 distinct states (`content_pipeline`),
224,428 (`reference_engine`), 129,764 (`modifier_effects`) and 122,264
(`property_ledger`).

The bounds. Two entities are enough for every local/global distinction and for a
cell shared by two owners; three are needed for the middle of a list (a tie, a
failure with one entity before and one after). Slots 0..2 hold reserved, first and
reused index; ordinals 0..2 allow sweep-then-append at the end of a list (reuse) and
in the middle (no reuse). `OneCellTouched` keeps behaviours of the other kinds that
use a single cell: a rebuild reads no other cell, and the additive family explores
two at once. `OneUse` in `modifier_effects` keeps behaviours in which either the
containers of two entities are managed or modifiers of one entity contribute. The
small number format has every case of the real one: both modes, a fraction bit that
the common scale drops, numbers too large for STANDARD, and sums and products beyond
both ends. `OneFamily` in `reference_engine` has a behaviour edit only the records of
one family - survival and toughness, turns and deaths, or the shared holders - which
no operation of another reads. A list of up to three modifiers lets an id repeat after a
cleanup, below a live or a marked instance and beside another name, with sources that do
and do not match. Its contexts of dynamic values have the caster on either
side, owners named for some scopes and for the caster's, a given value, and no caster;
the formulas of its operations and conditions read, subtract, negate and divide, and two do
not decode. `MCExpressions` adds every sequence of up to three tokens, well formed or not,
and every formula of two operations in either shape: an operation may then find no
operand, one, a computed one on either side, or one too many. In `content_pipeline` a boss binds a buff and is no
longer alone in the second version of the collection, so that a detail is new, gone
and changed; a batch of 3 puts a checkpoint between the stages and inside one; two
attempts tell a retry from giving up. Its seven snapshots are complete or miss a file
or an entry, or have an entry older than its file.

The guards that hold a bound are `MaxTurns`, `MaxOrdinal`, `MaxLife`, `MaxSlot`,
`MaxRecords`, `MaxShown`, `MaxLocks`, `MaxEvents`, `Lowest`, `Highest`, `MaxElapsed`,
`MaxShield`, `MaxQueue`, `MaxShift`, `MaxLength`, `MaxRegistrations`, `MaxGiven`,
`MaxValue` and `MaxVersion`; `Retries`, `Batch`, `Workers`, `Attempts` and `PoolSize` are numbers of
the code, made small. `MaxEvents` of 4 holds one call with a boundary and an end, or
a call that raised and one after it; `Alike` makes branches and values
interchangeable, which no definition tells apart. One snapshot is enough: a copy of
a copy already needs only the second sandbox. Runs whose behaviours stop at a bound
say `CHECK_DEADLOCK FALSE`; `sandbox_branches`, where some call is always possible,
checks deadlock.

Every property has a mutant: a definition of the model changed as a plausible
slip in the code would change it, under which TLC finds the property violated.
Mutants stand beside the definition they replace, marked as such.

### Fairness

* `TurnLoop`: weak fairness of each call of a driver that alternates advance and
  acknowledge. The code has no driver of its own; that the caller goes on calling is
  the assumption, and it is the weakest that lets "everyone acts" make sense. No
  fairness is put on *which* entity is selected: that is the code's sort. Recharges
  are positive there: a recharge of zero is accepted by the code and lets one actor
  act for ever.
* The two fetchers: weak fairness of the steps of a running process as a whole
  (`RunStep`, `JobStep`). A request ends because it has a time-out, which is one of
  its outcomes; a process that has something to do does it. Crashes, new processes
  and the server's publications are never required. `FetchersEnd` needs the counters
  of attempts, and that every stage empties its queue.

Nothing else has fairness. The event tracer has no bound on the events of a trace:
content whose events emit each other keeps it running for ever, so that it ends is
not stated; the instance emits without a cycle.

## 4. Proofs

Proved by TLAPS for all values of the constants that satisfy the named
assumptions.

* **TurnTimelineProofs.** `TypeCorrect`, `ElapsedSafe`, `TimelineImplementsClock`,
  `NobodyOvertakes`; corollary `SlottedTimelineIsClock`: with every entry slotted,
  the specification implies `ClockSpec` outright. The core lemma is that a stable
  sort of a total order is again a total order whose first element has the least
  delay; then lowering everybody by the least delay keeps `elapsed + delay` fixed,
  and the clamp at zero never takes effect. The typing invariant (the list is a
  strict total order, delays are integers, in an active phase there is an actor)
  is inductive. Of the driver, `LoopStaysSorted`: lowering everybody by the least
  delay keeps the order, and only the one who acted is given a new delay.
  `FailureIsHarmless`: an advance stopped by an entry without a slot has lowered a
  prefix of the list, and lowering the earlier ones of a sorted list keeps it sorted.
  `GapsClose`, for a finite `Entity` and positive recharges: before `e` acts, another
  entity `f` can act `delay[e] - delay[f] + 1` times at most; the sum over all the others
  depends on differences only, so a selection leaves it alone, and who completes a turn
  goes from zero to a positive delay, which lowers it.
* **ModifierLifecycleProofs.** `TypeCorrect`, `DestroyedStays`, `SurvivorsStay`,
  `LivesLengthen`, `OneLocalInstance`, `OneGlobalInstance`. The last two
  need that an exact key always matches itself, so the first match exists
  whenever a live duplicate would; the global one also needs `KeysToldApart`.
  `LivesLengthen` needs the invariant that `previous` is permanent or equal to the
  current life, which the decision tree and the templates keep. Of the composition
  `ModifierEffects`: `CarefulCallersAreManaged` (its steps are managed steps of the
  lists, or leave them), `NoContributionIsOrphaned` and `ContributorsLive`. The
  inductive invariant adds that whatever lives is Alive, so that a sweep takes only
  what was destroyed, and that a task whose copy is not past Alive names a modifier
  that lives; `NoOrphans` alone is lost by a sweep before a pop and by a task that
  outlives its modifier.
* **PropertyContributionsProofs.** `SlotsAreOwned` and `ContributorsAreApart`. The
  inductive invariant is the slot typing together with "no two records name one
  slot and a recorded slot is active": neither half is inductive alone, because a
  pop of an unowned index would free another's slot and an allocation could then
  hand it out twice. `ShownIsAlwaysRebuilt`: a step rebuilds what it writes, and a cell
  it does not write keeps its slots. `SlotsImplementLedger`, the refinement step by
  step: the value of an additive cell is the sum over its active slots, which are
  the base slots and the recorded ones; an allocation adds a slot that was in neither,
  a pop takes the recorded slots of one owner, and by the lemma that a sum over a list
  without repetition is the sum over the set of its slots the owner's amounts
  leave the sum. The two folds, over slots and over a list, are compared in DataLemmas,
  where a sum is shown to move by exactly the term that is added or taken.
  Of FixPoint: `WordsStayWords`, `FixPointIsInteger` (the refinement, step by
  step) and `ComparisonsAreExact`, for every format. They rest on lemmas about
  division: what it does to a sum of a multiple and a remainder, that it is monotone,
  and that halving and doubling the scale loses only the bit below. Encoding a
  saturated number and decoding it again gives it back, so a chain of modifications
  saturates at each step as the integers do.
* **SandboxKernelProofs.** `NothingIsShared`, `KernelIsIsolated` (the refinement,
  step by step), `TracesAreReadBack`, `KernelTyped`. "No two places reach one object"
  is not inductive by itself, because a new object must also be one that nobody
  reaches: the strengthening `AtHome` says that every place names its own dictionary
  and that what is nested in it was made for it. For the traces, "ids increase" is
  not enough either; the strengthening says that an id is a position, so that
  counting on after the largest id is counting on after the length. The call is
  proved for any number of boundaries.
* **ReferenceProofs.** `BattleTyped`, `LivingStayScheduled`, `DelaysImplementClock`,
  `BreaksArePaidOnce`, `TeamsGainOnce`. The invariant is the typing, with "alive
  exactly with HP" in it, and "the living ordinary units are listed": an advance keeps
  the eligible only, so the second is inductive because nothing revives - every
  operation on a record leaves the dead dead. A step changes bodies, holders, tasks or
  passes the turn; only the last moves the clock, and the delay of the unit it chooses
  is the least among those who stay. Of the dynamic values `FormulasMeanOneThing`: a
  condition and an operation give a formula one value, if nothing is given with the
  context and the caster's scope names nobody else. `WritesAreFound`: evaluation runs a
  program token by token, on a stack that depends on the hashes the program holds and on
  nothing else, so writing a key that it does not hold changes neither the stack nor an
  error; and the owner a condition searches first is the owner an operation wrote to.
  It has the hypothesis `QuotientsAreNumbers`: a division that returns anything but a
  number would be an operand no comparison is defined for. It is a hypothesis and no
  assumption of the module because TLC cannot evaluate it over all the integers.
  `FormulasMeanTrees`, under the same hypothesis: a program of any length, whether its
  operands suffice or not, has the value of the expression it writes. That the last stack
  holds the value says nothing of the stacks before it. What every token keeps is that the
  stack is the one before its expression began, with the value of the expression on top
  (`Stacked`), or has raised; an operation needs that of two earlier tokens, the one before
  it and the one before its right operand, so the induction is over all earlier tokens.
  That a leftover below the last expression makes `evaluate` raise is the same fact once
  more: that stack holds the top of another expression. `Ending` is itself shown to be a
  function by such an induction, for its recursion goes back by more than one token.
  Of the modifiers `SourcesKeepOneId` and `RemovalsAreFinal`: a transition puts in each
  place what becomes of an instance with the id of that place, keeps the alive ones, or
  appends one that has the number of its place, when no live one matches. The inductive
  invariant is types, that no instance stands behind the place it was numbered for, and
  that live instances of one source share an id under every policy but MULTIPLE. The
  first says why ids repeat only below: of two instances with one number the first has
  been moved. The second is what a value write can still do to a repeated id.
  Of the event tracer `EventsAreBreadthFirst`. The property compares what was listed with
  the beginning of a trace that is only partly known, which is not inductive; `EventInv`
  says instead that what was listed, with what the agenda still brings, is exactly what
  the events begun bring, and the same of the emitted events. Entering an operation
  replaces it by itself, its children and what it emits, which is the recursion of
  `DepthFirst` and `Emissions`; that these recursions define functions, and what they
  list, is shown by induction over the heights of `NestingAssumption`. The sort is shown
  to find the one list there is: in a total order ranks are apart and every rank is taken.
* **ContentPipelineProofs.** Of the raw fetcher `EntriesAreTruthful` and
  `PlainRunsKeepRawFiles`. The inductive invariant has, besides types, that the server
  is never behind the stored file nor the file behind an entry (so a conditional
  request that matches finds the file unchanged), and that a run without `--refresh`
  asks for missing files only. Of the external fetcher `ExternalTyped`,
  `WholeFilesStay` and `FinishedJobsAreVerified`. A process settles its paths one by
  one; `Covered` says that each of them is still ahead, being downloaded, being written
  or settled, `Carried` that a family's process has kept what it found, `Closed` that
  nothing is left when the manifest is written for the last time. They need that
  downloads are of missing files, that one file is written at a time, and that no
  process means no memory. `CleanRunsAreComplete`, of the raw fetcher: while no error has occurred,
  whatever the stages so far asked for is stored, in the queue or with a thread; a
  result that is kept was true of the file and stays so; front files, listed files and
  cited files are disjoint layers, so a stage that has ended is not asked for more by a
  later one. A run that finishes without an error has an empty queue and idle threads.
  `RunsRunDown` and `JobsRunDown`: what a process has yet to do is a number - attempts
  left of each download, a fixed cost for each file it has not begun, the writes - and
  each of its steps lowers it, a refused or repeated request as well as an answered one;
  the raw fetcher's stages come first, for entering one fills the queue again.
  `RunsNeverStall` and `JobsNeverStall`: the guards of its steps do not fail all at once.
  They need `Counters` (attempts and unsaved records below their bounds, which completes
  `FetchTyped`), `Closed`, and that only a family's process has a pool.
  Of the build `AugmentationsRetain`: what an insert that ignores present keys leaves
  alone; and `PublicationsAccountForAll`: for every prefix of the candidates, records
  have different keys, each cites exactly the candidates that agree with it, and each
  candidate is in the record of its key or its key is among the conflicts; a build
  that is being emitted is the one that its snapshot gives, table by table.
* **HPTransitionProofs.** `HPTypeCorrect`, `ScanIsRightAlways`, `LocksProtect`,
  `DamageIsCapped`, `LocksMoveDamage`, `HitsAreAdditive`. The scan is recursive, and
  the provers cannot instantiate an induction theorem that takes an operator; the
  lemma `Induction` is therefore about a set of numbers and is proved from the least
  counterexample, which exists because the library proves the order of the naturals
  well founded. With it the recursion is shown to define a function (`ScanExists`), and
  the invariant `Knows` follows the loop down the list: the run found so far agrees,
  and once it is broken, the newest record below it has another value. The other
  theorems split a call into what lands and what is held back and are linear
  arithmetic, once a ratio of MaxHP is known to lie between zero and MaxHP.

Only model-checked: liveness (`LoopEveryoneActs`, `FetchersEnd`), because the prover does
not do fairness and ENABLED. Of what liveness rests on, the part without them is proved:
the numbers that fall (`GapsClose`, `RunsRunDown`, `JobsRunDown`), and that a guard holds
(`RunsNeverStall`, `JobsNeverStall`); that a guard that holds makes the step possible,
and that fairness then takes it, is what the runs show. Every invariant and every action
property of the passing runs is a theorem.
The violation runs are counterexamples and need no proof.

## 5. Findings

1. `RefsNeverReused`: `_next_instance_ordinal` promises references "never reused
   after removal"; sweeping the last instance of a list frees its ordinal. With
   careless callers the next modifier inherits the contributions of the old one;
   `NoOrphans` shows that popping before sweeping is enough to prevent it.
2. `Resumable`: the fetcher is called resumable, but `write_json` truncates the index
   in place, and a refreshed file is replaced before its entry is recorded. A process
   that dies at either point leaves an index the next constructor cannot parse, or a
   file that every later plain run refuses as locally changed.
3. `RemoveMarksAll`: the executor numbers an instance by the length of the list, so
   after a removal in the middle two instances share an id; a removal by name then
   marks the first of the two twice and leaves the second alive. Other operations that
   go by the id are exposed in the same way; `TwinsShareMovedId` and `RemovedStayRemoved`
   say how far that goes.
4. `HashesKept`: `fetch()` rewrites the manifest from its own fixed list, so the
   hashes that `fetch_explicit_paths` had recorded for a family are gone.

Other places where a document and the code differ, or where the code does less than
its names suggest. They have no run of their own; the models do what the code does.

* `scheduler_semantics_reference.py`: the docstring of `apply_delay_operation` says that
  negative delays are clamped to zero; `SetActionDelay` does not, `ModifyActionDelay`
  does. A docstring of `reference_execution.py` says that the timeline retains the
  historical action order; an advance drops the units that are not eligible.
* `reference_execution.py`: `SetModifierDynamicValue` demands exactly one alive instance
  of the name and calls pending and removed ones hard failures, but writes its copy over
  every instance with the id (line 901). When the id has been given twice, a pending or
  marked instance becomes a second live one, of the same source even under a policy that
  keeps one. Hence `TwinsShareMovedId` says that twins share an id and not that there are
  none, and `RemovedStayRemoved` speaks of ids all of whose instances are marked.
* `reference_execution.py`: a task that ended with SUCCESS can be used again;
  `random_01` is never advanced; `has_modifier` reads the static `modifier_names` of
  the state, not the instances the executor adds; `remove_contribution` of
  `property_contribution_reference.py` is never called by the executor, so contributions
  outlive the modifier they came from.
* Dynamic values: a condition prefers the store of the default owner to
  `dynamic_hash_values`, an operation the other way round. A condition with an explicit
  scope for which the context names no owner searches from the caster, where an
  operation writes to the scope's own owner; hence the premises of `SetThenEqual`. A
  formula knows hashes only and looks them up as decimal text, so what was set under a
  name is out of its reach, and a condition on a name that is not stored raises a
  ValueError instead of a semantic error. A predicate of an unsupported type is said to
  reject the behaviour; `ByAny` and `ByAnd` stop before it when an earlier child decides.
* `modifiers.py` compares the caster in every lookup, the bridge document
  (`modifier_lifecycle_bridge_08.md`) only for the replace-by-caster family. A task
  made before its modifier was destroyed still contributes, since liveness is read from
  the copy it holds; the semantic handoff 09 says destroyed modifiers do not.
  `DestroyedCannotContribute` shows that finishing tasks before destroying is enough.
* `property.py`: adding zero to a STANDARD word drops the fraction bits that the common
  scale does not have (`ClippedInteger` rounds for that reason).
* Pipeline: `--refresh` replaces raw files; a cut file of an external cache is adopted
  as RECOVERED_UNINDEXED with the hash of what it holds; the builder cites the hash of
  the index without comparing it with the bytes; a refresh skips cited buffs that are
  stored; `emit_canonical` leaves the file of a table that has become empty.

## 6. Not modelled

* Of the sandbox kernel: the registry (filled once, then frozen), the generator,
  hashing and canonical JSON.
* Targets, values and the healing formula of the engine: pure functions of their
  inputs. The arithmetic they share is FixPoint.
* Task actions: three-valued states carried as data; the tasks that change battle
  state are in the modifier modules.
* Of the reference engine: the damage formula, callbacks of modifiers and their
  properties (`_execute_property_stack`), random chance in predicates, the rendering of
  formulas, and `cross_family_execution_reference.py`, a harness that runs fixed lists of
  operations. It resolves targets and predicates once for a list, so later operations
  of a list still see units that an earlier one killed.
* Of the pipeline: discovery of directories and trees, validation and gap reports,
  coverage, snapshot diffs and the read API of the database.
* The battle IR, the catalog and the behavior compiler: immutable values, validation
  and functions from files to files.
* `tools/` and `scripts/`, two thirds of the lines of the repository: one-shot
  extraction from a binary and generators of reports and evidence documents. They
  keep no state between steps and make no promises a model could check.

## 7. Plan

1. *(done)* The engine: turn timeline, modifiers, properties, their composition, HP,
   the sandbox kernel, fixed-point numbers. The reference engine: battle, scheduler,
   survival, targets, modifiers, dynamic values, event tracer. The content pipeline: both fetchers,
   build and augmentation. Proofs of timeline, lifecycle, contributions, kernel,
   numbers, HP, reference battle and modifiers, dynamic values, both fetchers, build and
   augmentation, of modifiers composed with their contributions, and of the event tracer.
2. Deeper models: the modifiers of several units together with the battle, so that
   deaths meet durations; a callback that emits into the event tracer; the healing
   formula on FixPoint.
