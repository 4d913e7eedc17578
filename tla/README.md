# Verification of bch::shared_ptr_nc

TLA+ models, model-checking configurations and machine-checked proofs for the
non-concurrent shared pointer of this repository: `shared_ptr_nc`, `weak_ptr`,
`enable_shared_from_this`, the control block they share, the allocation
`make_shared` does, and the program that tests and measures them. `PROJECT.json` maps every definition to the lines it models
and lists runs, mutants, hazards, findings and theorems.

## The system

| Part | Source | State | Operations |
| --- | --- | --- | --- |
| control block | `bch/shared_ptr_nc/prefix.hpp`, `suffix.hpp:434` | strong and weak count, the instance, its own memory | `add_shared`, `release_shared`, `add_weak`, `release_weak`, `adjust` |
| `shared_ptr_nc` | `bch/shared_ptr_nc.hpp`, `suffix.hpp` | `mHandle`, `mPtr` | constructors, copy, move, `reset`, `swap`, casts, destructor |
| `weak_ptr` | same | `mHandle`, `mPtr` (mutable) | constructors, copy, move, assignment from a shared pointer, `lock`, `expired`, `reset`, destructor |
| `enable_shared_from_this` | same | `_shared_from_this_data` in the instance | `shared_from_this`, `set_shared_from_this`, the implicit copy |
| `AllocateInstancePair` | `bch/common/memory.cpp` | the live allocations | one allocation for a block and an instance |
| instance counters | `shared_ptr_nc_impl.cpp` | number of control blocks | `register_cb_ctor`, `register_cb_dtor`, `live_instance_count` |
| unit tests | `unit_tests/shared_ptr_nc/correctness.cpp` | the test that runs and its locals | calls of the library, `UNITTEST_REQUIRE` |
| performance harness | `unit_tests/shared_ptr_nc/performance.cpp` | threads, start flag, mutex, two totals | `TestRun`, `Test`, the functors |
| settings, `main` | `common/compiler_settings.hpp`, `main.cpp` | the settings of the build | test or measure |

A smart pointer calls its control block; the control block calls one thing
back: the destructor of the instance, from the middle of `release_shared`. That
destructor is arbitrary code. It ends in the destructors of the members of the
instance, which may be smart pointers themselves and release further instances.
The library is for one thread, and nothing is persisted.
What makes it hard is re-entrancy: every operation that releases a strong
reference may, before it has finished, run any other operation. The harness does
have threads: they wait for a flag, and add to shared totals under a mutex; the
pointers they time are their own.

What makes each part correct:

* control block: the counts are the numbers of references; the instance is
  destroyed exactly when the strong count reaches 0, once; the block is freed
  exactly when nothing refers to it and no destructor is running, once;
* `shared_ptr_nc`: what it holds is alive; its pointer belongs to its block;
* `weak_ptr`: its block is allocated; `lock` gives the instance if it is alive and
  nothing otherwise, in particular nothing while the instance is being destroyed;
* `enable_shared_from_this`: an instance finds its own block;
* `AllocateInstancePair`: the instance is aligned, inside the allocation and
  apart from the block;
* together: an instance lives from its first owner to its last, and the record of
  it as long as it is alive, being destroyed or observed (`Ownership`);
* the tests: what each requires holds where it requires it, and it leaves nothing behind;
* the harness: threads start together, no measurement is lost, no row is printed
  early, and it comes to an end.

## Modules

| Module | Models |
| --- | --- |
| `ControlBlock` | the counts (which wrap around at `MaxCount`, and are 0 for a block that is not `constructed` yet), the instance and the memory of each block; the counting methods as operators, so that a handle operation can chain the calls one C++ function makes |
| `Handles` | the variables of the program, which of them are alive, the stack of running destructors, the discipline of the program |
| `SharedPtr` | `shared_ptr_nc` and `enable_shared_from_this`: one action per operation, and the steps of a destructor |
| `WeakPtr` | `weak_ptr`: one action per operation |
| `SmartPtr` | the composition: `Next`, the specification, fairness, properties |
| `MCSmartPtr` | roots and members for TLC |
| `InstancePair` | `AllocateInstancePair` |
| `Ownership` | the abstract specification: what the smart pointers promise, without counts, blocks or calls in progress |
| `Refinement` | the refinement mapping from `SmartPtr` to `Ownership` |
| `Accessors` | `use_count`, `unique`, `expired`, `get`, comparisons, `live_instance_count` |
| `Correctness` | the unit tests as sequences of calls with their requirements, run on the modelled library |
| `Performance` | the performance harness: the main thread and those it starts |
| `Program` | `main`: the settings of the build, then the tests or the harness |
| `MCProgram` | the variables of the tests for TLC |
| `Safety` | the inductive invariant `IInv` of `SmartPtr` and the assumption `Disciplined` under which it holds |
| `SmartPtrProofs` | types and pointers, and where pointers and instances lose their block: theorems for every program |
| `SafetyFacts` | lemmas about `IInv` |
| `SafetyProofs` | every step preserves `IInv`; the safety properties |
| `OwnershipProofs` | `SmartPtr` implements `Ownership`; what the accessors answer; a block that nothing refers to only waits to be freed |
| `InstancePairProofs` | alignment and place of the instance |
| `PerformanceProofs` | the rows are complete, the threads start together and never all wait; every step leaves less to do |
| `Termination` | what destructors have still to do, and why they come to an end |
| `TerminationProofs` | destruction is bounded, in steps and in depth |
| `ProgramProofs` | what holds of the tests and of the harness inside the program, and that it only goes forward |

`ControlBlock`, `Handles`, `SharedPtr`, `WeakPtr` and `SmartPtr` extend one another in
this order, which is that of the `#include`s; `Safety` extends `SmartPtr`,
`Refinement`, `Accessors` and `Correctness` follow (`Termination` extends `Safety`), and `Program`
composes the tests with an instance of `Performance`.

### State

`mHandle[x]` and `mPtr[x]` are the two members of the variable `x`; a block is named like
the instance it manages, so `mPtr[x] = b` reads "points to the instance of block
`b`". `scope` is the set of variables whose storage is alive. A variable that leaves it is set to
null, which nothing can observe. `Owner[x]` is the instance `x` is a data member of, or
`NULL` for a root (a local or a global). `mStrong`, `mWeak` are the counters, `mem[b]` the memory of
the block, `inst[b]` the life of the instance:
`none`, `live`, `dying` (its destructor runs), `dead`.

`stack` has one frame for each destructor that is running: the instance, the
variable whose reference was the last one, and what the library function that
released it does when the destructor returns (`then`, `arg`). This is the C++ call
stack at `prefix.hpp:183`. In a frame the user-written body runs first
(`body = TRUE`) and may take any action of the model; `EndBody` ends it,
`DestroySharedMember` and `DestroyWeakMember` destroy the members in any order, and
`Return` is the rest of `release_shared` and of its caller.

So `reset()`, the assignments, `reset(U*)` and the destructor are one action when the
reference is not the last one, and `Release ... Return` with everything the destructor does
in between when it is. In between, as in the code, the variable still holds the
block (`suffix.hpp:119` clears it afterwards, the destructor never does). All other operations, those of
`weak_ptr` included, run no user code and are single steps.

Undefined behaviour (a call through a freed block, a second destruction, an
assignment that reads a destroyed variable) sets `fault` and ends the behaviour;
`MemorySafe` says that it is never met.

### The abstract specification

`Ownership` knows what each pointer owns and observes, the life of each instance
(`unmanaged`, `alive`, `dying`, `gone`) and of which instances there is a record
(`kept`). Its steps are the promises: a pointer takes only what is alive (`Take`), the
first pointer captures (`Capture`), a move hands over, an instance dies with its last
owner (`LoseLast`) and at no other time; the record is kept exactly while it is
needed. `Refinement` maps a variable to what it holds, or to nothing while it
is giving it up (`Releasing`): for `Ownership` the last owner is gone when the
destructor begins, although `mHandle` is cleared when it ends. The end of a
destructor and what the interrupted call then does is one step of the code
(`Return`) and one of `Ownership` (`EndDestruction`, which may acquire something
at once).

### The program that tests and measures

`Correctness` has one script for each test, in the order of `Perform()`: calls of the
operations of `SharedPtr` and `WeakPtr`, the destructors at the end of the scope in
the reverse order of construction, and the requirements where the source has
them: the counts of variables, the live instances per class and the control
blocks. `RequirementsHold` compares them with the state of the model, so that the
tests check the model, too. `DestructorTest` has calls in the body of a destructor.
`InitialStateRestored` is `ValidateInitialState` for all tests, those that do not ask included. A
test begins when the variables of the one before are gone, with new instances of the same names.
What `AlignmentTest` requires is `Aligned` of `InstancePair`.

`Performance` keeps, for a total of times, the set of measurements `<<row, thread>>`
that were added; adding is a read and a write, as `+=` is. `CreateFails` is the
constructor of `std::thread` that throws, which nobody catches. Spinning on `sStart`
changes nothing and is no action. `Program` derives `BCH_SMART_PTR_UNITTEST` from the
settings a project defines or leaves undefined, and runs one or the other.

Three things the models show a reader of this code, beyond the findings:

* `UNITTEST_REQUIRE` is `assert` (`correctness.cpp:16`): with `NDEBUG` the tests require
  nothing, and without it a failed one aborts before `Perform` could report it.
* `DestructorTest` passes whatever `lock()` does: it assigns its `weak_ptr` with the
  operator of finding `weak_from_shared`, whose `lock()` has a null pointer anyway.
* `BCH_SMART_PTR_UNITTEST_ENABLE` without `BCH_SMART_PTR_DEBUG_ENABLE` silently gives
  a program that measures (`compiler_settings.hpp:59`).

### The discipline of the program, and the liberties

No smart pointer survives arbitrary use. With `Liberties = {}` the program

* leaves a variable alone while the release of that variable is in progress;
* calls an operation on a data member only when a root the call does not change
  holds the instance of the member, or that instance is already being destroyed,
  and leaves that root alone until the call returns;
* does not end the life of a variable an assignment in progress will read;
* calls `shared_from_this` only on a live instance whose base holds its own block or null.

All of it concerns re-entrant calls and members; single calls on roots are
unrestricted, and a destructor may still give the source of the assignment it interrupts
another value, or none. What the discipline excludes no passing run can show: there the
code has the failure, and the hazards in `PROJECT.json` say so where it bites. The constant `Liberties` lifts one part each. Adding one to
`members.cfg` or `shared_from_this.cfg` shows what that part is for:

| Liberty | What TLC reports |
| --- | --- |
| `touch_released` | a destructor that resets the pointer being reset makes the count wrap around (`CountsExact`) |
| `drop_owner` | `head = head->next`, or a destructor that destroys the source of the assignment: a read of a destroyed variable (`MemorySafe`); a member that holds its own instance and is reset is released twice (`CountsExact`) |
| `shared_from_dying` | the count rises from zero (`ZeroIsFinal`, run `resurrection`) |
| `copied_self` | a pointer to one instance that owns another (`PointerMatchesBlock`) |

`std::shared_ptr` is immune to the first two, because it detaches the variable
before it releases the reference.

## Runs

| Run | Shows |
| --- | --- |
| `roots` | two instances, three shared and two weak roots, all operations, counters of exactly the size needed: counts, lifetimes, memory, the answers of the accessors, and that `Ownership` is implemented |
| `members` | two instances that each have a strong and a weak member (chains, cycles, an instance that observes itself): counts, lifetimes and memory across nested destruction, `Ownership` included, the invariant the proofs use (from which the rest of what `roots` checks follows, `SafetyProofs`), the depth of the nesting, that what destructors have left to do only shrinks, and that an abandoned block has nothing but its destructor to wait for |
| `shared_from_this` | one tracking shared root and one that is not, one instance captured as the tracking type and one as a derived type, copies of instances; which operations alone make a pointer null beside its block (`OnlyTwoBlind`) or an instance forget its block (`OnlyCopiesForget`) |
| `chain_liveness` | a chain of three instances: every release comes back, every abandoned block is freed, and `Ownership` is implemented with its promise that a destruction ends |
| `instance_pair` | address arithmetic in an address space of 64, alignments 1 to 16, two live allocations; no instance is further back than its alignment demands |
| `main_program` | every build: all unit tests with their requirements, nothing left behind by any of them, or the harness with up to three threads, every schedule and threads that cannot be created, which never all wait for one another; every step takes the program forward, and it ends |
| `weak_from_shared` | finding: `weak = shared` loses the pointer (`suffix.hpp:362`) |
| `resurrection` | finding: `shared_from_this` in a destructor (`suffix.hpp:504`) |
| `pointer_in_reset` | finding: a pointer being released points to a dying instance: `reset()` clears it too late (`suffix.hpp:119`), the destructor never |
| `copied_instance` | finding: a managed instance that another is assigned to refers to the block of that one, or to none if no smart pointer manages it; a copy-constructed one begins that way (`shared_ptr_nc.hpp:177`) |
| `zero_alignment` | finding: alignment 0 is not handled as the comment says (`memory.cpp:59`) |
| `accumulated_totals` | finding: a row has the times of the rows before (`performance.cpp:122`) |

The properties are defined and explained at the end of the module whose behaviour
they are about. Each one of a passing run is broken by a mutant of the code
(operators marked *Mutant* next to the definition they replace).

Bounds. Two instances are enough for an operation on one to run inside the
destruction of the other, for a cycle and for a chain; three variables put every
block at a count where a release is and is not the last one. A root that is destroyed may be
constructed again; an instance is used once, so that a stale handle is always noticed, and
runs end when there are no instances left to construct. `MaxCount` is the
largest number of references the instance allows: the counters are as full as they
can get and never wrap around, which takes 2^32 references: no run and no theorem covers that. Symmetry is used for
safety only, over instances that are all alike and roots of one type.
Three threads are the fewest with which one can be created, one hold the mutex and one
wait; three rows let a total go through two that follow each other, and the proofs
cover any number. The tests are finite scripts with the instances they use.
Deadlock is checked except in `resurrection`, where the counterexample may stop the program, and
in `accumulated_totals`, where the harness ends (`Program` has `Exit` for that).

Fairness. `FairSpec` assumes that destructors terminate: weak fairness of
`DestructorStep`, the end of the body and the compiled code around it. Nothing is
assumed of the program at top level. Without the first assumption no release could be
promised to return. `ProgramSpec` assumes weak fairness of the tests (destructors of the
tests' classes terminate), of the main thread and of each thread of the harness: the
operating system runs each of them. Strong fairness of the mutex is not needed, because a thread
takes it once per run, so that nobody can be overtaken for ever.

## Proofs

`SmartPtrProofs` proves, for any sets of instances and variables and any counter width:

* `TypeCorrect`: `Spec => []TypeOK`, for every program, liberties included. `TypeOK` is
  inductive because a frame says of which kind its argument is. The proof has one lemma
  per building block (`Complete`, `Release`, `PrivateCtor`, `Update`) and one per group of actions.
* `PointerMatches`: `Spec => []PointerMatchesBlock` unless `copied_self`. Inductive
  with the types; it rests on `ResetPtrIsNull`: `reset()` does nothing to a variable
  without a block, so the pointer of such a variable must be null already.
* `BlindnessHasTwoSources`: `Spec => OnlyTwoBlind`, for every program. A pointer that is null
  beside a block is handed on with the block, and made by two operations only. The lemmas
  say for each building block what the new pointer of its target is; a `Return` hands
  over what its frame says, which is why it is a case of its own.
* `CopiesAloneForget`: `Spec => OnlyCopiesForget` unless `copied_self`. `StoredIsOwn` is the
  core: a pointer is stored in the instance it points to, with its own block (`PointerMatches`).

The last two make the findings `weak_from_shared` and `copied_instance` exact, since what
the documentation promises is proved of all programs that stay away from these operations:
`LockFindsOtherwise`, that without them `lock` finds every instance that is alive, and
`TrackedKnowOtherwise`, that where no instance is copied each tracked one knows its block.

`SafetyProofs` proves the safety properties the runs check, for any sets of instances and
variables with any owners. Its theorems assume `Disciplined`: the program takes no
liberty (the findings and the table above show that it may not), the variables are finitely many, and
a counter can count them all with the temporary reference of `release_shared`; with as
many pointers as a counter has values the counter does wrap around.

* `InvariantHolds`: `Spec => []IInv`.
* `MemoryIsSafe`, `CountsAreExact`, `OwnedInstancesLive`, `ObservedBlocksHeld`, `NoLeak`,
  `ZeroStaysZero`: the invariants of the same meaning, each a consequence of `IInv`.
* `LifeOnlyForward`: `Spec => LifeGoesForward`, from `IInv` and the same case analysis.

Why `IInv` is what it is. That the counts are cardinalities (`CountInv`) is not
inductive: a step can only keep them if the variable it works on is not one whose release is
in progress, and `Return` can only resume if that variable is still there. So the
invariant has a part for the calls in progress: each has an instance of its own that is
dying, and its variable still holds it (`FrameInv`); its operands outlive it
(`OperandInv`), since each is a root, a member of an instance of a call further out, or a
member of an instance that an untouched root holds (`KeepInv`); a source is not the target of
a call around it (`SourceInv`); an instance about to be adopted has no block yet
(`AdoptInv`). `LifeInv` ties the counts to the life of the instance and of the block,
`VarInv` says that what a variable holds is allocated, `SelfInv` is what
`shared_from_this` needs.

The argument. `CallsGoOn` shows once that an operation which changes only *free*
variables (no call in progress holds them or counts on them) and ends only *closable*
ones (nor will any read them) keeps the part about calls; `Discipline`, `OutOfScope` and
`MemberIsClosable` show that every operation is of this kind: by the discipline, because
its variable is new, or because the instance being taken apart has no member that a call uses.
What is left is counting: one owner more (`GainsOwner`), two that exchange their blocks
(`ExchangeSafe`), a weak reference given up and perhaps taken (`UpdateSafe`). A release is
proved in two halves that meet in a state in between (`InBetween`): `ReleaseInBetween` and
`ReturnInBetween` reach it, before or after the destructor has run, and `CompleteSafe` takes
it from there. `CallBegins` is the step that starts a destructor.

`OwnershipProofs` proves, under `Disciplined`:

* `SmartPtrImplementsOwnership`: `Spec => ImplementsOwnership`. In the states of
  `IInv` what is alive has an owner (`AliveOwned`) and the record is held exactly when
  it is needed (`HeldNeeded`); the primed forms of both give the last conjuncts of
  every abstract step (`OwnersRemain`, `RecordFollows`), so that an action only has to be
  mapped by what its variables own and what becomes of the instances. `CompletionAcquires` does
  this once for what follows a release, at once (`ReleaseReassigns`) or after the destructor
  (`ReturnEndsDestruction`); `ReleaseLosesLast` shows that the variable whose release reaches
  zero was the only owner.
* `AccessorsAnswerOwners`: `Spec => []AccessorsTellOwners`, a consequence of `IInv`.
* `AbandonedBlocksOnlyWait`: `Spec => AbandonedOnlyWaits`. By the counts an abandoned block is
  that of an instance in its destructor (`AbandonedIsDying`). The rest is a consequence of the
  refinement: no step of `Ownership` gives a dying instance an owner or an observer
  (`DyingIsNotTaken`), and when it is gone nothing needs its record. So only a destructor that
  does not return stands between an abandoned block and `AbandonedIsFreed`.

`InstancePairProofs` proves `Aligned`, `FitsInAllocation`, `PlacedFirst` and `NoOverlap` for every width of an
address, under `Sensible`: no alignment is zero (finding `zero_alignment`), and sizes and
padding together do not wrap around. The work is in four facts about remainders and in
`PaddingAligns`; the invariant adds that allocations are apart and that the objects are
twice as many as they are. `PlacedFirst` needs that two multiples of an alignment
are at least that far apart (`MultiplesApart`).

`PerformanceProofs` proves `RowsComplete`, `TimedTogether` and `SomeoneGoesOn` of `Performance` for
any number of threads. The invariant says where the threads are, from
where the main thread is in its loops, that who is in the section holds the mutex, that
therefore a total read is the total to be written, and what each total contains (`TotalInv`).

It proves as well that the harness is bounded. `mainStepsLeft` and `threadStepsLeft` are the
sets of what the main thread and the others have still to do, in this run and in all later ones.

* `HarnessOnlyAdvances`: `Spec => HarnessAdvances`. No step adds to either set, each removes
  something: of the run that goes on (`MainStepAdvances`, `ThreadStepAdvances`), or its last
  element when the next begins (`NextRunAdvances`). That the main thread is never more than one
  past the loop it is in had to become part of the invariant for it.
* `HarnessStepsAreCounted`: so the number of both, which is at most `2n(2n + 3) + 12n * n` for `n`
  rows (`HarnessWorkIsFinite`), falls with every step, whatever the scheduler does.

`TerminationProofs` proves, under `Disciplined`, the part of the liveness argument that is about
single steps. A destructor has three things before it (to begin, to leave its body, to return)
and its members to destroy; `destructorsLeft` and `membersLeft` are the sets of all of these.

* `DestructionIsBounded`: `Spec => WorkOnlyShrinks`. No operation adds to either set, also when a
  destructor makes it, and each `DestructorStep` removes something. A destruction inside a
  destructor can make the way back longer only by work that was in the sets before. That a
  destructor leaves its body once (`BodyEnds`) and that one instance has one frame rest on `FrameInv`.
* `NestingIsBounded`: `Spec => []OneCallPerDestruction`. The frames and the dying instances
  are in bijection (`CallsAreDestructions`), so the recursion of `release_shared` is as deep as there
  are instances dying. This is the only bound the code has; the chain of `chain_liveness` attains it.
* Two lemmas complete the account: `WorkDecreases`, by which the number `Work` of both sets, at
  most three times the instances plus the variables (`WorkIsFinite`), falls with each step of a
  destructor, and `DestructorGoesOn`, by which a guard never keeps the innermost destructor
  from its next step. What is left of `CallReturns` is the fairness of `DestructorStep`.

`ProgramProofs` takes these results to the program:

* `TestsAreDisciplined`: `ProgramSpec => []IInv`. The proof does not expand `Tests`: a call of a
  script is a step of `SmartPtr` (`CallIsStep`), and the state in which the next test begins
  satisfies `Init`, since null handles have null pointers (`TestBegins`). So it holds for any scripts; that
  those of `correctness.cpp` are not held up by a guard of the discipline is what `ProgramEnds` checks.
* `TestsRestoreInitialState`: without variables there are no owners, no observers and no frames, hence
  counts of zero and no blocks (`NothingRemains`).
* `ProgramRunsHarness`: the program does to the variables of the harness what `Performance`
  describes or nothing; `ProgramRowsComplete`, `ProgramTimedTogether` and `ProgramNeverStuck` are the
  theorems of `PerformanceProofs` inside the program. They need no hypothesis beyond `MaxThreadsAssumption`.
* `ProgramOnlyAdvances`: `ProgramSpec => ProgramAdvances`. Each step begins a test, makes a call,
  or is one of the steps `WorkStep` and `Advance` count: in the order of tests, calls and work
  the program only descends. What is left of `ProgramEnds` is that a step is possible
  (`SomeoneGoesOn`, `DestructorGoesOn`, and that no guard holds up a script, which TLC checks),
  and fairness.

The other assumptions are the named ones of `ControlBlock`, `Handles`, `InstancePair` and `Program`.
Only model-checked are the liveness properties (`CallReturns`, `AbandonedIsFreed`,
`ImplementsLiveOwnership`, `ProgramEnds`), which are out of the prover's reach, and
`RequirementsHold`, which is about finitely many scripts and is settled by running them.

## Not modelled

* The place of the memory of the instance (inside or outside the block): the
  operations do not depend on it.
* Instances that are adopted twice or destroyed by `delete`: outside the contract.
* `malloc` returning null in `Create` and destructors that throw: undefined
  behaviour the code does not handle (see the hazards).
* Types: a variable may take any block. Pointer adjustment between bases is not
  followed; `mPtr` names the instance.
* The values of the times and the table that is printed: a total is modelled by which
  measurements it contains.
* Pragmas, packing and `#error` directives of the settings: they have no state.
* The limit of the stack of a thread, which a long enough chain of instances reaches: the
  depth is `OneCallPerDestruction`, the size of a stack is not in the code.

## Plan

Done: the library, the tests, the harness and the program that composes them; the
abstract specification and the refinement; theorems for all properties the passing runs check,
except what single tests require and liveness; the safety half of each liveness property,
step by step. What could be added when the code grows:

1. Threads that share pointers, should the library get a concurrent variant: `ControlBlock` then
   has to be split at each access to a count.
2. The place of the memory of the instance, should more kinds of control block appear.
