----------------------------- MODULE ProgramProofs -----------------------------
(***************************************************************************)
(* The program as a whole: its tests are disciplined users of the library, *)
(* whatever their scripts, its harness behaves as it does alone, and no    *)
(* step of either takes it back.                                           *)
(***************************************************************************)
EXTENDS Program, TerminationProofs

Proved == INSTANCE PerformanceProofs

(***************************************************************************)
(* The tests.                                                              *)
(***************************************************************************)
LEMMA CallIsStep == NextCall => Next
<1>1. ASSUME NEW op, NEW x, NEW y, MakeCall(op, x, y)
      PROVE  InstanceStep \/ SharedStep \/ WeakStep
  <2>1. CASE x \in Block /\ op = "New" /\ New(x)
    BY <2>1 DEF InstanceStep
  <2>2. CASE x \in SharedVar /\ SharedCall(op, x)
    BY <2>2 DEF SharedCall, SharedStep
  <2>3. CASE x \in SharedVar /\ y \in Block /\ InstanceCall(op, x, y)
    BY <2>3 DEF InstanceCall, InstanceStep, SharedStep
  <2>4. CASE x \in SharedVar /\ y \in SharedVar /\ SharedSharedCall(op, x, y)
    BY <2>4 DEF SharedSharedCall, SharedStep
  <2>5. CASE x \in SharedVar /\ y \in WeakVar /\ op = "Lock" /\ Lock(x, y)
    BY <2>5 DEF WeakStep
  <2>6. CASE x \in WeakVar /\ WeakCall(op, x)
    BY <2>6 DEF WeakCall, WeakStep
  <2>7. CASE x \in WeakVar /\ y \in WeakVar /\ WeakWeakCall(op, x, y)
    BY <2>7 DEF WeakWeakCall, WeakStep
  <2>8. CASE x \in WeakVar /\ y \in SharedVar /\ WeakSharedCall(op, x, y)
    BY <2>8 DEF WeakSharedCall, WeakStep
  <2> QED
    BY <1>1, <2>1, <2>2, <2>3, <2>4, <2>5, <2>6, <2>7, <2>8 DEF MakeCall
<1> QED
  BY <1>1 DEF NextCall, Next

\* A test begins where the library begins: what the one before had is gone.
LEMMA TestBegins == IInv /\ NextTest => Init'
<1> SUFFICES ASSUME IInv, NextTest
             PROVE  Init'
  OBVIOUS
<1>1. \A x \in Var : mHandle[x] = NULL /\ mPtr[x] = NULL
  BY DEF NextTest, IInv, VarInv, PointerMatchesBlock
<1>2. mHandle \in [Var -> Handle] /\ mPtr \in [Var -> Handle] /\ fault = "none"
  BY DEF IInv, TypeOK, HandleTypeOK
<1>3. BlockInit'
  BY DEF NextTest, BlockInit
<1>4. HandleInit'
  BY <1>1, <1>2 DEF NextTest, HandleInit
<1> QED
  BY <1>3, <1>4 DEF Init

LEMMA InitIsSafe ==
  ASSUME Disciplined
  PROVE  Init => IInv
  BY InitSafe DEF Disciplined

LEMMA ProgramStepSafe ==
  ASSUME Disciplined
  PROVE  IInv /\ [ProgramNext]_programVars => IInv'
<1>1. Init' => IInv'
  BY InitIsSafe, PTL
<1>2. IInv /\ TestNext => IInv'
  BY <1>1, CallIsStep, TestBegins, NextSafe DEF TestNext, DestructorRuns, Next
<1>3. IInv /\ UNCHANGED vars => IInv'
  BY StutterSafe
<1> QED
  BY <1>2, <1>3 DEF ProgramNext, Perform, TestPerformance, MainMeasures, ThreadMeasures, Measuring,
                    Exit, programVars, testVars

\* With the last variable the last reference goes, and with it the block.
LEMMA NothingRemains ==
  ASSUME IInv, Disciplined
  PROVE  InitialStateRestored
<1> SUFFICES ASSUME scope = {}, stack = <<>>
             PROVE  /\ live_instance_count = 0
                    /\ \A b \in Block : inst[b] \in {"live", "dying"} => mem[b] = "none"
  BY DEF InitialStateRestored
<1>1. \A x \in Var : mHandle[x] = NULL
  BY DEF IInv, VarInv
<1>2. ASSUME NEW b \in Block
      PROVE  mem[b] # "held" /\ inst[b] # "dying"
  <2>1. Owners(b) = {} /\ Observers(b) = {}
    BY <1>1, BlockAssumption DEF Owners, Observers, Var
  <2>2. inst[b] # "dying"
    BY DEF IInv, FrameInv, Depth
  <2>3. Cardinality(Owners(b)) = 0 /\ Cardinality(Observers(b)) = 0
    BY <2>1, FS_EmptySet
  <2>4. mStrong[b] = Cardinality(Owners(b)) /\ mWeak[b] = Cardinality(Observers(b)) + Temporary(b)
    BY DEF IInv, CountInv
  <2>5. Temporary(b) = 0
    BY <2>2 DEF Temporary
  <2>6. mStrong[b] = 0 /\ mWeak[b] = 0
    BY <2>3, <2>4, <2>5
  <2> QED
    BY <2>2, <2>6 DEF IInv, LifeInv
<1>3. {b \in Block : mem[b] = "held"} = {}
  BY <1>2
<1>4. ASSUME NEW b \in Block, inst[b] = "live"
      PROVE  mem[b] = "none"
  <2>1. mem[b] \in MemState
    BY DEF IInv, TypeOK, BlockTypeOK
  <2> QED
    BY <1>2, <1>4, <2>1 DEF IInv, LifeInv, MemState
<1> QED
  BY <1>2, <1>3, <1>4, FS_EmptySet DEF live_instance_count

(***************************************************************************)
(* The harness.  Program and its proofs instantiate the same module, once  *)
(* for the definitions and once for the lemmas.                            *)
(***************************************************************************)
LEMMA SameMainStep == Harness!MainStep = Proved!MainStep
  BY DEF Harness!MainStep, Proved!MainStep,
         Harness!TestRunBegins, Harness!CreateThread, Harness!CreateFails, Harness!StartThreads,
         Harness!JoinThread, Harness!NextFunctor, Harness!PrintRow, Harness!threadVars,
         Proved!TestRunBegins, Proved!CreateThread, Proved!CreateFails, Proved!StartThreads,
         Proved!JoinThread, Proved!NextFunctor, Proved!PrintRow, Proved!threadVars

LEMMA SameThreadStep ==
  Harness!Thread = Proved!Thread /\ \A t : Harness!ThreadStep(t) = Proved!ThreadStep(t)
  BY DEF Harness!Thread, Harness!ThreadStep, Proved!Thread, Proved!ThreadStep,
         Harness!LeaveSpin, Harness!Measure, Harness!Lock, Harness!ReadTotal,
         Harness!WriteTotal, Harness!Unlock, Harness!Goes, Harness!mainVars, Harness!threadVars,
         Proved!LeaveSpin, Proved!Measure, Proved!Lock, Proved!ReadTotal,
         Proved!WriteTotal, Proved!Unlock, Proved!Goes, Proved!mainVars, Proved!threadVars

\* A step of the program is a step of the harness or leaves it alone.
LEMMA HarnessStep ==
  [ProgramNext]_programVars => [Proved!Next]_(Proved!performance)
<1>1. Perform \/ Exit \/ UNCHANGED programVars => UNCHANGED Proved!performance
  BY DEF Perform, Exit, programVars, harnessVars, Proved!performance
<1>2. TestPerformance => Proved!Next
  BY SameMainStep, SameThreadStep
  DEF TestPerformance, MainMeasures, ThreadMeasures, Proved!Next
<1> QED
  BY <1>1, <1>2 DEF ProgramNext

LEMMA InitMapsToHarness == ProgramInit => Proved!Init
  BY DEF ProgramInit, Harness!Init, Proved!Init, Harness!Thread, Proved!Thread,
         Harness!Kind, Proved!Kind

LEMMA HarnessInvariant == ProgramSpec => []Proved!PInv
<1> USE MaxThreadsAssumption DEF Harness!Parameters, Proved!Parameters
<1>1. ProgramInit => Proved!PInv
  BY InitMapsToHarness, Proved!InitHolds
<1>2. Proved!PInv /\ [ProgramNext]_programVars => Proved!PInv'
  BY HarnessStep, Proved!NextHolds
<1> QED
  BY <1>1, <1>2, PTL DEF ProgramSpec

LEMMA ProgramInvariant ==
  ASSUME Disciplined
  PROVE  ProgramSpec => []IInv
<1>1. ProgramInit => IInv
  BY InitIsSafe DEF ProgramInit, TestInit
<1>2. IInv /\ [ProgramNext]_programVars => IInv'
  BY ProgramStepSafe
<1> QED
  BY <1>1, <1>2, PTL DEF ProgramSpec

(***************************************************************************)
(* What holds of the program.                                              *)
(***************************************************************************)

\* Every test keeps the library's invariant: counts, lifetimes and the calls in
\* progress are consistent after each call and inside every destructor, for any
\* scripts (Tests is never expanded here), and each test begins with what Init
\* describes.
THEOREM TestsAreDisciplined ==
  ASSUME Disciplined
  PROVE  ProgramSpec => []IInv
  BY ProgramInvariant

\* ValidateInitialState for every test there could be: with the last variable
\* the last control block is gone, and every instance that had one.
THEOREM TestsRestoreInitialState ==
  ASSUME Disciplined
  PROVE  ProgramSpec => []InitialStateRestored
<1>1. IInv => InitialStateRestored
  BY NothingRemains
<1> QED
  BY <1>1, ProgramInvariant, PTL

\* In the program as in the harness alone, no printed row lacks a measurement.
THEOREM ProgramRowsComplete == ProgramSpec => []RowsComplete
<1> USE MaxThreadsAssumption DEF Harness!Parameters, Proved!Parameters
<1>1. Proved!PInv => RowsComplete
  <2>1. Proved!RowsComplete = RowsComplete
    BY DEF RowsComplete, Harness!RowsComplete, Proved!RowsComplete, Harness!Kind, Proved!Kind,
           Harness!Measurements, Proved!Measurements, Harness!Thread, Proved!Thread
  <2> QED
    BY <2>1, Proved!PInvRows
<1> QED
  BY <1>1, HarnessInvariant, PTL

\* In the program as well, no thread starts its clock before all of them exist.
THEOREM ProgramTimedTogether == ProgramSpec => []TimedTogether
<1> USE MaxThreadsAssumption DEF Harness!Parameters, Proved!Parameters
<1>1. Proved!PInv => TimedTogether
  <2>1. Proved!TimedTogether = TimedTogether
    BY DEF TimedTogether, Harness!TimedTogether, Proved!TimedTogether,
           Harness!Thread, Proved!Thread
  <2> QED
    BY <2>1, Proved!PInvTimed
<1> QED
  BY <1>1, HarnessInvariant, PTL

\* Nor do the threads of the program ever all wait for one another.
THEOREM ProgramNeverStuck == ProgramSpec => []SomeoneGoesOn
<1> USE MaxThreadsAssumption DEF Harness!Parameters, Proved!Parameters
<1>1. Proved!PInv => SomeoneGoesOn
  <2>1. Proved!SomeoneGoesOn = SomeoneGoesOn
    BY DEF SomeoneGoesOn, Harness!SomeoneGoesOn, Proved!SomeoneGoesOn,
           Harness!Ended, Proved!Ended, Harness!Thread, Proved!Thread
  <2> QED
    BY <2>1, Proved!PInvGoesOn
<1> QED
  BY <1>1, HarnessInvariant, PTL

\* Built to measure, built to test, or built wrongly, the program does to the
\* harness what Performance describes and nothing else.
THEOREM ProgramRunsHarness ==
  ProgramSpec => Proved!Init /\ [][Proved!Next]_(Proved!performance)
<1>1. ProgramInit => Proved!Init
  BY InitMapsToHarness
<1> QED
  BY <1>1, HarnessStep, PTL DEF ProgramSpec

(***************************************************************************)
(* Progress.                                                               *)
(***************************************************************************)
Counters == test \in Nat /\ pc \in Nat

LEMMA CountersCount == ProgramSpec => []Counters
<1>1. ProgramInit => Counters
  BY DEF ProgramInit, TestInit, Counters
<1>2. Counters /\ [ProgramNext]_programVars => Counters'
  <2>1. Counters /\ TestNext => Counters'
    BY DEF Counters, TestNext, NextCall, DestructorRuns, NextTest
  <2>2. Counters /\ UNCHANGED <<test, pc>> => Counters'
    BY DEF Counters
  <2> QED
    BY <2>1, <2>2 DEF ProgramNext, Perform, TestPerformance, MainMeasures, ThreadMeasures,
                      Measuring, Exit, programVars, testVars
<1> QED
  BY <1>1, <1>2, PTL DEF ProgramSpec

LEMMA SameAdvance == Harness!Advance = Proved!Advance
<1>1. /\ Harness!mainStepsLeft = Proved!mainStepsLeft
      /\ Harness!threadStepsLeft = Proved!threadStepsLeft
      /\ Harness!mainStepsLeft' = Proved!mainStepsLeft'
      /\ Harness!threadStepsLeft' = Proved!threadStepsLeft'
  BY DEF Harness!mainStepsLeft, Harness!threadStepsLeft, Proved!mainStepsLeft,
         Proved!threadStepsLeft, Harness!Thread, Proved!Thread, Harness!Kind, Proved!Kind,
         Harness!Ended, Proved!Ended, Harness!ComesLater, Proved!ComesLater,
         Harness!IsCurrent, Proved!IsCurrent, Harness!Place, Proved!Place,
         Harness!Stages, Proved!Stages, Harness!StageLeft, Proved!StageLeft
<1> QED
  BY <1>1 DEF Harness!Advance, Proved!Advance

LEMMA TestGoesForward ==
  ASSUME IInv, Counters, Perform
  PROVE  Forward
<1>1. UNCHANGED harnessVars /\ TestNext
  BY DEF Perform
<1>2. CASE NextTest
  BY <1>1, <1>2 DEF NextTest, Counters, Forward
<1>3. CASE NextCall
  BY <1>1, <1>3 DEF NextCall, Counters, Forward
<1>4. CASE DestructorRuns
  <2>1. DestructorStep /\ Next /\ UNCHANGED <<test, pc>>
    BY <1>4 DEF DestructorRuns, Next
  <2> QED
    BY <1>1, <2>1, StepWorks DEF Forward
<1> QED
  BY <1>1, <1>2, <1>3, <1>4 DEF TestNext

LEMMA HarnessGoesForward ==
  ASSUME Proved!PInv, TestPerformance
  PROVE  Forward
<1> USE MaxThreadsAssumption DEF Harness!Parameters, Proved!Parameters
<1>1. Proved!Next /\ UNCHANGED testVars
  BY SameMainStep, SameThreadStep
  DEF TestPerformance, MainMeasures, ThreadMeasures, Measuring, Proved!Next
<1>2. Proved!Advance
  BY <1>1, Proved!NextAdvances
<1> QED
  BY <1>1, <1>2, SameAdvance DEF Forward

\* Every step of the program, however it was built and whichever disciplined
\* calls its tests make, is a test begun, a call made, or some of the bounded
\* work of a destructor or of a thread: it loops nowhere. That it ends is then a
\* matter of its steps being possible and of the system taking them.
THEOREM ProgramOnlyAdvances ==
  ASSUME Disciplined
  PROVE  ProgramSpec => ProgramAdvances
<1>1. IInv /\ Counters /\ Proved!PInv /\ [ProgramNext]_programVars => [Forward]_programVars
  <2>1. Exit => UNCHANGED programVars
    BY DEF Exit
  <2> QED
    BY <2>1, TestGoesForward, HarnessGoesForward DEF ProgramNext
<1> QED
  BY <1>1, ProgramInvariant, CountersCount, HarnessInvariant, PTL DEF ProgramSpec, ProgramAdvances
=============================================================================
