-------------------------------- MODULE Program --------------------------------
(***************************************************************************)
(* The program of unit_tests/shared_ptr_nc: as it was built, it performs   *)
(* the unit tests or it measures.                                          *)
(***************************************************************************)
EXTENDS Correctness, Termination

CONSTANT MaxThreads

VARIABLES
  build,   \* the settings of the build
  main, row, kind, index, sStart, thread, mutex, loaded, ptrTime, rows

Harness == INSTANCE Performance

ASSUME MaxThreadsAssumption == Harness!Parameters

harnessVars == <<main, row, kind, index, sStart, thread, mutex, loaded, ptrTime, rows>>
programVars == <<testVars, build, harnessVars>>

(***************************************************************************)
(* compiler_settings.hpp: a project defines the settings that end in       *)
(* _ENABLE, or does not, and the others follow.                            *)
(***************************************************************************)
Setting == {NULL, 0, 1}   \* NULL: not defined
Builds == [BCH_SMART_PTR_DEBUG_ENABLE : Setting, BCH_SMART_PTR_UNITTEST_ENABLE : Setting]

OrDefault(setting) == IF setting = NULL THEN 0 ELSE setting

BCH_SMART_PTR_DEBUG == OrDefault(build.BCH_SMART_PTR_DEBUG_ENABLE)

BCH_SMART_PTR_UNITTEST ==
  IF BCH_SMART_PTR_DEBUG = 1 THEN OrDefault(build.BCH_SMART_PTR_UNITTEST_ENABLE) ELSE 0

(***************************************************************************)
(* main().                                                                 *)
(***************************************************************************)
ProgramInit == TestInit /\ Harness!Init /\ build \in Builds

Perform ==
  /\ BCH_SMART_PTR_UNITTEST = 1
  /\ TestNext
  /\ UNCHANGED <<build, harnessVars>>

Measuring == BCH_SMART_PTR_UNITTEST = 0 /\ UNCHANGED <<testVars, build>>
MainMeasures      == Measuring /\ Harness!MainStep
ThreadMeasures(t) == Measuring /\ Harness!ThreadStep(t)
TestPerformance   == MainMeasures \/ \E t \in Harness!Thread : ThreadMeasures(t)

Ended == IF BCH_SMART_PTR_UNITTEST = 1 THEN ~ Running ELSE Harness!Ended

Exit == Ended /\ UNCHANGED programVars

ProgramNext == Perform \/ TestPerformance \/ Exit

\* The destructors of the tests' classes terminate, and the system runs every
\* thread.
ProgramSpec ==
  /\ ProgramInit /\ [][ProgramNext]_programVars
  /\ WF_programVars(Perform)
  /\ WF_programVars(MainMeasures)
  /\ \A t \in Harness!Thread : WF_programVars(ThreadMeasures(t))

RowsComplete == Harness!RowsComplete
TimedTogether == Harness!TimedTogether
SomeoneGoesOn == Harness!SomeoneGoesOn

\* A step of the program takes it forward: the harness, or the test that runs,
\* or the calls of a test, or a destructor that runs in one of them; and nothing
\* takes it back. There are as many tests and calls as the scripts have, and as
\* much work of destructors and threads as Termination and Performance count, so
\* that whatever order these steps come in they come to an end.
Forward ==
  \/ Harness!Advance /\ UNCHANGED testVars
  \/ /\ UNCHANGED harnessVars
     /\ \/ test' > test
        \/ test' = test /\ pc' > pc
        \/ UNCHANGED <<test, pc>> /\ DestructorStep /\ WorkStep

ProgramAdvances == [][Forward]_programVars

\* However it was built, the program comes to an end: no test waits for a
\* destructor that does not return, and no thread of the harness spins, waits
\* for the mutex, or is waited for, for ever.
ProgramEnds == <>Ended
=============================================================================
