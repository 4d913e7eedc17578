------------------------------ MODULE Performance ------------------------------
(***************************************************************************)
(* The performance harness (unit_tests/shared_ptr_nc/performance.cpp): for *)
(* every number of threads the main thread starts that many threads which  *)
(* time std::shared_ptr, then as many which time shared_ptr_nc, and prints *)
(* a row.  Each thread times a pointer of its own to an instance of its    *)
(* own, so the pointers are not part of the state.                         *)
(*                                                                         *)
(* A total of elapsed times is the set of the measurements added to it,    *)
(* each <<row, thread>>.  Adding reads the total and then writes it.       *)
(***************************************************************************)
EXTENDS Naturals, Sequences

CONSTANTS
  MaxThreads,   \* the number of rows, 39 in the code
  NULL          \* the owner of a free mutex

Parameters == MaxThreads \in Nat \ {0} /\ NULL \notin 1..MaxThreads

VARIABLES
  main,      \* where the main thread is
  row,       \* threadCount
  kind,      \* the functor of the run: "std" or "nc"
  index,     \* of the loops of TestRun, from 1
  sStart,
  thread,    \* where each thread is
  mutex,     \* the thread that holds it, or NULL
  loaded,    \* what each thread has read of the total
  ptrTime,   \* the totals: stdPtrTime and ncPtrTime
  rows       \* the rows printed

mainVars    == <<main, row, kind, index>>
threadVars  == <<mutex, loaded, ptrTime>>
performance == <<main, row, kind, index, sStart, thread, mutex, loaded, ptrTime, rows>>

Kind == {"std", "nc"}
Thread == 1..MaxThreads

Init ==
  /\ main = "begin" /\ row = 1 /\ kind = "std" /\ index = 1
  /\ sStart = FALSE
  /\ thread = [t \in Thread |-> "none"]
  /\ mutex = NULL
  /\ loaded = [t \in Thread |-> {}]
  /\ ptrTime = [k \in Kind |-> {}]
  /\ rows = <<>>

(***************************************************************************)
(* The main thread.                                                        *)
(***************************************************************************)

\* Mutant: the flag of the run before is left up.
TestRunBegins_FlagUp ==
  /\ main = "begin"
  /\ index' = 1
  /\ main' = "create"
  /\ UNCHANGED <<row, kind, sStart, thread, threadVars, rows>>

TestRunBegins ==
  /\ main = "begin"
  /\ sStart' = FALSE
  /\ index' = 1
  /\ main' = "create"
  /\ UNCHANGED <<row, kind, thread, threadVars, rows>>

CreateThread ==
  /\ main = "create" /\ index <= row
  /\ thread' = [thread EXCEPT ![index] = "spin"]
  /\ index' = index + 1
  /\ UNCHANGED <<main, row, kind, sStart, threadVars, rows>>

\* The constructor of std::thread throws, nothing catches: std::terminate.
CreateFails ==
  /\ main = "create" /\ index <= row
  /\ main' = "terminated"
  /\ UNCHANGED <<row, kind, index, sStart, thread, threadVars, rows>>

\* Mutant: the threads are never let go.
StartThreads_Forgotten ==
  /\ main = "create" /\ index > row
  /\ index' = 1
  /\ main' = "join"
  /\ UNCHANGED <<row, kind, sStart, thread, threadVars, rows>>

StartThreads ==
  /\ main = "create" /\ index > row
  /\ sStart' = TRUE
  /\ index' = 1
  /\ main' = "join"
  /\ UNCHANGED <<row, kind, thread, threadVars, rows>>

JoinThread ==
  /\ main = "join" /\ index <= row
  /\ thread[index] = "finished"
  /\ thread' = [thread EXCEPT ![index] = "none"]
  /\ index' = index + 1
  /\ UNCHANGED <<main, row, kind, sStart, threadVars, rows>>

\* Mutant: the same functor again.
NextFunctor_Again ==
  /\ main = "join" /\ index > row /\ kind = "std"
  /\ main' = "begin"
  /\ UNCHANGED <<row, kind, index, sStart, thread, threadVars, rows>>

\* TestRun has returned: the other functor,
NextFunctor ==
  /\ main = "join" /\ index > row /\ kind = "std"
  /\ kind' = "nc"
  /\ main' = "begin"
  /\ UNCHANGED <<row, index, sStart, thread, threadVars, rows>>

\* or the row, and the next number of threads.
PrintRow ==
  /\ main = "join" /\ index > row /\ kind = "nc"
  /\ rows' = Append(rows, ptrTime)
  /\ kind' = "std"
  /\ row' = row + 1
  /\ main' = IF row < MaxThreads THEN "begin" ELSE "done"
  /\ UNCHANGED <<index, sStart, thread, threadVars>>

MainStep ==
  \/ TestRunBegins \/ CreateThread \/ CreateFails \/ StartThreads
  \/ JoinThread \/ NextFunctor \/ PrintRow

(***************************************************************************)
(* A thread.  While sStart is down it spins, which changes nothing.        *)
(***************************************************************************)
Goes(t, from, to) ==
  /\ main # "terminated"
  /\ thread[t] = from
  /\ thread' = [thread EXCEPT ![t] = to]
  /\ UNCHANGED <<mainVars, sStart, rows>>

LeaveSpin(t) == sStart /\ Goes(t, "spin", "timing") /\ UNCHANGED threadVars

Measure(t) == Goes(t, "timing", "timed") /\ UNCHANGED threadVars

\* Mutant: nobody waits for the mutex.
Lock_NoWait(t) ==
  /\ Goes(t, "timed", "locked")
  /\ mutex' = t
  /\ UNCHANGED <<loaded, ptrTime>>

Lock(t) ==
  /\ mutex = NULL
  /\ Goes(t, "timed", "locked")
  /\ mutex' = t
  /\ UNCHANGED <<loaded, ptrTime>>

ReadTotal(t) ==
  /\ Goes(t, "locked", "read")
  /\ loaded' = [loaded EXCEPT ![t] = ptrTime[kind]]
  /\ UNCHANGED <<mutex, ptrTime>>

WriteTotal(t) ==
  /\ Goes(t, "read", "added")
  /\ ptrTime' = [ptrTime EXCEPT ![kind] = loaded[t] \cup {<<row, t>>}]
  /\ UNCHANGED <<mutex, loaded>>

Unlock(t) ==
  /\ Goes(t, "added", "finished")
  /\ mutex' = NULL
  /\ UNCHANGED <<loaded, ptrTime>>

ThreadStep(t) ==
  LeaveSpin(t) \/ Measure(t) \/ Lock(t) \/ ReadTotal(t) \/ WriteTotal(t) \/ Unlock(t)

Next == MainStep \/ \E t \in Thread : ThreadStep(t)

Ended == main \in {"done", "terminated"}

\* The system runs the main thread and every other one.
Fairness ==
  /\ WF_performance(MainStep)
  /\ \A t \in Thread : WF_performance(ThreadStep(t))

Spec == Init /\ [][Next]_performance /\ Fairness

(***************************************************************************)
(* Properties.                                                             *)
(***************************************************************************)
Measurements(r) == {m \in (1..r) \X Thread : m[2] <= m[1]}

\* A row that was printed has the time of every thread that ran up to it, for
\* both pointers, once: none lost between two threads that add to a total, none
\* of a thread that was not waited for, none of a run that could not start.
RowsComplete ==
  \A r \in DOMAIN rows : \A k \in Kind : rows[r][k] = Measurements(r)

\* No thread starts its clock before all threads of its run exist, whatever the
\* run before has left in sStart, nor in a run where one could not be created.
TimedTogether ==
  \A t \in Thread : thread[t] \notin {"none", "spin"} => main = "join"

\* Until the harness has ended somebody can go on: a thread that the main thread
\* waits for is never left to spin, nor does it wait for a mutex whose holder
\* waits for anything. So they never all wait for one another.
SomeoneGoesOn ==
  ~ Ended =>
    \/ main \in {"begin", "create"}
    \/ main = "join" /\ (index > row \/ thread[index] = "finished")
    \/ \E t \in Thread :
         \/ thread[t] = "spin" /\ sStart
         \/ thread[t] = "timed" /\ mutex = NULL
         \/ thread[t] \in {"timing", "locked", "read", "added"}

\* What is left to do: of the main thread, in run <<r, k>> of r threads, to begin,
\* to create them, to start them, to join them and to go on, numbered from 0 to
\* 2r + 2; of each thread, to leave the stages up to its end.
Stages == <<"spin", "timing", "timed", "locked", "read", "added">>

ComesLater(r, k) == r > row \/ (r = row /\ kind = "std" /\ k = "nc")
IsCurrent(r, k) == r = row /\ k = kind

Place == IF main = "begin" THEN 0 ELSE IF main = "create" THEN index ELSE row + 1 + index

StageLeft(t, s) ==
  \/ thread[t] = "none" /\ main # "join"
  \/ \E q \in 1 .. s : thread[t] = Stages[q]

mainStepsLeft ==
  {m \in Thread \X Kind \X (0 .. 2 * MaxThreads + 2) :
     /\ ~ Ended
     /\ m[3] <= 2 * m[1] + 2
     /\ ComesLater(m[1], m[2]) \/ (IsCurrent(m[1], m[2]) /\ m[3] >= Place)}

threadStepsLeft ==
  {m \in Thread \X Kind \X Thread \X DOMAIN Stages :
     /\ ~ Ended
     /\ m[3] <= m[1]
     /\ ComesLater(m[1], m[2]) \/ (IsCurrent(m[1], m[2]) /\ StageLeft(m[3], m[4]))}

\* No step of any thread gives another one more to do, in this run or a later
\* one, and each does some of what is left: no loop of the harness goes around
\* once too often, and with SomeoneGoesOn only the scheduler can keep it from
\* its end.
Advance ==
  /\ mainStepsLeft' \subseteq mainStepsLeft
  /\ threadStepsLeft' \subseteq threadStepsLeft
  /\ mainStepsLeft' # mainStepsLeft \/ threadStepsLeft' # threadStepsLeft

HarnessAdvances == [][Advance]_performance

\* The harness comes to an end: every thread is let go, gets the mutex and is
\* joined.
HarnessEnds == <>Ended

\* "For 39 threads we have" (docs/shared_ptr_nc/shared_ptr_nc.html:66): a row
\* has the times of that many threads, those that ran for it.
RowIsOfItsThreads ==
  \A r \in DOMAIN rows : \A k \in Kind : rows[r][k] = {r} \X (1..r)
=============================================================================
