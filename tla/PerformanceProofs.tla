---------------------------- MODULE PerformanceProofs ----------------------------
(***************************************************************************)
(* The rows of the performance harness are complete, its threads start     *)
(* together, and each step brings it nearer to its end, for every number   *)
(* of rows.                                                                *)
(***************************************************************************)
EXTENDS Performance, SequenceTheorems, FiniteSetTheorems, TLAPS

MainState   == {"begin", "create", "join", "done", "terminated"}
ThreadState == {"none", "spin", "timing", "timed", "locked", "read", "added", "finished"}
InSection   == {"locked", "read", "added"}

TypeOK ==
  /\ main \in MainState
  /\ row \in 1 .. MaxThreads + 1
  /\ main # "done" => row <= MaxThreads
  /\ kind \in Kind
  /\ main = "done" => kind = "std"
  /\ index \in Nat \ {0}
  /\ thread \in [Thread -> ThreadState]
  /\ mutex \in Thread \cup {NULL}
  /\ loaded \in [Thread -> SUBSET (Nat \X Thread)]
  /\ ptrTime \in [Kind -> SUBSET (Nat \X Thread)]

(***************************************************************************)
(* Which threads there are, from where the main thread is in its loops.    *)
(***************************************************************************)
ThreadInv ==
  /\ main \in {"begin", "done"} => \A t \in Thread : thread[t] = "none"
  /\ main \in {"create", "terminated"} =>
       /\ ~ sStart
       /\ index <= row + 1
       /\ \A t \in Thread : thread[t] = IF t < index THEN "spin" ELSE "none"
  /\ main = "join" =>
       /\ sStart
       /\ index <= row + 1
       /\ \A t \in Thread : thread[t] = "none" <=> t < index \/ t > row

MutexInv == \A t \in Thread : thread[t] \in InSection <=> mutex = t

\* Nobody adds to the total between the two halves of an addition.
LoadedInv == \A t \in Thread : thread[t] = "read" => loaded[t] = ptrTime[kind]

(***************************************************************************)
(* The totals: the rows before, and the threads of this run that added.    *)
(***************************************************************************)
Added(t) == main = "join" /\ t <= row /\ (t < index \/ thread[t] \in {"added", "finished"})

TotalInv ==
  /\ \A n \in Nat, t \in Thread :
       /\ <<n, t>> \in ptrTime[kind] <=> (n \in 1 .. row - 1 /\ t <= n) \/ (n = row /\ Added(t))
       /\ kind = "std" => (<<n, t>> \in ptrTime["nc"] <=> n \in 1 .. row - 1 /\ t <= n)
       /\ kind = "nc" => (<<n, t>> \in ptrTime["std"] <=> n \in 1 .. row /\ t <= n)

RowInv ==
  /\ rows \in Seq([Kind -> SUBSET (Nat \X Thread)])
  /\ Len(rows) = row - 1
  /\ RowsComplete

PInv == TypeOK /\ ThreadInv /\ MutexInv /\ LoadedInv /\ TotalInv /\ RowInv

\* A total is known by the pairs in it.
LEMMA TotalIsMeasurements ==
  ASSUME NEW S \in SUBSET (Nat \X Thread), NEW r \in Nat,
         \A n \in Nat, t \in Thread : <<n, t>> \in S <=> n \in 1 .. r /\ t <= n
  PROVE  S = Measurements(r)
<1>1. ASSUME NEW x \in S
      PROVE  x \in Measurements(r)
  <2>1. PICK n \in Nat, t \in Thread : x = <<n, t>>
    OBVIOUS
  <2> QED
    BY <1>1, <2>1 DEF Measurements
<1>2. ASSUME NEW x \in Measurements(r)
      PROVE  x \in S
  <2>1. PICK n \in 1 .. r, t \in Thread : x = <<n, t>> /\ t <= n
    BY DEF Measurements
  <2> QED
    BY <2>1
<1> QED
  BY <1>1, <1>2

LEMMA InitHolds ==
  ASSUME Parameters, Init
  PROVE  PInv
<1>1. TypeOK
  <2>1. row \in 1 .. MaxThreads + 1 /\ row <= MaxThreads
    BY DEF Parameters, Init
  <2>2. /\ thread \in [Thread -> ThreadState]
        /\ loaded \in [Thread -> SUBSET (Nat \X Thread)]
        /\ ptrTime \in [Kind -> SUBSET (Nat \X Thread)]
    BY DEF Init, ThreadState
  <2> QED
    BY <2>1, <2>2 DEF Init, TypeOK, MainState, Kind
<1>2. ThreadInv /\ MutexInv /\ LoadedInv
  BY DEF Parameters, Init, ThreadInv, MutexInv, LoadedInv, InSection, Thread
<1>3. TotalInv
  BY DEF Init, TotalInv, Added, Kind
<1>4. RowInv
  BY EmptySeq DEF Init, RowInv, RowsComplete
<1> QED
  BY <1>1, <1>2, <1>3, <1>4 DEF PInv

(***************************************************************************)
(* The main thread: steps that print no row.                               *)
(***************************************************************************)
LEMMA MainStepHolds ==
  ASSUME Parameters, PInv,
         \/ TestRunBegins \/ CreateThread \/ CreateFails \/ StartThreads
         \/ JoinThread \/ NextFunctor
  PROVE  PInv'
<1>1. /\ main \in MainState /\ row \in Nat \ {0} /\ index \in Nat \ {0} /\ kind \in Kind
      /\ Thread = 1 .. MaxThreads /\ MaxThreads \in Nat
  BY DEF PInv, TypeOK, Thread, Parameters
<1>2. UNCHANGED <<row, rows, mutex, loaded, ptrTime>>
  BY DEF TestRunBegins, CreateThread, CreateFails, StartThreads, JoinThread, NextFunctor, threadVars
<1>3. TypeOK'
  <2>1. /\ main' \in MainState \ {"done"} /\ main # "done" /\ kind' \in Kind
        /\ index' \in Nat \ {0}
    BY <1>1 DEF PInv, TypeOK, MainState, Kind,
       TestRunBegins, CreateThread, CreateFails, StartThreads, JoinThread, NextFunctor
  <2>2. thread' \in [Thread -> ThreadState]
    BY DEF PInv, TypeOK, ThreadState,
       TestRunBegins, CreateThread, CreateFails, StartThreads, JoinThread, NextFunctor
  <2> QED
    BY <1>2, <2>1, <2>2 DEF PInv, TypeOK
<1>4. RowInv'
  BY <1>2 DEF PInv, RowInv, RowsComplete
<1>5. CASE TestRunBegins
  <2>1. ThreadInv'
    BY <1>1, <1>5 DEF PInv, ThreadInv, TestRunBegins
  <2>2. MutexInv' /\ LoadedInv'
    BY <1>2, <1>5 DEF PInv, MutexInv, LoadedInv, TestRunBegins
  <2>3. TotalInv'
    BY <1>2, <1>5 DEF PInv, TotalInv, Added, TestRunBegins
  <2> QED
    BY <1>3, <1>4, <2>1, <2>2, <2>3 DEF PInv
<1>6. CASE CreateThread
  <2>1. /\ index \in Thread /\ index' = index + 1 /\ UNCHANGED <<main, sStart, kind>>
        /\ \A t \in Thread : thread'[t] = IF t = index THEN "spin" ELSE thread[t]
    BY <1>1, <1>6 DEF PInv, TypeOK, CreateThread
  <2>2. ThreadInv'
    BY <1>1, <1>2, <1>6, <2>1 DEF PInv, ThreadInv, CreateThread
  <2>3. MutexInv' /\ LoadedInv'
    BY <1>1, <1>2, <1>6, <2>1 DEF PInv, ThreadInv, MutexInv, LoadedInv, InSection, CreateThread
  <2>4. TotalInv'
    BY <1>2, <1>6, <2>1 DEF PInv, TotalInv, Added, CreateThread
  <2> QED
    BY <1>3, <1>4, <2>2, <2>3, <2>4 DEF PInv
<1>7. CASE CreateFails
  <2>1. ThreadInv'
    BY <1>2, <1>7 DEF PInv, ThreadInv, CreateFails
  <2>2. MutexInv' /\ LoadedInv'
    BY <1>2, <1>7 DEF PInv, MutexInv, LoadedInv, CreateFails
  <2>3. TotalInv'
    BY <1>2, <1>7 DEF PInv, TotalInv, Added, CreateFails
  <2> QED
    BY <1>3, <1>4, <2>1, <2>2, <2>3 DEF PInv
<1>8. CASE StartThreads
  <2>1. ThreadInv'
    BY <1>1, <1>2, <1>8 DEF PInv, ThreadInv, StartThreads
  <2>2. MutexInv' /\ LoadedInv'
    BY <1>2, <1>8 DEF PInv, MutexInv, LoadedInv, StartThreads
  <2>3. \A t \in Thread : Added(t)' = FALSE /\ Added(t) = FALSE
    BY <1>1, <1>2, <1>8 DEF PInv, ThreadInv, Added, StartThreads
  <2>4. TotalInv'
    BY <1>2, <1>8, <2>3 DEF PInv, TotalInv, StartThreads
  <2> QED
    BY <1>3, <1>4, <2>1, <2>2, <2>4 DEF PInv
<1>9. CASE JoinThread
  <2>1. /\ index \in Thread /\ index' = index + 1 /\ UNCHANGED <<main, sStart, kind>>
        /\ \A t \in Thread : thread'[t] = IF t = index THEN "none" ELSE thread[t]
        /\ main = "join" /\ thread[index] = "finished" /\ index <= row
    BY <1>1, <1>9 DEF PInv, TypeOK, JoinThread
  <2>2. ThreadInv'
    BY <1>1, <1>2, <2>1 DEF PInv, ThreadInv
  <2>3. MutexInv' /\ LoadedInv'
    BY <1>1, <1>2, <2>1 DEF PInv, MutexInv, LoadedInv, InSection
  <2>4. \A t \in Thread : Added(t)' = Added(t)
    BY <1>1, <1>2, <2>1 DEF Added
  <2>5. TotalInv'
    BY <1>2, <2>1, <2>4 DEF PInv, TotalInv
  <2> QED
    BY <1>3, <1>4, <2>2, <2>3, <2>5 DEF PInv
<1>10. CASE NextFunctor
  <2>1. /\ kind = "std" /\ kind' = "nc" /\ main = "join" /\ main' = "begin" /\ index > row
        /\ UNCHANGED thread
    BY <1>10 DEF NextFunctor
  <2>2. \A t \in Thread : thread[t] = "none"
    BY <1>1, <2>1 DEF PInv, ThreadInv
  <2>3. ThreadInv'
    BY <2>1, <2>2 DEF ThreadInv
  <2>4. MutexInv' /\ LoadedInv'
    BY <1>2, <2>1, <2>2 DEF PInv, MutexInv, LoadedInv
  <2>5. \A t \in Thread : (Added(t) <=> t <= row) /\ ~ Added(t)'
    BY <1>1, <2>1 DEF Added
  <2>6. TotalInv'
    BY <1>1, <1>2, <2>1, <2>5 DEF PInv, TotalInv
  <2> QED
    BY <1>3, <1>4, <2>3, <2>4, <2>6 DEF PInv
<1> QED
  BY <1>5, <1>6, <1>7, <1>8, <1>9, <1>10

(***************************************************************************)
(* The row is printed.                                                     *)
(***************************************************************************)
LEMMA PrintRowHolds ==
  ASSUME Parameters, PInv, PrintRow
  PROVE  PInv'
<1>1. /\ row \in Nat \ {0} /\ index \in Nat \ {0} /\ main = "join" /\ index > row
      /\ row <= MaxThreads /\ MaxThreads \in Nat /\ Thread = 1 .. MaxThreads
      /\ row' = row + 1 /\ kind = "nc" /\ kind' = "std"
      /\ main' = IF row < MaxThreads THEN "begin" ELSE "done"
      /\ rows' = Append(rows, ptrTime)
      /\ UNCHANGED <<index, sStart, thread, mutex, loaded, ptrTime>>
  BY DEF PInv, TypeOK, Thread, Parameters, PrintRow, threadVars
<1>2. \A t \in Thread : thread[t] = "none"
  BY <1>1 DEF PInv, ThreadInv
<1>3. TypeOK'
  BY <1>1 DEF PInv, TypeOK, MainState, Kind
<1>4. ThreadInv' /\ MutexInv' /\ LoadedInv'
  BY <1>1, <1>2 DEF PInv, ThreadInv, MutexInv, LoadedInv
<1>5. \A k \in Kind, n \in Nat, t \in Thread : <<n, t>> \in ptrTime[k] <=> n \in 1 .. row /\ t <= n
  <2>1. \A n \in Nat, t \in Thread : <<n, t>> \in ptrTime["std"] <=> n \in 1 .. row /\ t <= n
    BY <1>1 DEF PInv, TotalInv
  <2>2. \A t \in Thread : Added(t) <=> t <= row
    BY <1>1 DEF Added
  <2>3. ASSUME NEW n \in Nat, NEW t \in Thread
        PROVE  <<n, t>> \in ptrTime["nc"] <=> n \in 1 .. row /\ t <= n
    <3>1. <<n, t>> \in ptrTime["nc"] <=> (n \in 1 .. row - 1 /\ t <= n) \/ (n = row /\ t <= row)
      BY <1>1, <2>2 DEF PInv, TotalInv
    <3> QED
      BY <1>1, <3>1
  <2> QED
    BY <2>1, <2>3 DEF Kind
<1>6. TotalInv'
  <2>1. \A t \in Thread : ~ Added(t)'
    BY <1>1 DEF Added
  <2> QED
    BY <1>1, <1>5, <2>1 DEF TotalInv, Kind
<1>7. \A k \in Kind : ptrTime[k] = Measurements(row)
  BY <1>1, <1>5, TotalIsMeasurements DEF PInv, TypeOK
<1>8. RowInv'
  <2>1. rows' \in Seq([Kind -> SUBSET (Nat \X Thread)])
    BY <1>1, AppendProperties DEF PInv, RowInv, TypeOK
  <2>2. Len(rows') = row' - 1
    BY <1>1, AppendProperties DEF PInv, RowInv, TypeOK
  <2>3. ASSUME NEW r \in DOMAIN rows', NEW k \in Kind
        PROVE  rows'[r][k] = Measurements(r)
    <3>1. CASE r \in DOMAIN rows
      BY <1>1, <3>1, AppendProperties DEF PInv, RowInv, TypeOK, RowsComplete
    <3>2. CASE r = Len(rows) + 1
      BY <1>1, <1>7, <3>2, AppendProperties DEF PInv, RowInv, TypeOK
    <3> QED
      BY <1>1, <3>1, <3>2, AppendProperties, LenProperties DEF PInv, RowInv, TypeOK
  <2> QED
    BY <2>1, <2>2, <2>3 DEF RowInv, RowsComplete
<1> QED
  BY <1>3, <1>4, <1>6, <1>8 DEF PInv

(***************************************************************************)
(* A thread.  It runs only while the main thread waits for it.             *)
(***************************************************************************)
LEMMA ThreadStepHolds ==
  ASSUME Parameters, PInv, NEW t \in Thread, ThreadStep(t)
  PROVE  PInv'
<1>1. /\ row \in Nat \ {0} /\ index \in Nat \ {0} /\ kind \in Kind
      /\ thread[t] \in ThreadState /\ Thread = 1 .. MaxThreads /\ MaxThreads \in Nat
      /\ NULL \notin Thread
  BY DEF PInv, TypeOK, Thread, Parameters
<1>2. PICK to \in ThreadState \ {"none", "spin"} :
        /\ thread' = [thread EXCEPT ![t] = to]
        /\ thread[t] # "none" /\ UNCHANGED <<main, row, kind, index, sStart, rows>>
        /\ main # "terminated" /\ (thread[t] = "spin" => sStart)
  BY DEF ThreadStep, LeaveSpin, Measure, Lock, ReadTotal, WriteTotal, Unlock, Goes, mainVars,
         ThreadState
<1>3. main = "join"
  BY <1>1, <1>2 DEF PInv, TypeOK, ThreadInv, MainState
<1>4. \A u \in Thread : thread'[u] = IF u = t THEN to ELSE thread[u]
  BY <1>2 DEF PInv, TypeOK
<1>5. ~ (t < index) /\ t <= row
  BY <1>1, <1>2, <1>3 DEF PInv, ThreadInv
<1>6. thread' \in [Thread -> ThreadState]
  BY <1>2 DEF PInv, TypeOK
<1>7. ThreadInv'
  BY <1>2, <1>3, <1>4 DEF PInv, ThreadInv
<1>8. RowInv'
  BY <1>2 DEF PInv, RowInv, RowsComplete
<1>9. ASSUME UNCHANGED ptrTime,
             thread[t] \in {"added", "finished"} <=> to \in {"added", "finished"}
      PROVE  TotalInv'
  <2>1. \A u \in Thread : Added(u)' = Added(u)
    BY <1>2, <1>4, <1>9 DEF Added
  <2> QED
    BY <1>2, <1>9, <2>1 DEF PInv, TotalInv
<1>10. CASE LeaveSpin(t) \/ Measure(t)
  <2>1. /\ UNCHANGED <<mutex, loaded, ptrTime>>
        /\ thread[t] \in {"spin", "timing"} /\ to \in {"timing", "timed"}
    BY <1>1, <1>2, <1>4, <1>10 DEF LeaveSpin, Measure, Goes, threadVars, PInv, TypeOK
  <2>2. TypeOK'
    BY <1>2, <1>6, <2>1 DEF PInv, TypeOK
  <2>3. MutexInv' /\ LoadedInv'
    BY <1>2, <1>4, <2>1 DEF PInv, MutexInv, LoadedInv, InSection
  <2> QED
    BY <1>7, <1>8, <1>9, <2>1, <2>2, <2>3 DEF PInv
<1>11. CASE Lock(t)
  <2>1. /\ UNCHANGED <<loaded, ptrTime>> /\ mutex = NULL /\ mutex' = t
        /\ thread[t] = "timed" /\ to = "locked"
    BY <1>1, <1>4, <1>11 DEF Lock, Goes, PInv, TypeOK
  <2>2. TypeOK'
    BY <1>2, <1>6, <2>1 DEF PInv, TypeOK
  <2>3. MutexInv' /\ LoadedInv'
    BY <1>1, <1>2, <1>4, <2>1 DEF PInv, MutexInv, LoadedInv, InSection
  <2> QED
    BY <1>7, <1>8, <1>9, <2>1, <2>2, <2>3 DEF PInv
<1>12. CASE ReadTotal(t)
  <2>1. /\ UNCHANGED <<mutex, ptrTime>> /\ loaded' = [loaded EXCEPT ![t] = ptrTime[kind]]
        /\ thread[t] = "locked" /\ to = "read"
    BY <1>1, <1>4, <1>12 DEF ReadTotal, Goes, PInv, TypeOK
  <2>2. TypeOK'
    BY <1>1, <1>2, <1>6, <2>1 DEF PInv, TypeOK
  <2>3. MutexInv'
    BY <1>2, <1>4, <2>1 DEF PInv, MutexInv, InSection
  <2>4. LoadedInv'
    BY <1>2, <1>4, <2>1 DEF PInv, TypeOK, LoadedInv
  <2> QED
    BY <1>7, <1>8, <1>9, <2>1, <2>2, <2>3, <2>4 DEF PInv
<1>13. CASE WriteTotal(t)
  <2>1. /\ UNCHANGED <<mutex, loaded>>
        /\ ptrTime' = [ptrTime EXCEPT ![kind] = loaded[t] \cup {<<row, t>>}]
        /\ thread[t] = "read" /\ to = "added"
    BY <1>1, <1>4, <1>13 DEF WriteTotal, Goes, PInv, TypeOK
  <2>2. loaded[t] = ptrTime[kind]
    BY <2>1 DEF PInv, LoadedInv
  <2>3. \A k \in Kind : ptrTime'[k] = IF k = kind THEN ptrTime[kind] \cup {<<row, t>>} ELSE ptrTime[k]
    BY <2>1, <2>2 DEF PInv, TypeOK
  <2>4. TypeOK'
    <3>1. <<row, t>> \in Nat \X Thread /\ ptrTime[kind] \in SUBSET (Nat \X Thread)
      BY <1>1 DEF PInv, TypeOK
    <3>2. ptrTime[kind] \cup {<<row, t>>} \in SUBSET (Nat \X Thread)
      BY <3>1
    <3>3. ptrTime' \in [Kind -> SUBSET (Nat \X Thread)]
      BY <2>1, <2>2, <3>2 DEF PInv, TypeOK
    <3> QED
      BY <1>2, <1>6, <2>1, <3>3 DEF PInv, TypeOK
  <2>5. MutexInv'
    BY <1>2, <1>4, <2>1 DEF PInv, MutexInv, InSection
  <2>6. LoadedInv'
    BY <1>1, <1>2, <1>4, <2>1 DEF PInv, MutexInv, LoadedInv, InSection
  <2>7. \A u \in Thread : Added(u)' <=> Added(u) \/ u = t
    BY <1>1, <1>2, <1>3, <1>4, <1>5, <2>1 DEF Added
  <2>8. TotalInv'
    <3>1. ~ Added(t)
      BY <1>5, <2>1 DEF Added
    <3>2. ASSUME NEW n \in Nat, NEW u \in Thread
          PROVE  <<n, u>> \in ptrTime'[kind] <=> <<n, u>> \in ptrTime[kind] \/ (n = row /\ u = t)
      BY <1>1, <2>3
    <3>3. \A k \in Kind \ {kind} : ptrTime'[k] = ptrTime[k]
      BY <2>3
    <3>4. ASSUME NEW n \in Nat, NEW u \in Thread
          PROVE  <<n, u>> \in ptrTime'[kind] <=>
                   (n \in 1 .. row - 1 /\ u <= n) \/ (n = row /\ Added(u)')
      <4>1. <<n, u>> \in ptrTime[kind] <=>
              (n \in 1 .. row - 1 /\ u <= n) \/ (n = row /\ Added(u))
        BY DEF PInv, TotalInv
      <4> QED
        BY <2>7, <3>2, <4>1
    <3>5. ASSUME NEW n \in Nat, NEW u \in Thread
          PROVE  /\ kind = "std" => (<<n, u>> \in ptrTime'["nc"] <=> n \in 1 .. row - 1 /\ u <= n)
                 /\ kind = "nc" => (<<n, u>> \in ptrTime'["std"] <=> n \in 1 .. row /\ u <= n)
      BY <3>3 DEF PInv, TotalInv, Kind
    <3> QED
      BY <1>2, <3>4, <3>5 DEF TotalInv
  <2> QED
    BY <1>7, <1>8, <2>4, <2>5, <2>6, <2>8 DEF PInv
<1>14. CASE Unlock(t)
  <2>1. /\ UNCHANGED <<loaded, ptrTime>> /\ mutex' = NULL
        /\ thread[t] = "added" /\ to = "finished"
    BY <1>1, <1>4, <1>14 DEF Unlock, Goes, PInv, TypeOK
  <2>2. TypeOK'
    BY <1>2, <1>6, <2>1 DEF PInv, TypeOK
  <2>3. MutexInv' /\ LoadedInv'
    BY <1>1, <1>2, <1>4, <2>1 DEF PInv, MutexInv, LoadedInv, InSection
  <2> QED
    BY <1>7, <1>8, <1>9, <2>1, <2>2, <2>3 DEF PInv
<1> QED
  BY <1>10, <1>11, <1>12, <1>13, <1>14 DEF ThreadStep

LEMMA NextHolds ==
  ASSUME Parameters, PInv, [Next]_performance
  PROVE  PInv'
<1>1. CASE Next
  BY <1>1, MainStepHolds, PrintRowHolds, ThreadStepHolds DEF Next, MainStep
<1>2. CASE UNCHANGED performance
  BY <1>2 DEF performance, PInv, TypeOK, ThreadInv, MutexInv, LoadedInv, TotalInv, Added, RowInv,
              RowsComplete
<1> QED
  BY <1>1, <1>2

LEMMA InvariantOfHarness ==
  ASSUME Parameters
  PROVE  Spec => []PInv
  BY InitHolds, NextHolds, PTL DEF Spec

(***************************************************************************)
(* What the invariant says.                                                *)
(***************************************************************************)
LEMMA PInvRows == PInv => RowsComplete
  BY DEF PInv, RowInv

LEMMA PInvTimed == PInv => TimedTogether
  BY DEF PInv, TypeOK, ThreadInv, MainState, TimedTogether

LEMMA PInvGoesOn ==
  ASSUME Parameters, PInv
  PROVE  SomeoneGoesOn
<1> SUFFICES ASSUME main = "join", index <= row
             PROVE  SomeoneGoesOn
  BY DEF SomeoneGoesOn, Ended, PInv, TypeOK, MainState
<1>1. index \in Thread /\ thread[index] # "none" /\ sStart
  BY DEF Parameters, PInv, TypeOK, ThreadInv, Thread
<1>2. thread[index] \in ThreadState
  BY <1>1 DEF PInv, TypeOK
<1>3. CASE thread[index] = "timed"
  <2>1. mutex \in Thread => thread[mutex] \in InSection
    BY DEF PInv, MutexInv
  <2> QED
    BY <1>1, <1>3, <2>1 DEF SomeoneGoesOn, InSection, PInv, TypeOK
<1> QED
  BY <1>1, <1>2, <1>3 DEF SomeoneGoesOn, ThreadState

\* A row that is printed has the time of every thread of its run and of those
\* before, for any number of rows, 39 in the code, and any schedule: additions
\* to the totals do not overwrite each other, and no run is printed early.
THEOREM RowsAreComplete ==
  ASSUME Parameters
  PROVE  Spec => []RowsComplete
  BY PInvRows, InvariantOfHarness, PTL

\* No thread of a run starts its clock before all of them exist.
THEOREM ThreadsStartTogether ==
  ASSUME Parameters
  PROVE  Spec => []TimedTogether
  BY PInvTimed, InvariantOfHarness, PTL

\* The harness never deadlocks: not on the flag, the mutex or a join.
THEOREM HarnessNeverStuck ==
  ASSUME Parameters
  PROVE  Spec => []SomeoneGoesOn
<1>1. PInv => SomeoneGoesOn
  BY PInvGoesOn
<1> QED
  BY <1>1, InvariantOfHarness, PTL

(***************************************************************************)
(* Progress: what each step leaves less of.                                *)
(***************************************************************************)
MainLeft(r, k, n) ==
  /\ ~ Ended
  /\ n <= 2 * r + 2
  /\ ComesLater(r, k) \/ (IsCurrent(r, k) /\ n >= Place)

ThreadLeft(r, k, t, s) ==
  /\ ~ Ended
  /\ t <= r
  /\ ComesLater(r, k) \/ (IsCurrent(r, k) /\ StageLeft(t, s))

NoMoreToDo ==
  \A r \in Thread, k \in Kind :
    /\ \A n \in 0 .. 2 * MaxThreads + 2 : MainLeft(r, k, n)' => MainLeft(r, k, n)
    /\ \A t \in Thread, s \in DOMAIN Stages : ThreadLeft(r, k, t, s)' => ThreadLeft(r, k, t, s)

LEMMA NothingComesBack ==
  ASSUME NoMoreToDo
  PROVE  mainStepsLeft' \subseteq mainStepsLeft /\ threadStepsLeft' \subseteq threadStepsLeft
<1>1. mainStepsLeft =
        {m \in Thread \X Kind \X (0 .. 2 * MaxThreads + 2) : MainLeft(m[1], m[2], m[3])}
  BY DEF mainStepsLeft, MainLeft
<1>2. mainStepsLeft' =
        {m \in Thread \X Kind \X (0 .. 2 * MaxThreads + 2) : MainLeft(m[1], m[2], m[3])'}
  BY DEF mainStepsLeft, MainLeft
<1>3. threadStepsLeft =
        {m \in Thread \X Kind \X Thread \X DOMAIN Stages : ThreadLeft(m[1], m[2], m[3], m[4])}
  BY DEF threadStepsLeft, ThreadLeft
<1>4. threadStepsLeft' =
        {m \in Thread \X Kind \X Thread \X DOMAIN Stages : ThreadLeft(m[1], m[2], m[3], m[4])'}
  BY DEF threadStepsLeft, ThreadLeft
<1> QED
  BY <1>1, <1>2, <1>3, <1>4 DEF NoMoreToDo

LEMMA MainStepDone ==
  ASSUME NoMoreToDo,
         NEW r \in Thread, NEW k \in Kind, NEW n \in 0 .. 2 * MaxThreads + 2,
         MainLeft(r, k, n), ~ MainLeft(r, k, n)'
  PROVE  Advance
<1>1. <<r, k, n>> \in mainStepsLeft /\ <<r, k, n>> \notin mainStepsLeft'
  BY DEF mainStepsLeft, MainLeft
<1> QED
  BY <1>1, NothingComesBack DEF Advance

LEMMA ThreadStepDone ==
  ASSUME NoMoreToDo,
         NEW r \in Thread, NEW k \in Kind, NEW t \in Thread, NEW s \in DOMAIN Stages,
         ThreadLeft(r, k, t, s), ~ ThreadLeft(r, k, t, s)'
  PROVE  Advance
<1>1. <<r, k, t, s>> \in threadStepsLeft /\ <<r, k, t, s>> \notin threadStepsLeft'
  BY DEF threadStepsLeft, ThreadLeft
<1> QED
  BY <1>1, NothingComesBack DEF Advance

\* The stages up to stage s, one by one.
UpTo(s, x) ==
  \/ x = "spin"
  \/ x = "timing" /\ s >= 2
  \/ x = "timed" /\ s >= 3
  \/ x = "locked" /\ s >= 4
  \/ x = "read" /\ s >= 5
  \/ x = "added" /\ s >= 6

LEMMA StagesUpTo ==
  /\ DOMAIN Stages = 1 .. 6
  /\ \A s \in 1 .. 6 : \A x : (\E q \in 1 .. s : x = Stages[q]) <=> UpTo(s, x)
<1>1. /\ DOMAIN Stages = 1 .. 6
      /\ Stages[1] = "spin" /\ Stages[2] = "timing" /\ Stages[3] = "timed"
      /\ Stages[4] = "locked" /\ Stages[5] = "read" /\ Stages[6] = "added"
  BY DEF Stages
<1>2. ASSUME NEW s \in 1 .. 6, NEW x, NEW q \in 1 .. s, x = Stages[q]
      PROVE  UpTo(s, x)
  BY <1>1, <1>2 DEF UpTo
<1>3. ASSUME NEW s \in 1 .. 6, NEW x, UpTo(s, x)
      PROVE  \E q \in 1 .. s : x = Stages[q]
  <2>1. 1 \in 1 .. s /\ \A i \in 2 .. 6 : s >= i => i \in 1 .. s
    OBVIOUS
  <2> QED
    BY <1>1, <1>3, <2>1 DEF UpTo
<1> QED
  BY <1>1, <1>2, <1>3

\* A run of the harness that the main thread prepares, lets go or waits for.
LEMMA MainStepAdvances ==
  ASSUME Parameters, PInv,
         TestRunBegins \/ CreateThread \/ CreateFails \/ StartThreads \/ JoinThread
  PROVE  Advance
<1>1. /\ row \in Thread /\ index \in Nat \ {0} /\ kind \in Kind
      /\ Thread = 1 .. MaxThreads /\ MaxThreads \in Nat
      /\ main \in {"begin", "create", "join"}
  BY DEF PInv, TypeOK, Thread, Parameters,
         TestRunBegins, CreateThread, CreateFails, StartThreads, JoinThread
<1>2. UNCHANGED <<row, kind>>
  BY DEF TestRunBegins, CreateThread, CreateFails, StartThreads, JoinThread
<1>3. ASSUME Place' > Place \/ Ended'
      PROVE  \A r \in Thread, k \in Kind, n \in 0 .. 2 * MaxThreads + 2 :
               MainLeft(r, k, n)' => MainLeft(r, k, n)
  <2>1. Place \in Nat /\ (Place' \in Nat \/ Ended')
    BY <1>1 DEF Place, TestRunBegins, CreateThread, CreateFails, StartThreads, JoinThread, Ended
  <2> QED
    BY <1>1, <1>2, <1>3, <2>1 DEF MainLeft, ComesLater, IsCurrent, Ended
<1>4. ASSUME \A t \in 1 .. row, s \in DOMAIN Stages : StageLeft(t, s)' => StageLeft(t, s)
      PROVE  \A r \in Thread, k \in Kind, t \in Thread, s \in DOMAIN Stages :
               ThreadLeft(r, k, t, s)' => ThreadLeft(r, k, t, s)
  BY <1>1, <1>2, <1>4 DEF ThreadLeft, ComesLater, IsCurrent, Ended
<1>5. ASSUME Place <= 2 * row + 2, Place' > Place \/ Ended',
             \A t \in 1 .. row, s \in DOMAIN Stages : StageLeft(t, s)' => StageLeft(t, s)
      PROVE  Advance
  <2>1. Place \in 0 .. 2 * MaxThreads + 2 /\ (Place' \in Nat \/ Ended')
    BY <1>1, <1>5
    DEF Place, TestRunBegins, CreateThread, CreateFails, StartThreads, JoinThread, Ended
  <2>2. NoMoreToDo
    BY <1>3, <1>4, <1>5 DEF NoMoreToDo
  <2>3. PICK r \in Thread, k \in Kind, n \in 0 .. 2 * MaxThreads + 2 :
          r = row /\ k = kind /\ n = Place
    BY <1>1, <2>1
  <2>4. MainLeft(r, k, n) /\ ~ MainLeft(r, k, n)'
    BY <1>1, <1>2, <1>5, <2>1, <2>3 DEF MainLeft, ComesLater, IsCurrent, Ended, Kind
  <2> QED
    BY <2>2, <2>4, MainStepDone
<1>6. CASE TestRunBegins
  <2>1. Place = 0 /\ Place' = 1
    BY <1>6 DEF Place, TestRunBegins
  <2>2. \A t \in 1 .. row, s \in DOMAIN Stages : StageLeft(t, s)' => StageLeft(t, s)
    BY <1>6 DEF StageLeft, TestRunBegins
  <2> QED
    BY <1>1, <1>5, <2>1, <2>2
<1>7. CASE CreateThread
  <2>1. Place = index /\ Place' = index + 1 /\ index <= row
    BY <1>7 DEF Place, CreateThread
  <2>2. ASSUME NEW t \in 1 .. row, NEW s \in DOMAIN Stages, StageLeft(t, s)'
        PROVE  StageLeft(t, s)
    <3>1. CASE t = index
      <4>1. t \in Thread /\ ~ (t < index) /\ main = "create"
        BY <1>1, <1>7, <3>1 DEF CreateThread
      <4>2. thread[t] = "none"
        BY <4>1 DEF PInv, ThreadInv
      <4> QED
        BY <4>1, <4>2 DEF StageLeft
    <3>2. CASE t # index
      BY <1>7, <2>2, <3>2 DEF StageLeft, CreateThread, PInv, TypeOK
    <3> QED
      BY <3>1, <3>2
  <2> QED
    BY <1>1, <1>5, <2>1, <2>2
<1>8. CASE CreateFails
  <2>1. Place = index /\ index <= row /\ Ended'
    BY <1>8 DEF Place, CreateFails, Ended
  <2>2. \A t \in 1 .. row, s \in DOMAIN Stages : StageLeft(t, s)' => StageLeft(t, s)
    BY <1>8 DEF StageLeft, CreateFails
  <2> QED
    BY <1>1, <1>5, <2>1, <2>2
<1>9. CASE StartThreads
  <2>1. index = row + 1 /\ main = "create"
    BY <1>1, <1>9 DEF StartThreads, PInv, ThreadInv
  <2>2. Place = row + 1 /\ Place' = row + 2
    BY <1>1, <1>9, <2>1 DEF Place, StartThreads
  <2>3. \A t \in 1 .. row, s \in DOMAIN Stages : StageLeft(t, s)' => StageLeft(t, s)
    BY <1>9 DEF StageLeft, StartThreads
  <2> QED
    BY <1>1, <1>5, <2>2, <2>3
<1>10. CASE JoinThread
  <2>1. Place = row + 1 + index /\ Place' = row + 2 + index /\ index <= row /\ index \in Thread
    BY <1>1, <1>10 DEF Place, JoinThread
  <2>2. \A t \in Thread : thread'[t] = IF t = index THEN "none" ELSE thread[t]
    BY <1>10 DEF JoinThread, PInv, TypeOK
  <2>3. ASSUME NEW t \in 1 .. row, NEW s \in DOMAIN Stages, StageLeft(t, s)'
        PROVE  StageLeft(t, s)
    <3>1. t # index
      <4>1. s \in 1 .. 6
        BY StagesUpTo
      <4> QED
        BY <1>10, <2>1, <2>2, <2>3, <4>1, StagesUpTo DEF StageLeft, JoinThread, UpTo
    <3> QED
      BY <1>1, <1>10, <2>2, <2>3, <3>1 DEF StageLeft, JoinThread
  <2> QED
    BY <1>1, <1>5, <2>1, <2>3
<1> QED
  BY <1>6, <1>7, <1>8, <1>9, <1>10

\* A run is over: its last step of the main thread is done.
LEMMA NextRunAdvances ==
  ASSUME Parameters, PInv, NextFunctor \/ PrintRow
  PROVE  Advance
<1>1. /\ row \in Thread /\ index = row + 1 /\ kind \in Kind /\ main = "join"
      /\ Thread = 1 .. MaxThreads /\ MaxThreads \in Nat
  BY DEF PInv, TypeOK, ThreadInv, Thread, Parameters, NextFunctor, PrintRow
<1>2. \/ row' = row /\ kind = "std" /\ kind' = "nc"
      \/ row' = row + 1 /\ kind = "nc" /\ kind' = "std"
  BY DEF NextFunctor, PrintRow
<1>3. \A r \in Thread, k \in Kind :
        /\ ComesLater(r, k)' \/ IsCurrent(r, k)' => ComesLater(r, k)
        /\ r = row /\ k = kind => ~ ComesLater(r, k)' /\ ~ IsCurrent(r, k)'
  BY <1>1, <1>2 DEF ComesLater, IsCurrent, Kind
<1>4. ~ Ended
  BY <1>1 DEF Ended
<1>5. NoMoreToDo
  BY <1>3, <1>4 DEF NoMoreToDo, MainLeft, ThreadLeft
<1>6. PICK r \in Thread, k \in Kind, n \in 0 .. 2 * MaxThreads + 2 :
        r = row /\ k = kind /\ n = 2 * row + 2
  BY <1>1
<1>7. MainLeft(r, k, n)
  BY <1>1, <1>4, <1>6 DEF MainLeft, IsCurrent, Place
<1>8. ~ MainLeft(r, k, n)'
  BY <1>3, <1>6 DEF MainLeft
<1> QED
  BY <1>5, <1>7, <1>8, MainStepDone

\* A thread leaves a stage for the next one.
LEMMA ThreadStepAdvances ==
  ASSUME Parameters, PInv, NEW t \in Thread, ThreadStep(t)
  PROVE  Advance
<1>1. /\ row \in Thread /\ index \in Nat \ {0} /\ kind \in Kind
      /\ Thread = 1 .. MaxThreads /\ MaxThreads \in Nat
  <2>1. thread[t] # "none"
    BY DEF ThreadStep, LeaveSpin, Measure, Lock, ReadTotal, WriteTotal, Unlock, Goes
  <2>2. main # "done"
    BY <2>1 DEF PInv, ThreadInv
  <2> QED
    BY <2>2 DEF PInv, TypeOK, Thread, Parameters
<1>2. PICK i \in 1 .. 6, to \in {"timing", "timed", "locked", "read", "added", "finished"} :
        /\ thread' = [thread EXCEPT ![t] = to]
        /\ UNCHANGED <<main, row, kind, index>> /\ main # "terminated"
        /\ thread[t] = "spin" => sStart
        /\ UpTo(i, thread[t]) /\ ~ UpTo(i, to)
        /\ \A s \in 1 .. 6 : UpTo(s, to) => UpTo(s, thread[t])
  BY DEF ThreadStep, LeaveSpin, Measure, Lock, ReadTotal, WriteTotal, Unlock, Goes, mainVars, UpTo
<1>3. thread[t] # "none" /\ to # "none"
  BY <1>2 DEF UpTo
<1>4. main = "join" /\ t <= row
  BY <1>1, <1>2, <1>3 DEF PInv, TypeOK, ThreadInv, MainState
<1>5. \A u \in Thread : thread'[u] = IF u = t THEN to ELSE thread[u]
  BY <1>2 DEF PInv, TypeOK
<1>6. \A u \in Thread, s \in 1 .. 6 :
        /\ StageLeft(u, s) <=> UpTo(s, thread[u])
        /\ StageLeft(u, s)' <=> UpTo(s, thread'[u])
  BY <1>2, <1>4, StagesUpTo DEF StageLeft
<1>7. NoMoreToDo
  <2>1. \A r \in Thread, k \in Kind, n \in 0 .. 2 * MaxThreads + 2 :
          MainLeft(r, k, n)' => MainLeft(r, k, n)
    BY <1>2 DEF MainLeft, ComesLater, IsCurrent, Place, Ended
  <2>2. \A u \in Thread, s \in 1 .. 6 : StageLeft(u, s)' => StageLeft(u, s)
    BY <1>2, <1>5, <1>6
  <2>3. \A r \in Thread, k \in Kind, u \in Thread, s \in DOMAIN Stages :
          ThreadLeft(r, k, u, s)' => ThreadLeft(r, k, u, s)
    BY <1>2, <2>2, StagesUpTo DEF ThreadLeft, ComesLater, IsCurrent, Ended
  <2> QED
    BY <2>1, <2>3 DEF NoMoreToDo
<1>8. PICK r \in Thread, k \in Kind : r = row /\ k = kind
  BY <1>1
<1>9. ThreadLeft(r, k, t, i) /\ ~ ThreadLeft(r, k, t, i)'
  <2>1. StageLeft(t, i) /\ ~ StageLeft(t, i)'
    BY <1>2, <1>5, <1>6
  <2>2. ~ Ended /\ IsCurrent(r, k) /\ ~ ComesLater(r, k)'
    BY <1>1, <1>2, <1>4, <1>8 DEF Ended, IsCurrent, ComesLater, Kind
  <2> QED
    BY <1>4, <1>8, <2>1, <2>2 DEF ThreadLeft
<1> QED
  BY <1>7, <1>9, ThreadStepDone, StagesUpTo

LEMMA NextAdvances ==
  ASSUME Parameters, PInv, Next
  PROVE  Advance
  BY MainStepAdvances, NextRunAdvances, ThreadStepAdvances DEF Next, MainStep

(***************************************************************************)
(* What is left is a number.                                               *)
(***************************************************************************)
HarnessWork == Cardinality(mainStepsLeft) + Cardinality(threadStepsLeft)

\* Both functors, and for as many rows as there can be the most steps one takes.
MostSteps == MaxThreads * 2 * (2 * MaxThreads + 3) + (MaxThreads * 2) * (MaxThreads * 6)

LEMMA TriplesFinite ==
  ASSUME NEW A, NEW B, NEW C, IsFiniteSet(A), IsFiniteSet(B), IsFiniteSet(C)
  PROVE  IsFiniteSet(A \X B \X C)
         /\ Cardinality(A \X B \X C) <= Cardinality(A) * Cardinality(B) * Cardinality(C)
<1> DEFINE S == (A \X B) \X C
           f == [p \in S |-> <<p[1][1], p[1][2], p[2]>>]
<1>1. IsFiniteSet(S) /\ Cardinality(S) = Cardinality(A) * Cardinality(B) * Cardinality(C)
  <2>1. IsFiniteSet(A \X B) /\ Cardinality(A \X B) = Cardinality(A) * Cardinality(B)
    BY FS_Product
  <2> QED
    BY <2>1, FS_Product
<1>2. f \in [S -> A \X B \X C]
  OBVIOUS
<1>3. ASSUME NEW x \in A \X B \X C
      PROVE  \E p \in S : f[p] = x
  <2>1. <<<<x[1], x[2]>>, x[3]>> \in S /\ f[<<<<x[1], x[2]>>, x[3]>>] = x
    OBVIOUS
  <2> QED
    BY <2>1
<1>4. f \in Surjection(S, A \X B \X C)
  BY <1>2, <1>3 DEF Surjection
<1> HIDE DEF S, f
<1> QED
  BY <1>1, <1>4, FS_Surjection

LEMMA QuadruplesFinite ==
  ASSUME NEW A, NEW B, NEW C, NEW D,
         IsFiniteSet(A), IsFiniteSet(B), IsFiniteSet(C), IsFiniteSet(D)
  PROVE  IsFiniteSet(A \X B \X C \X D)
         /\ Cardinality(A \X B \X C \X D)
              <= (Cardinality(A) * Cardinality(B)) * (Cardinality(C) * Cardinality(D))
<1> DEFINE S == (A \X B) \X (C \X D)
           f == [p \in S |-> <<p[1][1], p[1][2], p[2][1], p[2][2]>>]
<1>1. IsFiniteSet(S)
      /\ Cardinality(S) = (Cardinality(A) * Cardinality(B)) * (Cardinality(C) * Cardinality(D))
  <2>1. PICK P : P = A \X B /\ IsFiniteSet(P) /\ Cardinality(P) = Cardinality(A) * Cardinality(B)
    BY FS_Product
  <2>2. PICK Q : Q = C \X D /\ IsFiniteSet(Q) /\ Cardinality(Q) = Cardinality(C) * Cardinality(D)
    BY FS_Product
  <2>3. IsFiniteSet(P \X Q) /\ Cardinality(P \X Q) = Cardinality(P) * Cardinality(Q)
    BY <2>1, <2>2, FS_Product
  <2> QED
    BY <2>1, <2>2, <2>3
<1>2. f \in [S -> A \X B \X C \X D]
  OBVIOUS
<1>3. ASSUME NEW x \in A \X B \X C \X D
      PROVE  \E p \in S : f[p] = x
  <2>1. /\ <<<<x[1], x[2]>>, <<x[3], x[4]>>>> \in S
        /\ f[<<<<x[1], x[2]>>, <<x[3], x[4]>>>>] = x
    OBVIOUS
  <2> QED
    BY <2>1
<1>4. f \in Surjection(S, A \X B \X C \X D)
  BY <1>2, <1>3 DEF Surjection
<1> HIDE DEF S, f
<1> QED
  BY <1>1, <1>4, FS_Surjection

LEMMA HarnessWorkIsFinite ==
  ASSUME Parameters
  PROVE  /\ IsFiniteSet(mainStepsLeft) /\ IsFiniteSet(threadStepsLeft)
         /\ HarnessWork \in 0 .. MostSteps
<1>1. MaxThreads \in Nat /\ Thread = 1 .. MaxThreads /\ DOMAIN Stages = 1 .. 6
  BY StagesUpTo DEF Parameters, Thread
<1>2. IsFiniteSet(Thread) /\ Cardinality(Thread) = MaxThreads
  BY <1>1, FS_Interval
<1>3. IsFiniteSet(Kind) /\ Cardinality(Kind) = 2
  <2>1. IsFiniteSet({"std"}) /\ Cardinality({"std"}) = 1
    BY FS_Singleton
  <2>2. Kind = {"std"} \cup {"nc"} /\ "nc" \notin {"std"}
    BY DEF Kind
  <2> QED
    BY <2>1, <2>2, FS_AddElement
<1>4. IsFiniteSet(DOMAIN Stages) /\ Cardinality(DOMAIN Stages) = 6
  <2>1. PICK n \in Nat : n = 6
    OBVIOUS
  <2>2. IsFiniteSet(1 .. n) /\ Cardinality(1 .. n) = n
    BY FS_Interval
  <2> QED
    BY <1>1, <2>1, <2>2
<1>5. IsFiniteSet(0 .. 2 * MaxThreads + 2) /\ Cardinality(0 .. 2 * MaxThreads + 2) = 2 * MaxThreads + 3
  BY <1>1, FS_Interval
<1>6. /\ IsFiniteSet(mainStepsLeft)
      /\ Cardinality(mainStepsLeft) <= MaxThreads * 2 * (2 * MaxThreads + 3)
  <2>1. PICK P : /\ P = Thread \X Kind \X (0 .. 2 * MaxThreads + 2)
                 /\ IsFiniteSet(P) /\ Cardinality(P) <= MaxThreads * 2 * (2 * MaxThreads + 3)
    BY <1>2, <1>3, <1>5, TriplesFinite
  <2>2. mainStepsLeft \in SUBSET P
    BY <2>1 DEF mainStepsLeft
  <2>3. IsFiniteSet(mainStepsLeft) /\ Cardinality(mainStepsLeft) <= Cardinality(P)
    BY <2>1, <2>2, FS_Subset
  <2>4. Cardinality(mainStepsLeft) \in Nat /\ Cardinality(P) \in Nat
    BY <2>1, <2>3, FS_CardinalityType
  <2> QED
    BY <1>1, <2>1, <2>3, <2>4
<1>7. /\ IsFiniteSet(threadStepsLeft)
      /\ Cardinality(threadStepsLeft) <= (MaxThreads * 2) * (MaxThreads * 6)
  <2>1. PICK P : /\ P = Thread \X Kind \X Thread \X DOMAIN Stages
                 /\ IsFiniteSet(P) /\ Cardinality(P) <= (MaxThreads * 2) * (MaxThreads * 6)
    BY <1>2, <1>3, <1>4, QuadruplesFinite
  <2>2. threadStepsLeft \in SUBSET P
    BY <2>1 DEF threadStepsLeft
  <2>3. IsFiniteSet(threadStepsLeft) /\ Cardinality(threadStepsLeft) <= Cardinality(P)
    BY <2>1, <2>2, FS_Subset
  <2>4. Cardinality(threadStepsLeft) \in Nat /\ Cardinality(P) \in Nat
    BY <2>1, <2>3, FS_CardinalityType
  <2> QED
    BY <1>1, <2>1, <2>3, <2>4
<1>8. Cardinality(mainStepsLeft) \in Nat /\ Cardinality(threadStepsLeft) \in Nat
  BY <1>6, <1>7, FS_CardinalityType
<1> QED
  BY <1>1, <1>6, <1>7, <1>8 DEF HarnessWork, MostSteps

LEMMA HarnessWorkDecreases ==
  ASSUME Parameters, PInv, Next
  PROVE  HarnessWork' < HarnessWork
<1>1. Advance
  BY NextAdvances
<1>2. IsFiniteSet(mainStepsLeft) /\ IsFiniteSet(threadStepsLeft)
  BY HarnessWorkIsFinite
<1>3. /\ IsFiniteSet(mainStepsLeft')
      /\ Cardinality(mainStepsLeft') <= Cardinality(mainStepsLeft)
      /\ Cardinality(mainStepsLeft') = Cardinality(mainStepsLeft) => mainStepsLeft' = mainStepsLeft
  BY <1>1, <1>2, FS_Subset DEF Advance
<1>4. /\ IsFiniteSet(threadStepsLeft')
      /\ Cardinality(threadStepsLeft') <= Cardinality(threadStepsLeft)
      /\ Cardinality(threadStepsLeft') = Cardinality(threadStepsLeft) =>
           threadStepsLeft' = threadStepsLeft
  BY <1>1, <1>2, FS_Subset DEF Advance
<1>5. /\ Cardinality(mainStepsLeft) \in Nat /\ Cardinality(mainStepsLeft') \in Nat
      /\ Cardinality(threadStepsLeft) \in Nat /\ Cardinality(threadStepsLeft') \in Nat
  BY <1>2, <1>3, <1>4, FS_CardinalityType
<1> QED
  BY <1>1, <1>3, <1>4, <1>5 DEF Advance, HarnessWork

\* Every step of the harness, by whichever thread, does some of what is left of
\* its MaxThreads rows and gives no thread more to do: for every number of rows
\* and any schedule, it cannot go around in a loop for ever, and only a thread
\* that the system never runs again keeps it from its end.
THEOREM HarnessOnlyAdvances ==
  ASSUME Parameters
  PROVE  Spec => HarnessAdvances
<1>1. PInv /\ [Next]_performance => [Advance]_performance
  BY NextAdvances
<1> QED
  BY <1>1, InvariantOfHarness, PTL DEF Spec, HarnessAdvances

\* For n rows the harness takes no more than 2n(2n + 3) steps of the main thread
\* and 12n * n of the others: what is left is a natural number, never more than
\* that, and every step decreases it.
THEOREM HarnessStepsAreCounted ==
  ASSUME Parameters
  PROVE  Spec =>
           /\ [](HarnessWork \in 0 .. MostSteps)
           /\ [][HarnessWork' < HarnessWork]_performance
<1>1. HarnessWork \in 0 .. MostSteps
  BY HarnessWorkIsFinite
<1>2. PInv /\ [Next]_performance => [HarnessWork' < HarnessWork]_performance
  BY HarnessWorkDecreases
<1> QED
  BY <1>1, <1>2, InvariantOfHarness, PTL DEF Spec
=============================================================================
