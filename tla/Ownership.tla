------------------------------- MODULE Ownership -------------------------------
(***************************************************************************)
(* What the smart pointers promise, without a word about counts, control   *)
(* blocks or calls in progress: an instance lives from the moment a        *)
(* pointer owns it to the moment its last owner goes, its destruction then *)
(* begins, and nothing owns it again; the record of it is kept exactly as  *)
(* long as it is alive, being destroyed, or observed.                      *)
(*                                                                         *)
(* These are the rules of the implementation notes                         *)
(* (docs/shared_ptr_nc/shared_ptr_nc.html:135).  Module Refinement shows   *)
(* that SmartPtr implements them.                                          *)
(***************************************************************************)
CONSTANTS
  Instance,   \* instances
  Pointer,    \* pointers that own
  Weak,       \* pointers that observe
  None        \* what a null pointer owns or observes, no instance

VARIABLES
  owns,       \* the instance each pointer owns
  observes,   \* the instance each weak pointer observes
  life,       \* of each instance
  kept        \* instances of which there is a record

vars == <<owns, observes, life, kept>>

Life == {"unmanaged", "alive", "dying", "gone"}

Owners(i) == {p \in Pointer : owns[p] = i}
Observers(i) == {w \in Weak : observes[w] = i}

TypeOK ==
  /\ owns \in [Pointer -> Instance \cup {None}]
  /\ observes \in [Weak -> Instance \cup {None}]
  /\ life \in [Instance -> Life]
  /\ kept \in SUBSET Instance

Init ==
  /\ owns = [p \in Pointer |-> None]
  /\ observes = [w \in Weak |-> None]
  /\ life = [i \in Instance |-> "unmanaged"]
  /\ kept = {}

(***************************************************************************)
(* A pointer comes to own something else, or nothing.  `now` is the life   *)
(* of the instances just before, so that the end of a destruction and what *)
(* follows it can be one step.                                             *)
(***************************************************************************)

\* A copy of another pointer, a lock(), a reset.
Take(p, i, now) ==
  /\ i # None => life[i] = "alive"
  /\ owns' = [owns EXCEPT ![p] = i]
  /\ life' = now

\* The first pointer to an instance.
Capture(p, i, now) ==
  /\ life[i] = "unmanaged"
  /\ owns' = [owns EXCEPT ![p] = i]
  /\ life' = [now EXCEPT ![i] = "alive"]

\* A move.
HandOver(p, q, now) ==
  /\ owns' = [owns EXCEPT ![p] = owns[q], ![q] = None]
  /\ life' = now

Acquire(now) ==
  \E p \in Pointer :
    \/ \E i \in Instance \cup {None} : Take(p, i, now)
    \/ \E i \in Instance : Capture(p, i, now)
    \/ \E q \in Pointer \ {p} : HandOver(p, q, now)

(***************************************************************************)
(* The steps.  An instance that stays alive keeps an owner.                *)
(***************************************************************************)
Reassign ==
  /\ Acquire(life)
  /\ \A i \in Instance : life[i] = "alive" => Owners(i)' # {}
  /\ UNCHANGED observes

Exchange ==
  /\ \E p, q \in Pointer : owns' = [owns EXCEPT ![p] = owns[q], ![q] = owns[p]]
  /\ UNCHANGED <<observes, life>>

LoseLast ==
  /\ \E p \in Pointer, i \in Instance :
       /\ Owners(i) = {p}
       /\ owns' = [owns EXCEPT ![p] = None]
       /\ life' = [life EXCEPT ![i] = "dying"]
  /\ UNCHANGED observes

\* The destructor returns to the call that gave up the last owner, which goes on.
EndDestruction ==
  /\ \E i \in Instance :
       /\ life[i] = "dying"
       /\ \/ Acquire([life EXCEPT ![i] = "gone"])
          \/ owns' = owns /\ life' = [life EXCEPT ![i] = "gone"]
  /\ \A i \in Instance : life[i] = "alive" => Owners(i)' # {}
  /\ UNCHANGED observes

\* Only an instance that is alive gets a new observer; a move takes over any.
Observe ==
  /\ \E w \in Weak :
       \/ \E i \in Instance \cup {None} :
            /\ i # None => life[i] = "alive"
            /\ observes' = [observes EXCEPT ![w] = i]
       \/ \E x \in Weak \ {w} :
            observes' = [observes EXCEPT ![w] = observes[x], ![x] = None]
  /\ UNCHANGED <<owns, life>>

Needed(i) == life[i] \in {"alive", "dying"} \/ Observers(i) # {}

Next ==
  /\ Reassign \/ Exchange \/ LoseLast \/ EndDestruction \/ Observe
  /\ kept' = {i \in Instance : Needed(i)'}

Spec == Init /\ [][Next]_vars

(***************************************************************************)
(* A destruction that begins ends.                                         *)
(***************************************************************************)
LiveSpec == Spec /\ \A i \in Instance : life[i] = "dying" ~> life[i] = "gone"
=============================================================================
