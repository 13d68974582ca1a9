----------------------------- MODULE LAMAbstract -----------------------------
(***************************************************************************)
(* What the local activity manager promises the workflow about admission   *)
(* and execution, with every detail of channels, tokens and timers left    *)
(* out (spec.md sections 3 and 8: idempotent admission, at most            *)
(* max_concurrent activities executing, one execution per id at a time).   *)
(*                                                                         *)
(*   admitted : the ids the LAM has accepted and not yet released          *)
(*   running  : the ids with an attempt handed to lang and not completed   *)
(*                                                                         *)
(* An id is admitted only when it is not admitted already; an admitted id  *)
(* is started only when it is not running and a slot is free; a finished   *)
(* attempt either releases the admission (a terminal result) or keeps it   *)
(* (a retry will follow).                                                  *)
(***************************************************************************)
EXTENDS Naturals, FiniteSets, FiniteSetTheorems, TLAPS

CONSTANTS Ids, MaxConcurrent

VARIABLES admitted, running

avars == <<admitted, running>>

Init ==
    /\ admitted = {}
    /\ running = {}

Admit(id) ==
    /\ id \notin admitted
    /\ admitted' = admitted \cup {id}
    /\ UNCHANGED running

Start(id) ==
    /\ id \in admitted \ running
    /\ Cardinality(running) < MaxConcurrent
    /\ running' = running \cup {id}
    /\ UNCHANGED admitted

Finish(id) ==
    /\ id \in running
    /\ running' = running \ {id}
    /\ admitted' = admitted \ {id}

Retry(id) ==
    /\ id \in running
    /\ running' = running \ {id}
    /\ UNCHANGED admitted

Next == \E id \in Ids : Admit(id) \/ Start(id) \/ Finish(id) \/ Retry(id)

Spec == Init /\ [][Next]_avars

-----------------------------------------------------------------------------
(* Spec sections 3 and 8: every running id is admitted, and at most       *)
(* max_concurrent ids run at once.                                         *)
RunningLimit ==
    /\ running \subseteq admitted
    /\ IsFiniteSet(running)
    /\ Cardinality(running) <= MaxConcurrent

(* The abstract LAM keeps its promise for every semaphore size. *)
THEOREM AbstractLimit ==
    ASSUME MaxConcurrent \in Nat
    PROVE  Spec => []RunningLimit
<1>1. Init => RunningLimit
  BY FS_EmptySet DEF Init, RunningLimit
<1>2. RunningLimit /\ [Next]_avars => RunningLimit'
  <2>. SUFFICES ASSUME RunningLimit, [Next]_avars PROVE RunningLimit'
    OBVIOUS
  <2>1. Cardinality(running) \in Nat
    BY FS_CardinalityType DEF RunningLimit
  <2>2. ASSUME NEW id \in Ids, Admit(id) PROVE RunningLimit'
    BY <2>2 DEF Admit, RunningLimit
  <2>3. ASSUME NEW id \in Ids, Start(id) PROVE RunningLimit'
    <3>1. /\ IsFiniteSet(running')
          /\ Cardinality(running') = Cardinality(running) + 1
      BY <2>3, FS_AddElement DEF Start, RunningLimit
    <3>. QED  BY <2>1, <2>3, <3>1 DEF Start, RunningLimit
  <2>4. ASSUME NEW id \in Ids, Finish(id) \/ Retry(id) PROVE RunningLimit'
    <3>1. /\ IsFiniteSet(running')
          /\ Cardinality(running') = Cardinality(running) - 1
      BY <2>4, FS_RemoveElement DEF Finish, Retry, RunningLimit
    <3>. QED  BY <2>1, <2>4, <3>1 DEF Finish, Retry, RunningLimit
  <2>5. CASE UNCHANGED avars
    BY <2>5 DEF avars, RunningLimit
  <2>. QED  BY <2>2, <2>3, <2>4, <2>5 DEF Next
<1>. QED  BY <1>1, <1>2, PTL DEF Spec

=============================================================================
