------------------------- MODULE LAMRefinementProofs -------------------------
(***************************************************************************)
(* Proof that the detailed model of local_activities.rs implements         *)
(* LAMAbstract under the mapping of LAMRefinement, for every value of the  *)
(* constants.  Every step of the detailed model is an abstract Admit,      *)
(* Start, Finish or Retry, or leaves the admitted and running ids alone;   *)
(* the argument rests on the inductive invariant IInv of LAMProofs.        *)
(***************************************************************************)
EXTENDS LAMRefinement, LAMProofs

USE ConstAssumption DEF ConstAssumption

-----------------------------------------------------------------------------
(* Two outstanding tasks never belong to the same id: both would be keyed *)
(* by the id's one current token.                                          *)
LEMMA OutstandingIdsDistinct ==
    ASSUME IInv, NEW t1 \in DOMAIN outstanding, NEW t2 \in DOMAIN outstanding,
           outstanding[t1].id = outstanding[t2].id
    PROVE  t1 = t2
BY DEF IInv, CurrentToken

(* With a free permit, fewer than MaxConcurrent ids are running: the      *)
(* running ids are the image of the outstanding tokens.                    *)
LEMMA RunningBelowLimit ==
    ASSUME IInv, avail > 0
    PROVE  Cardinality(RunningIds) < MaxConcurrent
<1> DEFINE f == [t \in DOMAIN outstanding |-> outstanding[t].id]
<1>1. IsFiniteSet(DOMAIN outstanding)
  BY OutstandingFinite DEF IInv
<1>2. f \in Surjection(DOMAIN outstanding, RunningIds)
  BY DEF Surjection, RunningIds
<1>3. /\ IsFiniteSet(RunningIds)
      /\ Cardinality(RunningIds) <= Cardinality(DOMAIN outstanding)
  BY <1>1, <1>2, FS_Surjection
<1>4. Cardinality(RunningIds) \in Nat
  BY <1>3, FS_CardinalityType
<1>5. Cardinality(DOMAIN outstanding) \in Nat
  BY <1>1, FS_CardinalityType
<1>6. avail \in 0 .. MaxConcurrent /\ PermitAccounting
  BY DEF IInv, TypeOK
<1>7. Cardinality(DOMAIN outstanding) = MaxConcurrent - avail
  BY <1>5, <1>6 DEF PermitAccounting
<1>. QED  BY <1>3, <1>4, <1>5, <1>6, <1>7

(* The abstract module's Cardinality is that of FiniteSets. *)
LEMMA AbstractCardinality ==
    ASSUME NEW S
    PROVE  LAM!Cardinality(S) = Cardinality(S)
BY DEF LAM!Cardinality, Cardinality

(* A step that leaves id_to_tt and outstanding_activity_tasks alone is an *)
(* abstract stutter.                                                       *)
LEMMA StutterStep ==
    ASSUME idToTT' = idToTT, outstanding' = outstanding
    PROVE  UNCHANGED LAM!avars
BY DEF LAM!avars, AdmittedIds, RunningIds

(* The initial state maps to the abstract initial state. *)
LEMMA InitRefines == Init => LAM!Init
BY DEF Init, LAM!Init, AdmittedIds, RunningIds, NoTT


-----------------------------------------------------------------------------
(* enqueue admits a New for an id not in id_to_tt: an abstract Admit. *)
LEMMA AdmitStep ==
    ASSUME IInv, NEW id \in Ids, NEW cfg \in Configs,
           \/ EnqueueNewTimedOut(id, cfg)
           \/ \E att \in Attempts : EnqueueNewQueued(id, cfg, att)
    PROVE  LAM!Admit(id)
<1>1. /\ idToTT[id] = NoTT
      /\ idToTT' = [idToTT EXCEPT ![id] = Minted]
      /\ outstanding' = outstanding
  <2>1. MintTT = Minted  BY MintNoWrap DEF EnqueueNewTimedOut, EnqueueNewQueued
  <2>. QED  BY <2>1 DEF EnqueueNewTimedOut, EnqueueNewQueued
<1>2. Minted # NoTT
  BY DEF Minted, NoTT, IInv, TypeOK
<1>3. AdmittedIds' = AdmittedIds \cup {id}
  BY <1>1, <1>2 DEF AdmittedIds, IInv, TypeOK
<1>4. id \notin AdmittedIds
  BY <1>1 DEF AdmittedIds
<1>5. RunningIds' = RunningIds
  BY <1>1 DEF RunningIds
<1>. QED  BY <1>3, <1>4, <1>5 DEF LAM!Admit

(* complete removes one outstanding attempt: a Report or                   *)
(* LangDoesTimerBackoff is an abstract Finish (id_to_tt loses the id),      *)
(* WillBeRetried an abstract Retry (the id is re-keyed), Untracked a        *)
(* stutter.                                                                 *)
LEMMA CompleteStep ==
    ASSUME IInv, NEW t, NEW r, NEW pol, Complete(t, r, pol)
    PROVE  [LAM!Next]_LAM!avars
<1>1. CASE Outcome(t, r, pol) = "Untracked"
  <2>1. idToTT' = idToTT /\ outstanding' = outstanding
    BY <1>1 DEF Complete
  <2>. QED  BY <2>1, StutterStep
<1> DEFINE id == outstanding[t].id
<1>2. ASSUME t \in DOMAIN outstanding, NEW u \in DOMAIN outstanding \ {t}
      PROVE  outstanding[u].id # id
  BY <1>2, OutstandingIdsDistinct DEF id
<1>3. ASSUME t \in DOMAIN outstanding, outstanding' = Del(outstanding, t)
      PROVE  /\ id \in Ids
             /\ id \in RunningIds
             /\ idToTT[id] = t
             /\ RunningIds' = RunningIds \ {id}
  <2>1. id \in Ids /\ idToTT[id] = t
    BY <1>3 DEF IInv, TypeOK, IsPartialFn, Info, CurrentToken
  <2>2. RunningIds' = RunningIds \ {id}
    BY <1>2, <1>3 DEF RunningIds, Del
  <2>. QED  BY <1>3, <2>1, <2>2 DEF RunningIds
<1>4. CASE Outcome(t, r, pol) = "WillBeRetried"
  <2>1. t \in DOMAIN outstanding /\ CompleteRetry(t)
    BY <1>4 DEF Complete, Outcome
  <2>2. /\ outstanding' = Del(outstanding, t)
        /\ idToTT' = [idToTT EXCEPT ![id] = Minted]
    <3>1. MintTT = Minted  BY <2>1, MintNoWrap DEF CompleteRetry
    <3>. QED  BY <2>1, <3>1 DEF CompleteRetry
  <2>3. /\ t # NoTT
        /\ Minted # NoTT
    BY <2>1 DEF IInv, TypeOK, IsPartialFn, Tok, NoTT, Minted
  <2>4. AdmittedIds' = AdmittedIds
    BY <1>3, <2>1, <2>2, <2>3 DEF AdmittedIds
  <2>. QED  BY <1>3, <2>1, <2>2, <2>4 DEF LAM!Next, LAM!Retry
<1>5. CASE Outcome(t, r, pol) \notin {"Untracked", "WillBeRetried"}
  <2>1. t \in DOMAIN outstanding /\ CompleteReport(t, r)
    BY <1>5 DEF Complete, Outcome
  <2>2. /\ outstanding' = Del(outstanding, t)
        /\ idToTT' = [idToTT EXCEPT ![id] = NoTT]
    BY <2>1 DEF CompleteReport
  <2>3. AdmittedIds' = AdmittedIds \ {id}
    BY <1>3, <2>1, <2>2 DEF AdmittedIds, IInv, TypeOK
  <2>. QED  BY <1>3, <2>1, <2>2, <2>3 DEF LAM!Next, LAM!Finish
<1>. QED  BY <1>1, <1>4, <1>5


(* next_pending dispatches an admitted id that is not running, within the *)
(* permit limit: an abstract Start; its schedule-to-start timeout branch   *)
(* is a stutter.                                                           *)
LEMMA DispatchStep ==
    ASSUME IInv, NPTakeNew
    PROVE  [LAM!Next]_LAM!avars
<1> DEFINE item == Head(newQ)
           tt == idToTT[item.id]
           attempt == IF item.retry THEN item.attempt
                      ELSE IF item.attempt >= 1 THEN item.attempt ELSE 1
           info == [id |-> item.id, adm |-> item.adm, cfg |-> item.cfg, attempt |-> attempt]
<1>1. /\ avail > 0 /\ newQ # <<>>
      /\ \/ idToTT' = idToTT /\ outstanding' = outstanding
         \/ /\ tt # NoTT
            /\ outstanding' = Put(outstanding, tt, info)
            /\ idToTT' = idToTT
  BY DEF NPTakeNew, NewBranchReady
<1>2. /\ item = newQ[1]
      /\ 1 \in 1 .. Len(newQ)
      /\ item.id \in Ids
  <2>1. newQ \in Seq(NewOrRetry)
    BY DEF IInv, TypeOK
  <2>2. Len(newQ) \in Nat \ {0}
    BY <1>1, <2>1, EmptySeq
  <2>3. item \in NewOrRetry
    BY <1>1, <2>1, HeadTailProperties DEF item
  <2>. QED  BY <2>2, <2>3 DEF item, NewOrRetry
<1>3. CASE idToTT' = idToTT /\ outstanding' = outstanding
  BY <1>3, StutterStep
<1>4. CASE /\ tt # NoTT
           /\ outstanding' = Put(outstanding, tt, info)
           /\ idToTT' = idToTT
  <2>1. tt \notin DOMAIN outstanding
    BY <1>2 DEF IInv, QueuedHasFreshToken
  <2>2. item.id \notin RunningIds
    BY <2>1 DEF IInv, CurrentToken, RunningIds
  <2>3. item.id \in AdmittedIds
    BY <1>2, <1>4 DEF AdmittedIds
  <2>4. Cardinality(RunningIds) < MaxConcurrent
    BY <1>1, RunningBelowLimit
  <2>5. RunningIds' = RunningIds \cup {item.id}
    BY <1>4, <2>1 DEF RunningIds, Put
  <2>6. AdmittedIds' = AdmittedIds
    BY <1>4 DEF AdmittedIds
  <2>7. LAM!Start(item.id)
    BY <2>2, <2>3, <2>4, <2>5, <2>6, AbstractCardinality DEF LAM!Start
  <2>. QED  BY <1>2, <2>7 DEF LAM!Next
<1>. QED  BY <1>1, <1>3, <1>4


-----------------------------------------------------------------------------
(* Every step of the detailed model is a step of LAMAbstract or leaves its *)
(* state alone.                                                            *)
LEMMA NextRefines == IInv /\ [Next]_vars => [LAM!Next]_LAM!avars
<1> SUFFICES ASSUME IInv, [Next]_vars PROVE [LAM!Next]_LAM!avars
  OBVIOUS
<1>1. CASE Caller
  <2>1. CASE \E id \in Ids, cfg \in Configs :
               \/ EnqueueNewTimedOut(id, cfg)
               \/ \E att \in Attempts : EnqueueNewQueued(id, cfg, att)
    <3>1. PICK id \in Ids, cfg \in Configs :
               \/ EnqueueNewTimedOut(id, cfg)
               \/ \E att \in Attempts : EnqueueNewQueued(id, cfg, att)
      BY <2>1
    <3>2. LAM!Admit(id)
      BY <3>1, AdmitStep
    <3>. QED  BY <3>2 DEF LAM!Next
  <2>2. CASE \E id \in Ids : EnqueueCancelBackoff(id) \/ EnqueueCancelKnown(id)
    BY <2>2, StutterStep DEF EnqueueCancelBackoff, EnqueueCancelKnown
  <2>3. CASE ShutdownBegin
    BY <2>3, StutterStep DEF ShutdownBegin
  <2>. QED  BY <1>1, <2>1, <2>2, <2>3 DEF Caller
<1>2. CASE Lang
  BY <1>2, CompleteStep DEF Lang, LangComplete
<1>3. CASE Timers
  BY <1>3, StutterStep DEF Timers, BackoffFire, SchedToCloseFire, StartToCloseFire
<1>4. CASE Consumer
  <2>1. CASE NPTakeCancel \/ NPTakeTimeout \/ NPNone
    BY <2>1, StutterStep DEF NPTakeCancel, NPTakeTimeout, NPNone
  <2>2. CASE NPTimeoutComplete
    BY <2>2, CompleteStep DEF NPTimeoutComplete
  <2>3. CASE NPTakeNew
    BY <2>3, DispatchStep
  <2>. QED  BY <1>4, <2>1, <2>2, <2>3 DEF Consumer
<1>5. CASE ShutdownCheck
  BY <1>5, StutterStep DEF ShutdownCheck
<1>6. CASE UNCHANGED vars
  BY <1>6, StutterStep DEF vars
<1>. QED  BY <1>1, <1>2, <1>3, <1>4, <1>5, <1>6 DEF Next

(* Refinement: every behaviour of the LAM's enqueue / next_pending /       *)
(* complete / timers / shutdown is a behaviour of LAMAbstract: admission   *)
(* is idempotent, an id runs at most once at a time and at most            *)
(* MaxConcurrent ids run, for every value of the constants with which     *)
(* next_tt_num does not wrap.                                              *)
THEOREM Refinement ==
    ASSUME NoWrap
    PROVE  Spec => Implements
<1>1. Init => LAM!Init
  BY InitRefines
<1>2. IInv /\ [Next]_vars => [LAM!Next]_LAM!avars
  BY NextRefines
<1>. QED  BY <1>1, <1>2, IInvInvariant, PTL DEF Spec, Implements, LAM!Spec

=============================================================================
