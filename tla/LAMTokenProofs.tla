--------------------------- MODULE LAMTokenProofs ---------------------------
(***************************************************************************)
(* Proof that gen_next_token never hands out a token that anybody still    *)
(* holds (MintedTokenUnused), for every value of the constants with which  *)
(* next_tt_num does not wrap.  The tokens held outside id_to_tt (by        *)
(* outstanding tasks, by lang, by queued Cancels and by next_pending) are  *)
(* all at most next_tt_num (HeldMinted); with the bounds of IInv this      *)
(* makes the freshly minted next_tt_num + 1 unused.                        *)
(***************************************************************************)
EXTENDS LAMProofs

(* Every token held outside id_to_tt was minted: none exceeds next_tt_num. *)
HeldMinted == TokensHeld \subseteq 0 .. nextTT

TInv == IInv /\ HeldMinted

(* What one step does to the tokens: the counter moves by at most one      *)
(* mint, id_to_tt gains no token but the minted one, and a token becomes   *)
(* held only when it is outstanding or current in id_to_tt.                *)
TokenStep ==
    /\ nextTT' \in {nextTT, Minted}
    /\ \A id \in Ids : idToTT'[id] \in {NoTT, idToTT[id], Minted}
    /\ TokensHeld' \subseteq TokensHeld \cup DOMAIN outstanding' \cup {idToTT[j] : j \in Ids}

USE ConstAssumption DEF ConstAssumption

-----------------------------------------------------------------------------
(* Appending a message to cancels_req adds its token only if it is a      *)
(* Cancel.                                                                 *)
LEMMA CancelTokensAppend ==
    ASSUME NEW q \in Seq(CancelOrTimeout), NEW m \in CancelOrTimeout
    PROVE  CancelTokens(Append(q, m)) \subseteq
               CancelTokens(q) \cup (IF m.kind = "Cancel" THEN {m.tt} ELSE {})
<1>1. /\ Len(q) \in Nat
      /\ Len(Append(q, m)) = Len(q) + 1
      /\ \A i \in 1 .. Len(q) : Append(q, m)[i] = q[i]
      /\ Append(q, m)[Len(q) + 1] = m
  BY AppendProperties
<1>. QED  BY <1>1 DEF CancelTokens

(* Receiving from cancels_req removes tokens and adds none. *)
LEMMA CancelTokensTail ==
    ASSUME NEW q \in Seq(CancelOrTimeout), q # << >>
    PROVE  CancelTokens(Tail(q)) \subseteq CancelTokens(q)
<1>1. /\ Len(q) \in Nat
      /\ Len(Tail(q)) = Len(q) - 1
      /\ \A i \in 1 .. Len(Tail(q)) : Tail(q)[i] = q[i + 1]
  BY HeadTailProperties
<1>. QED  BY <1>1 DEF CancelTokens

(* A step that leaves the token state alone. *)
LEMMA UnchangedTokens ==
    ASSUME UNCHANGED <<idToTT, nextTT, outstanding, langHas, cancelQ, npTT>>,
           npPc' = "timeout" => npPc = "timeout"
    PROVE  TokenStep
BY DEF TokenStep, TokensHeld

(* complete moves the counter by at most one mint and writes into         *)
(* id_to_tt either NoTT (a report) or the minted token (a retry).          *)
LEMMA CompleteTokens ==
    ASSUME IInv, NEW t, NEW r, NEW pol, Complete(t, r, pol)
    PROVE  /\ nextTT' \in {nextTT, Minted}
           /\ \A id \in Ids : idToTT'[id] \in {NoTT, idToTT[id], Minted}
<1>1. CASE Outcome(t, r, pol) = "Untracked"
  BY <1>1 DEF Complete
<1>2. CASE Outcome(t, r, pol) = "WillBeRetried"
  <2>1. CompleteRetry(t)
    BY <1>2 DEF Complete
  <2>2. MintTT = Minted
    BY <2>1, MintNoWrap DEF CompleteRetry
  <2>. QED  BY <2>1, <2>2 DEF CompleteRetry, IInv, TypeOK
<1>3. CASE Outcome(t, r, pol) \notin {"Untracked", "WillBeRetried"}
  <2>1. CompleteReport(t, r)
    BY <1>3 DEF Complete
  <2>. QED  BY <2>1 DEF CompleteReport, IInv, TypeOK
<1>. QED  BY <1>1, <1>2, <1>3

-----------------------------------------------------------------------------
(* Admission mints one token and touches no held token. *)
LEMMA EnqueueNewTokens ==
    ASSUME IInv, NEW id \in Ids, NEW cfg \in Configs,
           \/ EnqueueNewTimedOut(id, cfg)
           \/ \E att \in Attempts : EnqueueNewQueued(id, cfg, att)
    PROVE  TokenStep
<1>1. MintTT = Minted
  BY MintNoWrap DEF EnqueueNewTimedOut, EnqueueNewQueued
<1>2. /\ idToTT' = [idToTT EXCEPT ![id] = Minted]
      /\ nextTT' = Minted
      /\ UNCHANGED <<outstanding, langHas, cancelQ, npPc, npTT>>
  BY <1>1 DEF EnqueueNewTimedOut, EnqueueNewQueued
<1>. QED  BY <1>2 DEF TokenStep, TokensHeld, IInv, TypeOK

(* A Cancel for a known id queues the id's current token. *)
LEMMA CancelKnownTokens ==
    ASSUME IInv, NEW id \in Ids, EnqueueCancelKnown(id)
    PROVE  TokenStep
<1>1. [kind |-> "Cancel", tt |-> idToTT[id]] \in CancelOrTimeout
  BY DEF EnqueueCancelKnown, CancelOrTimeout, IInv, TypeOK, Tok, NoTT
<1>2. CancelTokens(cancelQ') \subseteq CancelTokens(cancelQ) \cup {idToTT[id]}
  BY <1>1, CancelTokensAppend DEF EnqueueCancelKnown, IInv, TypeOK
<1>. QED  BY <1>2 DEF EnqueueCancelKnown, TokenStep, TokensHeld

(* A timer task queues a Timeout, which names no token. *)
LEMMA TimerTokens ==
    ASSUME IInv, NEW id \in Ids, SchedToCloseFire(id) \/ StartToCloseFire(id)
    PROVE  TokenStep
<1>1. /\ \E m \in CancelOrTimeout : m.kind = "Timeout" /\ cancelQ' = Append(cancelQ, m)
      /\ UNCHANGED <<idToTT, nextTT, outstanding, langHas, npPc, npTT>>
  <2>1. bags[id].adm \in Tok
    BY DEF SchedToCloseFire, StartToCloseFire, IInv, TypeOK, IsPartialFn, TimeoutBag
  <2>. QED  BY <2>1 DEF SchedToCloseFire, StartToCloseFire, CancelOrTimeout
<1>2. CancelTokens(cancelQ') \subseteq CancelTokens(cancelQ)
  BY <1>1, CancelTokensAppend DEF IInv, TypeOK
<1>. QED  BY <1>1, <1>2 DEF TokenStep, TokensHeld

(* Lang completes a task: it gives the token up; complete may mint one. *)
LEMMA LangCompleteTokens ==
    ASSUME IInv, NEW t \in Tok, NEW r \in Results, NEW pol \in Policies,
           LangComplete(t, r, pol)
    PROVE  TokenStep
<1>1. /\ nextTT' \in {nextTT, Minted}
      /\ \A id \in Ids : idToTT'[id] \in {NoTT, idToTT[id], Minted}
  BY CompleteTokens DEF LangComplete
<1>2. TokensHeld' \subseteq TokensHeld \cup DOMAIN outstanding'
  BY DEF LangComplete, TokensHeld
<1>. QED  BY <1>1, <1>2 DEF TokenStep

(* next_pending completes the task of a Timeout and leaves its lookup. *)
LEMMA NPTimeoutCompleteTokens ==
    ASSUME IInv, NPTimeoutComplete
    PROVE  TokenStep
<1>1. /\ nextTT' \in {nextTT, Minted}
      /\ \A id \in Ids : idToTT'[id] \in {NoTT, idToTT[id], Minted}
  BY CompleteTokens DEF NPTimeoutComplete
<1>2. TokensHeld' \subseteq TokensHeld \cup DOMAIN outstanding'
  BY DEF NPTimeoutComplete, TokensHeld
<1>. QED  BY <1>1, <1>2 DEF TokenStep

(* next_pending receives a Cancel or a Timeout; for a Timeout it holds the *)
(* id's current token until its complete.                                  *)
LEMMA NPTakeCancelOrTimeoutTokens ==
    ASSUME IInv, NPTakeCancel \/ NPTakeTimeout
    PROVE  TokenStep
<1>1. CancelTokens(cancelQ') \subseteq CancelTokens(cancelQ)
  BY CancelTokensTail DEF NPTakeCancel, NPTakeTimeout, IInv, TypeOK
<1>2. /\ UNCHANGED <<idToTT, nextTT, outstanding, langHas>>
      /\ npPc' = "timeout" => npTT' \in {idToTT[j] : j \in Ids} \/ npPc = "timeout"
      /\ npPc = "timeout" => UNCHANGED <<npPc, npTT>>
  <2>1. npPc = "idle"
    BY DEF NPTakeCancel, NPTakeTimeout
  <2>2. Head(cancelQ).id \in Ids => idToTT[Head(cancelQ).id] \in {idToTT[j] : j \in Ids}
    OBVIOUS
  <2>3. NPTakeTimeout => Head(cancelQ).id \in Ids
    <3>1. cancelQ \in Seq(CancelOrTimeout)
      BY DEF IInv, TypeOK
    <3>2. NPTakeTimeout => Head(cancelQ) \in CancelOrTimeout /\ Head(cancelQ).kind = "Timeout"
      BY <3>1, HeadTailProperties DEF NPTakeTimeout
    <3>. QED  BY <3>2 DEF CancelOrTimeout
  <2>. QED  BY <2>1, <2>2, <2>3 DEF NPTakeCancel, NPTakeTimeout
<1>. QED  BY <1>1, <1>2 DEF TokenStep, TokensHeld

(* Dispatch hands lang the id's current token and makes it outstanding. *)
LEMMA NPTakeNewTokens ==
    ASSUME IInv, NPTakeNew
    PROVE  TokenStep
<1>1. /\ UNCHANGED <<idToTT, nextTT, cancelQ, npPc, npTT>>
      /\ langHas' \subseteq langHas \cup {idToTT[Head(newQ).id]}
  BY DEF NPTakeNew
<1>2. Head(newQ).id \in Ids
  <2>1. newQ \in Seq(NewOrRetry) /\ newQ # << >>
    BY DEF IInv, TypeOK, NPTakeNew, NewBranchReady
  <2>2. Head(newQ) \in NewOrRetry
    BY <2>1, HeadTailProperties
  <2>. QED  BY <2>2 DEF NewOrRetry
<1>. QED  BY <1>1, <1>2 DEF TokenStep, TokensHeld

-----------------------------------------------------------------------------
(* Every step of the LAM satisfies TokenStep. *)
LEMMA StepTokens ==
    ASSUME IInv, [Next]_vars
    PROVE  TokenStep
<1>1. CASE Caller
  <2>1. CASE \E id \in Ids, cfg \in Configs :
               \/ EnqueueNewTimedOut(id, cfg)
               \/ \E att \in Attempts : EnqueueNewQueued(id, cfg, att)
    BY <2>1, EnqueueNewTokens
  <2>2. CASE \E id \in Ids : EnqueueCancelBackoff(id)
    BY <2>2, UnchangedTokens DEF EnqueueCancelBackoff
  <2>3. CASE \E id \in Ids : EnqueueCancelKnown(id)
    BY <2>3, CancelKnownTokens
  <2>4. CASE ShutdownBegin
    BY <2>4, UnchangedTokens DEF ShutdownBegin
  <2>. QED  BY <1>1, <2>1, <2>2, <2>3, <2>4 DEF Caller
<1>2. CASE Lang
  BY <1>2, LangCompleteTokens DEF Lang
<1>3. CASE Timers
  <2>1. CASE \E id \in Ids : BackoffFire(id)
    BY <2>1, UnchangedTokens DEF BackoffFire
  <2>2. CASE \E id \in Ids : SchedToCloseFire(id) \/ StartToCloseFire(id)
    BY <2>2, TimerTokens
  <2>. QED  BY <1>3, <2>1, <2>2 DEF Timers
<1>4. CASE Consumer
  <2>1. CASE NPTakeCancel \/ NPTakeTimeout
    BY <2>1, NPTakeCancelOrTimeoutTokens
  <2>2. CASE NPTimeoutComplete
    BY <2>2, NPTimeoutCompleteTokens
  <2>3. CASE NPTakeNew
    BY <2>3, NPTakeNewTokens
  <2>4. CASE NPNone
    BY <2>4, UnchangedTokens DEF NPNone
  <2>. QED  BY <1>4, <2>1, <2>2, <2>3, <2>4 DEF Consumer
<1>5. CASE ShutdownCheck
  BY <1>5, UnchangedTokens DEF ShutdownCheck
<1>6. CASE UNCHANGED vars
  BY <1>6, UnchangedTokens DEF vars
<1>. QED  BY <1>1, <1>2, <1>3, <1>4, <1>5, <1>6 DEF Next

-----------------------------------------------------------------------------
(* LocalActivityManager::new holds no token. *)
LEMMA InitTInv ==
    ASSUME NoWrap
    PROVE  Init => TInv
<1>. SUFFICES ASSUME Init PROVE TInv
  OBVIOUS
<1>1. IInv
  BY InitIInv
<1>2. CancelTokens(cancelQ) = {}
  BY DEF Init, CancelTokens
<1>3. HeldMinted
  BY <1>2 DEF Init, HeldMinted, TokensHeld
<1>. QED  BY <1>1, <1>3 DEF TInv

(* A step keeps every held token at most next_tt_num: the counter never  *)
(* goes back, and a token becomes held only from id_to_tt or as an         *)
(* outstanding task, both bounded by IInv.                                 *)
LEMMA NextTInv == TInv /\ [Next]_vars => TInv'
<1>. SUFFICES ASSUME IInv, HeldMinted, [Next]_vars PROVE TInv'
  BY DEF TInv
<1>1. IInv'
  BY NextIInv
<1>2. TokenStep
  BY StepTokens
<1>3. nextTT \in Nat /\ nextTT <= nextTT'
  BY <1>2 DEF TokenStep, Minted, IInv, TypeOK
<1>4. DOMAIN outstanding' \subseteq 0 .. nextTT'
  BY <1>1 DEF IInv, TokensMinted, TypeOK, IsPartialFn, Tok
<1>5. \A j \in Ids : idToTT[j] \in 0 .. nextTT
  BY DEF IInv, TokensMinted, TypeOK
<1>6. HeldMinted'
  BY <1>2, <1>3, <1>4, <1>5 DEF HeldMinted, TokenStep
<1>. QED  BY <1>1, <1>6 DEF TInv

(* IInv and HeldMinted hold in every reachable state of the LAM. *)
THEOREM TokenInvariant ==
    ASSUME NoWrap
    PROVE  Spec => []TInv
<1>1. Init => TInv  BY InitTInv
<1>2. TInv /\ [Next]_vars => TInv'  BY NextTInv
<1>. QED  BY <1>1, <1>2, PTL DEF Spec

(* Spec section 9: while next_tt_num does not wrap, every token that      *)
(* enqueue or complete's retry writes into id_to_tt is held by nobody (no  *)
(* other id, outstanding task, lang, queued Cancel or next_pending), so a  *)
(* stale completion or cancel can never reach the new attempt.             *)
THEOREM MintedFresh ==
    ASSUME NoWrap
    PROVE  Spec => MintedTokenUnused
<1>1. TInv /\ [Next]_vars => [MintIsFresh]_vars
  <2>. SUFFICES ASSUME TInv, [Next]_vars PROVE MintIsFresh
    OBVIOUS
  <2>1. TokenStep
    BY StepTokens DEF TInv
  <2>. SUFFICES ASSUME NEW id \in Ids, idToTT'[id] \notin {NoTT, idToTT[id]}
                PROVE  /\ idToTT'[id] \notin TokensHeld
                       /\ \A j \in Ids : idToTT[j] # idToTT'[id]
    BY DEF MintIsFresh
  <2>2. idToTT'[id] = nextTT + 1
    BY <2>1 DEF TokenStep, Minted
  <2>3. /\ nextTT \in Nat
        /\ TokensHeld \subseteq 0 .. nextTT
        /\ \A j \in Ids : idToTT[j] \in 0 .. nextTT
    BY DEF TInv, HeldMinted, IInv, TokensMinted, TypeOK
  <2>. QED  BY <2>2, <2>3
<1>. QED  BY <1>1, TokenInvariant, PTL DEF Spec, MintedTokenUnused

====
