----------------------------- MODULE LAMProofs -----------------------------
(***************************************************************************)
(* Proofs about LocalActivityManager: type correctness and the safety      *)
(* invariants of its state (permits, tokens, backoff and queue), for every *)
(* value of the constants.                                                 *)
(***************************************************************************)
EXTENDS LocalActivityManager, FiniteSetTheorems, SequenceTheorems, TLAPS

(* Every token in use was minted: none exceeds next_tt_num. *)
TokensMinted ==
    /\ \A id \in Ids : idToTT[id] <= nextTT
    /\ \A t \in DOMAIN outstanding : t <= nextTT

(* The new/retry channel holds at most one request per id. *)
QueueIdsUnique ==
    \A i, j \in 1 .. Len(newQ) : i # j => newQ[i].id # newQ[j].id

(* A backing-off id keeps its retry token, and its Retry is not queued    *)
(* before the backoff task has fired.                                      *)
BackoffState ==
    \A id \in DOMAIN backoff :
        /\ idToTT[id] # NoTT
        /\ ~backoff[id].fired => \A i \in 1 .. Len(newQ) : newQ[i].id # id

(* While next_pending is between its lookup and its complete, the       *)
(* message it holds is a Timeout.                                          *)
NpState ==
    npPc = "timeout" =>
        npMsg \in [kind : {"Timeout"}, id : Ids, adm : Tok, to : {"S2C", "STC"}]

(* The u32 next_tt_num does not wrap within the mints the model allows:  *)
(* the tokens are then the call ordinals.  A constant, carried in IInv.   *)
NoWrap == MaxMints <= TokSpace

IInv ==
    /\ NoWrap
    /\ TypeOK
    /\ NpState
    /\ PermitAccounting
    /\ CurrentToken
    /\ BackoffExclusive
    /\ QueuedHasFreshToken
    /\ TokensMinted
    /\ TokensInjective
    /\ QueueIdsUnique
    /\ BackoffState


USE ConstAssumption DEF ConstAssumption

-----------------------------------------------------------------------------
(* Without a wrap, the token gen_next_token returns is the call ordinal. *)
LEMMA MintNoWrap ==
    ASSUME IInv, MintOK
    PROVE  MintTT = Minted
<1>1. nextTT \in Nat /\ nextTT < 2 ^ TokBits /\ TokBits \in Nat
  BY DEF IInv, NoWrap, TypeOK, MintOK, TokSpace
<1>2. nextTT % (2 ^ TokBits) = nextTT
  BY <1>1
<1>. QED  BY <1>2 DEF MintTT, Minted, TokSpace

(* The set of outstanding tokens is finite: it is a set of tokens. *)
LEMMA OutstandingFinite ==
    ASSUME TypeOK
    PROVE  IsFiniteSet(DOMAIN outstanding)
<1>1. IsFiniteSet(Tok)
  BY FS_Interval DEF Tok
<1>2. DOMAIN outstanding \subseteq Tok
  BY DEF TypeOK, IsPartialFn
<1>. QED  BY <1>1, <1>2, FS_Subset

(* The initial state of LocalActivityManager::new satisfies IInv. *)
LEMMA InitIInv ==
    ASSUME NoWrap
    PROVE  Init => IInv
<1>. SUFFICES ASSUME Init PROVE IInv
  OBVIOUS
<1>1. TypeOK
  <2>1. /\ IsPartialFn(outstanding, Tok, Info)
        /\ IsPartialFn(backoff, Ids, BackoffTask)
        /\ IsPartialFn(bags, Ids, TimeoutBag)
    BY DEF Init, IsPartialFn
  <2>2. newQ \in Seq(NewOrRetry) /\ cancelQ \in Seq(CancelOrTimeout)
    BY DEF Init
  <2>3. npMsg \in CancelOrTimeout
    BY DEF Init, CancelOrTimeout, Tok
  <2>4. idToTT \in [Ids -> 0 .. MaxMints] /\ nextTT \in 0 .. MaxMints
    BY DEF Init, NoTT
  <2>5. avail \in 0 .. MaxConcurrent /\ langHas \subseteq Tok /\ npTT \in 0 .. MaxMints
    BY DEF Init, NoTT
  <2>6. res \in [Tok -> Nat]
    BY DEF Init
  <2>. QED
    BY <2>1, <2>2, <2>3, <2>4, <2>5, <2>6 DEF Init, TypeOK
<1>2. PermitAccounting
  BY FS_EmptySet DEF Init, PermitAccounting
<1>. QED
  BY <1>1, <1>2 DEF Init, IInv, NpState, CurrentToken, BackoffExclusive, QueuedHasFreshToken,
                   TokensMinted, TokensInjective, QueueIdsUnique, BackoffState, NoTT

(* A Cancel for a known id only appends to the cancel channel. *)
LEMMA CancelKnownIInv ==
    ASSUME IInv, NEW id \in Ids, EnqueueCancelKnown(id)
    PROVE  IInv'
<1>1. TypeOK'
  BY DEF IInv, TypeOK, EnqueueCancelKnown, CancelOrTimeout, Tok, NoTT
<1>. QED
  BY <1>1 DEF IInv, NpState, EnqueueCancelKnown, PermitAccounting, CurrentToken, BackoffExclusive,
              QueuedHasFreshToken, TokensMinted, TokensInjective, QueueIdsUnique, BackoffState


-----------------------------------------------------------------------------
(* What a HashMap insert and remove return. *)
LEMMA PutFacts ==
    ASSUME NEW f, NEW k, NEW v
    PROVE  /\ DOMAIN Put(f, k, v) = DOMAIN f \cup {k}
           /\ Put(f, k, v)[k] = v
           /\ \A x \in DOMAIN f \ {k} : Put(f, k, v)[x] = f[x]
BY DEF Put

LEMMA DelFacts ==
    ASSUME NEW f, NEW k
    PROVE  /\ DOMAIN Del(f, k) = DOMAIN f \ {k}
           /\ \A x \in DOMAIN f \ {k} : Del(f, k)[x] = f[x]
BY DEF Del

(* The parts of IInv other than the type invariant. *)
StateInv ==
    /\ PermitAccounting
    /\ CurrentToken
    /\ BackoffExclusive
    /\ QueuedHasFreshToken
    /\ TokensMinted
    /\ TokensInjective
    /\ QueueIdsUnique
    /\ BackoffState

(* The type of the variables complete writes. *)
CompleteTypeOK ==
    /\ idToTT \in [Ids -> 0 .. MaxMints]
    /\ nextTT \in 0 .. MaxMints
    /\ IsPartialFn(outstanding, Tok, Info)
    /\ IsPartialFn(backoff, Ids, BackoffTask)
    /\ avail \in 0 .. MaxConcurrent
    /\ sd \in {"running", "check", "wait", "done"}
    /\ notifyPermit \in BOOLEAN

(* The Report branch of complete: the info of t is removed, its permit    *)
(* released and its id leaves id_to_tt.                                    *)
LEMMA ReportInv ==
    ASSUME IInv, NEW t \in DOMAIN outstanding, NEW r, CompleteReport(t, r),
           newQ' = newQ
    PROVE  CompleteTypeOK' /\ StateInv'
<1> DEFINE id == outstanding[t].id
<1>1. /\ id \in Ids
      /\ idToTT[id] = t
      /\ t \in Tok
  BY DEF IInv, TypeOK, IsPartialFn, Info, CurrentToken
<1>2. /\ DOMAIN outstanding' = DOMAIN outstanding \ {t}
      /\ \A x \in DOMAIN outstanding' : outstanding'[x] = outstanding[x]
      /\ idToTT' = [idToTT EXCEPT ![id] = NoTT]
      /\ avail' = avail + 1
      /\ UNCHANGED <<nextTT, backoff>>
  BY DelFacts DEF CompleteReport
<1>3. \A x \in DOMAIN outstanding' : outstanding[x].id # id
  BY <1>1, <1>2 DEF IInv, CurrentToken
<1>4. IsFiniteSet(DOMAIN outstanding) /\ Cardinality(DOMAIN outstanding) \in Nat
  BY OutstandingFinite, FS_CardinalityType DEF IInv
<1>5. Cardinality(DOMAIN outstanding') = Cardinality(DOMAIN outstanding) - 1
  BY <1>2, <1>4, FS_RemoveElement
<1>6. Cardinality(DOMAIN outstanding) >= 1
  BY <1>4, FS_EmptySet
<1>7. PermitAccounting'
  BY <1>2, <1>4, <1>5 DEF IInv, TypeOK, PermitAccounting
<1>8. CompleteTypeOK'
  <2>1. sd' \in {"running", "check", "wait", "done"} /\ notifyPermit' \in BOOLEAN
    BY DEF CompleteReport, NotifyOne, IInv, TypeOK
  <2>2. avail' \in 0 .. MaxConcurrent
    BY <1>2, <1>4, <1>5, <1>6 DEF IInv, TypeOK, PermitAccounting
  <2>. QED
    BY <1>1, <1>2, <2>1, <2>2 DEF CompleteTypeOK, IInv, TypeOK, IsPartialFn, NoTT
<1>9. CurrentToken'
  BY <1>1, <1>2, <1>3 DEF IInv, CurrentToken
<1>10. BackoffExclusive'
  BY <1>2 DEF IInv, BackoffExclusive
<1>11. QueuedHasFreshToken'
  <2>1. \A i \in 1 .. Len(newQ) : newQ[i].id # id
    BY <1>1 DEF IInv, QueuedHasFreshToken
  <2>. QED  BY <1>2, <2>1 DEF IInv, QueuedHasFreshToken
<1>12. TokensMinted' /\ TokensInjective'
  BY <1>1, <1>2 DEF IInv, TypeOK, TokensMinted, TokensInjective, NoTT
<1>13. QueueIdsUnique' /\ BackoffState'
  <2>1. id \notin DOMAIN backoff
    BY DEF IInv, BackoffExclusive
  <2>. QED  BY <1>2, <2>1 DEF IInv, QueueIdsUnique, BackoffState
<1>. QED
  BY <1>7, <1>8, <1>9, <1>10, <1>11, <1>12, <1>13 DEF StateInv


(* The WillBeRetried branch of complete: the info of t is removed and its *)
(* permit released, the id gets a freshly minted token and a backoff task. *)
LEMMA RetryInv ==
    ASSUME IInv, NEW t \in DOMAIN outstanding, CompleteRetry(t), newQ' = newQ
    PROVE  CompleteTypeOK' /\ StateInv'
<1> DEFINE id == outstanding[t].id
           info == outstanding[t]
<1>1. /\ id \in Ids
      /\ idToTT[id] = t
      /\ t \in Tok
      /\ info \in Info
  BY DEF IInv, TypeOK, IsPartialFn, Info, CurrentToken
<1>2. /\ DOMAIN outstanding' = DOMAIN outstanding \ {t}
      /\ \A x \in DOMAIN outstanding' : outstanding'[x] = outstanding[x]
      /\ idToTT' = [idToTT EXCEPT ![id] = Minted]
      /\ nextTT' = Minted
      /\ nextTT < MaxMints
      /\ avail' = avail + 1
      /\ DOMAIN backoff' = DOMAIN backoff \cup {id}
      /\ backoff'[id] = [adm |-> info.adm, cfg |-> info.cfg,
                         attempt |-> info.attempt + 1, fired |-> FALSE]
      /\ \A x \in DOMAIN backoff \ {id} : backoff'[x] = backoff[x]
      /\ UNCHANGED <<sd, notifyPermit>>
  <2>1. MintTT = Minted  BY MintNoWrap DEF CompleteRetry
  <2>. QED  BY <2>1 DEF CompleteRetry, MintOK, Put, Del
<1>3. \A x \in DOMAIN outstanding' : outstanding[x].id # id
  BY <1>1, <1>2 DEF IInv, CurrentToken
<1>4. IsFiniteSet(DOMAIN outstanding) /\ Cardinality(DOMAIN outstanding) \in Nat
  BY OutstandingFinite, FS_CardinalityType DEF IInv
<1>5. Cardinality(DOMAIN outstanding') = Cardinality(DOMAIN outstanding) - 1
  BY <1>2, <1>4, FS_RemoveElement
<1>6. Cardinality(DOMAIN outstanding) >= 1
  BY <1>4, FS_EmptySet
<1>7. PermitAccounting'
  BY <1>2, <1>4, <1>5 DEF IInv, TypeOK, PermitAccounting
<1>8. \A j \in Ids : j # id => idToTT[j] < Minted
  BY DEF IInv, TypeOK, TokensMinted, Minted
<1>9. CompleteTypeOK'
  <2>1. backoff'[id] \in BackoffTask
    BY <1>1, <1>2 DEF Info, BackoffTask
  <2>2. IsPartialFn(backoff', Ids, BackoffTask)
    BY <1>1, <1>2, <2>1 DEF IInv, TypeOK, IsPartialFn
  <2>3. avail' \in 0 .. MaxConcurrent
    BY <1>2, <1>4, <1>5, <1>6 DEF IInv, TypeOK, PermitAccounting
  <2>. QED
    BY <1>1, <1>2, <2>2, <2>3 DEF CompleteTypeOK, IInv, TypeOK, IsPartialFn, Minted
<1>10. CurrentToken' /\ BackoffExclusive'
  BY <1>1, <1>2, <1>3 DEF IInv, CurrentToken, BackoffExclusive
<1>11. QueuedHasFreshToken'
  <2>1. \A i \in 1 .. Len(newQ) : newQ[i].id # id
    BY <1>1 DEF IInv, QueuedHasFreshToken
  <2>. QED  BY <1>2, <2>1 DEF IInv, QueuedHasFreshToken
<1>12. TokensMinted'
  <2>1. \A x \in Ids : idToTT'[x] <= nextTT'
    BY <1>1, <1>2, <1>8 DEF IInv, TypeOK, Minted
  <2>2. \A x \in DOMAIN outstanding' : x <= nextTT'
    BY <1>2 DEF IInv, TypeOK, IsPartialFn, Tok, TokensMinted, Minted
  <2>. QED  BY <2>1, <2>2 DEF TokensMinted
<1>13. TokensInjective'
  <2>1. SUFFICES ASSUME NEW i \in Ids, NEW j \in Ids, i # j, idToTT'[i] = idToTT'[j]
                 PROVE  idToTT'[i] = NoTT
    BY DEF TokensInjective
  <2>2. CASE i = id
    BY <1>2, <1>8, <2>1, <2>2 DEF IInv, TypeOK
  <2>3. CASE j = id
    BY <1>2, <1>8, <2>1, <2>3 DEF IInv, TypeOK
  <2>4. CASE i # id /\ j # id
    BY <1>2, <2>1, <2>4 DEF IInv, TypeOK, TokensInjective
  <2>. QED  BY <2>2, <2>3, <2>4
<1>14. BackoffState'
  <2>1. \A i \in 1 .. Len(newQ) : newQ[i].id # id
    BY <1>1 DEF IInv, QueuedHasFreshToken
  <2>. QED  BY <1>1, <1>2, <2>1 DEF IInv, BackoffState, NoTT, Minted, TypeOK
<1>. QED
  BY <1>7, <1>10, <1>11, <1>12, <1>13, <1>14 , <1>9, <1>2
     DEF StateInv, IInv, QueueIdsUnique


(* complete, whichever branch it takes. *)
LEMMA CompleteInv ==
    ASSUME IInv, NEW t, NEW r, NEW pol, Complete(t, r, pol), newQ' = newQ
    PROVE  CompleteTypeOK' /\ StateInv'
<1>1. CASE Outcome(t, r, pol) = "Untracked"
  <2>1. UNCHANGED <<outstanding, avail, idToTT, nextTT, backoff, sd, notifyPermit>>
    BY <1>1 DEF Complete
  <2>. QED
    BY <2>1 DEF IInv, TypeOK, CompleteTypeOK, StateInv, PermitAccounting, CurrentToken,
                BackoffExclusive, QueuedHasFreshToken, TokensMinted, TokensInjective,
                QueueIdsUnique, BackoffState
<1>2. CASE Outcome(t, r, pol) = "WillBeRetried"
  <2>1. t \in DOMAIN outstanding /\ CompleteRetry(t)
    BY <1>2 DEF Complete, Outcome
  <2>. QED  BY <2>1, RetryInv
<1>3. CASE Outcome(t, r, pol) \notin {"Untracked", "WillBeRetried"}
  <2>1. t \in DOMAIN outstanding /\ CompleteReport(t, r)
    BY <1>3 DEF Complete, Outcome
  <2>. QED  BY <2>1, ReportInv
<1>. QED  BY <1>1, <1>2, <1>3

(* Lang reports the result of one of its tasks. *)
LEMMA LangCompleteInv ==
    ASSUME IInv, NEW t \in Tok, NEW r \in Results, NEW pol \in Policies,
           LangComplete(t, r, pol)
    PROVE  IInv'
<1>1. CompleteTypeOK' /\ StateInv'
  BY CompleteInv DEF LangComplete
<1>2. res' \in [Tok -> Nat]
  <2>1. CASE t \in DOMAIN outstanding
    <3>1. outstanding[t].adm \in Tok
      BY <2>1 DEF IInv, TypeOK, IsPartialFn, Info
    <3>. QED  BY <3>1 DEF LangComplete, Inc, IInv, TypeOK
  <2>2. CASE t \notin DOMAIN outstanding
    BY <2>2 DEF LangComplete, Outcome, IInv, TypeOK
  <2>. QED  BY <2>1, <2>2
<1>3. langHas' \subseteq Tok
  BY DEF LangComplete, IInv, TypeOK
<1>. QED
  BY <1>1, <1>2, <1>3 DEF LangComplete, IInv, TypeOK, CompleteTypeOK, StateInv, NpState

(* next_pending completes the task a Timeout named. *)
LEMMA NPTimeoutCompleteInv ==
    ASSUME IInv, NPTimeoutComplete
    PROVE  IInv'
<1>1. CompleteTypeOK' /\ StateInv'
  BY CompleteInv DEF NPTimeoutComplete
<1>2. res' \in [Tok -> Nat]
  BY DEF NPTimeoutComplete, NpState, IInv, TypeOK, Inc
<1>. QED
  BY <1>1, <1>2 DEF NPTimeoutComplete, IInv, TypeOK, CompleteTypeOK, StateInv, NpState


-----------------------------------------------------------------------------
(* An id absent from id_to_tt is nowhere else in the state. *)
LEMMA FreshId ==
    ASSUME IInv, NEW id \in Ids, idToTT[id] = NoTT
    PROVE  /\ id \notin DOMAIN backoff
           /\ \A t \in DOMAIN outstanding : outstanding[t].id # id
           /\ \A i \in 1 .. Len(newQ) : newQ[i].id # id
<1>1. id \notin DOMAIN backoff
  BY DEF IInv, BackoffState
<1>2. \A t \in DOMAIN outstanding : outstanding[t].id # id
  <2>1. \A t \in DOMAIN outstanding : t # NoTT
    BY DEF IInv, TypeOK, IsPartialFn, Tok, NoTT
  <2>. QED  BY <2>1 DEF IInv, CurrentToken
<1>3. \A i \in 1 .. Len(newQ) : newQ[i].id # id
  BY DEF IInv, QueuedHasFreshToken
<1>. QED  BY <1>1, <1>2, <1>3

(* A token about to be minted is in use nowhere. *)
LEMMA MintFresh ==
    ASSUME IInv, MintOK
    PROVE  /\ Minted \in Tok
           /\ Minted \notin DOMAIN outstanding
           /\ \A j \in Ids : idToTT[j] < Minted
BY DEF IInv, TypeOK, TokensMinted, MintOK, Minted, Tok, IsPartialFn

(* Admission whose schedule-to-close has already elapsed. *)
LEMMA EnqueueNewTimedOutInv ==
    ASSUME IInv, NEW id \in Ids, NEW cfg \in Configs, EnqueueNewTimedOut(id, cfg)
    PROVE  IInv'
<1>1. /\ id \notin DOMAIN backoff
      /\ \A t \in DOMAIN outstanding : outstanding[t].id # id
      /\ \A i \in 1 .. Len(newQ) : newQ[i].id # id
      /\ Minted \in Tok /\ Minted \notin DOMAIN outstanding
      /\ \A j \in Ids : idToTT[j] < Minted
  BY FreshId, MintFresh DEF EnqueueNewTimedOut
<1>2. idToTT' = [idToTT EXCEPT ![id] = Minted] /\ nextTT' = Minted
  <2>1. MintTT = Minted  BY MintNoWrap DEF EnqueueNewTimedOut
  <2>. QED  BY <2>1 DEF EnqueueNewTimedOut
<1>3. TypeOK'
  BY <1>1, <1>2 DEF EnqueueNewTimedOut, IInv, TypeOK, Inc, Tok
<1>4. TokensInjective'
  BY <1>1, <1>2 DEF IInv, TypeOK, TokensInjective, NoTT, Tok
<1>5. TokensMinted'
  BY <1>1, <1>2 DEF EnqueueNewTimedOut, IInv, TypeOK, TokensMinted, IsPartialFn, Tok, Minted
<1>. QED
  BY <1>1, <1>2, <1>3, <1>4, <1>5
     DEF EnqueueNewTimedOut, IInv, NpState, PermitAccounting, CurrentToken,
         BackoffExclusive, QueuedHasFreshToken, QueueIdsUnique, BackoffState, Tok, NoTT

(* Admission: token minted, timeout bag stored, request queued. *)
LEMMA EnqueueNewQueuedInv ==
    ASSUME IInv, NEW id \in Ids, NEW cfg \in Configs, NEW att \in Attempts,
           EnqueueNewQueued(id, cfg, att)
    PROVE  IInv'
<1> DEFINE item == [id |-> id, adm |-> Minted, cfg |-> cfg, attempt |-> att, retry |-> FALSE]
<1>1. /\ id \notin DOMAIN backoff
      /\ \A t \in DOMAIN outstanding : outstanding[t].id # id
      /\ \A i \in 1 .. Len(newQ) : newQ[i].id # id
      /\ Minted \in Tok /\ Minted \notin DOMAIN outstanding
      /\ \A j \in Ids : idToTT[j] < Minted
  BY FreshId, MintFresh DEF EnqueueNewQueued
<1>2. /\ idToTT' = [idToTT EXCEPT ![id] = Minted]
      /\ nextTT' = Minted
      /\ newQ' = Append(newQ, item)
  <2>1. MintTT = Minted  BY MintNoWrap DEF EnqueueNewQueued
  <2>. QED  BY <2>1 DEF EnqueueNewQueued
<1>3. item \in NewOrRetry
  BY <1>1 DEF NewOrRetry, Config
<1>4. /\ newQ' \in Seq(NewOrRetry)
      /\ Len(newQ') = Len(newQ) + 1
      /\ \A i \in 1 .. Len(newQ) : newQ'[i] = newQ[i]
      /\ newQ'[Len(newQ) + 1] = item
  BY <1>2, <1>3, AppendProperties DEF IInv, TypeOK
<1>5. TypeOK'
  <2>1. IsPartialFn(bags', Ids, TimeoutBag)
    BY <1>1 DEF EnqueueNewQueued, Put, IInv, TypeOK, IsPartialFn, TimeoutBag
  <2>. QED  BY <1>1, <1>2, <1>4, <2>1 DEF EnqueueNewQueued, IInv, TypeOK, Tok
<1>6. QueuedHasFreshToken' /\ QueueIdsUnique'
  <2>1. \A i \in 1 .. Len(newQ') : newQ'[i].id = id \/ newQ'[i].id # id
    OBVIOUS
  <2>2. \A i \in 1 .. Len(newQ) : idToTT'[newQ'[i].id] = idToTT[newQ[i].id]
    BY <1>1, <1>4, <1>2 DEF IInv, TypeOK
  <2>3. QueuedHasFreshToken'
    BY <1>1, <1>2, <1>4, <2>2 DEF EnqueueNewQueued, IInv, TypeOK, QueuedHasFreshToken, NoTT, Tok
  <2>4. QueueIdsUnique'
    BY <1>1, <1>4 DEF IInv, QueueIdsUnique
  <2>. QED  BY <2>3, <2>4
<1>7. TokensInjective' /\ TokensMinted'
  <2>1. TokensInjective'
    BY <1>1, <1>2 DEF IInv, TypeOK, TokensInjective, NoTT, Tok
  <2>2. TokensMinted'
    BY <1>1, <1>2 DEF EnqueueNewQueued, IInv, TypeOK, TokensMinted, IsPartialFn, Tok, Minted
  <2>. QED  BY <2>1, <2>2
<1>9. UNCHANGED <<outstanding, backoff, cancelQ, avail, langHas, npPc, npMsg, npTT>>
  BY DEF EnqueueNewQueued
<1>8. BackoffState'
  <2>1. SUFFICES ASSUME NEW x \in DOMAIN backoff
                 PROVE  /\ idToTT'[x] # NoTT
                        /\ ~backoff[x].fired => \A i \in 1 .. Len(newQ') : newQ'[i].id # x
    BY <1>9 DEF BackoffState
  <2>2. x # id /\ x \in Ids
    BY <1>1 DEF IInv, TypeOK, IsPartialFn
  <2>3. idToTT'[x] = idToTT[x] /\ idToTT[x] # NoTT
    <3>1. idToTT \in [Ids -> 0 .. MaxMints]  BY DEF IInv, TypeOK
    <3>2. idToTT'[x] = idToTT[x]  BY <1>2, <2>2, <3>1
    <3>. QED  BY <3>2 DEF IInv, BackoffState
  <2>4. ~backoff[x].fired => \A i \in 1 .. Len(newQ) : newQ[i].id # x
    BY DEF IInv, BackoffState
  <2>. QED  BY <1>4, <2>2, <2>3, <2>4
<1>10. NpState' /\ PermitAccounting' /\ BackoffExclusive'
  BY <1>9 DEF IInv, NpState, PermitAccounting, BackoffExclusive
<1>11. CurrentToken'
  <2>1. SUFFICES ASSUME NEW t \in DOMAIN outstanding
                 PROVE  idToTT'[outstanding[t].id] = t
    BY <1>9 DEF CurrentToken
  <2>2. outstanding[t].id \in Ids /\ outstanding[t].id # id
    BY <1>1 DEF IInv, TypeOK, IsPartialFn, Info
  <2>. QED  BY <1>2, <2>2 DEF IInv, CurrentToken
<1>. QED
  BY <1>5, <1>6, <1>7, <1>8, <1>10, <1>11 DEF IInv

(* Cancel of a backing-off id. *)
LEMMA CancelBackoffInv ==
    ASSUME IInv, NEW id \in Ids, EnqueueCancelBackoff(id)
    PROVE  IInv'
<1>1. /\ DOMAIN backoff' = DOMAIN backoff \ {id}
      /\ \A x \in DOMAIN backoff' : backoff'[x] = backoff[x]
  BY DEF EnqueueCancelBackoff, Del
<1>2. res' \in [Tok -> Nat]
  BY DEF EnqueueCancelBackoff, Inc, IInv, TypeOK, IsPartialFn, BackoffTask
<1>3. UNCHANGED <<idToTT, nextTT, outstanding, bags, newQ, cancelQ, avail,
                  langHas, npPc, npMsg, npTT, sd, notifyPermit>>
  BY DEF EnqueueCancelBackoff
<1>4. IsPartialFn(backoff', Ids, BackoffTask)
  BY <1>1 DEF IInv, TypeOK, IsPartialFn
<1>5. TypeOK'
  BY <1>2, <1>3, <1>4 DEF IInv, TypeOK
<1>6. BackoffExclusive' /\ BackoffState'
  BY <1>1, <1>3 DEF IInv, BackoffExclusive, BackoffState
<1>7. NpState' /\ PermitAccounting' /\ CurrentToken' /\ QueuedHasFreshToken'
  BY <1>3 DEF IInv, NpState, PermitAccounting, CurrentToken, QueuedHasFreshToken
<1>8. TokensMinted' /\ TokensInjective' /\ QueueIdsUnique'
  BY <1>3 DEF IInv, TokensMinted, TokensInjective, QueueIdsUnique
<1>. QED
  BY <1>5, <1>6, <1>7, <1>8 DEF IInv


(* A backoff task fires: its Retry joins the new/retry channel. *)
LEMMA BackoffFireInv ==
    ASSUME IInv, NEW id \in Ids, BackoffFire(id)
    PROVE  IInv'
<1> DEFINE item == [id |-> id, adm |-> backoff[id].adm, cfg |-> backoff[id].cfg,
                    attempt |-> backoff[id].attempt, retry |-> TRUE]
<1>1. /\ backoff[id] \in BackoffTask
      /\ idToTT[id] # NoTT
      /\ ~backoff[id].fired
      /\ \A i \in 1 .. Len(newQ) : newQ[i].id # id
  BY DEF BackoffFire, IInv, TypeOK, IsPartialFn, BackoffState
<1>2. idToTT[id] \notin DOMAIN outstanding
  <2>1. SUFFICES ASSUME idToTT[id] \in DOMAIN outstanding PROVE FALSE
    OBVIOUS
  <2>2. idToTT[outstanding[idToTT[id]].id] = idToTT[id]
    BY <2>1 DEF IInv, CurrentToken
  <2>3. outstanding[idToTT[id]].id = id
    BY <1>1, <2>1, <2>2 DEF IInv, TypeOK, IsPartialFn, Info, TokensInjective
  <2>. QED  BY <2>1, <2>3, BackoffFire(id) DEF IInv, BackoffExclusive, BackoffFire
<1>3. item \in NewOrRetry
  BY <1>1 DEF NewOrRetry, BackoffTask
<1>4. /\ newQ' = Append(newQ, item)
      /\ newQ' \in Seq(NewOrRetry)
      /\ Len(newQ') = Len(newQ) + 1
      /\ \A i \in 1 .. Len(newQ) : newQ'[i] = newQ[i]
      /\ newQ'[Len(newQ) + 1] = item
  BY <1>3, AppendProperties DEF BackoffFire, IInv, TypeOK
<1>5. /\ DOMAIN backoff' = DOMAIN backoff
      /\ backoff'[id].fired
      /\ \A x \in DOMAIN backoff \ {id} : backoff'[x] = backoff[x]
      /\ IsPartialFn(backoff', Ids, BackoffTask)
  BY <1>1 DEF BackoffFire, IInv, TypeOK, IsPartialFn, BackoffTask
<1>6. TypeOK'
  BY <1>4, <1>5 DEF BackoffFire, IInv, TypeOK
<1>7. QueuedHasFreshToken' /\ QueueIdsUnique'
  BY <1>1, <1>2, <1>4 DEF BackoffFire, IInv, QueuedHasFreshToken, QueueIdsUnique
<1>8. BackoffState'
  BY <1>4, <1>5 DEF BackoffFire, IInv, BackoffState
<1>. QED
  BY <1>5, <1>6, <1>7, <1>8
     DEF BackoffFire, IInv, NpState, PermitAccounting, CurrentToken, BackoffExclusive,
         TokensMinted, TokensInjective

(* A timeout task of a TimeoutBag fires. *)
LEMMA TimerFireInv ==
    ASSUME IInv, NEW id \in Ids, SchedToCloseFire(id) \/ StartToCloseFire(id)
    PROVE  IInv'
<1>1. /\ bags[id] \in TimeoutBag
      /\ UNCHANGED <<idToTT, nextTT, outstanding, backoff, newQ, avail, langHas,
                     npPc, npMsg, npTT, sd, notifyPermit, res>>
  BY DEF SchedToCloseFire, StartToCloseFire, IInv, TypeOK, IsPartialFn
<1>2. /\ IsPartialFn(bags', Ids, TimeoutBag)
      /\ cancelQ' \in Seq(CancelOrTimeout)
  <2>1. [kind |-> "Timeout", id |-> id, adm |-> bags[id].adm, to |-> "S2C"] \in CancelOrTimeout
        /\ [kind |-> "Timeout", id |-> id, adm |-> bags[id].adm, to |-> "STC"] \in CancelOrTimeout
    BY <1>1 DEF TimeoutBag, CancelOrTimeout
  <2>2. CASE SchedToCloseFire(id)
    <3>1. IsPartialFn(bags', Ids, TimeoutBag)
      BY <1>1, <2>2 DEF SchedToCloseFire, IInv, TypeOK, IsPartialFn, TimeoutBag
    <3>2. cancelQ' \in Seq(CancelOrTimeout)
      BY <2>1, <2>2, AppendProperties DEF SchedToCloseFire, IInv, TypeOK
    <3>. QED  BY <3>1, <3>2
  <2>3. CASE StartToCloseFire(id)
    <3>1. IsPartialFn(bags', Ids, TimeoutBag)
      BY <1>1, <2>3 DEF StartToCloseFire, IInv, TypeOK, IsPartialFn, TimeoutBag
    <3>2. cancelQ' \in Seq(CancelOrTimeout)
      BY <2>1, <2>3, AppendProperties DEF StartToCloseFire, IInv, TypeOK
    <3>. QED  BY <3>1, <3>2
  <2>. QED  BY <2>2, <2>3
<1>. QED
  BY <1>1, <1>2 DEF IInv, TypeOK, NpState, PermitAccounting, CurrentToken, BackoffExclusive,
                    QueuedHasFreshToken, TokensMinted, TokensInjective, QueueIdsUnique,
                    BackoffState

(* next_pending takes a Cancel, or a Timeout and looks up its token. *)
LEMMA NPTakeCancelOrTimeoutInv ==
    ASSUME IInv, NPTakeCancel \/ NPTakeTimeout
    PROVE  IInv'
<1>1. /\ cancelQ # <<>>
      /\ Head(cancelQ) \in CancelOrTimeout
      /\ cancelQ' = Tail(cancelQ)
      /\ Tail(cancelQ) \in Seq(CancelOrTimeout)
  BY HeadTailProperties DEF NPTakeCancel, NPTakeTimeout, IInv, TypeOK
<1>2. CASE NPTakeCancel
  BY <1>1, <1>2 DEF NPTakeCancel, IInv, TypeOK, NpState, PermitAccounting, CurrentToken,
                    BackoffExclusive, QueuedHasFreshToken, TokensMinted, TokensInjective,
                    QueueIdsUnique, BackoffState
<1>3. CASE NPTakeTimeout
  <2> DEFINE msg == Head(cancelQ)
  <2>1. msg \in [kind : {"Timeout"}, id : Ids, adm : Tok, to : {"S2C", "STC"}]
    BY <1>1, <1>3 DEF NPTakeTimeout, CancelOrTimeout
  <2>2. /\ res' \in [Tok -> Nat]
        /\ npMsg' \in CancelOrTimeout
        /\ npTT' \in 0 .. MaxMints
        /\ npPc' \in {"idle", "timeout", "done"}
        /\ NpState'
    <3>1. CASE idToTT[msg.id] = NoTT
      <4>1. res' = Inc(res, msg.adm) /\ UNCHANGED <<npPc, npMsg, npTT>>
        BY <1>3, <3>1 DEF NPTakeTimeout
      <4>2. res' \in [Tok -> Nat]
        BY <2>1, <4>1 DEF IInv, TypeOK, Inc
      <4>. QED  BY <4>1, <4>2 DEF IInv, TypeOK, NpState
    <3>2. CASE idToTT[msg.id] # NoTT
      <4>1. npMsg' = msg /\ npPc' = "timeout" /\ npTT' = idToTT[msg.id] /\ res' = res
        BY <1>3, <3>2 DEF NPTakeTimeout
      <4>2. npMsg' \in CancelOrTimeout
        BY <2>1, <4>1 DEF CancelOrTimeout
      <4>. QED  BY <2>1, <4>1, <4>2 DEF IInv, TypeOK, NpState
    <3>. QED  BY <3>1, <3>2
  <2>. QED
    BY <1>1, <1>3, <2>2 DEF NPTakeTimeout, IInv, TypeOK, PermitAccounting, CurrentToken,
                    BackoffExclusive, QueuedHasFreshToken, TokensMinted, TokensInjective,
                    QueueIdsUnique, BackoffState
<1>. QED  BY <1>2, <1>3

(* The steps that touch only the shutdown state or the consumer's pc. *)
LEMMA ShutdownInv ==
    ASSUME IInv, NPNone \/ ShutdownBegin \/ ShutdownCheck
    PROVE  IInv'
<1>1. UNCHANGED <<idToTT, nextTT, outstanding, backoff, bags, newQ, cancelQ,
                  avail, langHas, npMsg, npTT, res>>
  BY DEF NPNone, ShutdownBegin, ShutdownCheck
<1>2. /\ npPc' \in {"idle", "timeout", "done"}
      /\ sd' \in {"running", "check", "wait", "done"}
      /\ notifyPermit' \in BOOLEAN
      /\ NpState'
  BY DEF NPNone, ShutdownBegin, ShutdownCheck, IInv, TypeOK, NpState
<1>. QED
  BY <1>1, <1>2 DEF IInv, TypeOK, PermitAccounting, CurrentToken, BackoffExclusive,
                    QueuedHasFreshToken, TokensMinted, TokensInjective, QueueIdsUnique,
                    BackoffState


(* Facts about the new/retry channel after its head is received. *)
LEMMA DequeueFacts ==
    ASSUME IInv, newQ # <<>>, newQ' = Tail(newQ)
    PROVE  /\ Head(newQ) \in NewOrRetry
           /\ Head(newQ) = newQ[1]
           /\ newQ' \in Seq(NewOrRetry)
           /\ Len(newQ') = Len(newQ) - 1
           /\ \A i \in 1 .. Len(newQ') : newQ'[i] = newQ[i + 1]
           /\ \A i \in 1 .. Len(newQ') : newQ'[i].id # Head(newQ).id
           /\ QueueIdsUnique'
<1>1. /\ Head(newQ) \in NewOrRetry
      /\ Head(newQ) = newQ[1]
      /\ newQ' \in Seq(NewOrRetry)
      /\ Len(newQ') = Len(newQ) - 1
      /\ \A i \in 1 .. Len(newQ') : newQ'[i] = newQ[i + 1]
      /\ Len(newQ) \in Nat \ {0}
  BY HeadTailProperties, EmptySeq DEF IInv, TypeOK
<1>2. \A i \in 1 .. Len(newQ') : newQ'[i].id # Head(newQ).id
  BY <1>1 DEF IInv, QueueIdsUnique
<1>3. QueueIdsUnique'
  BY <1>1 DEF IInv, QueueIdsUnique
<1>. QED  BY <1>1, <1>2, <1>3

(* next_pending receives a new/retry request with a permit. *)
LEMMA NPTakeNewInv ==
    ASSUME IInv, NPTakeNew
    PROVE  IInv'
<1> DEFINE item == Head(newQ)
           tt == idToTT[item.id]
<1>1. /\ npPc = "idle" /\ avail > 0 /\ newQ # <<>>
      /\ newQ' = Tail(newQ)
      /\ backoff' = Del(backoff, item.id)
      /\ UNCHANGED <<nextTT, cancelQ, npPc, npMsg, npTT, sd, notifyPermit>>
  BY DEF NPTakeNew, NewBranchReady
<1>2. /\ item \in NewOrRetry
      /\ item = newQ[1]
      /\ newQ' \in Seq(NewOrRetry)
      /\ Len(newQ') = Len(newQ) - 1
      /\ \A i \in 1 .. Len(newQ') : newQ'[i] = newQ[i + 1]
      /\ \A i \in 1 .. Len(newQ') : newQ'[i].id # item.id
      /\ QueueIdsUnique'
  BY <1>1, DequeueFacts
<1>3. /\ tt # NoTT /\ tt \notin DOMAIN outstanding
      /\ item.id \in Ids
  <2>1. item.id \in Ids
    BY <1>2 DEF NewOrRetry
  <2>2. 1 \in 1 .. Len(newQ)
    BY <1>1, EmptySeq DEF IInv, TypeOK
  <2>. QED  BY <1>2, <2>1, <2>2 DEF IInv, QueuedHasFreshToken
<1>4. /\ DOMAIN backoff' = DOMAIN backoff \ {item.id}
      /\ \A x \in DOMAIN backoff' : backoff'[x] = backoff[x]
      /\ IsPartialFn(backoff', Ids, BackoffTask)
  BY <1>1 DEF Del, IInv, TypeOK, IsPartialFn
<1>5. BackoffState'
  BY <1>1, <1>2, <1>4 DEF NPTakeNew, IInv, BackoffState
<1>6. CASE /\ item.cfg.s2s
           /\ res' = Inc(res, item.adm)
           /\ UNCHANGED <<idToTT, outstanding, avail, bags, langHas>>
  <2>1. res' \in [Tok -> Nat]
    BY <1>2, <1>6 DEF IInv, TypeOK, Inc, NewOrRetry
  <2>2. TypeOK'
    BY <1>1, <1>2, <1>4, <1>6, <2>1 DEF IInv, TypeOK
  <2>3. QueuedHasFreshToken'
    <3>1. SUFFICES ASSUME NEW i \in 1 .. Len(newQ')
                   PROVE  /\ idToTT[newQ'[i].id] # NoTT
                          /\ idToTT[newQ'[i].id] \notin DOMAIN outstanding
      BY <1>6 DEF QueuedHasFreshToken
    <3>2. i + 1 \in 1 .. Len(newQ) /\ newQ'[i] = newQ[i + 1]
      BY <1>2 DEF IInv, TypeOK
    <3>. QED  BY <3>2 DEF IInv, QueuedHasFreshToken
  <2>4. NpState' /\ PermitAccounting' /\ CurrentToken' /\ BackoffExclusive'
    BY <1>1, <1>4, <1>6 DEF IInv, NpState, PermitAccounting, CurrentToken, BackoffExclusive
  <2>5. TokensMinted' /\ TokensInjective'
    BY <1>1, <1>6 DEF IInv, TokensMinted, TokensInjective
  <2>. QED
    BY <1>2, <1>5, <2>2, <2>3, <2>4, <2>5 DEF IInv
<1>7. CASE /\ tt # NoTT
           /\ outstanding' = Put(outstanding, tt,
                  [id |-> item.id, adm |-> item.adm, cfg |-> item.cfg,
                   attempt |-> IF item.retry THEN item.attempt
                               ELSE IF item.attempt >= 1 THEN item.attempt ELSE 1])
           /\ avail' = avail - 1
           /\ bags' = IF item.id \in DOMAIN bags /\ bags[item.id].stc = "dormant"
                      THEN [bags EXCEPT ![item.id].stc = "armed"] ELSE bags
           /\ langHas' = langHas \cup {tt}
           /\ UNCHANGED <<idToTT, res>>
  <2> DEFINE info == [id |-> item.id, adm |-> item.adm, cfg |-> item.cfg,
                      attempt |-> IF item.retry THEN item.attempt
                                  ELSE IF item.attempt >= 1 THEN item.attempt ELSE 1]
  <2>1. /\ DOMAIN outstanding' = DOMAIN outstanding \cup {tt}
        /\ outstanding'[tt] = info
        /\ \A x \in DOMAIN outstanding : outstanding'[x] = outstanding[x]
    BY <1>3, <1>7 DEF Put
  <2>2. tt \in Tok /\ info \in Info
    <3>1. tt \in Tok
      <4>1. tt \in 0 .. MaxMints  BY <1>3 DEF IInv, TypeOK
      <4>. QED  BY <1>3, <4>1 DEF Tok, NoTT
    <3>2. info.attempt \in Nat
      BY <1>2 DEF NewOrRetry
    <3>. QED  BY <1>2, <3>1, <3>2 DEF Info, NewOrRetry
  <2>3. PermitAccounting'
    <3>1. IsFiniteSet(DOMAIN outstanding) /\ Cardinality(DOMAIN outstanding) \in Nat
      BY OutstandingFinite, FS_CardinalityType DEF IInv
    <3>2. Cardinality(DOMAIN outstanding') = Cardinality(DOMAIN outstanding) + 1
      BY <1>3, <2>1, <3>1, FS_AddElement
    <3>. QED  BY <1>7, <3>1, <3>2 DEF IInv, TypeOK, PermitAccounting
  <2>4. TypeOK'
    <3>1. IsPartialFn(outstanding', Tok, Info)
      BY <2>1, <2>2 DEF IInv, TypeOK, IsPartialFn
    <3>2. IsPartialFn(bags', Ids, TimeoutBag)
      <4>1. CASE item.id \in DOMAIN bags /\ bags[item.id].stc = "dormant"
        <5>1. bags' = [bags EXCEPT ![item.id].stc = "armed"]
          BY <1>7, <4>1
        <5>2. bags[item.id] \in TimeoutBag
          BY <4>1 DEF IInv, TypeOK, IsPartialFn
        <5>. QED  BY <5>1, <5>2 DEF IInv, TypeOK, IsPartialFn, TimeoutBag
      <4>2. CASE ~(item.id \in DOMAIN bags /\ bags[item.id].stc = "dormant")
        BY <1>7, <4>2 DEF IInv, TypeOK
      <4>. QED  BY <4>1, <4>2
    <3>. QED
      BY <1>1, <1>2, <1>4, <1>7, <2>2, <3>1, <3>2 DEF IInv, TypeOK
  <2>5. CurrentToken'
    BY <1>7, <2>1 DEF IInv, CurrentToken
  <2>8. BackoffExclusive'
    <3>1. SUFFICES ASSUME NEW x \in DOMAIN outstanding'
                   PROVE  outstanding'[x].id \notin DOMAIN backoff'
      BY DEF BackoffExclusive
    <3>2. CASE x = tt
      BY <1>4, <2>1, <3>2
    <3>3. CASE x # tt
      BY <1>4, <2>1, <3>3 DEF IInv, BackoffExclusive
    <3>. QED  BY <3>2, <3>3
  <2>6. QueuedHasFreshToken'
    <3>1. SUFFICES ASSUME NEW i \in 1 .. Len(newQ')
                   PROVE  /\ idToTT[newQ'[i].id] # NoTT
                          /\ idToTT[newQ'[i].id] \notin DOMAIN outstanding'
      BY <1>7 DEF QueuedHasFreshToken
    <3>4. i + 1 \in 1 .. Len(newQ) /\ newQ'[i] = newQ[i + 1]
      BY <1>2, <1>1, EmptySeq DEF IInv, TypeOK
    <3>5. newQ[i + 1] \in NewOrRetry
      BY <3>4, ElementOfSeq DEF IInv, TypeOK
    <3>2. /\ newQ'[i].id \in Ids /\ newQ'[i].id # item.id
          /\ idToTT[newQ'[i].id] # NoTT
          /\ idToTT[newQ'[i].id] \notin DOMAIN outstanding
      BY <1>2, <3>4, <3>5 DEF IInv, QueuedHasFreshToken, NewOrRetry
    <3>3. idToTT[newQ'[i].id] # tt
      BY <1>3, <3>2 DEF IInv, TokensInjective
    <3>. QED  BY <2>1, <3>2, <3>3
  <2>7. TokensMinted'
    BY <1>1, <1>3, <1>7, <2>1 DEF IInv, TokensMinted
  <2>. QED
    BY <1>1, <1>2, <1>5, <1>7, <2>3, <2>4, <2>5, <2>6, <2>7, <2>8
       DEF IInv, NpState, TokensInjective
<1>. QED  BY <1>6, <1>7 DEF NPTakeNew


-----------------------------------------------------------------------------
(* Every step of the system preserves IInv. *)
LEMMA NextIInv == IInv /\ [Next]_vars => IInv'
<1> SUFFICES ASSUME IInv, [Next]_vars PROVE IInv'
  OBVIOUS
<1>1. CASE Caller
  <2>1. CASE \E id \in Ids, cfg \in Configs :
               \/ EnqueueNewTimedOut(id, cfg)
               \/ \E att \in Attempts : EnqueueNewQueued(id, cfg, att)
    BY <2>1, EnqueueNewTimedOutInv, EnqueueNewQueuedInv
  <2>2. CASE \E id \in Ids : EnqueueCancelBackoff(id) \/ EnqueueCancelKnown(id)
    BY <2>2, CancelBackoffInv, CancelKnownIInv
  <2>3. CASE ShutdownBegin
    BY <2>3, ShutdownInv
  <2>. QED  BY <1>1, <2>1, <2>2, <2>3 DEF Caller
<1>2. CASE Lang
  BY <1>2, LangCompleteInv DEF Lang
<1>3. CASE Timers
  BY <1>3, BackoffFireInv, TimerFireInv DEF Timers
<1>4. CASE Consumer
  BY <1>4, NPTakeCancelOrTimeoutInv, NPTimeoutCompleteInv, NPTakeNewInv, ShutdownInv
     DEF Consumer
<1>5. CASE ShutdownCheck
  BY <1>5, ShutdownInv
<1>6. CASE UNCHANGED vars
  BY <1>6 DEF vars, IInv, TypeOK, NpState, PermitAccounting, CurrentToken,
              BackoffExclusive, QueuedHasFreshToken, TokensMinted, TokensInjective,
              QueueIdsUnique, BackoffState, IsPartialFn
<1>. QED  BY <1>1, <1>2, <1>3, <1>4, <1>5, <1>6 DEF Next

(* IInv holds in every reachable state of the LAM. *)
THEOREM IInvInvariant ==
    ASSUME NoWrap
    PROVE  Spec => []IInv
<1>1. Init => IInv  BY InitIInv
<1>2. IInv /\ [Next]_vars => IInv'  BY NextIInv
<1>. QED  BY <1>1, <1>2, PTL DEF Spec

(* Type correctness: every variable keeps the type of the code's data. *)
THEOREM TypeCorrect ==
    ASSUME NoWrap
    PROVE  Spec => []TypeOK
<1>1. IInv => TypeOK  BY DEF IInv
<1>. QED  BY <1>1, IInvInvariant, PTL

(* At most MaxConcurrent activities are outstanding, and each holds        *)
(* exactly one permit, for every semaphore size and every bound.           *)
THEOREM PermitsAccounted ==
    ASSUME NoWrap
    PROVE  Spec => []PermitAccounting
<1>1. IInv => PermitAccounting  BY DEF IInv
<1>. QED  BY <1>1, IInvInvariant, PTL

(* An outstanding task is always keyed by its id's current token. *)
THEOREM OutstandingIsCurrent ==
    ASSUME NoWrap
    PROVE  Spec => []CurrentToken
<1>1. IInv => CurrentToken  BY DEF IInv
<1>. QED  BY <1>1, IInvInvariant, PTL

(* An id is never backing off while outstanding. *)
THEOREM BackoffNotOutstanding ==
    ASSUME NoWrap
    PROVE  Spec => []BackoffExclusive
<1>1. IInv => BackoffExclusive  BY DEF IInv
<1>. QED  BY <1>1, IInvInvariant, PTL

(* The dispatch path never panics on a missing token, and its insert      *)
(* never overwrites an outstanding task.                                   *)
THEOREM DispatchTokenFresh ==
    ASSUME NoWrap
    PROVE  Spec => []QueuedHasFreshToken
<1>1. IInv => QueuedHasFreshToken  BY DEF IInv
<1>. QED  BY <1>1, IInvInvariant, PTL

(* While next_tt_num does not wrap, gen_next_token never hands out a token *)
(* another id still holds: Cancel(tt) and complete(tt) reach one activity. *)
THEOREM TokensDistinct ==
    ASSUME NoWrap
    PROVE  Spec => []TokensInjective
<1>1. IInv => TokensInjective  BY DEF IInv
<1>. QED  BY <1>1, IInvInvariant, PTL

=============================================================================
