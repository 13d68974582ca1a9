------------------------ MODULE LocalActivityManager ------------------------
(***************************************************************************)
(* The local activity manager (LAM) of src/core/src/worker/activities/     *)
(* local_activities.rs: admission (enqueue), the multiplexer               *)
(* (next_pending / RcvChans::next), completion (complete), the per-        *)
(* activity timers (TimeoutBag), the local backoff tasks and shutdown      *)
(* (shutdown_and_wait_all_finished), together with the two actors the LAM  *)
(* talks to: the caller that submits requests and "lang", the executor     *)
(* that runs dispatched activities and reports their results.              *)
(*                                                                         *)
(* Wall-clock time is abstracted away: a timer that is armed may fire at   *)
(* any moment, and a comparison of elapsed time with a timeout (schedule-  *)
(* to-close at admission, schedule-to-start at dequeue) may go either way. *)
(* Task tokens are the values of the u32 counter next_tt_num.              *)
(*                                                                         *)
(* Ghost state: every admission is named by the token minted for it, and   *)
(* res counts the resolutions the workflow receives for each admission.    *)
(***************************************************************************)
EXTENDS Naturals, Sequences, FiniteSets

CONSTANTS
    Ids,            \* ExecutingLAId values (run_id, seq_num)
    MaxConcurrent,  \* size of the permit semaphore
    MaxMints,       \* bound on the tokens minted (gen_next_token calls)
    TokBits,        \* width of next_tt_num (u32 in the code, smaller for TLC)
    QueueBound,     \* bound on the length of the cancel/timeout channel
    Attempts,       \* explicit attempt numbers a New request may carry
    Configs         \* the timeout configurations requests may carry

ASSUME ConstAssumption ==
    /\ MaxConcurrent \in Nat \ {0}
    /\ MaxMints \in Nat \ {0}
    /\ TokBits \in Nat \ {0}
    /\ QueueBound \in Nat
    /\ Attempts \subseteq Nat
    /\ Configs \subseteq [s2c : BOOLEAN, stc : BOOLEAN, s2s : BOOLEAN]

VARIABLES
    idToTT,       \* LAMData.id_to_tt: Ids -> token, 0 when absent
    nextTT,       \* LAMData.next_tt_num
    outstanding,  \* LAMData.outstanding_activity_tasks: token -> Info
    backoff,      \* LAMData.backing_off_tasks: id -> the backoff task
    bags,         \* LAMData.timeout_tasks: id -> TimeoutBag
    newQ,         \* act_req channel (NewOrRetry)
    cancelQ,      \* cancels_req channel (CancelOrTimeout)
    avail,        \* free permits of the semaphore
    langHas,      \* tokens lang was given a Start for and has not completed
    npPc,         \* the consumer of next_pending: "idle", "timeout", "done"
    npMsg,        \* the Timeout message being handled by next_pending
    npTT,         \* the token next_pending looked up for that message
    sd,           \* shutdown_and_wait_all_finished: "running","check","wait","done"
    notifyPermit, \* the permit stored by complete_notify.notify_one
    res           \* ghost: admission token -> resolutions delivered for it

vars == <<idToTT, nextTT, outstanding, backoff, bags, newQ, cancelQ, avail,
          langHas, npPc, npMsg, npTT, sd, notifyPermit, res>>

Tok == 1 .. MaxMints
NoTT == 0

(* ValidScheduleLA: which of the three timeouts the request configures. *)
Config == [s2c : BOOLEAN, stc : BOOLEAN, s2s : BOOLEAN]

Info == [id : Ids, adm : Tok, cfg : Config, attempt : Nat]
NewOrRetry == [id : Ids, adm : Tok, cfg : Config, attempt : Nat, retry : BOOLEAN]
BackoffTask == [adm : Tok, cfg : Config, attempt : Nat, fired : BOOLEAN]
TimeoutBag == [adm : Tok, s2c : BOOLEAN, stc : {"dormant", "armed", "off"}]
CancelOrTimeout ==
    [kind : {"Cancel"}, tt : Tok] \cup
    [kind : {"Timeout"}, id : Ids, adm : Tok, to : {"S2C", "STC"}]

(* Partial-function (HashMap) insert and remove. *)
Put(f, k, v) == [x \in DOMAIN f \cup {k} |-> IF x = k THEN v ELSE f[x]]
Del(f, k) == [x \in DOMAIN f \ {k} |-> f[x]]
IsPartialFn(f, D, R) == DOMAIN f \subseteq D /\ \A x \in DOMAIN f : f[x] \in R

Inc(r, a) == [r EXCEPT ![a] = @ + 1]

-----------------------------------------------------------------------------
(* LocalActivityManager::new *)
Init ==
    /\ idToTT = [i \in Ids |-> NoTT]
    /\ nextTT = 0
    /\ outstanding = <<>>
    /\ backoff = <<>>
    /\ bags = <<>>
    /\ newQ = <<>>
    /\ cancelQ = <<>>
    /\ avail = MaxConcurrent
    /\ langHas = {}
    /\ npPc = "idle"
    /\ npMsg = [kind |-> "Cancel", tt |-> 1]
    /\ npTT = NoTT
    /\ sd = "running"
    /\ notifyPermit = FALSE
    /\ res = [a \in Tok |-> 0]

(***************************************************************************)
(* LAMData::gen_next_token: the counter is incremented, then used.  nextTT *)
(* counts the calls; Minted, the call's ordinal, names the admission in    *)
(* the ghost state.  The token is the u32 counter after `+= 1`, which a    *)
(* release build wraps modulo 2^TokBits; the value 0 is written TokSpace   *)
(* so that NoTT stays free.                                                *)
(***************************************************************************)
TokSpace == 2 ^ TokBits
MintOK == nextTT < MaxMints
Minted == nextTT + 1
(* Mutant of MintTT: the counter is one bit narrower than declared. *)
MintTTNarrow == (nextTT % (TokSpace \div 2)) + 1
MintTT == (nextTT % TokSpace) + 1

(***************************************************************************)
(* enqueue, LocalActRequest::New.  An id already in id_to_tt is dropped:   *)
(* that case changes nothing and is a stutter step.  The token is minted   *)
(* and inserted before TimeoutBag::new, whose Err (schedule-to-close       *)
(* already elapsed) is returned as an immediate resolution.                *)
(***************************************************************************)
EnqueueNewTimedOut(id, cfg) ==
    /\ idToTT[id] = NoTT /\ MintOK
    /\ cfg.s2c
    /\ idToTT' = [idToTT EXCEPT ![id] = MintTT]
    /\ nextTT' = Minted
    /\ res' = Inc(res, Minted)
    /\ UNCHANGED <<outstanding, backoff, bags, newQ, cancelQ, avail, langHas,
                   npPc, npMsg, npTT, sd, notifyPermit>>

(* Mutant of EnqueueNewQueued: the id_to_tt.contains_key check is dropped. *)
EnqueueNewQueuedNoDedup(id, cfg, att) ==
    /\ MintOK
    /\ idToTT' = [idToTT EXCEPT ![id] = MintTT]
    /\ nextTT' = Minted
    /\ bags' = Put(bags, id, [adm |-> Minted, s2c |-> cfg.s2c,
                              stc |-> IF cfg.stc THEN "dormant" ELSE "off"])
    /\ newQ' = Append(newQ, [id |-> id, adm |-> Minted, cfg |-> cfg,
                             attempt |-> att, retry |-> FALSE])
    /\ UNCHANGED <<outstanding, backoff, cancelQ, avail, langHas,
                   npPc, npMsg, npTT, sd, notifyPermit, res>>

EnqueueNewQueued(id, cfg, att) ==
    /\ idToTT[id] = NoTT /\ MintOK
    /\ idToTT' = [idToTT EXCEPT ![id] = MintTT]
    /\ nextTT' = Minted
    /\ bags' = Put(bags, id, [adm |-> Minted, s2c |-> cfg.s2c,
                              stc |-> IF cfg.stc THEN "dormant" ELSE "off"])
    /\ newQ' = Append(newQ, [id |-> id, adm |-> Minted, cfg |-> cfg,
                             attempt |-> att, retry |-> FALSE])
    /\ UNCHANGED <<outstanding, backoff, cancelQ, avail, langHas,
                   npPc, npMsg, npTT, sd, notifyPermit, res>>

(***************************************************************************)
(* enqueue, LocalActRequest::Cancel.  A backing-off id has its task        *)
(* aborted and gets an immediate Cancelled resolution; otherwise a known   *)
(* id gets a Cancel pushed on the cancel channel with its current token.   *)
(* An unknown id is a no-op (a stutter step).                              *)
(***************************************************************************)
EnqueueCancelBackoff(id) ==
    /\ id \in DOMAIN backoff
    /\ backoff' = Del(backoff, id)
    /\ res' = Inc(res, backoff[id].adm)
    /\ UNCHANGED <<idToTT, nextTT, outstanding, bags, newQ, cancelQ, avail,
                   langHas, npPc, npMsg, npTT, sd, notifyPermit>>

EnqueueCancelKnown(id) ==
    /\ id \notin DOMAIN backoff
    /\ idToTT[id] # NoTT
    /\ Len(cancelQ) < QueueBound
    /\ cancelQ' = Append(cancelQ, [kind |-> "Cancel", tt |-> idToTT[id]])
    /\ UNCHANGED <<idToTT, nextTT, outstanding, backoff, bags, newQ, avail,
                   langHas, npPc, npMsg, npTT, sd, notifyPermit, res>>

-----------------------------------------------------------------------------
(***************************************************************************)
(* complete(task_token, status).  The caller of complete picks the retry   *)
(* policy's verdict pol: "None" (should_retry gives no backoff), "Timer"   *)
(* (backoff above local_retry_threshold) or "Local".  The permit lives in  *)
(* the removed LocalInFlightActInfo and is released with it.               *)
(* complete_notify.notify_one is called only for Completed, TimedOut and   *)
(* Cancelled.                                                              *)
(***************************************************************************)
Outcome(t, r, pol) ==
    IF t \notin DOMAIN outstanding THEN "Untracked"
    ELSE IF r # "Failed" THEN "Report"
    ELSE IF pol = "None" THEN "Report"
    ELSE IF pol = "Timer" THEN "LangDoesTimerBackoff"
    ELSE "WillBeRetried"

(* Notify::notify_one: wake the registered waiter, else store a permit. *)
NotifyOne ==
    IF sd = "wait"
    THEN /\ sd' = "check" /\ notifyPermit' = notifyPermit
    ELSE /\ notifyPermit' = TRUE /\ sd' = sd

(* Mutant of CompleteReport: the info's permit is not released. *)
CompleteReportKeepPermit(t, r) ==
    LET id == outstanding[t].id IN
    /\ outstanding' = Del(outstanding, t)
    /\ avail' = avail
    /\ idToTT' = [idToTT EXCEPT ![id] = NoTT]
    /\ IF r = "Failed" THEN UNCHANGED <<sd, notifyPermit>> ELSE NotifyOne
    /\ UNCHANGED <<nextTT, backoff>>

CompleteReport(t, r) ==
    LET id == outstanding[t].id IN
    /\ outstanding' = Del(outstanding, t)
    /\ avail' = avail + 1
    /\ idToTT' = [idToTT EXCEPT ![id] = NoTT]
    /\ IF r = "Failed" THEN UNCHANGED <<sd, notifyPermit>> ELSE NotifyOne
    /\ UNCHANGED <<nextTT, backoff>>

(* Mutant of CompleteRetry: no new token is inserted for the retry. *)
CompleteRetryNoToken(t) ==
    LET info == outstanding[t] IN
    /\ MintOK
    /\ outstanding' = Del(outstanding, t)
    /\ avail' = avail + 1
    /\ idToTT' = [idToTT EXCEPT ![info.id] = NoTT]
    /\ nextTT' = Minted
    /\ backoff' = Put(backoff, info.id, [adm |-> info.adm, cfg |-> info.cfg,
                                         attempt |-> info.attempt + 1,
                                         fired |-> FALSE])
    /\ UNCHANGED <<sd, notifyPermit>>

(* Mutant of CompleteRetry: the counter is bumped on a copy, so the next  *)
(* gen_next_token hands out the retry's token again.                       *)
CompleteRetryNoBump(t) ==
    LET info == outstanding[t] IN
    /\ MintOK
    /\ outstanding' = Del(outstanding, t)
    /\ avail' = avail + 1
    /\ idToTT' = [idToTT EXCEPT ![info.id] = MintTT]
    /\ nextTT' = nextTT
    /\ backoff' = Put(backoff, info.id, [adm |-> info.adm, cfg |-> info.cfg,
                                         attempt |-> info.attempt + 1,
                                         fired |-> FALSE])
    /\ UNCHANGED <<sd, notifyPermit>>

CompleteRetry(t) ==
    LET info == outstanding[t] IN
    /\ MintOK
    /\ outstanding' = Del(outstanding, t)
    /\ avail' = avail + 1
    /\ idToTT' = [idToTT EXCEPT ![info.id] = MintTT]
    /\ nextTT' = Minted
    /\ backoff' = Put(backoff, info.id, [adm |-> info.adm, cfg |-> info.cfg,
                                         attempt |-> info.attempt + 1,
                                         fired |-> FALSE])
    /\ UNCHANGED <<sd, notifyPermit>>

Complete(t, r, pol) ==
    CASE Outcome(t, r, pol) = "Untracked" ->
            UNCHANGED <<outstanding, avail, idToTT, nextTT, backoff, sd, notifyPermit>>
      [] Outcome(t, r, pol) = "WillBeRetried" -> CompleteRetry(t)
      [] OTHER -> CompleteReport(t, r)

(* Lang reports the result of a task it was given; Report and               *)
(* LangDoesTimerBackoff are delivered to the workflow as a resolution.     *)
LangComplete(t, r, pol) ==
    /\ t \in langHas
    /\ langHas' = langHas \ {t}
    /\ Complete(t, r, pol)
    /\ res' = IF Outcome(t, r, pol) \in {"Report", "LangDoesTimerBackoff"}
              THEN Inc(res, outstanding[t].adm) ELSE res
    /\ UNCHANGED <<bags, newQ, cancelQ, npPc, npMsg, npTT>>

-----------------------------------------------------------------------------
(* The spawned backoff task wakes and sends the Retry (attempt + 1). *)
BackoffFire(id) ==
    /\ id \in DOMAIN backoff
    /\ ~backoff[id].fired
    /\ backoff' = [backoff EXCEPT ![id].fired = TRUE]
    /\ newQ' = Append(newQ, [id |-> id, adm |-> backoff[id].adm,
                             cfg |-> backoff[id].cfg,
                             attempt |-> backoff[id].attempt, retry |-> TRUE])
    /\ UNCHANGED <<idToTT, nextTT, outstanding, bags, cancelQ, avail, langHas,
                   npPc, npMsg, npTT, sd, notifyPermit, res>>

(* The schedule-to-close task of a TimeoutBag wakes and sends its Timeout. *)
SchedToCloseFire(id) ==
    /\ id \in DOMAIN bags
    /\ bags[id].s2c
    /\ bags' = [bags EXCEPT ![id].s2c = FALSE]
    /\ cancelQ' = Append(cancelQ, [kind |-> "Timeout", id |-> id,
                                   adm |-> bags[id].adm, to |-> "S2C"])
    /\ UNCHANGED <<idToTT, nextTT, outstanding, backoff, newQ, avail, langHas,
                   npPc, npMsg, npTT, sd, notifyPermit, res>>

(* The start-to-close task spawned by mark_started wakes and sends. *)
StartToCloseFire(id) ==
    /\ id \in DOMAIN bags
    /\ bags[id].stc = "armed"
    /\ bags' = [bags EXCEPT ![id].stc = "off"]
    /\ cancelQ' = Append(cancelQ, [kind |-> "Timeout", id |-> id,
                                   adm |-> bags[id].adm, to |-> "STC"])
    /\ UNCHANGED <<idToTT, nextTT, outstanding, backoff, newQ, avail, langHas,
                   npPc, npMsg, npTT, sd, notifyPermit, res>>

-----------------------------------------------------------------------------
(***************************************************************************)
(* next_pending.  RcvChans::next is a tokio::select! without `biased`: of  *)
(* the branches that are ready (a cancel/timeout message; a permit and a   *)
(* new/retry request; the shutdown token) one is taken at random.  The     *)
(* permit is acquired before the receive, so the new/retry branch is ready *)
(* only with a free permit.  After the receive there is no await, so what  *)
(* follows the dequeue of a new/retry request is one step.                 *)
(***************************************************************************)
NPTakeCancel ==
    /\ npPc = "idle"
    /\ cancelQ # <<>> /\ Head(cancelQ).kind = "Cancel"
    /\ cancelQ' = Tail(cancelQ)
    /\ UNCHANGED <<idToTT, nextTT, outstanding, backoff, bags, newQ, avail,
                   langHas, npPc, npMsg, npTT, sd, notifyPermit, res>>

(* A Timeout: the current token of the id is read under the lock, which is *)
(* released again before complete is called.                               *)
NPTakeTimeout ==
    LET msg == Head(cancelQ) IN
    /\ npPc = "idle"
    /\ cancelQ # <<>> /\ msg.kind = "Timeout"
    /\ cancelQ' = Tail(cancelQ)
    /\ IF idToTT[msg.id] = NoTT
       THEN /\ res' = Inc(res, msg.adm)
            /\ UNCHANGED <<npPc, npMsg, npTT>>
       ELSE /\ npPc' = "timeout" /\ npMsg' = msg /\ npTT' = idToTT[msg.id]
            /\ UNCHANGED res
    /\ UNCHANGED <<idToTT, nextTT, outstanding, backoff, bags, newQ, avail,
                   langHas, sd, notifyPermit>>

(* complete(tt, TimedOut), whose Report is dropped, then the Timeout with *)
(* a synthetic Cancel(TimedOut) for lang is returned.                      *)
NPTimeoutComplete ==
    /\ npPc = "timeout"
    /\ Complete(npTT, "TimedOut", "None")
    /\ res' = Inc(res, npMsg.adm)
    /\ npPc' = "idle"
    /\ UNCHANGED <<bags, newQ, cancelQ, langHas, npMsg, npTT>>

(* A new/retry request with a permit.  Its backoff entry is removed; the   *)
(* schedule-to-start check may time it out (the permit is dropped);        *)
(* otherwise it becomes outstanding under the id's current token, the      *)
(* start-to-close timer is armed and the Start goes to lang.               *)
(* Mutant of NewBranchReady: the request is received without a permit. *)
NewBranchReadyNoPermit == newQ # <<>>

(* The permit-then-receive branch of RcvChans::next is ready. *)
NewBranchReady == avail > 0 /\ newQ # <<>>

(* Mutant of NPTakeNew: the backing_off_tasks entry is left in place. *)
NPTakeNewKeepBackoff ==
    LET item == Head(newQ)
        attempt == IF item.retry THEN item.attempt
                   ELSE IF item.attempt >= 1 THEN item.attempt ELSE 1
        tt == idToTT[item.id]
    IN
    /\ npPc = "idle"
    /\ NewBranchReady
    /\ newQ' = Tail(newQ)
    /\ \/ /\ item.cfg.s2s
          /\ res' = Inc(res, item.adm)
          /\ UNCHANGED <<idToTT, outstanding, avail, bags, langHas>>
       \/ /\ tt # NoTT
          /\ outstanding' = Put(outstanding, tt, [id |-> item.id, adm |-> item.adm,
                                                  cfg |-> item.cfg, attempt |-> attempt])
          /\ avail' = avail - 1
          /\ bags' = IF item.id \in DOMAIN bags /\ bags[item.id].stc = "dormant"
                     THEN [bags EXCEPT ![item.id].stc = "armed"] ELSE bags
          /\ langHas' = langHas \cup {tt}
          /\ UNCHANGED <<idToTT, res>>
    /\ UNCHANGED <<backoff, nextTT, cancelQ, npPc, npMsg, npTT, sd, notifyPermit>>

NPTakeNew ==
    LET item == Head(newQ)
        attempt == IF item.retry THEN item.attempt
                   ELSE IF item.attempt >= 1 THEN item.attempt ELSE 1
        tt == idToTT[item.id]
    IN
    /\ npPc = "idle"
    /\ NewBranchReady
    /\ newQ' = Tail(newQ)
    /\ backoff' = Del(backoff, item.id)
    /\ \/ /\ item.cfg.s2s
          /\ res' = Inc(res, item.adm)
          /\ UNCHANGED <<idToTT, outstanding, avail, bags, langHas>>
       \/ /\ tt # NoTT
          /\ outstanding' = Put(outstanding, tt, [id |-> item.id, adm |-> item.adm,
                                                  cfg |-> item.cfg, attempt |-> attempt])
          /\ avail' = avail - 1
          /\ bags' = IF item.id \in DOMAIN bags /\ bags[item.id].stc = "dormant"
                     THEN [bags EXCEPT ![item.id].stc = "armed"] ELSE bags
          /\ langHas' = langHas \cup {tt}
          /\ UNCHANGED <<idToTT, res>>
    /\ UNCHANGED <<nextTT, cancelQ, npPc, npMsg, npTT, sd, notifyPermit>>

(* The shutdown branch: next_pending returns None and its consumer stops. *)
NPNone ==
    /\ npPc = "idle" /\ sd = "done"
    /\ npPc' = "done"
    /\ UNCHANGED <<idToTT, nextTT, outstanding, backoff, bags, newQ, cancelQ,
                   avail, langHas, npMsg, npTT, sd, notifyPermit, res>>

-----------------------------------------------------------------------------
(***************************************************************************)
(* shutdown_and_wait_all_finished: while outstanding is not empty, await   *)
(* complete_notify.notified() (which returns at once on a stored permit);  *)
(* then cancel the shutdown token.                                         *)
(***************************************************************************)
ShutdownBegin ==
    /\ sd = "running"
    /\ sd' = "check"
    /\ UNCHANGED <<idToTT, nextTT, outstanding, backoff, bags, newQ, cancelQ,
                   avail, langHas, npPc, npMsg, npTT, notifyPermit, res>>

ShutdownCheck ==
    /\ sd = "check"
    /\ \/ /\ DOMAIN outstanding = {}
          /\ sd' = "done" /\ UNCHANGED notifyPermit
       \/ /\ DOMAIN outstanding # {} /\ notifyPermit
          /\ notifyPermit' = FALSE /\ UNCHANGED sd
       \/ /\ DOMAIN outstanding # {} /\ ~notifyPermit
          /\ sd' = "wait" /\ UNCHANGED notifyPermit
    /\ UNCHANGED <<idToTT, nextTT, outstanding, backoff, bags, newQ, cancelQ,
                   avail, langHas, npPc, npMsg, npTT, res>>

-----------------------------------------------------------------------------
Results == {"Completed", "Failed", "Cancelled"}
Policies == {"None", "Timer", "Local"}

Caller ==
    \/ \E id \in Ids, cfg \in Configs :
          \/ EnqueueNewTimedOut(id, cfg)
          \/ \E att \in Attempts : EnqueueNewQueued(id, cfg, att)
    \/ \E id \in Ids : EnqueueCancelBackoff(id) \/ EnqueueCancelKnown(id)
    \/ ShutdownBegin

Lang == \E t \in Tok, r \in Results, pol \in Policies : LangComplete(t, r, pol)

Timers ==
    \E id \in Ids : BackoffFire(id) \/ SchedToCloseFire(id) \/ StartToCloseFire(id)

Consumer ==
    NPTakeCancel \/ NPTakeTimeout \/ NPTimeoutComplete \/ NPTakeNew \/ NPNone

Next == Caller \/ Lang \/ Timers \/ Consumer \/ ShutdownCheck

Spec == Init /\ [][Next]_vars

-----------------------------------------------------------------------------
(* Every variable has the shape the code's types give it. *)
TypeOK ==
    /\ idToTT \in [Ids -> 0 .. MaxMints]
    /\ nextTT \in 0 .. MaxMints
    /\ IsPartialFn(outstanding, Tok, Info)
    /\ IsPartialFn(backoff, Ids, BackoffTask)
    /\ IsPartialFn(bags, Ids, TimeoutBag)
    /\ newQ \in Seq(NewOrRetry)
    /\ cancelQ \in Seq(CancelOrTimeout)
    /\ avail \in 0 .. MaxConcurrent
    /\ langHas \subseteq Tok
    /\ npPc \in {"idle", "timeout", "done"}
    /\ npMsg \in CancelOrTimeout
    /\ npTT \in 0 .. MaxMints
    /\ sd \in {"running", "check", "wait", "done"}
    /\ notifyPermit \in BOOLEAN
    /\ res \in [Tok -> Nat]

(* The permits in use are exactly those owned by outstanding activities:   *)
(* a permit acquired in RcvChans::next is held by the LocalInFlightActInfo *)
(* inserted by next_pending and released when complete removes it, so at  *)
(* most MaxConcurrent activities are ever outstanding.                     *)
PermitAccounting == avail + Cardinality(DOMAIN outstanding) = MaxConcurrent

(* An outstanding task is always under its id's current token in          *)
(* id_to_tt: neither enqueue nor a retry re-keys an id while it is         *)
(* dispatched.                                                             *)
CurrentToken == \A t \in DOMAIN outstanding : idToTT[outstanding[t].id] = t

(* An id is never both backing off and outstanding (backing_off_tasks is  *)
(* cleared when the retry is dequeued).                                    *)
BackoffExclusive == \A t \in DOMAIN outstanding : outstanding[t].id \notin DOMAIN backoff

(* Every request waiting in the new/retry channel has a token in id_to_tt *)
(* (next_pending's expect("Task token must exist") never panics) and that *)
(* token is not outstanding (the HashMap insert never overwrites, and so  *)
(* never drops, another activity's permit).                                *)
QueuedHasFreshToken ==
    \A i \in 1 .. Len(newQ) :
        /\ idToTT[newQ[i].id] # NoTT
        /\ idToTT[newQ[i].id] \notin DOMAIN outstanding


(* Glossary, "task token": a token identifies one dispatched attempt, so   *)
(* no two ids share a token in id_to_tt.  Cancel(tt) and complete(tt) act  *)
(* on whichever activity the token names; gen_next_token must never hand   *)
(* out a token another admitted id still holds.                            *)
TokensInjective ==
    \A i, j \in Ids : i # j /\ idToTT[i] = idToTT[j] => idToTT[i] = NoTT

(* The tokens named by the Cancel messages of a cancels_req queue. *)
CancelTokens(q) == {q[i].tt : i \in {k \in 1 .. Len(q) : q[k].kind = "Cancel"}}

(* The tokens held outside id_to_tt: by outstanding tasks, by lang (which  *)
(* may still complete an attempt the LAM has timed out), by Cancel         *)
(* messages waiting on cancels_req, and by next_pending between its token  *)
(* lookup and its complete.                                                *)
TokensHeld ==
    DOMAIN outstanding \cup langHas \cup CancelTokens(cancelQ)
    \cup (IF npPc = "timeout" THEN {npTT} ELSE {})

(* A step that writes a new token into id_to_tt writes one nobody holds. *)
MintIsFresh ==
    \A id \in Ids :
        idToTT'[id] \notin {NoTT, idToTT[id]} =>
            /\ idToTT'[id] \notin TokensHeld
            /\ \A j \in Ids : idToTT[j] # idToTT'[id]

(* Spec section 9 ("tokens guarantee that stale completions for an        *)
(* aborted retry attempt are correctly classified as Untracked"): the      *)
(* token gen_next_token hands to an admission or a retry is held by        *)
(* nobody: no other id, no outstanding task, no stale attempt of lang, no  *)
(* queued Cancel and no timeout being handled by next_pending.             *)
MintedTokenUnused == [][MintIsFresh]_vars

(* Spec section 8: each admission of an id gets exactly one terminal      *)
(* resolution: enqueue's immediate results, next_pending's Timeouts and    *)
(* complete's Report / LangDoesTimerBackoff together never resolve one     *)
(* admission twice.                                                        *)
AtMostOneResolution == \A a \in Tok : res[a] <= 1

(* Spec section 3, invariant 1: an id is in id_to_tt only while it is      *)
(* queued, dispatched or backing off (else a later New for it is dropped   *)
(* as a duplicate for ever).                                               *)
AdmittedIffLive ==
    \A id \in Ids :
        idToTT[id] # NoTT =>
            \/ \E i \in 1 .. Len(newQ) : newQ[i].id = id
            \/ \E t \in DOMAIN outstanding : outstanding[t].id = id
            \/ id \in DOMAIN backoff
            \/ npPc = "timeout" /\ npMsg.id = id

(* Spec section 4.4 and the "cancel-priority" law: when a cancel or       *)
(* timeout is waiting, next_pending never hands out a new/retry request.   *)
CancelPriority == [][NPTakeNew => cancelQ = <<>>]_vars

(* A retry that is backing off is eventually taken off the new/retry       *)
(* channel by next_pending (which clears its backing_off_tasks entry), or   *)
(* cancelled, unless next_pending has returned None: the backoff task      *)
(* sends the Retry, the permit another admission holds comes back when    *)
(* lang completes it (complete, line 419), and the select reaches the      *)
(* queued request even while Timeouts hold next_pending.                   *)
RetryEventuallyTaken ==
    \A id \in Ids : id \in DOMAIN backoff ~> (id \notin DOMAIN backoff \/ npPc = "done")

(* Spec sections 4.4, 4.7 and 9: next_pending returns None on shutdown    *)
(* with empty queues, and shutdown only stops the waiting for new work:    *)
(* it never returns None while a request or a cancel/timeout is waiting.  *)
ShutdownDrainsQueues == [][NPNone => newQ = <<>> /\ cancelQ = <<>>]_vars

(* Spec section 4.3: the start-to-close timer is armed by mark_started    *)
(* whenever an activity is dispatched, and runs from that dispatch: every  *)
(* dispatch of an activity configured with start-to-close leaves its       *)
(* timer armed.                                                            *)
DispatchArmsStartToClose ==
    [][\A t \in DOMAIN outstanding' \ DOMAIN outstanding :
          outstanding'[t].cfg.stc =>
              /\ outstanding'[t].id \in DOMAIN bags'
              /\ bags'[outstanding'[t].id].stc = "armed"]_vars

(* shutdown_and_wait_all_finished returns (cancels the shutdown token)    *)
(* once it has been called.                                                *)
ShutdownCompletes == sd = "check" ~> sd = "done"

(* Fairness: next_pending is polled by the worker, the timer and backoff   *)
(* tasks are spawned on the runtime, the shutdown waiter is a task, and    *)
(* lang eventually completes every task it was given.  The caller is not   *)
(* assumed to enqueue anything.  tokio::select! without `biased` starts    *)
(* polling at a random branch, so a branch that stays ready is taken with  *)
(* probability 1: weak fairness for the new/retry branch.  A waiting cancel *)
(* does not make that branch unready; only a missing permit or a Timeout   *)
(* between lookup and complete does.                                       *)
Fairness ==
    /\ WF_vars(Consumer)
    /\ WF_vars(NPTakeNew)
    /\ WF_vars(ShutdownCheck)
    /\ \A id \in Ids : WF_vars(BackoffFire(id)) /\ WF_vars(SchedToCloseFire(id))
                       /\ WF_vars(StartToCloseFire(id))
    /\ \A t \in Tok : WF_vars(\E r \in Results, pol \in Policies : LangComplete(t, r, pol))

FairSpec == Spec /\ Fairness

=============================================================================
