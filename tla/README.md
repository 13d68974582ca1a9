# TLA+ verification of the local activity manager

This directory models the local activity manager (LAM) of
`src/core/src/worker/activities/local_activities.rs`. It model-checks the
models with TLC and proves their main safety invariants with TLAPS.

## The system

The LAM sits between a workflow (the *caller*) and *lang*, the language SDK
that runs activities. It has these parts:

| Part | Code | State |
|---|---|---|
| Admission | `enqueue` (New, Cancel) | `id_to_tt`, `next_tt_num`, `timeout_tasks`; sends on `act_req` / `cancels_req` |
| Multiplexer | `next_pending`, `RcvChans::next` | receives from both channels; acquires a semaphore permit before receiving new work |
| Completion | `complete` | `outstanding_activity_tasks`, `id_to_tt`, `backing_off_tasks`; spawns backoff tasks; `complete_notify` |
| Timers | `TimeoutBag::new`, `mark_started`, `Drop` | schedule-to-close and start-to-close tasks that send a `Timeout` on `cancels_req` |
| Backoff tasks | spawned in `complete` | send `Retry` on `act_req` after sleeping |
| Shutdown | `shutdown_and_wait_all_finished` | loops on `complete_notify` until nothing is outstanding, then cancels the token `RcvChans::next` watches |

These parts interact concurrently:
- The caller calls `enqueue`.
- The worker polls `next_pending`.
- Lang calls `complete`.
- Timer tasks and backoff tasks run on the runtime.
- A shutdown task waits.

All of them share `LAMData`, which sits behind one mutex. Each critical section is one atomic step of the model. Where the code releases the lock between two sections, the model splits the work into two steps.

## Modules

- `LocalActivityManager.tla` is the whole LAM together with its two environment actors. The map of variables to code is:

  | Variable | Code |
  |---|---|
  | `idToTT` | `id_to_tt` (0 means absent) |
  | `nextTT` | `next_tt_num`, counted without wrap (the call ordinal) |
  | `outstanding` | `outstanding_activity_tasks` |
  | `backoff` | `backing_off_tasks` |
  | `bags` | `timeout_tasks` |
  | `newQ`, `cancelQ` | the two channels |
  | `avail` | the free permits |
  | `langHas` | the tasks lang holds |
  | `npPc` / `npMsg` / `npTT` | `next_pending` between its token lookup (lines 283–291) and its `complete` (line 293) |
  | `sd` / `notifyPermit` | the shutdown loop and `Notify`'s stored permit |
  | `res` | ghost: for each admission, the number of resolutions delivered to the workflow |

  An admission is named by the ordinal of the `gen_next_token` call that minted it (`Minted`). The token stored in `id_to_tt` is `MintTT`, which is the counter after `+= 1` taken modulo `2^TokBits`. This is how a release build wraps the `u32`. The value 0 is written `2^TokBits`, so that 0 can keep meaning "absent". The runs use `TokBits = 2` (4 > `MaxMints`), so the counter does not wrap. The run `token_wrap` uses `TokBits = 1`.
- The actions, one per handler or branch:
  - `EnqueueNewTimedOut` and `EnqueueNewQueued`: New with the schedule-to-close time already elapsed, or with the request queued.
  - `EnqueueCancelBackoff` and `EnqueueCancelKnown`: the two branches of Cancel.
  - `NPTakeCancel`, `NPTakeTimeout`, `NPTimeoutComplete`, `NPTakeNew` and `NPNone`: the branches of the unbiased `select!` and what `next_pending` does with each.
  - `Complete`, which has the four outcomes of `complete`. It is called by `LangComplete` and by `NPTimeoutComplete`.
  - `BackoffFire`, `SchedToCloseFire` and `StartToCloseFire`: the spawned tasks.
  - `ShutdownBegin` and `ShutdownCheck`.
- Data is abstracted:
  - An id is a model value.
  - A timeout configuration is three Booleans: schedule-to-close set, start-to-close set, schedule-to-start set.
  - The retry policy's verdict (no retry, timer backoff, local backoff) is a nondeterministic input of `complete`. `should_retry` is outside this file.
  - Time is not modelled. An armed timer may fire at any moment, and "has the deadline already passed" may be answered either way.
- `MC_LAM.tla` instantiates the model for TLC:
  - two ids, with symmetry;
  - two configurations (all timeouts set, none set).
- `LAMAbstract.tla` is what the LAM promises, with channels, tokens and timers left out. Its state is a set of `admitted` ids and a set of `running` ids, and it has four actions:
  - `Admit`: an id not yet admitted.
  - `Start`: an admitted id that is not running, when fewer than `MaxConcurrent` ids run.
  - `Finish`: a terminal result, which releases the admission.
  - `Retry`: the attempt ends and the admission stays.
- `LAMRefinement.tla` maps the model onto it. The `admitted` set is the key set of `id_to_tt`. The `running` set is the ids of `outstanding_activity_tasks`. `Implements == LAM!Spec` is checked by `lam_refinement` as a `PROPERTY`.
- `LAMProofs.tla`, `LAMTokenProofs.tla`, `LAMRefinementProofs.tla` and `LAMAbstract.tla` (which proves its own limit) hold the TLAPS proofs.

## Runs

| Run | cfg | Expect | Shows |
|---|---|---|---|
| `lam_safety` | `MC_LAM_safety.cfg` | pass | `TypeOK`, `PermitAccounting`, `CurrentToken`, `BackoffExclusive`, `QueuedHasFreshToken` and `TokensInjective` hold, and every minted token is unused (`MintedTokenUnused`), over about 990K distinct views |
| `lam_refinement` | `MC_LAM_refinement.cfg` | pass | the model implements `LAMAbstract` (`Implements`), with two mints |
| `lam_liveness` | `MC_LAM_liveness.cfg` | pass | `RetryEventuallyTaken`: a backing-off retry is eventually dequeued or cancelled, unless `next_pending` has returned None |
| `at_most_one_resolution` | `MC_LAM_AtMostOneResolution.cfg` | violation | one admission is resolved twice |
| `admitted_iff_live` | `MC_LAM_AdmittedIffLive.cfg` | violation | `id_to_tt` keeps ids that are no longer live |
| `cancel_priority` | `MC_LAM_CancelPriority.cfg` | violation | new work is handed out while a cancel waits |
| `shutdown_completes` | `MC_LAM_ShutdownCompletes.cfg` | violation | shutdown can wait for ever |
| `shutdown_drains_queues` | `MC_LAM_ShutdownDrainsQueues.cfg` | violation | `next_pending` returns None with requests still queued |
| `dispatch_arms_start_to_close` | `MC_LAM_DispatchArmsStartToClose.cfg` | violation | a retried attempt is dispatched without a start-to-close timer |
| `token_wrap` | `MC_LAM_TokenWrap.cfg` | violation | a wrapped token collides with one an id still holds |

The bounds used for the runs are:
- one permit;
- three minted tokens, which allow one retry and a re-admission of an id;
- a cancel channel of length 1;
- explicit attempt 0.

The safety and refinement runs use a `VIEW` (`MC_View` in `MC_LAM.tla`). It leaves out `res`, a ghost variable that no guard reads. It also leaves out `npMsg` and `npTT` except while `npPc = "timeout"`: they are `next_pending`'s locals, which are dead outside that window. Two states that differ only there have the same successors up to those variables, and no property of these runs mentions them, so the view loses no violation. The properties that read `res` (`AtMostOneResolution` and the other violation runs) run without it.

The refinement run uses two mints: one admission and its retry, or two admissions. That is enough for every abstract action and for the `MaxConcurrent` guard to bind, and it keeps the run short. Its mutants are caught at this size.

The liveness run uses three mints, one permit and a channel bound of 1. An id can then fail and back off while the other id is admitted, dispatched and holding the only permit. The retry is taken only after lang completes that task and the permit comes back, while cancels of the other id and Timeouts, which hold `next_pending` between lookup and `complete`, compete for the consumer. Its requests set a schedule-to-close timeout or none (`MC_ConfigsS2C`). The other two timers play no part in the retry path, and with them the run takes more than fifteen minutes. They are covered by `lam_safety`. The run is without symmetry, because symmetry is unsound for liveness.

These are enough to reach every branch:
- a full semaphore;
- a retry with a fresh token;
- a cancel racing a backoff;
- a timeout racing a completion;
- re-admitting an id whose old bag is still alive.

The refinement is checked with one permit, where the `MaxConcurrent` guard of `Start` binds. Every action fires in `lam_safety`. Each property of the pass runs is broken by a mutant of the code, listed in `PROJECT.json`:
- a dropped permit guard;
- a permit kept after completion;
- a dropped duplicate check;
- a backoff entry not cleared;
- a retry without a new token;
- a retry whose counter bump is lost (`TokensInjective`);
- the permit guard dropped again (`Implements`: a second id starts with no free slot);
- a token taken modulo half the space (`MintedTokenUnused`: the third mint repeats the first token while it is still held);
- a completion that keeps its permit (`RetryEventuallyTaken`: the retry waits for ever for the permit the other id's task held).

## Findings

Each violation run reproduces a disagreement between the code and `spec.md`.

1. **Double resolution (`AtMostOneResolution`).**
   - A schedule-to-close `Timeout` for an activity that is still queued or backing off is reported to the workflow. Its `complete` is `Untracked`, and the request stays in `act_req`, so it is later dispatched and reported again.
   - `complete` never removes the `TimeoutBag`. A finished activity's timer, or the timer of an earlier admission of the same id, can therefore resolve it again.
   - Cancel during backoff can race a `Retry` that has already been sent.
2. **Leaked ids (`AdmittedIffLive`).** These three paths leave the id in `id_to_tt`:
   - the immediate schedule-to-close `Err` (line 231);
   - the schedule-to-start early return (line 343);
   - cancel during backoff (line 239).

   A later New for that id is then dropped as a duplicate.
3. **No cancel priority (`CancelPriority`).** The `select!` at line 533 is not `biased`.
4. **Shutdown hang (`ShutdownCompletes`).** `notify_one` is called only for the Completed, TimedOut and Cancelled results. If the last outstanding activity fails (reported, or handed to lang for a timer backoff), the waiter is never woken.

5. **Shutdown drops queued work (`ShutdownDrainsQueues`).** The select at line 545 is unbiased. Once the shutdown token is cancelled, it can return None while `act_req` or `cancels_req` still holds a message. The trace is: enqueue, shutdown begins, nothing is outstanding, the token is cancelled, and `next_pending` returns None with the request queued.
6. **Retries get no start-to-close timer (`DispatchArmsStartToClose`).** `mark_started` uses `take()` (line 612). Only the first dispatch of an admission arms start-to-close. In the trace, attempt 1's timer fires during the backoff (it is stale: its `complete` finds nothing, but `next_pending` still returns its Timeout to the workflow, lines 306-310, which is finding 1's double resolution), and the retry is then dispatched with no timer.
7. **Token wrap (`TokensInjective`).** `next_tt_num += 1` (line 137) wraps in a release build and panics in a debug build. With a 1-bit counter, the following happens:
   - `a1` leaks its token (finding 2).
   - `a2` is dispatched and retried.
   - The retry's token equals `a1`'s token.
   - A `Cancel(tt)` or `complete(tt)` then reaches the wrong activity.

   In the code this needs 2^32 mints while one id holds its token, for example a leaked id or a very long activity.

## Fairness

The liveness runs use the following fairness assumptions:
- Weak fairness on the consumer. The worker keeps polling `next_pending`.
- Weak fairness on the shutdown task.
- Weak fairness on each timer and backoff task. Spawned tokio tasks run.
- Weak fairness on lang completing each token. Lang answers every task it was given.
- Weak fairness on `NPTakeNew`. A `tokio::select!` without `biased` starts polling at a random branch, so a new/retry branch that stays ready is taken with probability 1, even against a steady stream of cancels. A waiting cancel does not make that branch unready. Only a missing permit or a Timeout held between lookup and `complete` does, and a fair step of lang or of `next_pending` ends each of those. Strong fairness is not needed for `RetryEventuallyTaken`, so the weaker assumption is the one made.

The caller is not assumed to do anything.

## Proofs (`LAMProofs.tla`, `LAMTokenProofs.tla`, `LAMAbstract.tla`, `LAMRefinementProofs.tla`)

The following hold for all constants satisfying `ConstAssumption` and `NoWrap` (`MaxMints <= 2^TokBits`: the counter does not wrap within the mints allowed, so a token is its call ordinal). `NoWrap` is a hypothesis of each theorem, and is carried as a constant conjunct of `IInv`. The lemma `MintNoWrap` turns it into `MintTT = Minted`, which is where it is used. `token_wrap` shows that the hypothesis is needed.
- `Spec => []TypeOK`
- `Spec => []PermitAccounting`
- `Spec => []CurrentToken`
- `Spec => []BackoffExclusive`
- `Spec => []QueuedHasFreshToken`
- `Spec => []TokensInjective` (`TokensDistinct`)
- `Spec => Implements` (`Refinement`): the LAM refines `LAMAbstract`
- `Spec => MintedTokenUnused` (`MintedFresh`): a minted token is held by nothing

They follow from the inductive invariant `IInv` (`IInvInvariant`). `IInv` is these properties together with the strengthening conjuncts below. The properties alone are not inductive, and each conjunct closes a specific gap:

- **`TokensMinted`**: every token in use is at most `next_tt_num`. `gen_next_token` therefore mints a token that collides with nothing, which is what `CurrentToken` and `QueuedHasFreshToken` need after a retry.
- **`TokensInjective`**: no two ids share a token. Without it, a completion of one id could remove the token another queued id relies on.
- **`QueueIdsUnique`**: at most one request per id is queued. Dispatching one request therefore leaves no second request that would find its token outstanding.
- **`BackoffState`**: a backing-off id keeps its token, and its `Retry` is not queued before the task fires.
- **`NpState`**: the message held between lookup and complete is a Timeout.

The proof of `NextIInv` has one lemma per action:
- `complete` has its own lemmas (`ReportInv`, `RetryInv`, `CompleteInv`), which are reused by `LangComplete` and `NPTimeoutComplete`.
- Each lemma has a step per conjunct the action can disturb.

`IInv` was also checked by TLC as an invariant of the safety run.

The refinement proof shows two things:
- `Init` maps to `LAM!Init`.
- Under `IInv`, each step maps to an abstract step or to a stutter:
  - Enqueue of a New is `Admit`.
  - Dispatch is `Start`. Its schedule-to-start branch is a stutter.
  - `complete` is `Finish` for Report and for LangDoesTimerBackoff, `Retry` for WillBeRetried, and a stutter for Untracked.
  - Every other action leaves `id_to_tt` and `outstanding` alone.

It rests on three lemmas:
- `OutstandingIdsDistinct`: two outstanding tasks have different ids. This follows from `CurrentToken`.
- `RunningBelowLimit`: with a free permit, fewer than `MaxConcurrent` ids run. The id map of `outstanding` is a surjection onto the running ids (`FS_Surjection`), so their count is at most `|outstanding| = MaxConcurrent - avail`.
- `QueuedHasFreshToken`: a dispatched id is not already running.

`MintedFresh` (in `LAMTokenProofs.tla`) needs more than `IInv`. `TokensMinted` bounds only the tokens in `id_to_tt` and in the queues. A token can also be held by a task in `outstanding`, by lang, by a queued cancel, or by `next_pending` between its lookup and its `complete`. `HeldMinted` says that every token held anywhere (`TokensHeld`) is at most `next_tt_num`, and `TInv == IInv /\ HeldMinted` is inductive (`TokenInvariant`). The core lemma is `TokenStep`:
- every step leaves `next_tt_num` alone or sets it to `Minted`;
- it sets an id's token to nothing, to the old token, or to `Minted`;
- a token held after the step was held before it, is outstanding after it, or is some id's old token.

Under `NoWrap`, a token that is minted is therefore `next_tt_num + 1`. That is above everything held and above every id's token. `TInv` was first checked by TLC on the full safety state space without a view.

`AbstractLimit` (in `LAMAbstract.tla`) proves `[]RunningLimit` of the abstract specification for every `MaxConcurrent \in Nat`: `Start` adds one id below the limit, and the other actions only remove ids. It uses the cardinality facts of `FiniteSetTheorems`.

Only TLC checks the following:
- the liveness properties `RetryEventuallyTaken` and `ShutdownCompletes`, and anything involving ENABLED or fairness, which TLAPS cannot prove;
- the violation runs.

## Not modelled

- `should_retry` and the backoff durations. The verdict is an input.
- Building the `Start` record, the resolution fields, and the byte encoding of the token.
- Metrics and logging.
- Wall-clock durations. Timers may fire at any moment, so the model shows which timers are armed (finding 6) but not how long they run.
- The width of the counter: TLC cannot hold `2^32`, so the runs use `TokBits` of 1 or 2. The proofs hold for every width under `NoWrap`.

## Plan

- Fixed variants of the findings (a biased select, a bag removed on completion, the id released on the early returns), showing that `AtMostOneResolution`, `AdmittedIffLive` and `ShutdownCompletes` then hold.
- Liveness of every admission being resolved, under a fixed variant.
