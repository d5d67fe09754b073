# A TLA+ model of ekyc

ekyc is a multi-tenant identity-verification service: a tenant creates a KYC
session, an end user consents, uploads a document and a selfie and confirms an
OTP; Celery workers run the vision models; a decision engine turns the checks
into a verdict; the tenant is told by webhook and can have documents sealed.
This directory holds TLA+ modules of the service, the TLC configurations that
check them, and proofs checked by TLAPS.

    tlc -config KycCitizen.cfg MCKycSession      # one run
    tlapm KycSessionProofs.tla                   # the proofs of one module

`PROJECT.json` lists the runs, the mutants that show each property can fail, the
source lines each definition stands for, the hazards, and the theorems.

## Inventory of the system

| Component | State | Operations | Talks to |
|---|---|---|---|
| Session lifecycle (`services/kyc.py`) | one `kyc_sessions` row: status, checks, internal scores, reasons, consent, completed_at, updated_at, expires_at | create, grant/decline consent, `set_check`, `evaluate`, `override_decision`, `expire`, all behind `lock_session` | decision engine, audit chain, webhook queue |
| Decision engine, policies (`engines/decision.py`, `policy.py`) | none | `decide` | called by `evaluate` |
| Verification API (`api/v1/verification.py`) | none of its own; a request is several steps around its commit | consent, document, selfie, OTP send and verify | lifecycle, archive, OTP engine, broker |
| Document and selfie tasks (`workers/tasks.py`, `engines/identity.py`, `biometrics.py`) | the run itself; documents, biometric checks | run, retry, failure hook | providers, lifecycle, audit |
| Reconciliation sweep (`workers/tasks.py`) | `internal.reconciled_at` | expire overdue sessions, requeue lost tasks | lifecycle, broker |
| OTP engine (`engines/otp.py`) | challenges: attempts, expires_at, verified_at | send, verify | rate limiter, sender, lifecycle |
| Webhooks (`services/webhooks.py`, `deliver_webhook`) | deliveries: event, status, attempts | queue once per event, dispatch after commit, deliver, retry | tenant's endpoint, audit |
| Audit chain (`engines/audit.py`) | hash-chained events per session, unique (session, sequence) | append, verify | everything |
| Evidence, archive, vault (`services/evidence.py`, `archive.py`, `storage.py`, `vault.py`) | artifact rows, blobs, signed documents | seal, store, read | signer, TSA, storage backends |
| Retention (`services/retention.py`) | `purged_at` of sessions and artifacts | nightly or manual purge | storage, audit |
| Orchestrator, TSA, signer levels | settings | resolve a profile, choose a provider, fall back | — |
| Rate limiter (`engines/ratelimit.py`) | Redis counters, per-process fallback | hit, acquire_once | Redis |
| MRZ and model providers | none | parse, score | — |
| Tenant API, client SDK, scripts | none of interest | HTTP, signature check, tools | — |

What makes it hard:

- **Reads before the lock.** Tasks, hooks, the sweep and the request handlers
  read the row, do something slow, and only then lock it and write.
- **Two stores at a time.** Database commit and broker dispatch, database commit
  and blob, POST to the tenant and commit: each pair can fail in the middle.
- **At-least-once tasks.** Late acknowledgement, bounded retries, and a sweep that
  queues again what it believes lost.
- **Several closers.** The engine (from any of four callers), the sweep and the
  operator can all close the session.

What would make each component correct: the session closes once, for a reason
that is in its audit chain, and stays closed; the tenant is told of it; consent
precedes capture; technical trouble is never a rejection; every session closes
in the end; the decision is monotone in the results; the chain has no gap and no
fork; a delivery is neither lost nor forgotten; a sealed document's artifacts
match its hashes; a purge leaves nothing personal behind.

## Modules

| Module | Models |
|---|---|
| `Decision` | `engines/decision.py`, `engines/policy.py`, `models/enums.py`: operators only |
| `KycSession` | one session and all that writes to it; EXTENDS `Decision` |
| `KycVerdict` | the abstract promise to a tenant: status, verdict trail, notifications |
| `AuditChain` | `engines/audit.py` under concurrent transactions, statement by statement |
| `AppendOnlyLog` | the abstract promise of the chain: whole transactions are appended, nothing changes |
| `Webhooks` | `services/webhooks.py`, the task `deliver_webhook`, the broker and the tenant's endpoint |
| `TenantNotices` | the abstract promise of the webhooks: no new status without its notice, heard before it is ticked off |
| `OtpChallenge` | `engines/otp.py`, `engines/ratelimit.py`, the senders, several API processes |
| `TrustServices` | `engines/orchestrator.py`, `engines/tsa.py`: operators of the settings |
| `Custody` | `services/evidence.py`, `archive.py`, `retention.py` and their routes; EXTENDS `TrustServices` |
| `Providers` | `engines/providers/mrz.py`, `inhouse.py`, `stub.py` and the statuses of `identity.py`, `biometrics.py`: operators only |
| `MCDecision`, `MCKycSession`, `MCOtpChallenge`, `MCCustody` | model-checking instances |
| `...Proofs` | the theorems of a module, EXTENDS that module and `TLAPS`; `DecisionProofs` EXTENDS `MCDecision` |
| `ProvidersProofs` | what check digits see of any line; `DecisionProofs` EXTENDS it too |
| `OtpCapsProofs` | the caps on sends, apart from the other theorems on codes, EXTENDS `OtpChallengeProofs` |

`KycSession` is the frame. It takes one locked transaction as one step, and the other
modules open up what it closes: `AuditChain` the statements inside transactions,
`Webhooks` what follows the queueing of an event, `OtpChallenge` the sending and
verifying of codes, `Custody` the files. What each assumes of the others is named
below. They are separate modules because their product is far beyond model checking
and because they meet in few places: a closing status, a check, a collision.

The operators marked `Slip` next to a definition are that definition with a
plausible bug. No action uses them; `PROJECT.json` names the property each breaks.

### Decision

Scores and thresholds are percentages; the weighted sum is compared as
`earned < threshold * total`, so no division is needed. The code rounds the score
to two decimals first; with whole-percent confidences and whole-percent
thresholds that rounding never crosses a threshold, as weights sum to at most 95.
Steps that the code hides (`DOCUMENT`, `OCR`, `SELFIE`) and the step no policy has
(`SIGNATURE`) do not appear.

### KycSession

`session` is the row, `trail` the audit events that carry a verdict, `blocked` the
number of `DECISION_BLOCKED` events, `outbox` the statuses queued as webhooks.
`requests` holds what each in-flight HTTP request still has to do, `runs` what each
worker is doing, `queue` the broker, `sweep` the beat task between its steps.

| Code | Actions |
|---|---|
| route guards, then commit, then `.delay` | `Admit`; `GrantConsent`, `Upload`, `SendOtp`, `Verify...`; `Dispatch`; `RequestEnds` at any point between them |
| `process_document`, `process_selfie` | `StartRun` (the unlocked pending test) or `AlreadyApplied`, then `ApplyDocument` / `ApplySelfie`, `RetryRun` or `FailRun` |
| `_processing_failed` | `HookReads` (unlocked), then `HookApplies` |
| `reconcile_stuck_sessions` | `SweepScan`, then `SweepExpires`, or `SweepMarks` and `SweepDispatches`; `SweepFails` |
| `override_decision` | `Override` |
| worker or broker faults, late acknowledgement | `LoseRun`, `Redeliver` |
| time | `Tick` (ages of `updated_at` and `reconciled_at`, `expires_at`), `OtpExpires` |

A locked transaction is one step. `lock_session` makes that sound: it takes the row
lock and re-reads the row before anything is merged into it. What the transaction
read *before* the lock is a separate, earlier step and may be stale. `evaluate` is an
operator on the row the transaction has written so far, so a handler that sets two
checks and evaluates is one action, as it is one transaction.

A transaction that loses the race for an audit sequence number rolls back
(`AuditChain`); here that is a request or a run that ends without effect (`RequestEnds`, `RetryRun`,
`FailRun`, `LoseRun`).

Simplifications. Providers' answers are scores chosen freely from `Scores`. Only the
latest OTP challenge is kept, and a verification is one step; `OtpChallenge` has several
challenges and overlapping verifications. The identity fields are not kept.
`PROCESSING`, which ARCHITECTURE.md:33 puts between `IN_PROGRESS` and the verdict,
exists in the type and in the transition table but no code sets it; the proof's
invariant says the model never reaches it.

### AuditChain

`events` are the committed rows of `audit_events`; `script`, `done`, `phase`, `tail`,
`rows` and `holds` say, for each transaction, what it has to do, how far it is, what
`record_event()` last read, what it has inserted and what locks it has on the session
row. `Scripts` holds the writers of the code, each as the order of its audit events
and of its statements on the session row: consent, uploads, the two tasks, the failure
hook, OTP, override, expiry, webhook delivery, sealing and purge.

| Code | Actions |
|---|---|
| `record_event`: the query, the insert, its foreign key | `ReadTail`, `Insert` or `Collide`, `Refer` |
| `lock_session`: an UPDATE, then SELECT ... FOR UPDATE | `LockUpdates`, `LockSelects` |
| other updates and rows that reference the session | `UpdateRow`, `Refer` |
| `db_session`, `get_db` | `Begin`, `Commit`, `Fail` |
| the database's deadlock detector | `BreakDeadlock` |

The database is PostgreSQL at READ COMMITTED, the one the service is deployed on: what
is visible, what waits and what fails follows its documented locks, and is marked
external. SQLite, which the tests use, has one writer at a time and shows less.

### Webhooks

`status` and `lock` are the session row, `shown` every status it was committed with,
`closers` the transactions that close or override it, `deliveries` the rows,
`queue` the broker, `runs` the workers, `heard` what the tenant took, `dropped` the
deliveries of which a message was lost or given up.

| Code | Actions |
|---|---|
| `evaluate`, `override_decision`, `expire` around `queue_session_event` | `Close`, `QueueSessionEvent`, `Commit`, `Abort` |
| `_dispatch_after_commit` | `Dispatch`, `DispatchLost` |
| `deliver_webhook` | `StartRun` or `NothingToDo`, `PostAccepted`, `PostUnanswered`, `PostRefused`, then `RecordDelivered`, `Retry`, `GiveUp`, `Collide` |
| a worker dies, late acknowledgement | `LoseRun`, `Redeliver` |

A failed POST raises inside `db_session()`, so what the task wrote about it, the status
`FAILED`, the count of attempts and the audit event, is rolled back. Hence the model's
deliveries are only ever `PENDING` or `DELIVERED`, and the attempts are the message's.

### OtpChallenge

`counts` are the limiter's counters, in Redis and in each process's memory, `avoiding`
the processes that leave Redis alone for 30 seconds. `requests` is what each process is
doing, `challenges` the rows by their `created_at`, `check` the session's OTP check,
`failed` the `OTP_FAILED` events of each challenge, `raced` the challenges on which one
verification wrote over another's count, `sent` the codes the gateway took in this
window.

| Code | Actions |
|---|---|
| `_enforce_send_limits` | `Cooldown`, `CapSession`, `CapDestination` |
| `send_otp`: the gateway, then the rows | `GatewayTakes`, `GatewayRefuses`, `Insert`, `CommitSend` |
| `verify_otp` | `StartVerify`, `Read`, `Refuse`, `Wrong`, `Right` |
| `hit`, `acquire_once` and Redis | `RedisFails`, `TryAgain`, `RedisRestarts`, `CooldownEnds`, `WindowEnds` |
| expiry, a failed request | `Expire`, `Abort` |

The cooldown (60 seconds) outlasts the time a send may take: the gateway has 10 seconds.
A call to Redis that fails after Redis has counted is left out. The guards on consent
and on open sessions are in `KycSession`.

### TrustServices and Custody

`TrustServices` is the orchestrator, the choice of a timestamp authority, its fallback,
what is kept of a reply and what that proves later. `Custody` has `blobs` (the vault) and
`artifacts`, `signed` (the committed rows) apart, as they are two stores: `reqs` is what
each request or run is doing between them. `listed` are the rows each `DATA_PURGED`
event lists. `puts`, `orphaned`, `failed`, `undone` are history: how often a key was
written, and what was left by rollbacks and failed deletions. The properties use them to
name causes.

| Code | Actions |
|---|---|
| `upload_document`, `upload_selfie` | `StartUpload`, `PutSource`, `CommitFiles` |
| `seal_contract`, `kyc_certificate`, `seal_document` | `StartContract`, `StartCertificate`; `PutSource`, `GetTimestamp`, `PutToken`, `PutSigned`, `CommitFiles` |
| `identity.process_document` | `StartTask`, `ReadImage`, `Apply` |
| `purge_expired_sessions`, `_purge_session` | `StartPurge`, `List`, `Delete` or `DeleteFails`, `CommitPurge` |
| an exception, a rollback, a process gone | `Abort` |
| the session closes, its retention ends | `Close`, `Elapse` |

A key depends on the day, the kind and the file name, so keys can be shared; that is kept,
with one day and two file names. Encryption is an injective envelope, and hashes have no
collisions. The session's profile is resolved and checked once, at creation, and the
settings do not change after it. The identity and the OCR fields are one flag,
`personal`. A tenant's free choice of `document_reference` (it could name a contract
`KYC_CERTIFICATE`) is left out.

### Providers

A character of the machine readable zone is its value in the check digits; scores are
whole percentages, rounded down. An image is the signals its readers get out of it. The
operators are `parse_td3` for the second line, the two providers' authenticity score, the
liveness and match scores, and the status `process_document` and `process_selfie`
give them.

## Runs

| Run | Instance | What it shows |
|---|---|---|
| `kyc_citizen` | citizen flow, two workers, one request slot, one retry, one fault, two OTP attempts, scores 50/60/100 | `TypeOK`; row and trail agree (`VerdictTraced`); an open session has something pending unless its OTP was exhausted (`SomethingPending`); only closed sessions block a verdict (`OnlyClosedBlocks`); `VerifiedEarned` |
| `kyc_travel` | travel flow, document and selfie tasks on two workers, one override, scores 60/100 | `OneVerdict`, `CapturedWithConsent`, `VerdictStands`, `TroubleNeverRejects`, and the refinement `KeepsPromise` |
| `kyc_closes` | citizen flow with faults, fair time and sweep | `Closes`: every session is closed in the end |
| `decision` | all flows, two providers, a valid and an expired passport read in every way that matters, default thresholds | a better result never lowers the verdict (`BetterIsNeverWorse`); no rejection without a failed check (`RejectionNamesFailure`); a misread or expired passport passes only where the check digits cannot tell (`ReadingIsSound`) |
| `audit_chain` | three transactions of four kinds, two that append before they lock, one that locks first, one that only refers to the row | `TypeOK`; the chain verifies (`ChainVerifies`); transactions appear whole (`AllOrNothing`); who reads under the lock is not overtaken (`LockedReadsLast`); the refinement `AppendsOnly`; `EveryTransactionEnds` |
| `webhooks` | two closing transactions and an override, two workers, two refusals, one mishap, one collision | `TypeOK`; one delivery per event (`OneDeliveryPerEvent`); nothing is told that was not committed (`ToldWhatWasShown`); repetitions and losses have their cause (`HeardOnceOrMishap`, `UnheardHasCause`); what is queued is heard or dropped (`QueuedIsHeard`); the refinement `KeepsNotices` |
| `otp` | two processes, two destinations, two sends, four verifications, one mishap of Redis | `TypeOK`; the caps (`CapsHold`); one live code (`OneLiveCode`); no stale code is compared (`ComparedIsCurrent`); attempts (`TriesCapped`); `CheckReflectsChallenges` |
| `custody` | two requests at once and three in all, one file, a deployment without and one with authorities | `TypeOK`; `RegistryDescribesBlobs`; `PurgeProved`; `LeftoversHaveCause`; `CertificatesBounded`; `ProofOutlivesData`; `WipedStaysWiped` |
| `kyc_applies` | two workers, no fault | expected violation of `AppliedOnce` |
| `kyc_mirror` | two overrides | expected violation of `NotificationsMirror` |
| `kyc_complete` | no fault | expected violation of `CompleteMeansClosed` |
| `custody_retry` | one request at a time | expected violation of `FailuresStayEligible` |

Bounds of the KYC runs. Two workers are what a race between two runs needs; a third adds only a
third run of the same kind. `Stuck` is 1 and `TTL` 1 or 2 ticks: enough for the sweep
to find the session both stuck and overdue, and for requests before and after
either. One document and one selfie are uploaded (`MaxUploads`); duplicates of a run
come from redelivery and from the sweep. `MaxFaults`, `MaxOverrides` and `UserOps`
limit what happens at all; `MaxRetries` and `OtpMaxAttempts` are the code's own
limits at smaller values. The scores are the ones that reach each branch: below the
document threshold, at it, and certain. Workers and request slots are
interchangeable, so the safety runs use symmetry; the liveness run does not.
Deadlock is not checked for `KycSession`: a closed session with nothing in flight is
where it stops.

Bounds of the others. `Txs` is 3 for the chain: a collision needs two, and the third can
be the one that has committed in between or that closes a cycle of waits. The four
kinds in `audit_chain` have every order of lock and append; the other writers have one
of these orders with more events, and the proofs cover them all. `MaxClosings` is 3:
two racing closers, then an override, with `MaxRetries` 1 and `MaxOutages` 2, so that
refusals can use up the retries. In `otp` both caps can be reached (`MaxSends` 2 against a cap
of 1 and one of 2), and `MaxVerifies` 4 is twice `MaxAttempts`. In `custody`, `MaxWork` 3 lets a
purge, a late request and one before them meet; `Requests` 2 is one of each at once.
`MCDecision` misreads one character in each kind of field, every value that matters to
a check digit, and cuts lines short. All but the chain, webhooks and decision runs use symmetry. Each of the
runs stops when its bound is used up, so deadlock is not checked there.

Fairness. `KycSession`'s `FairSpec` assumes that time passes and that the sweep runs: beat
schedules it every five minutes whatever happens to a session. Nothing is assumed of
users, workers, the broker or operators. Sweep failures are bounded by `MaxFaults`; a
sweep that fails for ever would of course close nothing. `Webhooks` assumes that each
worker goes on with the messages it can take (`WF` of `Work`), and that a transaction that has
committed runs its after-commit hook (`WF` of `Dispatch`): it runs inside `commit()`. A crash
there is `DispatchLost`. Nothing obliges the tenant to accept anything.
`AuditChain` assumes only that some transaction that can do a statement eventually
does one, or that the database breaks a deadlock there is; nobody is obliged to begin.

## What the expected violations show

- `AppliedOnce`. tasks.py:117 calls the tasks idempotent once a check is decided. The
  test is made before the lock, and an upload does not move `updated_at`, so the
  sweep can queue a second run while the first is going on; both apply. If the
  session has closed in between, its verdict stands (`VerdictStands`), but the check is
  overwritten, and where the new decision has the same status its reasons and its risk
  too. The `reconciled_at` throttle cannot prevent it: it is never newer than
  `updated_at`, which the scan has already found old.
- `NotificationsMirror`. kyc.py:329 says notifications always mirror the committed
  state. The event queue suppresses a repeat of an earlier status, so an override away
  and back leaves the tenant with the wrong last event.
- `CompleteMeansClosed`. The last wrong OTP code fails the check without evaluating the
  session; if it was the last check, the session waits for its expiry.
- `FailuresStayEligible`. admin.py:35 says blob failures stay eligible for the next run. The
  purge leaves the row of such a blob unmarked, which would allow it, but sets
  `session.purged_at` all the same, and the next run selects sessions by that. The blob stays
  for ever, as `LeftoversHaveCause` says of it.

Three more observations, which properties that hold state as their exceptions. A purge
that is rolled back after its first deletion leaves rows that describe blobs which
are gone, without the `DATA_PURGED` event retention.py:14 says comes first: it is in the
same transaction as the marks (`undone` in `RegistryDescribesBlobs`). A file sealed or uploaded
while the purge runs, or sealed after it, is never purged (`Unlisted` in `LeftoversHaveCause`). A
delivery the tenant never took stays `PENDING`, never `FAILED`, and blocks a later one of the same
event (`UnheardHasCause`).

## Proofs

Each `...Proofs` module proves its theorems for every value of the constants: every flow and
setting, every number of workers, requests, transactions and processes, every bound. They rest
on the assumptions named in the modules (`ThresholdAssumption`, `ScoreAssumption`,
`SessionAssumption`, `ChainAssumption`, `WebhookAssumption`, `OtpAssumption`,
`CustodyAssumption`, `ConfigsAssumption`), which TLC evaluates on every run. Three theorems
have one hypothesis more. `RejectionAlwaysNamesFailure` and `BetterNeverWorse` ask for `Passable`,
which relates the thresholds of the engines to the review mark; `DefaultsPass` proves it of the
default settings. `ReadingAlwaysSound` asks that today be after the day on which the expired
passport of `MCDecision` expired, as it is in the run.

| Theorem | Property |
|---|---|
| `KycSessionProofs!TypeCorrect` | `TypeOK` |
| `KycSessionProofs!VerdictAlwaysTraced` | `VerdictTraced` |
| `KycSessionProofs!OnlyOneVerdict` | `OneVerdict` |
| `KycSessionProofs!VerdictAlwaysStands` | `VerdictStands` |
| `KycSessionProofs!OnlyClosedEverBlocks` | `OnlyClosedBlocks` |
| `KycSessionProofs!AlwaysNotified` | (`Notified`, a step towards `KeepsPromise`, which implies it) |
| `KycSessionProofs!AlwaysKeepsPromise` | `KeepsPromise`: `KycSession` implements `KycVerdict` |
| `KycSessionProofs!AlwaysCapturedWithConsent` | `CapturedWithConsent` |
| `KycSessionProofs!AlwaysVerifiedEarned` | `VerifiedEarned` |
| `KycSessionProofs!AlwaysSomethingPending` | `SomethingPending` |
| `KycSessionProofs!TroubleNeverEverRejects` | `TroubleNeverRejects` |
| `DecisionProofs!RejectionAlwaysNamesFailure` | `RejectionNamesFailure` |
| `DecisionProofs!BetterNeverWorse` | `BetterIsNeverWorse` |
| `DecisionProofs!DefaultsPass` | |
| `DecisionProofs!ReadingAlwaysSound` | `ReadingIsSound` |
| `ProvidersProofs!MisreadingIsSeen` | |
| `AuditChainProofs!ChainTypeOK` | `TypeOK` |
| `AuditChainProofs!ChainAlwaysVerifies` | `ChainVerifies` |
| `AuditChainProofs!AlwaysLockedReadsLast` | `LockedReadsLast` |
| `AuditChainProofs!ChainImplementsLog` | `AppendsOnly`: `AuditChain` implements `AppendOnlyLog` |
| `AuditChainProofs!AlwaysAllOrNothing` | `AllOrNothing` |
| `WebhooksProofs!WebhookTypeOK` | `TypeOK` |
| `WebhooksProofs!EventsAreQueuedOnce` | `OneDeliveryPerEvent` |
| `WebhooksProofs!TenantHearsWhatWasShown` | `ToldWhatWasShown` |
| `WebhooksProofs!UnheardAlwaysHasCause` | `UnheardHasCause` |
| `WebhooksProofs!HeardOnceOrAfterMishap` | `HeardOnceOrMishap` |
| `WebhooksProofs!WebhooksKeepNotices` | `KeepsNotices`: `Webhooks` implements `TenantNotices` |
| `OtpChallengeProofs!OtpTypeOK` | `TypeOK` |
| `OtpChallengeProofs!NothingStaleIsCompared` | `ComparedIsCurrent` |
| `OtpChallengeProofs!TriesStayCapped` | `TriesCapped` |
| `OtpChallengeProofs!CheckAndChallengesAgree` | `CheckReflectsChallenges` |
| `OtpChallengeProofs!OneCodeIsLive` | `OneLiveCode` |
| `OtpCapsProofs!CapsAlwaysHold` | `CapsHold` |
| `CustodyProofs!CustodyTypeCorrect` | `TypeOK` |
| `CustodyProofs!RegistryAlwaysDescribes` | `RegistryDescribesBlobs` |
| `CustodyProofs!PurgeAlwaysProved` | `PurgeProved` |
| `CustodyProofs!LeftoversAlwaysHaveCause` | `LeftoversHaveCause` |
| `CustodyProofs!WipedAlwaysStaysWiped` | `WipedStaysWiped` |
| `CustodyProofs!CertificatesAlwaysBounded` | `CertificatesBounded` |
| `CustodyProofs!ProofAlwaysOutlivesData` | `ProofOutlivesData` |

### The session

The argument has three layers.

1. *Rows.* `Written(r)` says what a transaction may leave in the row before it
   evaluates: it may set checks and take the session out of `CREATED`, nothing else a
   tenant sees. `set_check` and the failure hook produce only such rows
   (`WrittenCheck`, `WrittenReview`), and `NextRow` shows that every action of the
   specification evaluates such a row, writes one, expires an open session or
   overrides.
2. *Steps.* `EvaluateRow` and `StepRow` reduce a step to one of four things a tenant can
   see: `Proceeds`, `Decides`, `Expires`, `Overrides`.
3. *Invariant.* `VerdictTraced` and `OneVerdict` are not inductive: whether `evaluate`
   records a decision depends on `completed_at`, so `Coherent` adds that an open
   session is not completed and has told nobody, that a closed session which is not
   completed has expired, and that a `CREATED` session is pristine (without it a
   verdict could be blocked on an open session). `CoherentNext` goes through the four
   kinds of step. `Notified` is inductive relative to `Coherent`, and the refinement
   follows from both; consent has an invariant of its own (`ConsentHeld`), which says
   that a request that was admitted still has the consent it was admitted with.

`SomethingPending` follows the evaluations: a transaction that decides a check evaluates the row
it leaves (`NextRow`), and an evaluation that finds nothing pending closes the session. The one
transaction that decides a check and does not evaluate is the last wrong OTP code. For
`TroubleNeverRejects` the hook's results are all `REVIEW`: it adds no failure, and as
long as a result asks for review the score is not compared. A session on which it changes nothing
still waits for a check, or has failed one (`SomethingPending`). So what rejects was there before.

### The decision

`BetterIsNeverWorse` fails for some thresholds: if checks may be `PASSED` with a score so
low that the whole falls below the review mark, a check that moves from `REVIEW` to
`PASSED` can turn a review into a rejection. `Passable` excludes exactly that, for the weakest
scores that pass; by `ScoreGrows` better ones do not fall below either. The invariant, `Scored`,
says that the engines write no weaker result as `PASSED`. So a score never rejects
(`RatedVerdicts`), and what is left is an argument about which checks fail and which pass.

### The machine readable zone

`MisreadingIsSeen` holds for any two lines of 44 characters. A check digit is the end of a
sequence of sums (`Totals`). Where two lines differ in one place only, their sums agree
before it and differ from there on by its weight times the change (`OneChange`). The weights
7, 3 and 1 have no factor in common with 10, so a digit that stays the same has seen a change by
tens at most (`ChangeSeen`); a misread digit is compared with the same sum, and differs itself.
The fields are pieces of the line, and `FieldAt` finds the piece a place falls into. What a
recursive function computes takes an induction over a data type; `UpTo` makes one from the
library's well-founded orderings, with the set of numbers that have the property in the place
of a predicate, which the provers could not instantiate.

`ReadingIsSound` needs three facts more about what is scanned in `MCDecision` (`Scanned`). The
printed line passes its own checks. A line that is cut short is filled up to 44 characters, so that it
ends in a filler, which is no digit and fails the composite check (`CutFails`). And the date
of a line whose expiry date is read as printed has passed.

### The audit chain

`ChainVerifies` speaks of committed events only, and a commit adds several at once. So the
invariant says of each transaction that the chain it *sees* is sound (dense, linked, with
a last event), that its pending events come after all committed ones, and that at most
one transaction has pending events: a second would need the number the first has
taken. A commit then makes the committed chain exactly what its transaction saw,
which is also the step of the refinement. The lock adds that a holder of FOR UPDATE is
alone with the row, and that whoever has pending events and is past their insert holds
the row too. `AllOrNothing` needs the place of each pending event in its script: the event of the
n-th recording statement is the n-th after the last committed one (`BatchInv`).

### Webhooks

Whoever is between `lock_session()` and the commit has the row lock (`Locking`), so nobody
adds a delivery between its search and its insert (`NewIsNew`). Deliveries, messages, runs and
notifications each exist only after the commit that made them (`Committed`). Without lost runs
and answers, the retries of a message count refused POSTs (`RetriesWereRefused`), which is
the cause `UnheardHasCause` names. What may still have the tenant hear of a delivery are its
`Chances`: a hook that is to send it, a message in the broker, a run without a good answer. Each
step hands one on to another, an accepted POST uses one up, and only a mishap adds one
(`Budget`).

The refinement reads the rows as notices: `Queued` their events in order, `Heard` those of the
rows the tenant took, `Delivered` those of the rows that say so. Only a commit adds a notice, and it
must be of a status the session just took and that has no notice yet. So a transaction
that is to queue nothing has to find its event among the rows to the end, and one that has the lock
must not find the status changed to its target (`Announcing`); both hold as the lock keeps all others from
the rows. A row is ticked off only by a run whose POST was taken (`Honest`), which is a step of
its own after the tenant has heard.

### One-time codes

Types need counting: a counter is bounded because each request still underway adds at most
one to it (`Counted`, over the cardinalities of the requests in each phase). A send has a
`created_at` above all committed ones (`Stamped`); a verification holds a challenge of its session
no older than the latest when it came in (`Held`); an unverified challenge has counted no
more attempts than the audit trail has failures, and no fewer unless a write was lost
(`Tallied`). `Alone` says that while Redis had no mishap, the cooldown's counter keeps a second
send of the session out until the first has ended, so that what it found pending is all
that is pending. For the caps, a request that has passed one was given a place in the store
that counted it, one of as many as the cap. Stores other than Redis come into being with a
mishap, and places are forgotten with one, so each mishap is worth one cap's places
(`Paid`).

### Files

None of the properties is inductive, as they speak of blobs and rows while requests are between
the two. Each row, unfinished request and rolled back transaction of a key stands for one
time it was written, so a key written once has one of them at most (`OneHolder`). A request
that was the only one to write a key finds there what it wrote (`Holds`), hence so does the row it
commits, until a purge deletes it: that is `RegistryDescribesBlobs`. A purge knows of every
row that was there when it listed them (`Purging`), so at every moment, before the purge too, a
blob that is there is accounted for (`Accounted`), of which `LeftoversHaveCause` is the part
after the purge. A run that reads an image after the purge has read an accounted one
(`Late`). A row's digest is written once, with the row (`Records`), and a provider's name leads
to one entry of the registry (`Registered`), so a document verifies as long as its token's key
holds what was committed: `ProofOutlivesData`. `FewCertificates` counts the sealed certificates together with those underway:
one begins only while there are none sealed. `NextCases` reduces the steps to six
kinds, by what they touch: those that touch no file, write a blob, register rows, mark rows, delete a
blob, or roll back.

### Only model-checked

`Closes`, `QueuedIsHeard` and `EveryTransactionEnds` are liveness under fairness, which is beyond
the provers. All other properties that hold are proved. The expected violations are
counterexamples, and only TLC's runs show them.

## Not modelled, and why

- Vision models, OCR, cryptography, PDF and ASN.1 encoding are opaque functions here: their
  inputs and outputs are not what the properties are about. So signatures are not
  forged or lost: signature_manager.py:17, which says a sealed PDF embeds the public key, while
  evidence.py:121 embeds a fingerprint, is noted here and not checked.
- Key files. The signing key and the master key are created by the first process that needs them;
  two that start at once may each create one. Processes' start is not modelled.
- Timestamp tokens on the level of bytes: one internal signature in 256 starts with 0x30
  and is taken for an RFC 3161 reply (tsa.py:192).
- Settings do not change while a session lives, though it snapshots only their names.
- Authentication, tenants and the read-only routes change no state the properties are about.
- The client SDK: a blocking client without retries, and a signature check.
- Migrations, settings and scripts have no behaviour of their own; the settings appear as
  CONSTANTS.
