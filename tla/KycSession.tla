----------------------------- MODULE KycSession -----------------------------
(***************************************************************************)
(* One KYC session and everything that writes to it: the end user's        *)
(* requests, the Celery tasks and their failure hooks, the reconciliation  *)
(* sweep, the operator's override, and time.                               *)
(*                                                                         *)
(* Atomicity.  A handler or a task first reads the session without a lock  *)
(* (the request guards, a task's "is the check still pending", a hook's    *)
(* list of pending steps, the sweep's scan) and writes it later in one     *)
(* transaction.  lock_session() serialises the writes and re-reads the     *)
(* row, so a transaction is one step on the committed row; what was read   *)
(* before it is remembered in the actor's own state and may be stale.      *)
(* Two transactions that append to the audit chain at once collide on its  *)
(* unique (session, sequence): the loser rolls back, which is a request or *)
(* a run that ends without effect here.                                    *)
(*                                                                         *)
(* Of the audit chain this module keeps the events that carry a verdict    *)
(* (trail) and the number of DECISION_BLOCKED events; of the webhooks, the *)
(* statuses queued for notification, in order (outbox).  The chain and the *)
(* deliveries themselves are the subject of other modules.                 *)
(***************************************************************************)
EXTENDS Decision, Sequences

CONSTANTS
  Flow,                \* the session's flow
  Hooked,              \* does the tenant have a webhook_url?
  DocumentThreshold,   \* settings.document_review_threshold, in percent
  LivenessThreshold,   \* settings.liveness_threshold, in percent
  FaceThreshold,       \* settings.face_match_threshold, in percent
  OtpMaxAttempts,      \* settings.otp_max_attempts
  MaxRetries,          \* _TASK_MAX_RETRIES
  Stuck,               \* settings.stuck_session_minutes, in ticks
  TTL,                 \* settings.session_ttl_seconds, in ticks
  Clients,             \* HTTP requests that can be in flight at once
  Workers,             \* worker processes
  Scores,              \* the scores the providers may report, in percent
  UserOps,             \* bound: the requests the user makes
  MaxUploads,          \* bound: documents, and selfies, a user uploads
  MaxOverrides,        \* bound: operator overrides
  MaxFaults            \* bound: lost or redelivered runs, failed sweeps

Kinds == {"document", "selfie"}
Ops   == Kinds \cup {"consent", "otp_send", "otp_verify"}

ASSUME SessionAssumption ==
  /\ Flow \in Flows
  /\ Hooked \in BOOLEAN
  /\ Scores \subseteq Percent
  /\ OtpMaxAttempts \in Nat \ {0}
  /\ MaxRetries \in Nat
  /\ Stuck \in Nat
  /\ TTL \in Nat
  /\ UserOps \subseteq Ops
  /\ MaxUploads \in Nat
  /\ MaxOverrides \in Nat
  /\ MaxFaults \in Nat

VARIABLES
  session,      \* the kyc_sessions row
  trail,        \* audit events that carry a verdict, oldest first
  blocked,      \* number of DECISION_BLOCKED audit events
  outbox,       \* statuses queued as webhook deliveries, oldest first
  documents,    \* documents stored for the session
  selfies,      \* selfie artifacts stored for the session
  otp,          \* the latest OTP challenge
  requests,     \* in-flight HTTP request of each client
  queue,        \* broker: messages waiting, per <<kind, retries so far>>
  runs,         \* what each worker is running
  sweep,        \* the reconciliation sweep
  updated,      \* ticks since updated_at, at most Stuck
  reconciled,   \* ticks since internal.reconciled_at, at most Stuck
  ttl,          \* ticks until expires_at
  overrides,    \* overrides made
  faults        \* faults still to come

row    == <<session, trail, blocked, outbox>>
user   == <<documents, selfies, otp, requests>>
broker == <<queue, runs>>
clock  == <<updated, reconciled, ttl>>
vars   == <<row, user, broker, sweep, clock, overrides, faults>>

-----------------------------------------------------------------------------
(***************************************************************************)
(* Types.                                                                  *)
(***************************************************************************)
Tries == 0 .. MaxRetries

Session == [status    : SessionStatus,
            checks    : [Steps -> CheckStatus],
            internal  : [Steps -> Percent],
            reasons   : Reasons,
            completed : BOOLEAN,
            consent   : BOOLEAN]

Verdict == [event  : {"KYC_DECISION", "DECISION_OVERRIDDEN", "SESSION_EXPIRED"},
            status : Terminal]

Challenge == [state    : {"NONE", "LIVE", "EXPIRED", "VERIFIED"},
              attempts : 0 .. OtpMaxAttempts]

\* Only an upload has something to dispatch.
Request == [phase : {"idle", "open"}, op : Ops] \cup [phase : {"dispatch"}, op : Kinds]

Run == [phase : {"idle", "working", "failed", "hook"},
        kind  : Kinds,
        tries : Tries,
        saw   : SUBSET Steps]

Sweep == [phase : {"idle", "expiring", "marking", "dispatching"},
          todo  : SUBSET Kinds]

NoRequest == [phase |-> "idle", op |-> "consent"]
NoRun     == [phase |-> "idle", kind |-> "document", tries |-> 0, saw |-> {}]
NoSweep   == [phase |-> "idle", todo |-> {}]

TypeOK ==
  /\ session \in Session
  /\ trail \in Seq(Verdict)
  /\ blocked \in Nat
  /\ outbox \in Seq(Terminal)
  /\ documents \in Nat
  /\ selfies \in Nat
  /\ otp \in Challenge
  /\ requests \in [Clients -> Request]
  /\ queue \in [Kinds \X Tries -> Nat]
  /\ runs \in [Workers -> Run]
  /\ sweep \in Sweep
  /\ updated \in 0 .. Stuck
  /\ reconciled \in 0 .. Stuck
  /\ ttl \in 0 .. TTL
  /\ overrides \in Nat
  /\ faults \in Nat

Init ==
  /\ session = [status    |-> "CREATED",
                checks    |-> [s \in Steps |-> "PENDING"],
                internal  |-> [s \in Steps |-> 0],
                reasons   |-> {},
                completed |-> FALSE,
                consent   |-> FALSE]
  /\ trail = <<>>
  /\ blocked = 0
  /\ outbox = <<>>
  /\ documents = 0
  /\ selfies = 0
  /\ otp = [state |-> "NONE", attempts |-> 0]
  /\ requests = [c \in Clients |-> NoRequest]
  /\ queue = [m \in Kinds \X Tries |-> 0]
  /\ runs = [w \in Workers |-> NoRun]
  /\ sweep = NoSweep
  /\ updated = 0
  /\ reconciled = Stuck
  /\ ttl = TTL
  /\ overrides = 0
  /\ faults = MaxFaults

-----------------------------------------------------------------------------
(***************************************************************************)
(* Writing the row: set_check(), evaluate() and the webhook queue.         *)
(***************************************************************************)
policy == Policy(Flow)

Open == session.status \notin Terminal

\* Slip: the first result does not take the session out of CREATED.
SetCheckOnly(r, step, status, score) ==
  [r EXCEPT !.checks[step] = status, !.internal[step] = score]

\* set_check() on row r: no look at the status, except that a first result
\* takes the session out of CREATED.
SetCheck(r, step, status, score) ==
  [r EXCEPT !.checks[step]   = status,
            !.internal[step] = score,
            !.status = IF r.status = "CREATED" THEN "IN_PROGRESS" ELSE r.status]

\* Slip: a failure hook fails the steps it saw pending.
SendToFailed(r, steps) ==
  [r EXCEPT !.checks = [s \in Steps |-> IF s \in steps THEN "FAILED" ELSE r.checks[s]],
            !.status = IF steps # {} /\ r.status = "CREATED" THEN "IN_PROGRESS"
                                                             ELSE r.status]

\* A failure hook sends every step it saw pending to a human.
SendToReview(r, steps) ==
  [r EXCEPT !.checks   = [s \in Steps |-> IF s \in steps THEN "REVIEW" ELSE r.checks[s]],
            !.internal = [s \in Steps |-> IF s \in steps THEN 50 ELSE r.internal[s]],
            !.status   = IF steps # {} /\ r.status = "CREATED" THEN "IN_PROGRESS"
                                                               ELSE r.status]

\* Slip: any decision may replace any status.
AllTransitions(status) == SessionStatus

AllowedTransitions(status) ==
  CASE status \in Terminal      -> {status}
    [] status = "CREATED"     -> {"CREATED", "IN_PROGRESS", "EXPIRED"}
    [] status = "IN_PROGRESS" -> {"IN_PROGRESS", "PROCESSING"} \cup Terminal
    [] OTHER                  -> {"IN_PROGRESS"} \cup Terminal

\* Slip: the sweep's status has no event name.
QueueDecision(status) ==
  IF Hooked /\ status # "EXPIRED" /\ \A i \in DOMAIN outbox : outbox[i] # status
  THEN Append(outbox, status) ELSE outbox

\* queue_session_event(): the same status is never queued twice.
QueueEvent(status) ==
  IF Hooked /\ \A i \in DOMAIN outbox : outbox[i] # status
  THEN Append(outbox, status) ELSE outbox

Touch == /\ updated' = 0
         /\ UNCHANGED <<reconciled, ttl>>

\* evaluate() on the row r that the transaction's set_check() calls left.
Blocked(r) ==
  /\ Decide(policy, r.checks, r.internal).status \notin AllowedTransitions(r.status)
  /\ session' = r
  /\ blocked' = blocked + 1
  /\ UNCHANGED <<trail, outbox>>

\* Slip: every evaluation that completes records a decision.
ConcludedAgain(r) ==
  LET d == Decide(policy, r.checks, r.internal) IN
  /\ d.status \in AllowedTransitions(r.status)
  /\ session' = [r EXCEPT !.status    = d.status,
                          !.reasons   = IF d.completed THEN d.reasons ELSE {},
                          !.completed = r.completed \/ d.completed]
  /\ trail' = IF d.completed
              THEN Append(trail, [event |-> "KYC_DECISION", status |-> d.status])
              ELSE trail
  /\ outbox' = IF d.completed /\ r.status # d.status THEN QueueEvent(d.status) ELSE outbox
  /\ UNCHANGED blocked

Concluded(r) ==
  LET d == Decide(policy, r.checks, r.internal) IN
  /\ d.status \in AllowedTransitions(r.status)
  /\ session' = [r EXCEPT !.status    = d.status,
                          !.reasons   = IF d.completed THEN d.reasons ELSE {},
                          !.completed = r.completed \/ d.completed]
  /\ trail' = IF d.completed /\ ~r.completed
              THEN Append(trail, [event |-> "KYC_DECISION", status |-> d.status])
              ELSE trail
  /\ outbox' = IF d.completed /\ r.status # d.status THEN QueueEvent(d.status) ELSE outbox
  /\ UNCHANGED blocked

Evaluate(r) ==
  /\ Blocked(r) \/ Concluded(r)
  /\ Touch

-----------------------------------------------------------------------------
(***************************************************************************)
(* The end user's requests.  Admit is the guard part of a handler; the     *)
(* session may change before the handler commits.                          *)
(***************************************************************************)
\* Slip: only the uploads ask for the consent.
UploadsConsented(op) == op \notin Kinds \/ session.consent

Consented(op) == op = "consent" \/ session.consent

Admit(c, op) ==
  /\ requests[c].phase = "idle"
  /\ Open /\ ttl > 0
  /\ Consented(op)
  /\ op = "otp_send" => "OTP" \in policy.steps
  /\ requests' = [requests EXCEPT ![c] = [phase |-> "open", op |-> op]]
  /\ UNCHANGED <<row, documents, selfies, otp, broker, sweep, clock, overrides, faults>>

Serves(c, op) == requests[c] = [phase |-> "open", op |-> op]

Answer(c) == requests' = [requests EXCEPT ![c] = NoRequest]

\* Refused input, a declined consent, a collision on the audit chain, or the
\* API process gone: before the commit nothing happened; after it, the
\* upload is stored but its task is never sent.
RequestEnds(c) ==
  /\ requests[c].phase # "idle"
  /\ Answer(c)
  /\ UNCHANGED <<row, documents, selfies, otp, broker, sweep, clock, overrides, faults>>

GrantConsent(c) ==
  /\ Serves(c, "consent")
  /\ session' = [session EXCEPT !.consent = TRUE]
  /\ Touch
  /\ Answer(c)
  /\ UNCHANGED <<trail, blocked, outbox, documents, selfies, otp, broker, sweep,
                 overrides, faults>>

Upload(c, kind) ==
  /\ Serves(c, kind)
  /\ (IF kind = "document" THEN documents ELSE selfies) < MaxUploads
  /\ documents' = IF kind = "document" THEN documents + 1 ELSE documents
  /\ selfies'   = IF kind = "selfie" THEN selfies + 1 ELSE selfies
  /\ requests'  = [requests EXCEPT ![c].phase = "dispatch"]
  /\ UNCHANGED <<row, otp, broker, sweep, clock, overrides, faults>>

Dispatch(c) ==
  /\ requests[c].phase = "dispatch"
  /\ queue' = [queue EXCEPT ![<<requests[c].op, 0>>] = @ + 1]
  /\ Answer(c)
  /\ UNCHANGED <<row, documents, selfies, otp, runs, sweep, clock, overrides, faults>>

SendOtp(c) ==
  /\ Serves(c, "otp_send")
  /\ otp' = [state |-> "LIVE", attempts |-> 0]
  /\ Answer(c)
  /\ UNCHANGED <<row, documents, selfies, broker, sweep, clock, overrides, faults>>

VerifyAgain(c) ==
  /\ Serves(c, "otp_verify")
  /\ otp.state = "VERIFIED"
  /\ Evaluate(session)
  /\ Answer(c)
  /\ UNCHANGED <<documents, selfies, otp, broker, sweep, overrides, faults>>

VerifyRight(c) ==
  /\ Serves(c, "otp_verify")
  /\ otp.state = "LIVE" /\ otp.attempts < OtpMaxAttempts
  /\ otp' = [state |-> "VERIFIED", attempts |-> otp.attempts + 1]
  /\ Evaluate(SetCheck(session, "OTP", "PASSED", 100))
  /\ Answer(c)
  /\ UNCHANGED <<documents, selfies, broker, sweep, overrides, faults>>

VerifyWrong(c) ==
  /\ Serves(c, "otp_verify")
  /\ otp.state = "LIVE" /\ otp.attempts + 1 < OtpMaxAttempts
  /\ otp' = [otp EXCEPT !.attempts = @ + 1]
  /\ Answer(c)
  /\ UNCHANGED <<row, documents, selfies, broker, sweep, clock, overrides, faults>>

\* Slip: the attempt is counted before the limit is looked at.
VerifyOverruns(c) ==
  /\ Serves(c, "otp_verify")
  /\ otp.state = "LIVE" /\ otp.attempts + 1 >= OtpMaxAttempts
  /\ otp' = [otp EXCEPT !.attempts = @ + 1]
  /\ session' = SetCheck(session, "OTP", "FAILED", 0)
  /\ Touch
  /\ Answer(c)
  /\ UNCHANGED <<trail, blocked, outbox, documents, selfies, broker, sweep, overrides, faults>>

\* The last wrong code, or any code after it: the check fails, and the
\* session is not evaluated.
VerifyExhausted(c) ==
  /\ Serves(c, "otp_verify")
  /\ otp.state = "LIVE" /\ otp.attempts + 1 >= OtpMaxAttempts
  /\ otp' = [otp EXCEPT !.attempts = OtpMaxAttempts]
  /\ session' = SetCheck(session, "OTP", "FAILED", 0)
  /\ Touch
  /\ Answer(c)
  /\ UNCHANGED <<trail, blocked, outbox, documents, selfies, broker, sweep, overrides, faults>>

Requests ==
  \E c \in Clients :
    \/ \E op \in UserOps : Admit(c, op)
    \/ RequestEnds(c)
    \/ GrantConsent(c)
    \/ \E kind \in Kinds : Upload(c, kind)
    \/ Dispatch(c)
    \/ SendOtp(c)
    \/ VerifyAgain(c) \/ VerifyRight(c) \/ VerifyWrong(c) \/ VerifyExhausted(c)

-----------------------------------------------------------------------------
(***************************************************************************)
(* The Celery tasks process_document and process_selfie.                   *)
(***************************************************************************)
Gate(kind) == IF kind = "document" THEN "DOCUMENT_VERIFICATION" ELSE "LIVENESS"

HookSteps(kind) ==
  IF kind = "document" THEN {"DOCUMENT_VERIFICATION"} ELSE {"LIVENESS", "FACE_MATCH"}

Take(kind, tries) ==
  /\ queue[<<kind, tries>>] > 0
  /\ queue' = [queue EXCEPT ![<<kind, tries>>] = @ - 1]

\* The pending test reads the row without its lock.
StartRun(w, kind, tries) ==
  /\ runs[w].phase = "idle"
  /\ Take(kind, tries)
  /\ session.checks[Gate(kind)] = "PENDING"
  /\ runs' = [runs EXCEPT ![w] = [phase |-> "working", kind |-> kind,
                                  tries |-> tries, saw |-> {}]]
  /\ UNCHANGED <<row, user, sweep, clock, overrides, faults>>

AlreadyApplied(w, kind, tries) ==
  /\ runs[w].phase = "idle"
  /\ Take(kind, tries)
  /\ session.checks[Gate(kind)] # "PENDING"
  /\ UNCHANGED <<row, user, runs, sweep, clock, overrides, faults>>

Works(w, kind) == runs[w].phase = "working" /\ runs[w].kind = kind

Ends(w) == runs' = [runs EXCEPT ![w] = NoRun]

\* authentic: the provider calls the document authentic and its expiry date
\* has not passed.
DocumentStatus(authentic, score) ==
  IF ~authentic THEN "FAILED"
  ELSE IF score < DocumentThreshold THEN "REVIEW" ELSE "PASSED"

ApplyDocument(w) ==
  /\ Works(w, "document")
  /\ \E authentic \in BOOLEAN, score \in Scores :
       Evaluate(SetCheck(session, "DOCUMENT_VERIFICATION",
                         DocumentStatus(authentic, score), score))
  /\ Ends(w)
  /\ UNCHANGED <<user, queue, sweep, overrides, faults>>

\* A check is only written for a step of the flow.
SetRequired(r, step, passed, score) ==
  IF step \in policy.steps
  THEN SetCheck(r, step, IF passed THEN "PASSED" ELSE "FAILED", score) ELSE r

\* The face is matched only when the capture is live and there is a document.
ApplySelfie(w) ==
  /\ Works(w, "selfie")
  /\ \E liveness, match \in Scores :
       LET live    == liveness >= LivenessThreshold
           matched == live /\ documents > 0 /\ match >= FaceThreshold
       IN  Evaluate(SetRequired(SetRequired(session, "LIVENESS", live, liveness),
                                "FACE_MATCH", matched, IF matched THEN match ELSE 0))
  /\ Ends(w)
  /\ UNCHANGED <<user, queue, sweep, overrides, faults>>

\* A transient error rolls the run back and sends the message again.
RetryRun(w) ==
  /\ runs[w].phase = "working"
  /\ runs[w].tries < MaxRetries
  /\ queue' = [queue EXCEPT ![<<runs[w].kind, runs[w].tries + 1>>] = @ + 1]
  /\ Ends(w)
  /\ UNCHANGED <<row, user, sweep, clock, overrides, faults>>

\* A permanent error, or the last retry: on_failure runs in its own
\* transaction, and first reads without the lock.
FailRun(w) ==
  /\ runs[w].phase = "working"
  /\ runs' = [runs EXCEPT ![w].phase = "failed"]
  /\ UNCHANGED <<row, user, queue, sweep, clock, overrides, faults>>

HookReads(w) ==
  /\ runs[w].phase = "failed"
  /\ runs' = IF Open
             THEN [runs EXCEPT ![w].phase = "hook",
                               ![w].saw = {s \in HookSteps(runs[w].kind) :
                                             session.checks[s] = "PENDING"}]
             ELSE [runs EXCEPT ![w] = NoRun]
  /\ UNCHANGED <<row, user, queue, sweep, clock, overrides, faults>>

\* Slip: the hook writes the checks and leaves the session unevaluated.
HookOnlyWrites(w) ==
  /\ runs[w].phase = "hook"
  /\ session' = SendToReview(session, runs[w].saw)
  /\ Touch
  /\ Ends(w)
  /\ UNCHANGED <<trail, blocked, outbox, user, queue, sweep, overrides, faults>>

HookApplies(w) ==
  /\ runs[w].phase = "hook"
  /\ Evaluate(SendToReview(session, runs[w].saw))
  /\ Ends(w)
  /\ UNCHANGED <<user, queue, sweep, overrides, faults>>

\* The worker dies, or the hook's own transaction fails: nothing is left.
LoseRun(w) ==
  /\ runs[w].phase # "idle"
  /\ faults > 0
  /\ faults' = faults - 1
  /\ Ends(w)
  /\ UNCHANGED <<row, user, queue, sweep, clock, overrides>>

\* acks_late: the broker delivers again what was not acknowledged, while the
\* run may still be going on or may yet commit.
Redeliver(w) ==
  /\ runs[w].phase # "idle"
  /\ faults > 0
  /\ faults' = faults - 1
  /\ queue' = [queue EXCEPT ![<<runs[w].kind, runs[w].tries>>] = @ + 1]
  /\ UNCHANGED <<row, user, runs, sweep, clock, overrides>>

Tasks ==
  \E w \in Workers :
    \/ \E kind \in Kinds, tries \in Tries :
         StartRun(w, kind, tries) \/ AlreadyApplied(w, kind, tries)
    \/ ApplyDocument(w) \/ ApplySelfie(w)
    \/ RetryRun(w) \/ FailRun(w) \/ HookReads(w) \/ HookApplies(w)
    \/ LoseRun(w) \/ Redeliver(w)

-----------------------------------------------------------------------------
(***************************************************************************)
(* reconcile_stuck_sessions(): scan, then lock and write, then dispatch.   *)
(***************************************************************************)
Lost == {k \in Kinds : /\ session.checks[Gate(k)] = "PENDING"
                       /\ k = "document" => documents > 0
                       /\ k = "selfie" => selfies > 0}

\* Slip: only sessions that have started are scanned.
ScannedStarted == session.status = "IN_PROGRESS" /\ updated = Stuck

Scanned == Open /\ updated = Stuck

SweepScan ==
  /\ sweep.phase = "idle"
  /\ Scanned
  /\ \/ /\ ttl = 0
        /\ sweep' = [phase |-> "expiring", todo |-> {}]
     \/ /\ ttl > 0
        /\ reconciled = Stuck
        /\ Lost # {}
        /\ sweep' = [phase |-> "marking", todo |-> Lost]
  /\ UNCHANGED <<row, user, broker, clock, overrides, faults>>

\* Slip: the session is expired as it was scanned.
SweepExpiresAll ==
  /\ sweep.phase = "expiring"
  /\ session' = [session EXCEPT !.status = "EXPIRED"]
  /\ trail'   = Append(trail, [event |-> "SESSION_EXPIRED", status |-> "EXPIRED"])
  /\ outbox'  = QueueEvent("EXPIRED")
  /\ Touch
  /\ sweep' = NoSweep
  /\ UNCHANGED <<blocked, user, broker, overrides, faults>>

\* expire() looks at the status again, under the lock.
SweepExpires ==
  /\ sweep.phase = "expiring"
  /\ IF Open
     THEN /\ session' = [session EXCEPT !.status = "EXPIRED"]
          /\ trail'   = Append(trail, [event |-> "SESSION_EXPIRED", status |-> "EXPIRED"])
          /\ outbox'  = QueueEvent("EXPIRED")
          /\ UNCHANGED blocked
     ELSE UNCHANGED row
  /\ Touch
  /\ sweep' = NoSweep
  /\ UNCHANGED <<user, broker, overrides, faults>>

SweepMarks ==
  /\ sweep.phase = "marking"
  /\ updated' = 0 /\ reconciled' = 0
  /\ sweep' = [sweep EXCEPT !.phase = "dispatching"]
  /\ UNCHANGED <<row, user, broker, ttl, overrides, faults>>

SweepDispatches ==
  /\ sweep.phase = "dispatching"
  /\ queue' = [m \in Kinds \X Tries |->
                 IF m[1] \in sweep.todo /\ m[2] = 0 THEN queue[m] + 1 ELSE queue[m]]
  /\ sweep' = NoSweep
  /\ UNCHANGED <<row, user, runs, clock, overrides, faults>>

SweepFails ==
  /\ sweep.phase # "idle"
  /\ faults > 0
  /\ faults' = faults - 1
  /\ sweep' = NoSweep
  /\ UNCHANGED <<row, user, broker, clock, overrides>>

Sweeping == SweepScan \/ SweepExpires \/ SweepMarks \/ SweepDispatches

-----------------------------------------------------------------------------
(***************************************************************************)
(* The operator, and time.                                                 *)
(***************************************************************************)
Override(target) ==
  /\ overrides < MaxOverrides
  /\ overrides' = overrides + 1
  /\ session' = [session EXCEPT !.status = target, !.completed = TRUE]
  /\ trail'   = Append(trail, [event |-> "DECISION_OVERRIDDEN", status |-> target])
  /\ outbox'  = IF session.status # target THEN QueueEvent(target) ELSE outbox
  /\ Touch
  /\ UNCHANGED <<blocked, user, broker, sweep, faults>>

OtpExpires ==
  /\ otp.state = "LIVE"
  /\ otp' = [otp EXCEPT !.state = "EXPIRED"]
  /\ UNCHANGED <<row, documents, selfies, requests, broker, sweep, clock, overrides, faults>>

Older(age) == IF age < Stuck THEN age + 1 ELSE age

Tick ==
  /\ updated' = Older(updated)
  /\ reconciled' = Older(reconciled)
  /\ ttl' = IF ttl > 0 THEN ttl - 1 ELSE 0
  /\ UNCHANGED <<row, user, broker, sweep, overrides, faults>>

Next ==
  \/ Requests
  \/ Tasks
  \/ Sweeping
  \/ SweepFails
  \/ \E target \in Terminal : Override(target)
  \/ OtpExpires
  \/ Tick

Spec == Init /\ [][Next]_vars

\* Time passes, and beat keeps running the sweep.  Nothing is assumed of the
\* user, the workers, the broker or the operator.
FairSpec == Spec /\ WF_vars(Tick) /\ WF_vars(Sweeping)

-----------------------------------------------------------------------------
(***************************************************************************)
(* What must hold.                                                         *)
(***************************************************************************)

\* The row and the audit chain agree: a session is closed exactly when the
\* chain holds a verdict, and the last verdict is the stored status.
\* (evaluate, override_decision and expire write both in one transaction.)
VerdictTraced ==
  /\ Open <=> trail = <<>>
  /\ ~Open => trail[Len(trail)].status = session.status

\* However many workers, hooks and sweeps race, the engine or the sweep
\* closes a session at most once, and never after an operator did; what
\* follows a first verdict is explicit overrides.
OneVerdict ==
  \A i \in DOMAIN trail : trail[i].event # "DECISION_OVERRIDDEN" => i = 1

\* No capture is stored, and no code is sent, before the user consented,
\* although the guard and the store are two steps of a request.
CapturedWithConsent ==
  documents > 0 \/ selfies > 0 \/ otp.state # "NONE" => session.consent

\* While a session is open something is left to decide.  The one exception
\* is an OTP check failed by the last attempt, which is not evaluated.
SomethingPending ==
  Open => \/ WithStatus(policy, session.checks, "PENDING") # {}
          \/ session.checks["OTP"] = "FAILED"

\* evaluate() only ever suppresses a verdict on a session that is already
\* closed: no legal sequence leaves an open session with a blocked verdict.
OnlyClosedBlocks == [][blocked' > blocked => ~Open]_vars

\* A verdict stands: whatever is in flight when a session closes, only an
\* audited override changes its status afterwards.
VerdictStands ==
  [][~Open => \/ session'.status = session.status
              \/ overrides' = overrides + 1]_vars

\* VERIFIED is earned: except by override, a session becomes VERIFIED only
\* in a transaction that leaves every check of its flow PASSED, whichever
\* actor's stale read started it.
VerifiedEarned ==
  [][session'.status = "VERIFIED" /\ session.status # "VERIFIED"
       => \/ \A s \in policy.steps : session'.checks[s] = "PASSED"
          \/ overrides' = overrides + 1]_vars

\* Technical trouble never rejects anybody: a failure hook leaves a session
\* REJECTED only if a check had really failed before it ran.
TroubleNeverRejects ==
  [][\A w \in Workers :
       runs[w].phase = "hook" /\ runs'[w].phase # "hook" /\ session'.status = "REJECTED"
         => session.status = "REJECTED" \/ HardFailures(policy, session.checks) # {}]_vars

\* Whatever is lost, crashes or is never started, every session closes.
Closes == <>(~Open)

\* All of the above, as a tenant sees it: the session implements the promise
\* of KycVerdict.
Promise == INSTANCE KycVerdict WITH status <- session.status

KeepsPromise == Promise!Spec

(***************************************************************************)
(* What the repository says of the program and the program does not do.    *)
(***************************************************************************)

\* workers/tasks.py: an execution "is a no-op once the check has been
\* decided".
AppliedOnce ==
  [][\A s \in Steps \ {"OTP"} :
       session.checks[s] # "PENDING" => session'.checks[s] = session.checks[s]]_vars

\* services/kyc.py: "notifications always mirror the committed state".
NotificationsMirror ==
  Hooked /\ ~Open => outbox # <<>> /\ outbox[Len(outbox)] = session.status

\* services/kyc.py: evaluate() is to "close the session when it is complete".
CompleteMeansClosed ==
  WithStatus(policy, session.checks, "PENDING") = {} => ~Open
=============================================================================
