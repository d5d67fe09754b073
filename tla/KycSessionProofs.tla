-------------------------- MODULE KycSessionProofs --------------------------
(***************************************************************************)
(* Theorems about KycSession, for every flow, every number of workers and  *)
(* requests, and every value of the settings and bounds.                   *)
(***************************************************************************)
EXTENDS KycSession, TLAPS

-----------------------------------------------------------------------------
(***************************************************************************)
(* Facts about the operators.                                              *)
(***************************************************************************)
EngineVerdicts == {"VERIFIED", "REJECTED", "REVIEW"}

\* A policy names steps only.
LEMMA PolicyType ==
  /\ policy.steps \subseteq Steps
  /\ policy.reviewOnFailure \subseteq Steps
  /\ "OTP" \in policy.steps
BY SessionAssumption DEF policy, Policy, Flows, Steps

\* decide() answers IN_PROGRESS or an engine verdict, and calls exactly the
\* verdicts complete.
LEMMA DecideType ==
  ASSUME NEW checks \in [Steps -> CheckStatus], NEW internal
  PROVE  LET d == Decide(policy, checks, internal) IN
           /\ d.status \in EngineVerdicts \cup {"IN_PROGRESS"}
           /\ d.completed \in BOOLEAN /\ (d.completed <=> d.status \in EngineVerdicts)
           /\ d.reasons \in Reasons
<1> DEFINE hard    == HardFailures(policy, checks)
           pending == Pending(policy, checks)
           review  == NeedReview(policy, checks)
           weak    == Below(ReviewThreshold, policy, checks, internal)
           medium  == Below(AcceptThreshold, policy, checks, internal)
           d       == Decide(policy, checks, internal)
<1>1. hard \subseteq Steps /\ pending \subseteq Steps /\ review \subseteq Steps
  BY PolicyType DEF HardFailures, Pending, NeedReview, SoftFailures, WithStatus
<1>2. /\ hard \X {"FAILED"} \in Reasons
      /\ pending \X {"PENDING"} \in Reasons
      /\ review \X {"REVIEW"} \in Reasons
      /\ {<<"SCORE", "LOW_CONFIDENCE">>} \in Reasons
      /\ {<<"SCORE", "MEDIUM_CONFIDENCE">>} \in Reasons
      /\ {} \in Reasons
  <2> HIDE DEF hard, pending, review
  <2> QED BY <1>1 DEF Reasons, Why
<1>3. \/ d = Decision("REJECTED", TRUE, hard \X {"FAILED"})
      \/ d = Decision("IN_PROGRESS", FALSE, pending \X {"PENDING"})
      \/ d = Decision("REVIEW", TRUE, review \X {"REVIEW"})
      \/ d = Decision("REJECTED", TRUE, {<<"SCORE", "LOW_CONFIDENCE">>})
      \/ d = Decision("REVIEW", TRUE, {<<"SCORE", "MEDIUM_CONFIDENCE">>})
      \/ d = Decision("VERIFIED", TRUE, {})
  <2>1. d = CASE hard # {} -> Decision("REJECTED", TRUE, hard \X {"FAILED"})
              [] hard = {} /\ pending # {} ->
                   Decision("IN_PROGRESS", FALSE, pending \X {"PENDING"})
              [] hard = {} /\ pending = {} /\ review # {} ->
                   Decision("REVIEW", TRUE, review \X {"REVIEW"})
              [] hard = {} /\ pending = {} /\ review = {} /\ weak ->
                   Decision("REJECTED", TRUE, {<<"SCORE", "LOW_CONFIDENCE">>})
              [] hard = {} /\ pending = {} /\ review = {} /\ ~weak /\ medium ->
                   Decision("REVIEW", TRUE, {<<"SCORE", "MEDIUM_CONFIDENCE">>})
              [] OTHER -> Decision("VERIFIED", TRUE, {})
    BY DEF Decide
  <2> HIDE DEF hard, pending, review, weak, medium, d
  <2> QED BY <2>1
<1> HIDE DEF hard, pending, review, d
<1>4. PICK status, completed, reasons :
        /\ d = Decision(status, completed, reasons)
        /\ reasons \in Reasons
        /\ \/ completed = TRUE /\ status \in EngineVerdicts
           \/ completed = FALSE /\ status = "IN_PROGRESS"
  BY <1>2, <1>3 DEF EngineVerdicts
<1>5. d.status = status /\ d.completed = completed /\ d.reasons = reasons
  BY <1>4 DEF Decision
<1>6. /\ d.status \in EngineVerdicts \cup {"IN_PROGRESS"}
      /\ d.completed \in BOOLEAN /\ (d.completed <=> d.status \in EngineVerdicts)
      /\ d.reasons \in Reasons
  BY <1>4, <1>5 DEF EngineVerdicts
<1> QED BY <1>6 DEF d

-----------------------------------------------------------------------------
(***************************************************************************)
(* What a transaction may leave in the row before it evaluates.            *)
(***************************************************************************)
Written(r) ==
  /\ r \in Session
  /\ r.completed = session.completed
  /\ session.consent => r.consent
  /\ \/ r.status = session.status
     \/ session.status = "CREATED" /\ r.status = "IN_PROGRESS"
  /\ r.status = "CREATED" => r.checks = session.checks

\* Nothing written: the row itself.
LEMMA WrittenRow == TypeOK => Written(session)
BY DEF TypeOK, Written

\* set_check() on such a row gives such a row, and never a CREATED one.
LEMMA WrittenCheck ==
  ASSUME NEW r, Written(r), NEW step \in Steps, NEW status \in CheckStatus,
         NEW score \in Percent
  PROVE  /\ Written(SetCheck(r, step, status, score))
         /\ SetCheck(r, step, status, score).status # "CREATED"
<1> DEFINE q == SetCheck(r, step, status, score)
<1>1. r \in Session
  BY DEF Written
<1>2. /\ q \in Session
      /\ q.completed = r.completed /\ q.consent = r.consent
      /\ q.status = IF r.status = "CREATED" THEN "IN_PROGRESS" ELSE r.status
  BY <1>1 DEF SetCheck, Session, SessionStatus
<1> HIDE DEF q
<1>3. Written(q) /\ q.status # "CREATED"
  BY <1>2 DEF Written
<1> QED BY <1>3 DEF q

\* So does the write for a step of the flow only.
LEMMA WrittenRequired ==
  ASSUME NEW r, Written(r), NEW step \in Steps, NEW passed \in BOOLEAN,
         NEW score \in Percent
  PROVE  Written(SetRequired(r, step, passed, score))
<1>1. Written(SetCheck(r, step, IF passed THEN "PASSED" ELSE "FAILED", score))
  BY WrittenCheck DEF CheckStatus
<1> QED BY <1>1 DEF SetRequired

\* And so does a failure hook.
LEMMA WrittenReview ==
  ASSUME NEW r, Written(r), NEW steps \in SUBSET Steps
  PROVE  Written(SendToReview(r, steps))
<1> DEFINE q == SendToReview(r, steps)
<1>1. r \in Session
  BY DEF Written
<1> DEFINE checks   == [s \in Steps |-> IF s \in steps THEN "REVIEW" ELSE r.checks[s]]
           internal == [s \in Steps |-> IF s \in steps THEN 50 ELSE r.internal[s]]
           status   == IF steps # {} /\ r.status = "CREATED" THEN "IN_PROGRESS" ELSE r.status
<1>a. /\ checks \in [Steps -> CheckStatus]
      /\ internal \in [Steps -> Percent]
      /\ status \in SessionStatus
  BY <1>1 DEF Session, SessionStatus, CheckStatus, Percent
<1>b. q = [r EXCEPT !.checks = checks, !.internal = internal, !.status = status]
  BY DEF SendToReview
<1>2. /\ q \in Session
      /\ q.completed = r.completed /\ q.consent = r.consent
      /\ q.status = IF steps # {} /\ r.status = "CREATED" THEN "IN_PROGRESS" ELSE r.status
      /\ q.checks = [s \in Steps |-> IF s \in steps THEN "REVIEW" ELSE r.checks[s]]
  <2>1. /\ q \in Session /\ q.completed = r.completed /\ q.consent = r.consent
        /\ q.status = status /\ q.checks = checks
    <3> HIDE DEF checks, internal, status, q
    <3> QED BY <1>1, <1>a, <1>b DEF Session
  <2> QED BY <2>1
<1>3. steps = {} => q.checks = r.checks
  BY <1>1, <1>2 DEF Session
<1> HIDE DEF q
<1>4. Written(q)
  BY <1>2, <1>3 DEF Written
<1> QED BY <1>4 DEF q

-----------------------------------------------------------------------------
(***************************************************************************)
(* What a step does to the part of the row a tenant sees.                  *)
(***************************************************************************)

\* The strengthening: beside the trail, the flags that evaluate() branches on.
Coherent ==
  /\ VerdictTraced
  /\ OneVerdict
  /\ Open => ~session.completed /\ outbox = <<>>
  /\ ~Open /\ ~session.completed => session.status = "EXPIRED"
  /\ session.status = "CREATED" => session.checks = [s \in Steps |-> "PENDING"]
  /\ session.status # "PROCESSING"

Proceeds ==
  /\ \/ session'.status = session.status
     \/ session.status = "CREATED" /\ session'.status = "IN_PROGRESS"
  /\ session'.completed = session.completed
  /\ UNCHANGED <<trail, outbox>>

Concludes(event, status) ==
  /\ session'.status = status
  /\ trail' = Append(trail, [event |-> event, status |-> status])
  /\ outbox' = IF session.status # status THEN QueueEvent(status) ELSE outbox

Decides ==
  /\ Open
  /\ session'.completed
  /\ \E status \in EngineVerdicts : Concludes("KYC_DECISION", status)

Expires ==
  /\ Open
  /\ session'.completed = session.completed
  /\ Concludes("SESSION_EXPIRED", "EXPIRED")

Overrides ==
  /\ session'.completed
  /\ overrides' = overrides + 1
  /\ \E status \in Terminal : Concludes("DECISION_OVERRIDDEN", status)

RowStep == Proceeds \/ Decides \/ Expires \/ Overrides

\* evaluate() keeps the types.
LEMMA EvaluateType ==
  ASSUME TypeOK, NEW r, Written(r), Evaluate(r)
  PROVE  /\ session' \in Session /\ trail' \in Seq(Verdict)
         /\ blocked' \in Nat /\ outbox' \in Seq(Terminal)
         /\ updated' \in 0 .. Stuck /\ reconciled' \in 0 .. Stuck /\ ttl' \in 0 .. TTL
<1> DEFINE d == Decide(policy, r.checks, r.internal)
<1>1. /\ r \in Session
      /\ r.checks \in [Steps -> CheckStatus]
  BY DEF Written, Session
<1>2. /\ d.status \in EngineVerdicts \cup {"IN_PROGRESS"}
      /\ d.completed \in BOOLEAN /\ (d.completed <=> d.status \in EngineVerdicts)
      /\ d.reasons \in Reasons
  BY <1>1, DecideType
<1>3. updated' \in 0 .. Stuck /\ reconciled' \in 0 .. Stuck /\ ttl' \in 0 .. TTL
  BY SessionAssumption DEF Evaluate, Touch, TypeOK
<1>4. CASE Blocked(r)
  BY <1>1, <1>3, <1>4 DEF Blocked, TypeOK
<1>5. CASE Concluded(r)
  <2>1. /\ session' = [r EXCEPT !.status    = d.status,
                                !.reasons   = IF d.completed THEN d.reasons ELSE {},
                                !.completed = r.completed \/ d.completed]
        /\ trail' = IF d.completed /\ ~r.completed
                    THEN Append(trail, [event |-> "KYC_DECISION", status |-> d.status])
                    ELSE trail
        /\ outbox' = IF d.completed /\ r.status # d.status THEN QueueEvent(d.status) ELSE outbox
        /\ blocked' = blocked
    BY <1>5 DEF Concluded
  <2> HIDE DEF d
  <2>2. session' \in Session
    <3>1. {} \in Reasons
      BY DEF Reasons
    <3>2. r.completed \in BOOLEAN
      BY <1>1 DEF Session
    <3>3. (r.completed \/ d.completed) \in BOOLEAN
      OBVIOUS
    <3> QED BY <1>1, <1>2, <2>1, <3>1, <3>3 DEF Session, SessionStatus, Terminal, EngineVerdicts
  <2>3. trail' \in Seq(Verdict)
    <3>1. d.completed => [event |-> "KYC_DECISION", status |-> d.status] \in Verdict
      BY <1>2 DEF Verdict, Terminal, EngineVerdicts
    <3>2. trail \in Seq(Verdict)
      BY DEF TypeOK
    <3> QED BY <2>1, <3>1, <3>2
  <2>4. outbox' \in Seq(Terminal)
    BY <1>2, <2>1 DEF QueueEvent, TypeOK, Terminal, EngineVerdicts
  <2> QED BY <1>3, <2>1, <2>2, <2>3, <2>4 DEF TypeOK
<1> QED BY <1>4, <1>5 DEF Evaluate

\* evaluate() either changes nothing a tenant sees, or closes an open
\* session with one decision.
LEMMA EvaluateRow ==
  ASSUME TypeOK, Coherent, NEW r, Written(r), Evaluate(r)
  PROVE  Proceeds \/ Decides
<1> DEFINE d == Decide(policy, r.checks, r.internal)
<1>1. r \in Session /\ r.checks \in [Steps -> CheckStatus]
  BY DEF Written, Session
<1>2. /\ d.status \in EngineVerdicts \cup {"IN_PROGRESS"}
      /\ d.completed \in BOOLEAN /\ (d.completed <=> d.status \in EngineVerdicts)
  BY <1>1, DecideType
<1>3. CASE Blocked(r)
  BY <1>3 DEF Blocked, Written, Proceeds
<1>4. CASE Concluded(r)
  <2>1. /\ d.status \in AllowedTransitions(r.status)
        /\ session'.status = d.status
        /\ session'.completed = (r.completed \/ d.completed)
        /\ trail' = IF d.completed /\ ~r.completed
                    THEN Append(trail, [event |-> "KYC_DECISION", status |-> d.status])
                    ELSE trail
        /\ outbox' = IF d.completed /\ r.status # d.status THEN QueueEvent(d.status) ELSE outbox
    BY <1>1, <1>4 DEF Concluded, Session
  <2> HIDE DEF d
  <2>2. CASE r.status \in Terminal
    <3>1. r.status = session.status /\ d.status = r.status
      BY <2>1, <2>2 DEF Written, AllowedTransitions, Terminal
    <3>2. d.status \in EngineVerdicts
      BY <1>2, <2>2, <3>1 DEF Terminal
    <3>3. r.completed /\ r.completed = session.completed
      BY <2>2, <3>1, <3>2 DEF Coherent, Open, Written, EngineVerdicts
    <3>4. session'.completed = session.completed
      BY <2>1, <3>3, <1>1 DEF Session
    <3> QED BY <2>1, <3>1, <3>3, <3>4 DEF Proceeds
  <2>3. CASE r.status \notin Terminal /\ d.status = "IN_PROGRESS"
    <3>1. session.status \in {"CREATED", "IN_PROGRESS"}
      BY <2>3 DEF Written, Coherent, TypeOK, Session, SessionStatus, Terminal
    <3>2. ~d.completed /\ d.completed = FALSE
      BY <1>2, <2>3 DEF EngineVerdicts
    <3>3. session'.completed = session.completed
      BY <2>1, <3>2, <1>1 DEF Written, Session
    <3> QED BY <2>1, <2>3, <3>1, <3>2, <3>3 DEF Proceeds
  <2>4. CASE r.status \notin Terminal /\ d.status \in EngineVerdicts
    <3>1. Open /\ session.status \notin EngineVerdicts
      BY <2>4 DEF Written, Open, Terminal, EngineVerdicts
    <3>2. d.completed /\ ~r.completed
      BY <1>2, <2>4, <3>1 DEF Coherent, Written
    <3>3. r.status # d.status /\ session.status # d.status
      BY <2>4, <3>1 DEF Terminal, EngineVerdicts
    <3>4. session'.completed
      BY <2>1, <3>2
    <3> QED BY <2>1, <2>4, <3>1, <3>2, <3>3, <3>4 DEF Decides, Concludes
  <2> QED BY <1>2, <2>2, <2>3, <2>4
<1> QED BY <1>3, <1>4 DEF Evaluate

-----------------------------------------------------------------------------
(***************************************************************************)
(* Type correctness.                                                       *)
(***************************************************************************)

\* Every evaluating transaction writes such a row first.
LEMMA WrittenSelfie ==
  ASSUME TypeOK, NEW liveness \in Scores, NEW match \in Scores,
         NEW live \in BOOLEAN, NEW matched \in BOOLEAN
  PROVE  Written(SetRequired(SetRequired(session, "LIVENESS", live, liveness),
                             "FACE_MATCH", matched, IF matched THEN match ELSE 0))
<1> DEFINE first == SetRequired(session, "LIVENESS", live, liveness)
<1>1. liveness \in Percent /\ (IF matched THEN match ELSE 0) \in Percent
  BY SessionAssumption DEF Percent
<1>2. Written(first)
  BY <1>1, WrittenRow, WrittenRequired DEF Steps
<1> HIDE DEF first
<1>3. Written(SetRequired(first, "FACE_MATCH", matched, IF matched THEN match ELSE 0))
  BY <1>1, <1>2, WrittenRequired DEF Steps
<1> QED BY <1>3 DEF first

LEMMA SelfieEvaluates ==
  ASSUME NEW w, ApplySelfie(w)
  PROVE  \E liveness, match \in Scores, live, matched \in BOOLEAN :
           Evaluate(SetRequired(SetRequired(session, "LIVENESS", live, liveness),
                                "FACE_MATCH", matched, IF matched THEN match ELSE 0))
<1>1. PICK liveness \in Scores, match \in Scores :
        LET live    == liveness >= LivenessThreshold
            matched == live /\ documents > 0 /\ match >= FaceThreshold
        IN  Evaluate(SetRequired(SetRequired(session, "LIVENESS", live, liveness),
                                 "FACE_MATCH", matched, IF matched THEN match ELSE 0))
  BY DEF ApplySelfie
<1> DEFINE live    == liveness >= LivenessThreshold
           matched == live /\ documents > 0 /\ match >= FaceThreshold
<1>2. live \in BOOLEAN /\ matched \in BOOLEAN
  OBVIOUS
<1>3. Evaluate(SetRequired(SetRequired(session, "LIVENESS", live, liveness),
                           "FACE_MATCH", matched, IF matched THEN match ELSE 0))
  BY <1>1
<1> HIDE DEF live, matched
<1> QED BY <1>2, <1>3

LEMMA WrittenDocument ==
  ASSUME TypeOK, NEW authentic \in BOOLEAN, NEW score \in Scores
  PROVE  Written(SetCheck(session, "DOCUMENT_VERIFICATION",
                          DocumentStatus(authentic, score), score))
<1>1. score \in Percent /\ DocumentStatus(authentic, score) \in CheckStatus
  BY SessionAssumption DEF DocumentStatus, CheckStatus
<1> QED BY <1>1, WrittenRow, WrittenCheck DEF Steps

LEMMA WrittenOtp ==
  ASSUME TypeOK, NEW status \in {"PASSED", "FAILED"}, NEW score \in {0, 100}
  PROVE  /\ Written(SetCheck(session, "OTP", status, score))
         /\ SetCheck(session, "OTP", status, score).status # "CREATED"
<1>1. score \in Percent /\ status \in CheckStatus
  BY DEF Percent, CheckStatus
<1> QED BY <1>1, WrittenRow, WrittenCheck DEF Steps

LEMMA WrittenHook ==
  ASSUME TypeOK, NEW w \in Workers
  PROVE  Written(SendToReview(session, runs[w].saw))
<1>1. runs[w].saw \in SUBSET Steps
  BY DEF TypeOK, Run
<1> QED BY <1>1, WrittenRow, WrittenReview

\* One more event for the tenant.
LEMMA QueueEventType ==
  ASSUME TypeOK, NEW status \in Terminal
  PROVE  QueueEvent(status) \in Seq(Terminal)
BY DEF QueueEvent, TypeOK

\* One more message on the queue.
LEMMA QueueMore ==
  ASSUME NEW kind \in Kinds, NEW tries \in Tries, queue \in [Kinds \X Tries -> Nat]
  PROVE  [queue EXCEPT ![<<kind, tries>>] = @ + 1] \in [Kinds \X Tries -> Nat]
<1> DEFINE m == <<kind, tries>>
<1>1. m \in Kinds \X Tries
  OBVIOUS
<1>2. queue[m] + 1 \in Nat
  BY <1>1
<1> HIDE DEF m
<1>3. [queue EXCEPT ![m] = queue[m] + 1] \in [Kinds \X Tries -> Nat]
  BY <1>1, <1>2
<1> QED BY <1>3 DEF m

\* The end user's requests keep the types.
LEMMA RequestsType == TypeOK /\ Requests => TypeOK'
<1> SUFFICES ASSUME TypeOK, NEW c \in Clients,
                    \/ \E op \in UserOps : Admit(c, op)
                    \/ RequestEnds(c)
                    \/ GrantConsent(c)
                    \/ \E kind \in Kinds : Upload(c, kind)
                    \/ Dispatch(c)
                    \/ SendOtp(c)
                    \/ VerifyAgain(c) \/ VerifyRight(c) \/ VerifyWrong(c) \/ VerifyExhausted(c)
             PROVE  TypeOK'
  BY DEF Requests
<1>a. NoRequest \in Request
  BY DEF NoRequest, Request, Ops
<1>b. Answer(c) => requests' \in [Clients -> Request]
  BY <1>a DEF Answer, TypeOK
<1>1. ASSUME NEW op \in UserOps, Admit(c, op) PROVE TypeOK'
  <2>1. [phase |-> "open", op |-> op] \in Request
    BY SessionAssumption DEF Request
  <2>2. requests' \in [Clients -> Request]
    BY <1>1, <2>1 DEF Admit, TypeOK
  <2> QED BY <1>1, <2>2 DEF Admit, TypeOK, row, broker, clock
<1>2. CASE RequestEnds(c)
  BY <1>b, <1>2 DEF RequestEnds, TypeOK, row, broker, clock
<1>3. CASE GrantConsent(c)
  <2>1. session' \in Session
    BY <1>3 DEF GrantConsent, TypeOK, Session
  <2>2. updated' \in 0 .. Stuck
    BY <1>3, SessionAssumption DEF GrantConsent, Touch
  <2> QED BY <1>b, <1>3, <2>1, <2>2 DEF GrantConsent, Touch, TypeOK, broker
<1>4. ASSUME NEW kind \in Kinds, Upload(c, kind) PROVE TypeOK'
  <2>1. [requests[c] EXCEPT !.phase = "dispatch"] = [phase |-> "dispatch", op |-> kind]
    BY <1>4 DEF Upload, Serves
  <2>2. requests' \in [Clients -> Request]
    BY <1>4, <2>1 DEF Upload, TypeOK, Request
  <2> QED BY <1>4, <2>2 DEF Upload, TypeOK, row, broker, clock
<1>5. CASE Dispatch(c)
  <2>1. requests[c].op \in Kinds /\ 0 \in Tries
    <3>1. requests[c] \in Request /\ requests[c].phase = "dispatch"
      BY <1>5 DEF Dispatch, TypeOK
    <3> QED BY <3>1, SessionAssumption DEF Request, Tries
  <2>2. queue' \in [Kinds \X Tries -> Nat]
    BY <1>5, <2>1, QueueMore DEF Dispatch, TypeOK
  <2> QED BY <1>b, <1>5, <2>2 DEF Dispatch, TypeOK, row, clock
<1>6. CASE SendOtp(c)
  <2>1. otp' \in Challenge
    BY <1>6, SessionAssumption DEF SendOtp, Challenge
  <2> QED BY <1>b, <1>6, <2>1 DEF SendOtp, TypeOK, row, broker, clock
<1>7. CASE VerifyAgain(c)
  BY <1>b, <1>7, WrittenRow, EvaluateType DEF VerifyAgain, TypeOK, broker
<1>8. CASE VerifyRight(c)
  <2>1. otp' \in Challenge
    BY <1>8, SessionAssumption DEF VerifyRight, TypeOK, Challenge
  <2>2. Written(SetCheck(session, "OTP", "PASSED", 100))
    BY WrittenOtp
  <2> QED BY <1>b, <1>8, <2>1, <2>2, EvaluateType DEF VerifyRight, TypeOK, broker
<1>9. CASE VerifyWrong(c)
  <2>1. otp.attempts + 1 \in 0 .. OtpMaxAttempts
    <3>1. otp.attempts \in Nat
      BY SessionAssumption DEF TypeOK, Challenge
    <3> QED BY <1>9, <3>1, SessionAssumption DEF VerifyWrong
  <2>2. otp' \in Challenge
    BY <1>9, <2>1 DEF VerifyWrong, TypeOK, Challenge
  <2> QED BY <1>b, <1>9, <2>2 DEF VerifyWrong, TypeOK, row, broker, clock
<1>10. CASE VerifyExhausted(c)
  <2>a. OtpMaxAttempts \in 0 .. OtpMaxAttempts
    BY SessionAssumption
  <2>1. otp' \in Challenge
    BY <1>10, <2>a DEF VerifyExhausted, TypeOK, Challenge
  <2>2. session' \in Session
    BY <1>10, WrittenOtp DEF VerifyExhausted, Written
  <2>3. updated' \in 0 .. Stuck
    BY <1>10, SessionAssumption DEF VerifyExhausted, Touch
  <2> QED BY <1>b, <1>10, <2>1, <2>2, <2>3 DEF VerifyExhausted, Touch, TypeOK, broker
<1> QED BY <1>1, <1>2, <1>3, <1>4, <1>5, <1>6, <1>7, <1>8, <1>9, <1>10

\* The tasks and their failure hooks keep the types.
LEMMA TasksType == TypeOK /\ Tasks => TypeOK'
<1> SUFFICES ASSUME TypeOK, NEW w \in Workers,
                    \/ \E kind \in Kinds, tries \in Tries :
                         StartRun(w, kind, tries) \/ AlreadyApplied(w, kind, tries)
                    \/ ApplyDocument(w) \/ ApplySelfie(w)
                    \/ RetryRun(w) \/ FailRun(w) \/ HookReads(w) \/ HookApplies(w)
                    \/ LoseRun(w) \/ Redeliver(w)
             PROVE  TypeOK'
  BY DEF Tasks
<1>a. NoRun \in Run
  BY SessionAssumption DEF NoRun, Run, Kinds, Tries
<1>b. Ends(w) => runs' \in [Workers -> Run]
  BY <1>a DEF Ends, TypeOK
<1>c. ASSUME NEW kind \in Kinds, NEW tries \in Tries, Take(kind, tries)
      PROVE  queue' \in [Kinds \X Tries -> Nat]
  BY <1>c DEF Take, TypeOK
<1>1. ASSUME NEW kind \in Kinds, NEW tries \in Tries, StartRun(w, kind, tries)
      PROVE  TypeOK'
  <2>1. [phase |-> "working", kind |-> kind, tries |-> tries, saw |-> {}] \in Run
    BY DEF Run
  <2>2. runs' \in [Workers -> Run]
    BY <1>1, <2>1 DEF StartRun, TypeOK
  <2> QED BY <1>1, <1>c, <2>2 DEF StartRun, TypeOK, row, user, clock
<1>2. ASSUME NEW kind \in Kinds, NEW tries \in Tries, AlreadyApplied(w, kind, tries)
      PROVE  TypeOK'
  BY <1>2, <1>c DEF AlreadyApplied, TypeOK, row, user, clock
<1>3. CASE ApplyDocument(w)
  <2>1. PICK authentic \in BOOLEAN, score \in Scores :
          Evaluate(SetCheck(session, "DOCUMENT_VERIFICATION",
                            DocumentStatus(authentic, score), score))
    BY <1>3 DEF ApplyDocument
  <2> QED BY <1>b, <1>3, <2>1, WrittenDocument, EvaluateType DEF ApplyDocument, TypeOK, user
<1>4. CASE ApplySelfie(w)
  <2>1. PICK liveness \in Scores, match \in Scores, live \in BOOLEAN, matched \in BOOLEAN :
          Evaluate(SetRequired(SetRequired(session, "LIVENESS", live, liveness),
                               "FACE_MATCH", matched, IF matched THEN match ELSE 0))
    BY <1>4, SelfieEvaluates
  <2> QED BY <1>b, <1>4, <2>1, WrittenSelfie, EvaluateType DEF ApplySelfie, TypeOK, user
<1>5. CASE RetryRun(w)
  <2>1. runs[w].tries + 1 \in Tries /\ runs[w].kind \in Kinds
    BY <1>5, SessionAssumption DEF RetryRun, TypeOK, Run, Tries
  <2>2. queue' \in [Kinds \X Tries -> Nat]
    BY <1>5, <2>1, QueueMore DEF RetryRun, TypeOK
  <2> QED BY <1>b, <1>5, <2>2 DEF RetryRun, TypeOK, row, user, clock
<1>6. CASE FailRun(w)
  <2>1. runs' \in [Workers -> Run]
    BY <1>6 DEF FailRun, TypeOK, Run
  <2> QED BY <1>6, <2>1 DEF FailRun, TypeOK, row, user, clock
<1>7. CASE HookReads(w)
  <2>1. {s \in HookSteps(runs[w].kind) : session.checks[s] = "PENDING"} \in SUBSET Steps
    BY DEF HookSteps, Steps
  <2>2. runs' \in [Workers -> Run]
    <3>1. CASE Open
      BY <1>7, <2>1, <3>1 DEF HookReads, TypeOK, Run
    <3>2. CASE ~Open
      BY <1>7, <1>a, <3>2 DEF HookReads, TypeOK
    <3> QED BY <3>1, <3>2
  <2> QED BY <1>7, <2>2 DEF HookReads, TypeOK, row, user, clock
<1>8. CASE HookApplies(w)
  BY <1>b, <1>8, WrittenHook, EvaluateType DEF HookApplies, TypeOK, user
<1>9. CASE LoseRun(w)
  BY <1>b, <1>9 DEF LoseRun, TypeOK, row, user, clock
<1>10. CASE Redeliver(w)
  <2>1. queue' \in [Kinds \X Tries -> Nat]
    <3>1. runs[w].kind \in Kinds /\ runs[w].tries \in Tries
      BY DEF TypeOK, Run
    <3> QED BY <1>10, <3>1, QueueMore DEF Redeliver, TypeOK
  <2> QED BY <1>10, <2>1 DEF Redeliver, TypeOK, row, user, clock
<1> QED BY <1>1, <1>2, <1>3, <1>4, <1>5, <1>6, <1>7, <1>8, <1>9, <1>10

\* The sweep keeps the types.
LEMMA SweepType == TypeOK /\ (Sweeping \/ SweepFails) => TypeOK'
<1> SUFFICES ASSUME TypeOK,
                    SweepScan \/ SweepExpires \/ SweepMarks \/ SweepDispatches \/ SweepFails
             PROVE  TypeOK'
  BY DEF Sweeping
<1>a. NoSweep \in Sweep
  BY DEF NoSweep, Sweep
<1>b. 0 \in 0 .. Stuck
  BY SessionAssumption
<1>1. CASE SweepScan
  <2>1. Lost \in SUBSET Kinds
    BY DEF Lost
  <2>2. sweep' \in Sweep
    BY <1>1, <2>1 DEF SweepScan, Sweep
  <2> QED BY <1>1, <2>2 DEF SweepScan, TypeOK, row, user, broker, clock
<1>2. CASE SweepExpires
  <2>1. CASE Open
    <3>1. session' \in Session
      BY <1>2, <2>1 DEF SweepExpires, TypeOK, Session, SessionStatus, Terminal
    <3>2. [event |-> "SESSION_EXPIRED", status |-> "EXPIRED"] \in Verdict
      BY DEF Verdict, Terminal
    <3>3. trail' \in Seq(Verdict)
      BY <1>2, <2>1, <3>2 DEF SweepExpires, TypeOK
    <3>4. outbox' \in Seq(Terminal)
      <4>1. QueueEvent("EXPIRED") \in Seq(Terminal)
        BY QueueEventType DEF Terminal
      <4> QED BY <1>2, <2>1, <4>1 DEF SweepExpires
    <3> QED BY <1>2, <1>a, <1>b, <2>1, <3>1, <3>3, <3>4
            DEF SweepExpires, Touch, TypeOK, user, broker
  <2>2. CASE ~Open
    BY <1>2, <1>a, <1>b, <2>2 DEF SweepExpires, Touch, TypeOK, row, user, broker
  <2> QED BY <2>1, <2>2
<1>3. CASE SweepMarks
  <2>1. sweep' \in Sweep
    BY <1>3 DEF SweepMarks, TypeOK, Sweep
  <2> QED BY <1>3, <1>b, <2>1 DEF SweepMarks, TypeOK, row, user, broker
<1>4. CASE SweepDispatches
  <2>1. queue' \in [Kinds \X Tries -> Nat]
    <3>1. ASSUME NEW m \in Kinds \X Tries
          PROVE  (IF m[1] \in sweep.todo /\ m[2] = 0 THEN queue[m] + 1 ELSE queue[m]) \in Nat
      <4>1. queue[m] \in Nat
        BY <3>1 DEF TypeOK
      <4> QED BY <4>1
    <3> QED BY <1>4, <3>1 DEF SweepDispatches
  <2> QED BY <1>4, <1>a, <2>1 DEF SweepDispatches, TypeOK, row, user, clock
<1>5. CASE SweepFails
  BY <1>5, <1>a DEF SweepFails, TypeOK, row, user, broker, clock
<1> QED BY <1>1, <1>2, <1>3, <1>4, <1>5

\* So does the operator.
LEMMA OverrideType ==
  ASSUME TypeOK, NEW target \in Terminal, Override(target)
  PROVE  TypeOK'
<1>1. session' \in Session
  BY DEF Override, TypeOK, Session, SessionStatus
<1>2. trail' \in Seq(Verdict)
  <2>1. [event |-> "DECISION_OVERRIDDEN", status |-> target] \in Verdict
    BY DEF Verdict
  <2> QED BY <2>1 DEF Override, TypeOK
<1>3. outbox' \in Seq(Terminal)
  BY QueueEventType DEF Override, TypeOK
<1>4. updated' \in 0 .. Stuck
  BY SessionAssumption DEF Override, Touch
<1> QED BY <1>1, <1>2, <1>3, <1>4 DEF Override, Touch, TypeOK, user, broker

\* And time.
LEMMA TimeType == TypeOK /\ (OtpExpires \/ Tick) => TypeOK'
<1>1. ASSUME TypeOK, OtpExpires PROVE TypeOK'
  <2>1. otp' \in Challenge
    BY <1>1 DEF OtpExpires, TypeOK, Challenge
  <2> QED BY <1>1, <2>1 DEF OtpExpires, TypeOK, row, broker, clock
<1>2. ASSUME TypeOK, Tick PROVE TypeOK'
  <2>1. updated' \in 0 .. Stuck /\ reconciled' \in 0 .. Stuck
    BY <1>2, SessionAssumption DEF Tick, Older, TypeOK
  <2>2. ttl' \in 0 .. TTL
    BY <1>2, SessionAssumption DEF Tick, TypeOK
  <2> QED BY <1>2, <2>1, <2>2 DEF Tick, TypeOK, row, user, broker
<1> QED BY <1>1, <1>2

LEMMA InitType == Init => TypeOK
<1> SUFFICES ASSUME Init PROVE TypeOK
  OBVIOUS
<1>1. session \in Session
  BY DEF Init, Session, SessionStatus, CheckStatus, Reasons, Percent
<1>2. otp \in Challenge
  BY SessionAssumption DEF Init, Challenge
<1>3. requests \in [Clients -> Request]
  BY DEF Init, NoRequest, Request, Ops
<1>4. runs \in [Workers -> Run]
  BY SessionAssumption DEF Init, NoRun, Run, Kinds, Tries
<1>5. sweep \in Sweep
  BY DEF Init, NoSweep, Sweep
<1>6. updated \in 0 .. Stuck /\ reconciled \in 0 .. Stuck /\ ttl \in 0 .. TTL
  BY SessionAssumption DEF Init
<1> QED BY <1>1, <1>2, <1>3, <1>4, <1>5, <1>6, SessionAssumption DEF Init, TypeOK

LEMMA NextType == TypeOK /\ [Next]_vars => TypeOK'
<1>1. ASSUME TypeOK, UNCHANGED vars PROVE TypeOK'
  BY <1>1 DEF vars, row, user, broker, clock, TypeOK
<1> QED BY <1>1, RequestsType, TasksType, SweepType, OverrideType, TimeType DEF Next

\* Every reachable state has its type, whatever the flow, the settings and the
\* number of workers and requests.
THEOREM TypeCorrect == Spec => []TypeOK
<1>1. Init => TypeOK
  BY InitType
<1>2. TypeOK /\ [Next]_vars => TypeOK'
  BY NextType
<1> QED BY <1>1, <1>2, PTL DEF Spec

-----------------------------------------------------------------------------
(***************************************************************************)
(* Every step, as the row sees it.                                         *)
(***************************************************************************)

\* A transaction that evaluates what it wrote.
Evaluates == \E r \in Session : Written(r) /\ Evaluate(r)

\* One that does not: its writes are all the row gets, and the only check
\* among them is the OTP that the last attempt failed.
Writes ==
  /\ Written(session')
  /\ session'.checks = session.checks \/ session'.checks["OTP"] = "FAILED"
  /\ UNCHANGED <<trail, blocked, outbox>>

LEMMA RequestsRow == TypeOK /\ Requests => Evaluates \/ Writes
<1> SUFFICES ASSUME TypeOK, NEW c \in Clients,
                    \/ \E op \in UserOps : Admit(c, op)
                    \/ RequestEnds(c)
                    \/ GrantConsent(c)
                    \/ \E kind \in Kinds : Upload(c, kind)
                    \/ Dispatch(c)
                    \/ SendOtp(c)
                    \/ VerifyAgain(c) \/ VerifyRight(c) \/ VerifyWrong(c) \/ VerifyExhausted(c)
             PROVE  Evaluates \/ Writes
  BY DEF Requests
<1>0. ASSUME UNCHANGED row PROVE Writes
  BY <1>0, WrittenRow DEF row, Writes, Written
<1>1. CASE \/ \E op \in UserOps : Admit(c, op)
           \/ RequestEnds(c)
           \/ \E kind \in Kinds : Upload(c, kind)
           \/ Dispatch(c) \/ SendOtp(c) \/ VerifyWrong(c)
  BY <1>0, <1>1 DEF Admit, RequestEnds, Upload, Dispatch, SendOtp, VerifyWrong
<1>2. CASE GrantConsent(c)
  BY <1>2 DEF GrantConsent, Writes, Written, TypeOK, Session
<1>3. CASE VerifyAgain(c)
  BY <1>3, WrittenRow DEF VerifyAgain, Evaluates, Written
<1>4. CASE VerifyRight(c)
  BY <1>4, WrittenOtp DEF VerifyRight, Evaluates, Written
<1>5. CASE VerifyExhausted(c)
  <2>1. session' = SetCheck(session, "OTP", "FAILED", 0)
    BY <1>5 DEF VerifyExhausted
  <2>2. session'.checks["OTP"] = "FAILED"
    BY <2>1 DEF SetCheck, TypeOK, Session, Steps
  <2> QED BY <1>5, <2>1, <2>2, WrittenOtp DEF VerifyExhausted, Writes
<1> QED BY <1>1, <1>2, <1>3, <1>4, <1>5

LEMMA TasksRow == TypeOK /\ Tasks => Evaluates \/ Writes
<1> SUFFICES ASSUME TypeOK, NEW w \in Workers,
                    \/ \E kind \in Kinds, tries \in Tries :
                         StartRun(w, kind, tries) \/ AlreadyApplied(w, kind, tries)
                    \/ ApplyDocument(w) \/ ApplySelfie(w)
                    \/ RetryRun(w) \/ FailRun(w) \/ HookReads(w) \/ HookApplies(w)
                    \/ LoseRun(w) \/ Redeliver(w)
             PROVE  Evaluates \/ Writes
  BY DEF Tasks
<1>0. ASSUME UNCHANGED row PROVE Writes
  BY <1>0, WrittenRow DEF row, Writes, Written
<1>1. CASE \/ \E kind \in Kinds, tries \in Tries :
                 StartRun(w, kind, tries) \/ AlreadyApplied(w, kind, tries)
           \/ RetryRun(w) \/ FailRun(w) \/ HookReads(w) \/ LoseRun(w) \/ Redeliver(w)
  BY <1>0, <1>1 DEF StartRun, AlreadyApplied, RetryRun, FailRun, HookReads, LoseRun, Redeliver
<1>2. CASE ApplyDocument(w)
  BY <1>2, WrittenDocument DEF ApplyDocument, Evaluates, Written
<1>3. CASE ApplySelfie(w)
  <2>1. PICK liveness \in Scores, match \in Scores, live \in BOOLEAN, matched \in BOOLEAN :
          Evaluate(SetRequired(SetRequired(session, "LIVENESS", live, liveness),
                               "FACE_MATCH", matched, IF matched THEN match ELSE 0))
    BY <1>3, SelfieEvaluates
  <2> QED BY <2>1, WrittenSelfie DEF Evaluates, Written
<1>4. CASE HookApplies(w)
  BY <1>4, WrittenHook DEF HookApplies, Evaluates, Written
<1> QED BY <1>1, <1>2, <1>3, <1>4

LEMMA NextRow ==
  ASSUME TypeOK, [Next]_vars
  PROVE  \/ Evaluates
         \/ Writes
         \/ SweepExpires /\ Open
         \/ \E target \in Terminal : Override(target)
<1>0. ASSUME UNCHANGED row PROVE Writes
  BY <1>0, WrittenRow DEF row, Writes, Written
<1>1. CASE Sweeping \/ SweepFails
  BY <1>0, <1>1 DEF Sweeping, SweepScan, SweepExpires, SweepMarks, SweepDispatches, SweepFails
<1>2. CASE OtpExpires \/ Tick \/ UNCHANGED vars
  BY <1>0, <1>2 DEF OtpExpires, Tick, vars
<1> QED BY <1>1, <1>2, RequestsRow, TasksRow DEF Next

-----------------------------------------------------------------------------
(***************************************************************************)
(* The verdict: every step keeps the row and its trail coherent.           *)
(***************************************************************************)

\* A row that is still CREATED has nothing written in it.
Pristine == session'.status = "CREATED" => session'.checks = session.checks

LEMMA StepRow ==
  ASSUME TypeOK, Coherent, [Next]_vars
  PROVE  RowStep /\ Pristine
<1>1. CASE Evaluates
  <2>1. PICK r \in Session : Written(r) /\ Evaluate(r)
    BY <1>1 DEF Evaluates
  <2>2. RowStep
    BY <2>1, EvaluateRow DEF RowStep
  <2>3. CASE Blocked(r)
    BY <2>1, <2>2, <2>3 DEF Blocked, Written, Pristine
  <2>4. CASE Concluded(r)
    <3> DEFINE d == Decide(policy, r.checks, r.internal)
    <3>1. d.status \in EngineVerdicts \cup {"IN_PROGRESS"}
      BY DecideType DEF Session
    <3>2. session'.status = d.status
      BY <2>4 DEF Concluded, Session
    <3> QED BY <2>2, <3>1, <3>2 DEF EngineVerdicts, Pristine
  <2> QED BY <2>1, <2>3, <2>4 DEF Evaluate
<1>2. CASE Writes
  BY <1>2 DEF Writes, Written, RowStep, Proceeds, Pristine
<1>3. CASE SweepExpires /\ Open
  <2>1. session' = [session EXCEPT !.status = "EXPIRED"]
    BY <1>3 DEF SweepExpires
  <2>2. session'.status = "EXPIRED" /\ session'.completed = session.completed
    BY <2>1 DEF TypeOK, Session
  <2>3. session.status # "EXPIRED"
    BY <1>3 DEF Open, Terminal
  <2> QED BY <1>3, <2>2, <2>3 DEF SweepExpires, RowStep, Expires, Concludes, Pristine
<1>4. ASSUME NEW target \in Terminal, Override(target)
      PROVE  RowStep /\ Pristine
  <2>1. session'.status = target /\ session'.completed
    BY <1>4 DEF Override, TypeOK, Session
  <2> QED BY <1>4, <2>1 DEF Override, RowStep, Overrides, Concludes, Pristine, Terminal
<1> QED BY <1>1, <1>2, <1>3, <1>4, NextRow

LEMMA CoherentInit == Init => Coherent
<1> SUFFICES ASSUME Init PROVE Coherent
  OBVIOUS
<1>1. VerdictTraced /\ OneVerdict
  BY DEF Init, VerdictTraced, OneVerdict, Open, Terminal
<1> QED BY <1>1 DEF Init, Coherent, Open, Terminal

LEMMA CoherentNext ==
  ASSUME TypeOK, Coherent, [Next]_vars
  PROVE  Coherent'
<1>1. RowStep /\ Pristine
  BY StepRow
<1>2. trail \in Seq(Verdict) /\ session.status \in SessionStatus
  BY DEF TypeOK, Session
<1>3. ASSUME NEW event, NEW status \in Terminal, Concludes(event, status),
             event # "DECISION_OVERRIDDEN" => Open
      PROVE  VerdictTraced' /\ OneVerdict'
  <2> DEFINE v == [event |-> event, status |-> status]
  <2>1. trail' = Append(trail, v) /\ session'.status = status /\ v.event = event
        /\ v.status = status
    BY <1>3 DEF Concludes
  <2> HIDE DEF v
  <2>2. /\ Len(trail') = Len(trail) + 1 /\ Len(trail) \in Nat
        /\ DOMAIN trail' = 1 .. Len(trail) + 1 /\ DOMAIN trail = 1 .. Len(trail)
        /\ trail'[Len(trail) + 1] = v
        /\ \A i \in 1 .. Len(trail) : trail'[i] = trail[i]
    BY <1>2, <2>1
  <2>3. trail' # <<>>
    BY <2>1, <2>2
  <2>4. VerdictTraced'
    BY <2>1, <2>2, <2>3 DEF VerdictTraced, Open
  <2>5. Open => Len(trail) = 0
    BY <1>2 DEF Coherent, VerdictTraced
  <2>6. OneVerdict'
    BY <1>3, <2>1, <2>2, <2>5 DEF Coherent, OneVerdict
  <2> QED BY <2>4, <2>6
<1>4. CASE Proceeds
  BY <1>1, <1>4 DEF Proceeds, Pristine, Coherent, VerdictTraced, OneVerdict, Open, Terminal
<1>5. CASE Decides
  <2>1. PICK status \in EngineVerdicts : Concludes("KYC_DECISION", status)
    BY <1>5 DEF Decides
  <2>2. status \in Terminal /\ session'.status = status
    BY <2>1 DEF EngineVerdicts, Terminal, Concludes
  <2>3. VerdictTraced' /\ OneVerdict'
    BY <1>3, <1>5, <2>1, <2>2 DEF Decides
  <2> QED BY <1>5, <2>2, <2>3 DEF Decides, Coherent, Open, Terminal
<1>6. CASE Expires
  <2>1. session'.status = "EXPIRED"
    BY <1>6 DEF Expires, Concludes
  <2>2. VerdictTraced' /\ OneVerdict'
    BY <1>3, <1>6 DEF Expires, Terminal
  <2> QED BY <2>1, <2>2 DEF Coherent, Open, Terminal
<1>7. CASE Overrides
  <2>1. PICK status \in Terminal : Concludes("DECISION_OVERRIDDEN", status)
    BY <1>7 DEF Overrides
  <2>2. session'.status = status
    BY <2>1 DEF Concludes
  <2>3. VerdictTraced' /\ OneVerdict'
    BY <1>3, <2>1
  <2> QED BY <1>7, <2>2, <2>3 DEF Overrides, Coherent, Open, Terminal
<1> QED BY <1>1, <1>4, <1>5, <1>6, <1>7 DEF RowStep

\* The inductive invariant behind the theorems below.
LEMMA AlwaysCoherent == Spec => [](TypeOK /\ Coherent)
<1>1. Init => TypeOK /\ Coherent
  BY InitType, CoherentInit
<1>2. TypeOK /\ Coherent /\ [Next]_vars => TypeOK' /\ Coherent'
  BY NextType, CoherentNext
<1> QED BY <1>1, <1>2, PTL DEF Spec

\* The row and the audit chain always agree on whether the session is closed
\* and on its verdict.
THEOREM VerdictAlwaysTraced == Spec => []VerdictTraced
<1>1. Coherent => VerdictTraced
  BY DEF Coherent
<1> QED BY <1>1, AlwaysCoherent, PTL

\* No race gives a session a second verdict of the engine or the sweep.
THEOREM OnlyOneVerdict == Spec => []OneVerdict
<1>1. Coherent => OneVerdict
  BY DEF Coherent
<1> QED BY <1>1, AlwaysCoherent, PTL

\* Only an operator changes the status of a closed session.
THEOREM VerdictAlwaysStands == Spec => VerdictStands
<1>1. TypeOK /\ Coherent /\ [Next]_vars
        => [~Open => \/ session'.status = session.status
                     \/ overrides' = overrides + 1]_vars
  <2> SUFFICES ASSUME TypeOK, Coherent, [Next]_vars, ~Open
               PROVE  session'.status = session.status \/ overrides' = overrides + 1
    OBVIOUS
  <2>1. RowStep
    BY StepRow
  <2> QED BY <2>1 DEF RowStep, Proceeds, Decides, Expires, Overrides, Open, Terminal
<1> QED BY <1>1, AlwaysCoherent, PTL DEF Spec, VerdictStands

\* What evaluate() refuses is always a change to a session that is closed: a
\* CREATED row is still pristine, and everything else may move on.
THEOREM OnlyClosedEverBlocks == Spec => OnlyClosedBlocks
<1>1. TypeOK /\ Coherent /\ [Next]_vars => [blocked' > blocked => ~Open]_vars
  <2> SUFFICES ASSUME TypeOK, Coherent, [Next]_vars, blocked' > blocked, Open
               PROVE  FALSE
    OBVIOUS
  <2>0. blocked' # blocked
    BY DEF TypeOK
  <2>1. PICK r \in Session : Written(r) /\ Evaluate(r)
    BY <2>0, NextRow DEF Evaluates, Writes, SweepExpires, Override, row
  <2>2. Blocked(r)
    BY <2>0, <2>1 DEF Evaluate, Concluded
  <2> DEFINE d == Decide(policy, r.checks, r.internal)
  <2>3. /\ r.status \in {"CREATED", "IN_PROGRESS"}
        /\ r.status = "CREATED" => r.checks = [s \in Steps |-> "PENDING"]
    BY <2>1 DEF Written, Coherent, Open, TypeOK, Session, SessionStatus, Terminal
  <2>4. d.status \in EngineVerdicts \cup {"IN_PROGRESS"}
    BY DecideType DEF Session
  <2>5. CASE r.status = "IN_PROGRESS"
    BY <2>2, <2>4, <2>5 DEF Blocked, AllowedTransitions, EngineVerdicts, Terminal
  <2>6. CASE r.status = "CREATED"
    <3>1. /\ HardFailures(policy, r.checks) = {}
          /\ "OTP" \in Pending(policy, r.checks)
      BY <2>3, <2>6, PolicyType DEF HardFailures, Pending, WithStatus, Steps
    <3>2. d.status = "IN_PROGRESS"
      <4>1. d = Decision("IN_PROGRESS", FALSE, Pending(policy, r.checks) \X {"PENDING"})
        BY <3>1 DEF Decide
      <4> QED BY <4>1 DEF Decision
    <3> QED BY <2>2, <2>6, <3>2 DEF Blocked, AllowedTransitions, Terminal
  <2> QED BY <2>3, <2>5, <2>6
<1> QED BY <1>1, AlwaysCoherent, PTL DEF Spec, OnlyClosedBlocks

-----------------------------------------------------------------------------
(***************************************************************************)
(* The tenant: notifications and the abstract promise.                     *)
(***************************************************************************)

\* One more verdict, one more status in the set of verdicts.
LEMMA AppendVerdict ==
  ASSUME NEW v \in Verdict, trail \in Seq(Verdict), trail' = Append(trail, v)
  PROVE  {trail'[i].status : i \in DOMAIN trail'}
           = {trail[i].status : i \in DOMAIN trail} \cup {v.status}
<1>1. /\ Len(trail) \in Nat
      /\ DOMAIN trail' = 1 .. Len(trail) + 1 /\ DOMAIN trail = 1 .. Len(trail)
      /\ trail'[Len(trail) + 1] = v
      /\ \A i \in 1 .. Len(trail) : trail'[i] = trail[i]
  OBVIOUS
<1> DEFINE new == {trail'[i].status : i \in DOMAIN trail'}
           old == {trail[i].status : i \in DOMAIN trail}
<1>2. ASSUME NEW i \in DOMAIN trail' PROVE trail'[i].status \in old \cup {v.status}
  <2>1. CASE i = Len(trail) + 1
    BY <1>1, <2>1
  <2>2. CASE i # Len(trail) + 1
    <3>1. i \in DOMAIN trail /\ trail'[i] = trail[i]
      BY <1>1, <1>2, <2>2
    <3> QED BY <3>1
  <2> QED BY <2>1, <2>2
<1>3. ASSUME NEW i \in DOMAIN trail PROVE trail[i].status \in new
  <2>1. i \in DOMAIN trail' /\ trail'[i] = trail[i]
    BY <1>1, <1>3
  <2> QED BY <2>1
<1>4. v.status \in new
  <2>1. Len(trail) + 1 \in DOMAIN trail' /\ trail'[Len(trail) + 1] = v
    BY <1>1
  <2> QED BY <2>1
<1>5. new \subseteq old \cup {v.status}
  BY <1>2
<1>6. old \cup {v.status} \subseteq new
  BY <1>3, <1>4
<1> HIDE DEF new, old
<1>7. new = old \cup {v.status}
  BY <1>5, <1>6
<1> QED BY <1>7 DEF new, old

\* QueueEvent() adds its status to the set of statuses told.
LEMMA QueueEventTells ==
  ASSUME TypeOK, Hooked, NEW status \in Terminal, outbox' = QueueEvent(status)
  PROVE  {outbox'[i] : i \in DOMAIN outbox'}
           = {outbox[i] : i \in DOMAIN outbox} \cup {status}
<1>1. CASE \A i \in DOMAIN outbox : outbox[i] # status
  <2>1. outbox' = Append(outbox, status)
    BY <1>1 DEF QueueEvent
  <2>2. /\ Len(outbox) \in Nat
        /\ DOMAIN outbox' = 1 .. Len(outbox) + 1 /\ DOMAIN outbox = 1 .. Len(outbox)
        /\ outbox'[Len(outbox) + 1] = status
        /\ \A i \in 1 .. Len(outbox) : outbox'[i] = outbox[i]
    BY <2>1 DEF TypeOK
  <2> DEFINE new == {outbox'[i] : i \in DOMAIN outbox'}
             old == {outbox[i] : i \in DOMAIN outbox}
  <2>3. ASSUME NEW i \in DOMAIN outbox' PROVE outbox'[i] \in old \cup {status}
    <3>1. CASE i = Len(outbox) + 1
      BY <2>2, <3>1
    <3>2. CASE i # Len(outbox) + 1
      <4>1. i \in DOMAIN outbox /\ outbox'[i] = outbox[i]
        BY <2>2, <2>3, <3>2
      <4> QED BY <4>1
    <3> QED BY <3>1, <3>2
  <2>4. ASSUME NEW i \in DOMAIN outbox PROVE outbox[i] \in new
    <3>1. i \in DOMAIN outbox' /\ outbox'[i] = outbox[i]
      BY <2>2, <2>4
    <3> QED BY <3>1
  <2>5. status \in new
    <3>1. Len(outbox) + 1 \in DOMAIN outbox' /\ outbox'[Len(outbox) + 1] = status
      BY <2>2
    <3> QED BY <3>1
  <2>6. new \subseteq old \cup {status}
    BY <2>3
  <2>7. old \cup {status} \subseteq new
    BY <2>4, <2>5
  <2> HIDE DEF new, old
  <2>8. new = old \cup {status}
    BY <2>6, <2>7
  <2> QED BY <2>8 DEF new, old
<1>2. CASE ~\A i \in DOMAIN outbox : outbox[i] # status
  BY <1>2 DEF QueueEvent
<1> QED BY <1>1, <1>2

\* The last verdict is one of the verdicts.
LEMMA StatusTraced ==
  ASSUME TypeOK, VerdictTraced, ~Open
  PROVE  session.status \in {trail[i].status : i \in DOMAIN trail}
<1>1. trail # <<>> /\ trail[Len(trail)].status = session.status
  BY DEF VerdictTraced
<1>2. Len(trail) \in DOMAIN trail
  BY <1>1 DEF TypeOK
<1> QED BY <1>1, <1>2

\* Every status the session ever took as a verdict was queued for the tenant,
\* and nothing else was: a blocked or repeated evaluation notifies nobody.
Notified ==
  Hooked => {outbox[i] : i \in DOMAIN outbox} = {trail[i].status : i \in DOMAIN trail}

LEMMA NotifiedNext ==
  ASSUME TypeOK, Coherent, Notified, [Next]_vars
  PROVE  Notified'
<1>0. RowStep
  BY StepRow
<1>1. ASSUME NEW event \in {"KYC_DECISION", "SESSION_EXPIRED", "DECISION_OVERRIDDEN"},
             NEW status \in Terminal, Concludes(event, status)
      PROVE  Notified'
  <2> SUFFICES ASSUME Hooked
               PROVE  {outbox'[i] : i \in DOMAIN outbox'}
                        = {trail'[i].status : i \in DOMAIN trail'}
    BY DEF Notified
  <2> DEFINE v == [event |-> event, status |-> status]
  <2>1. v \in Verdict /\ v.status = status /\ trail' = Append(trail, v)
    BY <1>1 DEF Verdict, Concludes
  <2> HIDE DEF v
  <2>2. {trail'[i].status : i \in DOMAIN trail'}
          = {trail[i].status : i \in DOMAIN trail} \cup {status}
    BY <2>1, AppendVerdict DEF TypeOK
  <2>3. {outbox[i] : i \in DOMAIN outbox} = {trail[i].status : i \in DOMAIN trail}
    BY DEF Notified
  <2>4. CASE session.status # status
    <3>1. outbox' = QueueEvent(status)
      BY <1>1, <2>4 DEF Concludes
    <3>2. {outbox'[i] : i \in DOMAIN outbox'} = {outbox[i] : i \in DOMAIN outbox} \cup {status}
      BY <3>1, QueueEventTells
    <3> QED BY <2>2, <2>3, <3>2
  <2>5. CASE session.status = status
    <3>1. outbox' = outbox
      BY <1>1, <2>5 DEF Concludes
    <3>2. status \in {trail[i].status : i \in DOMAIN trail}
      BY <2>5, StatusTraced DEF Coherent, Open
    <3> QED BY <2>2, <2>3, <3>1, <3>2
  <2> QED BY <2>4, <2>5
<1>2. CASE Proceeds
  BY <1>2 DEF Proceeds, Notified
<1>3. CASE Decides \/ Expires \/ Overrides
  BY <1>1, <1>3 DEF Decides, Expires, Overrides, EngineVerdicts, Terminal
<1> QED BY <1>0, <1>2, <1>3 DEF RowStep

LEMMA NotifiedInit == Init => Notified
BY DEF Init, Notified

\* The tenant is told of every status the session took as a verdict, and of
\* nothing else.
THEOREM AlwaysNotified == Spec => []Notified
<1>1. TypeOK /\ Coherent /\ Notified /\ [Next]_vars => Notified'
  BY NotifiedNext
<1> QED BY <1>1, NotifiedInit, AlwaysCoherent, PTL DEF Spec

\* QueueEvent() is what the promise calls telling.
LEMMA TellsOnce ==
  ASSUME NEW status, outbox' = QueueEvent(status)
  PROVE  Promise!Tell(status)
BY DEF QueueEvent, Promise!Tell, Promise!Told

LEMMA PromiseNext ==
  ASSUME TypeOK, Coherent, Notified, [Next]_vars
  PROVE  [Promise!Next]_(Promise!vars)
<1>0. RowStep
  BY StepRow
<1>1. CASE Proceeds
  BY <1>1 DEF Proceeds, Promise!vars, Promise!Next, Promise!Progress
<1>2. CASE Decides
  <2>1. PICK status \in EngineVerdicts : Concludes("KYC_DECISION", status)
    BY <1>2 DEF Decides
  <2>2. session.status # status /\ session.status \notin Promise!Closed
    BY <1>2, <2>1 DEF Decides, Open, Terminal, EngineVerdicts, Promise!Closed, Promise!Engine
  <2>3. Promise!Decide(status)
    BY <2>1, <2>2, TellsOnce DEF Concludes, Promise!Decide, Promise!Record
  <2> QED BY <2>3 DEF EngineVerdicts, Promise!Engine, Promise!Next
<1>3. CASE Expires
  <2>1. session.status # "EXPIRED" /\ session.status \notin Promise!Closed
    BY <1>3 DEF Expires, Open, Terminal, Promise!Closed, Promise!Engine
  <2>2. Promise!Expire
    BY <1>3, <2>1, TellsOnce DEF Expires, Concludes, Promise!Expire, Promise!Record
  <2> QED BY <2>2 DEF Promise!Next
<1>4. CASE Overrides
  <2>1. PICK status \in Terminal : Concludes("DECISION_OVERRIDDEN", status)
    BY <1>4 DEF Overrides
  <2>2. Promise!Tell(status)
    <3>1. CASE session.status # status
      BY <2>1, <3>1, TellsOnce DEF Concludes
    <3>2. CASE session.status = status
      <4>1. status \in {trail[i].status : i \in DOMAIN trail}
        BY <3>2, StatusTraced DEF Coherent, Open
      <4>2. Hooked => status \in Promise!Told
        BY <4>1 DEF Notified, Promise!Told
      <4> QED BY <2>1, <3>2, <4>2 DEF Concludes, Promise!Tell
    <3> QED BY <3>1, <3>2
  <2>3. Promise!Override(status)
    BY <2>1, <2>2 DEF Concludes, Promise!Override, Promise!Record
  <2> QED BY <2>3 DEF Terminal, Promise!Next, Promise!Closed, Promise!Engine
<1> QED BY <1>0, <1>1, <1>2, <1>3, <1>4 DEF RowStep

LEMMA PromiseInit == Init => Promise!Init
BY DEF Init, Promise!Init

\* Refinement: with its workers, hooks, sweeps and stale reads, the session
\* implements what KycVerdict promises a tenant.
THEOREM AlwaysKeepsPromise == Spec => KeepsPromise
<1>1. TypeOK /\ Coherent /\ Notified /\ [Next]_vars => [Promise!Next]_(Promise!vars)
  BY PromiseNext
<1> QED BY <1>1, PromiseInit, AlwaysCoherent, AlwaysNotified, PTL
        DEF Spec, KeepsPromise, Promise!Spec

-----------------------------------------------------------------------------
(***************************************************************************)
(* Consent and a verdict of VERIFIED.                                      *)
(***************************************************************************)

\* A request admitted before the store still has the consent it was admitted
\* with: nothing withdraws a consent once given.
ConsentHeld ==
  /\ CapturedWithConsent
  /\ \A c \in Clients :
       requests[c].phase # "idle" /\ requests[c].op # "consent" => session.consent

LEMMA ConsentKept ==
  ASSUME TypeOK, [Next]_vars, session.consent
  PROVE  session'.consent
<1>1. CASE Evaluates
  <2>1. PICK r \in Session : Written(r) /\ Evaluate(r)
    BY <1>1 DEF Evaluates
  <2>2. r.consent
    BY <2>1 DEF Written
  <2>3. CASE Blocked(r)
    BY <2>2, <2>3 DEF Blocked
  <2>4. CASE Concluded(r)
    BY <2>1, <2>2, <2>4 DEF Concluded, Session
  <2> QED BY <2>1, <2>3, <2>4 DEF Evaluate
<1>2. CASE Writes
  BY <1>2 DEF Writes, Written
<1>3. CASE SweepExpires /\ Open
  BY <1>3 DEF SweepExpires, TypeOK, Session
<1>4. ASSUME NEW target \in Terminal, Override(target) PROVE session'.consent
  BY <1>4 DEF Override, TypeOK, Session
<1> QED BY <1>1, <1>2, <1>3, <1>4, NextRow

LEMMA ConsentNext ==
  ASSUME TypeOK, ConsentHeld, [Next]_vars
  PROVE  ConsentHeld'
<1>1. session.consent => session'.consent
  BY ConsentKept
<1>2. ASSUME UNCHANGED <<documents, selfies, otp, requests>> PROVE ConsentHeld'
  BY <1>1, <1>2 DEF ConsentHeld, CapturedWithConsent
<1>3. ASSUME NEW c \in Clients,
             \/ \E op \in UserOps : Admit(c, op)
             \/ RequestEnds(c)
             \/ GrantConsent(c)
             \/ \E kind \in Kinds : Upload(c, kind)
             \/ Dispatch(c)
             \/ SendOtp(c)
             \/ VerifyAgain(c) \/ VerifyRight(c) \/ VerifyWrong(c) \/ VerifyExhausted(c)
      PROVE  ConsentHeld'
  <2>0. NoRequest.phase = "idle" /\ requests \in [Clients -> Request]
    BY DEF NoRequest, TypeOK
  <2>1. ASSUME NEW op \in UserOps, Admit(c, op) PROVE ConsentHeld'
    BY <1>1, <2>0, <2>1 DEF Admit, Consented, ConsentHeld, CapturedWithConsent
  <2>2. ASSUME Answer(c) PROVE \A d \in Clients : requests'[d].phase # "idle" => requests'[d] = requests[d]
    BY <2>0, <2>2 DEF Answer
  <2>3. CASE RequestEnds(c) \/ GrantConsent(c) \/ Dispatch(c) \/ VerifyAgain(c)
    BY <1>1, <2>2, <2>3
       DEF RequestEnds, GrantConsent, Dispatch, VerifyAgain, ConsentHeld, CapturedWithConsent
  <2>4. ASSUME NEW kind \in Kinds, Upload(c, kind) PROVE ConsentHeld'
    <3>1. session.consent
      BY <2>4 DEF Upload, Serves, Kinds, ConsentHeld
    <3> QED BY <1>1, <3>1 DEF ConsentHeld, CapturedWithConsent
  <2>5. CASE SendOtp(c)
    <3>1. session.consent
      BY <2>5 DEF SendOtp, Serves, ConsentHeld
    <3> QED BY <1>1, <3>1 DEF ConsentHeld, CapturedWithConsent
  <2>6. CASE VerifyRight(c) \/ VerifyWrong(c) \/ VerifyExhausted(c)
    <3>1. session.consent
      BY <2>6 DEF VerifyRight, VerifyWrong, VerifyExhausted, Serves, ConsentHeld
    <3> QED BY <1>1, <3>1 DEF ConsentHeld, CapturedWithConsent
  <2> QED BY <1>3, <2>1, <2>3, <2>4, <2>5, <2>6
<1>4. CASE OtpExpires
  BY <1>1, <1>4 DEF OtpExpires, ConsentHeld, CapturedWithConsent
<1>5. CASE Tasks
  BY <1>2, <1>5 DEF Tasks, StartRun, AlreadyApplied, ApplyDocument, ApplySelfie, RetryRun,
     FailRun, HookReads, HookApplies, LoseRun, Redeliver, user
<1>6. CASE Sweeping \/ SweepFails
  BY <1>2, <1>6 DEF Sweeping, SweepScan, SweepExpires, SweepMarks, SweepDispatches, SweepFails, user
<1>7. ASSUME NEW target \in Terminal, Override(target) PROVE ConsentHeld'
  BY <1>2, <1>7 DEF Override, user
<1>8. CASE Tick \/ UNCHANGED vars
  BY <1>2, <1>8 DEF Tick, vars, user
<1>9. CASE Requests
  BY <1>3, <1>9 DEF Requests
<1> QED BY <1>4, <1>5, <1>6, <1>7, <1>8, <1>9 DEF Next

LEMMA ConsentInit == Init => ConsentHeld
BY DEF Init, NoRequest, ConsentHeld, CapturedWithConsent

\* Nothing is captured, and no code is sent, without the user's consent.
THEOREM AlwaysCapturedWithConsent == Spec => []CapturedWithConsent
<1>1. TypeOK /\ ConsentHeld /\ [Next]_vars => ConsentHeld'
  BY ConsentNext
<1>2. ConsentHeld => CapturedWithConsent
  BY DEF ConsentHeld
<1> QED BY <1>1, <1>2, ConsentInit, TypeCorrect, PTL DEF Spec

\* decide() says VERIFIED only when every check of the flow has passed.
LEMMA DecideVerified ==
  ASSUME NEW checks \in [Steps -> CheckStatus], NEW internal,
         Decide(policy, checks, internal).status = "VERIFIED"
  PROVE  \A s \in policy.steps : checks[s] = "PASSED"
<1> DEFINE hard    == HardFailures(policy, checks)
           pending == Pending(policy, checks)
           review  == NeedReview(policy, checks)
           weak    == Below(ReviewThreshold, policy, checks, internal)
           medium  == Below(AcceptThreshold, policy, checks, internal)
           d       == Decide(policy, checks, internal)
<1>1. d = CASE hard # {} -> Decision("REJECTED", TRUE, hard \X {"FAILED"})
            [] hard = {} /\ pending # {} ->
                 Decision("IN_PROGRESS", FALSE, pending \X {"PENDING"})
            [] hard = {} /\ pending = {} /\ review # {} ->
                 Decision("REVIEW", TRUE, review \X {"REVIEW"})
            [] hard = {} /\ pending = {} /\ review = {} /\ weak ->
                 Decision("REJECTED", TRUE, {<<"SCORE", "LOW_CONFIDENCE">>})
            [] hard = {} /\ pending = {} /\ review = {} /\ ~weak /\ medium ->
                 Decision("REVIEW", TRUE, {<<"SCORE", "MEDIUM_CONFIDENCE">>})
            [] OTHER -> Decision("VERIFIED", TRUE, {})
  BY DEF Decide
<1>2. d.status = "VERIFIED"
  OBVIOUS
<1>3. hard = {} /\ pending = {} /\ review = {}
  <2> HIDE DEF hard, pending, review, weak, medium, d
  <2> QED BY <1>1, <1>2 DEF Decision
<1>4. \A s \in policy.steps : checks[s] \notin {"FAILED", "PENDING", "REVIEW"}
  BY <1>3 DEF HardFailures, Pending, NeedReview, SoftFailures, WithStatus
<1> QED BY <1>4, PolicyType DEF CheckStatus

\* VERIFIED is earned or overridden.
THEOREM AlwaysVerifiedEarned == Spec => VerifiedEarned
<1>1. TypeOK /\ Coherent /\ [Next]_vars
        => [session'.status = "VERIFIED" /\ session.status # "VERIFIED"
              => \/ \A s \in policy.steps : session'.checks[s] = "PASSED"
                 \/ overrides' = overrides + 1]_vars
  <2> SUFFICES ASSUME TypeOK, Coherent, [Next]_vars,
                      session'.status = "VERIFIED", session.status # "VERIFIED",
                      overrides' # overrides + 1
               PROVE  \A s \in policy.steps : session'.checks[s] = "PASSED"
    OBVIOUS
  <2>1. Evaluates
    <3>1. ~Writes
      BY DEF Writes, Written
    <3>2. ~(SweepExpires /\ Open)
      BY DEF SweepExpires, TypeOK, Session
    <3>3. ~\E target \in Terminal : Override(target)
      BY DEF Override
    <3> QED BY <3>1, <3>2, <3>3, NextRow
  <2>2. PICK r \in Session : Written(r) /\ Evaluate(r)
    BY <2>1 DEF Evaluates
  <2>3. Concluded(r)
    BY <2>2 DEF Evaluate, Blocked, Written
  <2>4. /\ Decide(policy, r.checks, r.internal).status = "VERIFIED"
        /\ session'.checks = r.checks
    BY <2>3 DEF Concluded, Session
  <2> QED BY <2>4, DecideVerified DEF Session
<1> QED BY <1>1, AlwaysCoherent, PTL DEF Spec, VerifiedEarned
-----------------------------------------------------------------------------
(***************************************************************************)
(* What keeps a session open, and what technical trouble does to it.       *)
(***************************************************************************)

\* decide() says IN_PROGRESS only while a check of the flow is pending, and
\* rejects without a hard failure only what is neither pending nor to review.
LEMMA DecideCauses ==
  ASSUME NEW checks \in [Steps -> CheckStatus], NEW internal
  PROVE  LET status == Decide(policy, checks, internal).status IN
           /\ status = "IN_PROGRESS" => Pending(policy, checks) # {}
           /\ status = "REJECTED" =>
                \/ HardFailures(policy, checks) # {}
                \/ Pending(policy, checks) = {} /\ NeedReview(policy, checks) = {}
<1> DEFINE hard    == HardFailures(policy, checks)
           pending == Pending(policy, checks)
           review  == NeedReview(policy, checks)
           weak    == Below(ReviewThreshold, policy, checks, internal)
           medium  == Below(AcceptThreshold, policy, checks, internal)
           d       == Decide(policy, checks, internal)
<1>1. d = CASE hard # {} -> Decision("REJECTED", TRUE, hard \X {"FAILED"})
            [] hard = {} /\ pending # {} ->
                 Decision("IN_PROGRESS", FALSE, pending \X {"PENDING"})
            [] hard = {} /\ pending = {} /\ review # {} ->
                 Decision("REVIEW", TRUE, review \X {"REVIEW"})
            [] hard = {} /\ pending = {} /\ review = {} /\ weak ->
                 Decision("REJECTED", TRUE, {<<"SCORE", "LOW_CONFIDENCE">>})
            [] hard = {} /\ pending = {} /\ review = {} /\ ~weak /\ medium ->
                 Decision("REVIEW", TRUE, {<<"SCORE", "MEDIUM_CONFIDENCE">>})
            [] OTHER -> Decision("VERIFIED", TRUE, {})
  BY DEF Decide
<1>2. /\ d.status = "IN_PROGRESS" => pending # {}
      /\ d.status = "REJECTED" => hard # {} \/ (pending = {} /\ review = {})
  <2> HIDE DEF hard, pending, review, weak, medium, d
  <2> QED BY <1>1 DEF Decision
<1> QED BY <1>2

\* An evaluation that leaves the session open leaves a check pending: a
\* blocked one did not get past the pristine row.
LEMMA EvaluateLeavesPending ==
  ASSUME TypeOK, Coherent, NEW r, Written(r), Evaluate(r), Open'
  PROVE  WithStatus(policy, session'.checks, "PENDING") # {}
<1>1. r \in Session /\ r.checks \in [Steps -> CheckStatus]
  BY DEF Written, Session
<1>2. Decide(policy, r.checks, r.internal).status \in EngineVerdicts \cup {"IN_PROGRESS"}
  BY <1>1, DecideType
<1>3. CASE Blocked(r)
  <2>1. session' = r /\ r.status \notin Terminal
    BY <1>3 DEF Blocked, Open
  <2>2. r.status \in {"CREATED", "IN_PROGRESS"}
    BY <2>1 DEF Written, Coherent, TypeOK, Session, SessionStatus
  <2>3. r.status = "CREATED"
    BY <1>2, <1>3, <2>2 DEF Blocked, AllowedTransitions, EngineVerdicts, Terminal
  <2>4. r.checks = [s \in Steps |-> "PENDING"]
    BY <2>3 DEF Written, Coherent
  <2>5. "OTP" \in WithStatus(policy, r.checks, "PENDING")
    BY <2>4, PolicyType DEF WithStatus, Steps
  <2> QED BY <2>1, <2>5
<1>4. CASE Concluded(r)
  <2>1. /\ session'.status = Decide(policy, r.checks, r.internal).status
        /\ session'.checks = r.checks
    BY <1>1, <1>4 DEF Concluded, Session
  <2>2. Decide(policy, r.checks, r.internal).status = "IN_PROGRESS"
    BY <1>2, <2>1 DEF Open, EngineVerdicts, Terminal
  <2> QED BY <1>1, <2>1, <2>2, DecideCauses DEF Pending
<1> QED BY <1>3, <1>4 DEF Evaluate

LEMMA SomethingPendingNext ==
  ASSUME TypeOK, Coherent, SomethingPending, [Next]_vars
  PROVE  SomethingPending'
<1> SUFFICES ASSUME Open'
             PROVE  \/ WithStatus(policy, session'.checks, "PENDING") # {}
                    \/ session'.checks["OTP"] = "FAILED"
  BY DEF SomethingPending, policy
<1>1. CASE Evaluates
  BY <1>1, EvaluateLeavesPending DEF Evaluates
<1>2. CASE Writes
  <2>1. Open
    BY <1>2 DEF Writes, Written, Open, Terminal
  <2> QED BY <1>2, <2>1 DEF Writes, SomethingPending
<1>3. CASE SweepExpires /\ Open
  BY <1>3 DEF SweepExpires, TypeOK, Session, Open, Terminal
<1>4. ASSUME NEW target \in Terminal, Override(target)
      PROVE  FALSE
  BY <1>4 DEF Override, TypeOK, Session, Open
<1> QED BY <1>1, <1>2, <1>3, <1>4, NextRow

\* While a session is open there is something left to decide, or its OTP
\* check has failed for good.
THEOREM AlwaysSomethingPending == Spec => []SomethingPending
<1>1. Init => SomethingPending
  <2> SUFFICES ASSUME Init PROVE SomethingPending
    OBVIOUS
  <2>1. "OTP" \in WithStatus(policy, session.checks, "PENDING")
    BY PolicyType DEF Init, WithStatus, Steps
  <2> QED BY <2>1 DEF SomethingPending
<1>2. TypeOK /\ Coherent /\ SomethingPending /\ [Next]_vars => SomethingPending'
  BY SomethingPendingNext
<1> QED BY <1>1, <1>2, AlwaysCoherent, PTL DEF Spec

\* What a hook sends to a human does not count against the session: a
\* rejection by its evaluation names a check that had failed before.
LEMMA HookRejects ==
  ASSUME TypeOK, Coherent, SomethingPending, NEW w \in Workers, HookApplies(w),
         session'.status = "REJECTED", session.status # "REJECTED"
  PROVE  HardFailures(policy, session.checks) # {}
<1> DEFINE saw == runs[w].saw
           r   == SendToReview(session, saw)
<1>1. saw \subseteq Steps
  BY DEF TypeOK, Run
<1>2. Written(r) /\ Evaluate(r)
  BY WrittenHook DEF HookApplies
<1>3. session.checks \in [Steps -> CheckStatus]
  BY DEF TypeOK, Session
<1>4. r.checks = [s \in Steps |-> IF s \in saw THEN "REVIEW" ELSE session.checks[s]]
  BY DEF SendToReview, TypeOK, Session
<1> HIDE DEF r, saw
<1>5. r \in Session /\ r.checks \in [Steps -> CheckStatus]
  BY <1>2 DEF Written, Session
<1>6. Concluded(r)
  BY <1>2 DEF Evaluate, Blocked, Written
<1>7. /\ Decide(policy, r.checks, r.internal).status = "REJECTED"
      /\ "REJECTED" \in AllowedTransitions(r.status)
  BY <1>5, <1>6 DEF Concluded, Session
<1>8. Open
  BY <1>2, <1>7 DEF Written, AllowedTransitions, Open, Terminal
<1>9. CASE HardFailures(policy, r.checks) # {}
  <2>1. PICK s \in policy.steps :
          /\ r.checks[s] = "FAILED"
          /\ s \in HardRejectSteps \/ s \notin policy.reviewOnFailure
    BY <1>9 DEF HardFailures, WithStatus
  <2>2. session.checks[s] = "FAILED"
    BY <1>4, <2>1, PolicyType
  <2> QED BY <2>1, <2>2 DEF HardFailures, WithStatus
<1>10. CASE Pending(policy, r.checks) = {} /\ NeedReview(policy, r.checks) = {}
  <2>1. \A s \in policy.steps : r.checks[s] \notin {"PENDING", "REVIEW"}
    BY <1>10 DEF Pending, NeedReview, WithStatus
  <2>2. \A s \in policy.steps : r.checks[s] = session.checks[s]
    BY <1>4, <2>1, PolicyType
  <2>3. WithStatus(policy, session.checks, "PENDING") = {}
    BY <2>1, <2>2 DEF WithStatus
  <2>4. session.checks["OTP"] = "FAILED"
    BY <1>8, <2>3 DEF SomethingPending
  <2>5. "OTP" \in policy.steps /\ "OTP" \notin policy.reviewOnFailure
    BY SessionAssumption DEF policy, Policy, Flows, Steps
  <2> QED BY <2>4, <2>5 DEF HardFailures, WithStatus
<1> QED BY <1>5, <1>7, <1>9, <1>10, DecideCauses

\* Only its own steps take a run out of its failure hook.
LEMMA HookLeaves ==
  ASSUME TypeOK, [Next]_vars, NEW w \in Workers,
         runs[w].phase = "hook", runs'[w].phase # "hook"
  PROVE  HookApplies(w) \/ UNCHANGED session
<1>1. CASE Requests
  <2>1. UNCHANGED runs
    BY <1>1 DEF Requests, Admit, RequestEnds, GrantConsent, Upload, Dispatch, SendOtp,
       VerifyAgain, VerifyRight, VerifyWrong, VerifyExhausted, broker
  <2> QED BY <2>1
<1>2. CASE Sweeping \/ SweepFails
  <2>1. UNCHANGED runs
    BY <1>2 DEF Sweeping, SweepScan, SweepExpires, SweepMarks, SweepDispatches, SweepFails, broker
  <2> QED BY <2>1
<1>3. ASSUME NEW target \in Terminal, Override(target)
      PROVE  FALSE
  BY <1>3 DEF Override, broker
<1>4. CASE OtpExpires \/ Tick \/ UNCHANGED vars
  BY <1>4 DEF OtpExpires, Tick, vars, broker
<1>5. ASSUME NEW v \in Workers,
             \/ \E kind \in Kinds, tries \in Tries :
                  StartRun(v, kind, tries) \/ AlreadyApplied(v, kind, tries)
             \/ RetryRun(v) \/ FailRun(v) \/ HookReads(v) \/ LoseRun(v) \/ Redeliver(v)
      PROVE  UNCHANGED session
  BY <1>5 DEF StartRun, AlreadyApplied, RetryRun, FailRun, HookReads, LoseRun, Redeliver, row
<1>6. ASSUME NEW v \in Workers, ApplyDocument(v) \/ ApplySelfie(v) \/ HookApplies(v)
      PROVE  HookApplies(w)
  <2>1. runs' = [runs EXCEPT ![v] = NoRun]
    BY <1>6 DEF ApplyDocument, ApplySelfie, HookApplies, Ends
  <2>2. v = w
    BY <2>1 DEF TypeOK
  <2> QED BY <1>6, <2>2 DEF ApplyDocument, ApplySelfie, Works
<1> QED BY <1>1, <1>2, <1>3, <1>4, <1>5, <1>6 DEF Next, Tasks

\* No failure hook rejects a session in which nothing had failed.
THEOREM TroubleNeverEverRejects == Spec => TroubleNeverRejects
<1>1. TypeOK /\ Coherent /\ SomethingPending /\ [Next]_vars
        => [\A w \in Workers :
              runs[w].phase = "hook" /\ runs'[w].phase # "hook" /\ session'.status = "REJECTED"
                => session.status = "REJECTED" \/ HardFailures(policy, session.checks) # {}]_vars
  BY HookLeaves, HookRejects
<1> QED BY <1>1, AlwaysCoherent, AlwaysSomethingPending, PTL DEF Spec, TroubleNeverRejects
=============================================================================
