------------------------------ MODULE Decision ------------------------------
(***************************************************************************)
(* The decision engine and the flow policies: what a session's checks      *)
(* amount to.  Pure functions of the code, translated as operators; no     *)
(* state.                                                                  *)
(*                                                                         *)
(* Abstractions.  A confidence is a whole percentage instead of a float;   *)
(* the code's rounding of the score to two decimals then never crosses a   *)
(* whole-percent threshold.  A reason "STEP_WHY" is the pair <<STEP, WHY>>. *)
(* A check the code leaves out of the dict reads as PENDING, as every      *)
(* reader of the dict defaults it.  Hidden steps (DOCUMENT, OCR, SELFIE)   *)
(* are not decided on their own and do not appear; SIGNATURE is in no      *)
(* policy, SKIPPED is written by no code.                                  *)
(***************************************************************************)
EXTENDS Integers

CONSTANTS
  AcceptThreshold,   \* settings.risk_accept_threshold, in percent
  ReviewThreshold    \* settings.risk_review_threshold, in percent

Percent == 0 .. 100

ASSUME ThresholdAssumption ==
  /\ AcceptThreshold \in Percent
  /\ ReviewThreshold \in Percent
  /\ ReviewThreshold <= AcceptThreshold

(***************************************************************************)
(* Vocabulary (models/enums.py).                                           *)
(***************************************************************************)
Steps == {"DOCUMENT_VERIFICATION", "LIVENESS", "FACE_MATCH", "OTP"}

CheckStatus == {"PENDING", "PASSED", "FAILED", "REVIEW"}

Terminal == {"VERIFIED", "REJECTED", "REVIEW", "EXPIRED"}

SessionStatus == {"CREATED", "IN_PROGRESS", "PROCESSING"} \cup Terminal

Why == {"FAILED", "REVIEW", "PENDING", "LOW_CONFIDENCE", "MEDIUM_CONFIDENCE"}

Reasons == SUBSET ((Steps \cup {"SCORE"}) \X Why)

(***************************************************************************)
(* Flow policies: the decidable steps, and those whose failure asks for a  *)
(* human instead of rejecting.                                             *)
(***************************************************************************)
Flows == {"TRAVEL_INSURANCE", "BANK_ACCOUNT", "CITIZEN"}

Policy(flow) ==
  CASE flow = "TRAVEL_INSURANCE" ->
         [steps |-> Steps,
          reviewOnFailure |-> {"DOCUMENT_VERIFICATION", "FACE_MATCH"}]
    [] flow = "BANK_ACCOUNT" ->
         [steps |-> Steps, reviewOnFailure |-> {"FACE_MATCH"}]
    [] flow = "CITIZEN" ->
         [steps |-> {"DOCUMENT_VERIFICATION", "OTP"},
          reviewOnFailure |-> {"DOCUMENT_VERIFICATION"}]

(***************************************************************************)
(* The score: confidences weighted by business importance, over the steps  *)
(* decided so far.                                                         *)
(***************************************************************************)
Weight == [s \in Steps |->
  CASE s = "DOCUMENT_VERIFICATION" -> 30
    [] s = "LIVENESS" -> 25
    [] s = "FACE_MATCH" -> 25
    [] s = "OTP" -> 15]

\* Slip: a passed check only counts half.
ConfidenceHalved(s, status, internal) ==
  IF status \in {"PENDING", "FAILED"} THEN 0
  ELSE IF s = "OTP" THEN 50 ELSE internal[s] \div 2

\* internal[s]: the score the provider reported for step s.
Confidence(s, status, internal) ==
  CASE status \in {"PENDING", "FAILED"} -> 0
    [] s = "OTP" /\ status = "PASSED" -> 100
    [] s = "OTP" /\ status = "REVIEW" -> 50
    [] OTHER -> internal[s]

Decided(policy, checks) == {s \in policy.steps : checks[s] # "PENDING"}

Total(share) ==
  share["DOCUMENT_VERIFICATION"] + share["LIVENESS"] + share["FACE_MATCH"] + share["OTP"]

Below(threshold, policy, checks, internal) ==
  LET weight == [s \in Steps |-> IF s \in Decided(policy, checks) THEN Weight[s] ELSE 0]
      earned == [s \in Steps |-> weight[s] * Confidence(s, checks[s], internal)]
  IN  IF Total(weight) = 0 THEN 0 < threshold
                           ELSE Total(earned) < threshold * Total(weight)

(***************************************************************************)
(* decide(): the status the checks amount to, whether it completes the     *)
(* session, and the reasons given.                                         *)
(***************************************************************************)
HardRejectSteps == {"LIVENESS"}

WithStatus(policy, checks, status) == {s \in policy.steps : checks[s] = status}

\* Slip: a step that can only ask for a review is not waited for.
PendingHardOnly(policy, checks) ==
  WithStatus(policy, checks, "PENDING") \ policy.reviewOnFailure

Pending(policy, checks) == WithStatus(policy, checks, "PENDING")

HardFailures(policy, checks) ==
  {s \in WithStatus(policy, checks, "FAILED") :
     s \in HardRejectSteps \/ s \notin policy.reviewOnFailure}

SoftFailures(policy, checks) ==
  WithStatus(policy, checks, "FAILED") \ HardFailures(policy, checks)

NeedReview(policy, checks) ==
  SoftFailures(policy, checks) \cup WithStatus(policy, checks, "REVIEW")

Decision(status, completed, reasons) ==
  [status |-> status, completed |-> completed, reasons |-> reasons]

Decide(policy, checks, internal) ==
  LET hard    == HardFailures(policy, checks)
      pending == Pending(policy, checks)
      review  == NeedReview(policy, checks)
  IN  CASE hard # {} ->
             Decision("REJECTED", TRUE, hard \X {"FAILED"})
        [] hard = {} /\ pending # {} ->
             Decision("IN_PROGRESS", FALSE, pending \X {"PENDING"})
        [] hard = {} /\ pending = {} /\ review # {} ->
             Decision("REVIEW", TRUE, review \X {"REVIEW"})
        [] hard = {} /\ pending = {} /\ review = {}
              /\ Below(ReviewThreshold, policy, checks, internal) ->
             Decision("REJECTED", TRUE, {<<"SCORE", "LOW_CONFIDENCE">>})
        [] hard = {} /\ pending = {} /\ review = {}
              /\ ~Below(ReviewThreshold, policy, checks, internal)
              /\ Below(AcceptThreshold, policy, checks, internal) ->
             Decision("REVIEW", TRUE, {<<"SCORE", "MEDIUM_CONFIDENCE">>})
        [] OTHER -> Decision("VERIFIED", TRUE, {})
=============================================================================
