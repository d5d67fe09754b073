---------------------------- MODULE DecisionProofs ----------------------------
(***************************************************************************)
(* Theorems about the decision engine and the results it is given.         *)
(*                                                                         *)
(* The verdict, for any thresholds under which the weakest results that    *)
(* count as PASSED score no less than the review mark (Passable; so with   *)
(* the default settings).  An engine writes PASSED only with a score at    *)
(* its threshold or above (Scored); the verdict's score grows with the     *)
(* scores of the checks (ScoreGrows); so a session all of whose checks are *)
(* PASSED is never below the review mark.                                  *)
(*                                                                         *)
(* The document, for any thresholds.  A scan is the printed line, cut      *)
(* short or not, with at most one place misread (Scanned).  A line that is *)
(* cut does not pass (CutFails), and one that passes differs from the      *)
(* printed one, where a check digit looks, by tens at most                 *)
(* (MisreadingIsSeen).                                                     *)
(***************************************************************************)
EXTENDS MCDecision, ProvidersProofs

-----------------------------------------------------------------------------
(***************************************************************************)
(* The thresholds.                                                         *)
(***************************************************************************)
\* The weakest results that count as PASSED.
Weakest == [s \in Steps |->
  CASE s = "DOCUMENT_VERIFICATION" -> DocumentReviewThreshold
    [] s = "LIVENESS" -> LivenessThreshold
    [] s = "FACE_MATCH" -> FaceMatchThreshold
    [] s = "OTP" -> 0]

AllPassed == [s \in Steps |-> "PASSED"]

Passable ==
  \A f \in Flows : ~Below(ReviewThreshold, Policy(f), AllPassed, Weakest)

-----------------------------------------------------------------------------
(***************************************************************************)
(* The score.                                                              *)
(***************************************************************************)
Passes(policy, c) == \A s \in policy.steps : c[s] = "PASSED"

LEMMA FlowSteps ==
  ASSUME NEW f \in Flows
  PROVE  Policy(f).steps = Steps \/ Policy(f).steps = {"DOCUMENT_VERIFICATION", "OTP"}
BY DEF Policy, Flows

LEMMA PassedConfidence ==
  ASSUME NEW s \in Steps, NEW i
  PROVE  Confidence(s, "PASSED", i) = IF s = "OTP" THEN 100 ELSE i[s]
BY DEF Confidence, Steps

\* What a session earns whose checks are all PASSED, in hundredths of its
\* weights.
LEMMA PassedScore ==
  ASSUME NEW f \in Flows, NEW c, NEW i \in [Steps -> Int], Passes(Policy(f), c), NEW t \in Int
  PROVE  IF Policy(f).steps = Steps
         THEN Below(t, Policy(f), c, i) <=>
                30 * i["DOCUMENT_VERIFICATION"] + 25 * i["LIVENESS"] + 25 * i["FACE_MATCH"] + 1500
                  < 95 * t
         ELSE Below(t, Policy(f), c, i) <=> 30 * i["DOCUMENT_VERIFICATION"] + 1500 < 45 * t
<1> DEFINE P == Policy(f)
           W == [s \in Steps |-> IF s \in Decided(P, c) THEN Weight[s] ELSE 0]
           E == [s \in Steps |-> W[s] * Confidence(s, c[s], i)]
<1>1. Below(t, P, c, i) <=> IF Total(W) = 0 THEN 0 < t ELSE Total(E) < t * Total(W)
  BY DEF Below
<1>2. Decided(P, c) = P.steps
  BY DEF Decided, Passes
<1>3. /\ Weight["DOCUMENT_VERIFICATION"] = 30 /\ Weight["LIVENESS"] = 25
      /\ Weight["FACE_MATCH"] = 25 /\ Weight["OTP"] = 15
  BY DEF Weight, Steps
<1>4. /\ \A s \in Steps :
           s \in P.steps => W[s] = Weight[s] /\ E[s] = Weight[s] * Confidence(s, "PASSED", i)
      /\ \A s \in Steps :
           s \notin P.steps => W[s] = 0 /\ E[s] = 0 * Confidence(s, c[s], i)
  BY <1>2 DEF Passes
<1>5. /\ \A s \in Steps : i[s] \in Int
      /\ {"DOCUMENT_VERIFICATION", "LIVENESS", "FACE_MATCH", "OTP"} = Steps
  BY DEF Steps
<1> HIDE DEF W, E, P
<1>6. ASSUME NEW s \in Steps, s \in P.steps
      PROVE  W[s] = Weight[s] /\ E[s] = Weight[s] * (IF s = "OTP" THEN 100 ELSE i[s])
  BY <1>4, <1>6, PassedConfidence
<1>7. CASE P.steps = Steps
  <2>1. /\ Total(W) = 95
        /\ Total(E) = 30 * i["DOCUMENT_VERIFICATION"] + 25 * i["LIVENESS"] + 25 * i["FACE_MATCH"] + 1500
    BY <1>3, <1>5, <1>6, <1>7 DEF Total
  <2> QED BY <1>1, <1>7, <2>1 DEF P
<1>8. CASE P.steps = {"DOCUMENT_VERIFICATION", "OTP"} /\ P.steps # Steps
  <2>1. /\ "LIVENESS" \notin P.steps /\ "FACE_MATCH" \notin P.steps
        /\ "DOCUMENT_VERIFICATION" \in P.steps /\ "OTP" \in P.steps
    BY <1>8
  <2>2. W["LIVENESS"] = 0 /\ W["FACE_MATCH"] = 0
    BY <1>4, <1>5, <2>1
  <2>3. E["LIVENESS"] = 0 /\ E["FACE_MATCH"] = 0
    <3>1. ASSUME NEW x \in Int PROVE 0 * x = 0
      OBVIOUS
    <3>2. \A s \in Steps : Confidence(s, c[s], i) \in Int
      BY <1>5 DEF Confidence
    <3> QED BY <1>4, <1>5, <2>1, <3>1, <3>2
  <2>4. Total(W) = 45 /\ Total(E) = 30 * i["DOCUMENT_VERIFICATION"] + 1500
    BY <1>3, <1>5, <1>6, <2>1, <2>2, <2>3 DEF Total
  <2> QED BY <1>1, <1>8, <2>4 DEF P
<1> QED BY <1>7, <1>8, FlowSteps DEF P

\* The score grows with the scores of the checks.
LEMMA ScoreGrows ==
  ASSUME NEW f \in Flows, NEW c, NEW d, NEW i \in [Steps -> Int], NEW j \in [Steps -> Int],
         Passes(Policy(f), c), Passes(Policy(f), d),
         \A s \in Policy(f).steps \ {"OTP"} : i[s] <= j[s],
         NEW t \in Int, ~Below(t, Policy(f), c, i)
  PROVE  ~Below(t, Policy(f), d, j)
<1> DEFINE P == Policy(f)
<1>1. /\ \A s \in Steps : i[s] \in Int /\ j[s] \in Int
      /\ Steps = {"DOCUMENT_VERIFICATION", "LIVENESS", "FACE_MATCH", "OTP"}
  BY DEF Steps
<1>2. IF P.steps = Steps
      THEN Below(t, P, c, i) <=>
             30 * i["DOCUMENT_VERIFICATION"] + 25 * i["LIVENESS"] + 25 * i["FACE_MATCH"] + 1500
               < 95 * t
      ELSE Below(t, P, c, i) <=> 30 * i["DOCUMENT_VERIFICATION"] + 1500 < 45 * t
  BY PassedScore
<1>3. IF P.steps = Steps
      THEN Below(t, P, d, j) <=>
             30 * j["DOCUMENT_VERIFICATION"] + 25 * j["LIVENESS"] + 25 * j["FACE_MATCH"] + 1500
               < 95 * t
      ELSE Below(t, P, d, j) <=> 30 * j["DOCUMENT_VERIFICATION"] + 1500 < 45 * t
  BY PassedScore
<1>4. P.steps = Steps \/ P.steps = {"DOCUMENT_VERIFICATION", "OTP"}
  BY FlowSteps
<1>5. ~Below(t, P, c, i) /\ \A s \in P.steps \ {"OTP"} : i[s] <= j[s]
  OBVIOUS
<1> HIDE DEF P
<1>6. CASE P.steps = Steps
  <2>1. /\ i["DOCUMENT_VERIFICATION"] <= j["DOCUMENT_VERIFICATION"]
        /\ i["LIVENESS"] <= j["LIVENESS"] /\ i["FACE_MATCH"] <= j["FACE_MATCH"]
    BY <1>1, <1>5, <1>6
  <2> QED BY <1>1, <1>2, <1>3, <1>5, <1>6, <2>1 DEF P
<1>7. CASE P.steps # Steps
  <2>1. i["DOCUMENT_VERIFICATION"] <= j["DOCUMENT_VERIFICATION"]
    BY <1>4, <1>5, <1>7
  <2> QED BY <1>1, <1>2, <1>3, <1>5, <1>7, <2>1 DEF P
<1> QED BY <1>6, <1>7

-----------------------------------------------------------------------------
(***************************************************************************)
(* What the engines write.                                                 *)
(***************************************************************************)
\* A result an engine may write for a step.
Sound(step, status, score) ==
  /\ status \in CheckStatus
  /\ score \in Int
  /\ status = "PASSED" /\ step # "OTP" => Weakest[step] <= score

\* Checks and scores that the engines wrote.
Rated(c, i) ==
  /\ c \in [Steps -> CheckStatus]
  /\ i \in [Steps -> Int]
  /\ \A s \in Steps : Sound(s, c[s], i[s])

Scored ==
  /\ flow \in Flows
  /\ provider \in {"stub", "inhouse"}
  /\ Rated(checks, internal)

LEMMA WeakestValues ==
  /\ Weakest["DOCUMENT_VERIFICATION"] = DocumentReviewThreshold
  /\ Weakest["LIVENESS"] = LivenessThreshold
  /\ Weakest["FACE_MATCH"] = FaceMatchThreshold
  /\ Weakest \in [Steps -> Int]
BY ScoreAssumption DEF Weakest, Steps

\* The document engine's confidence is a number, its PASSED one that is not
\* below the review threshold.
LEMMA DocumentSound ==
  ASSUME provider \in {"stub", "inhouse"}, NEW image \in Images
  PROVE  LET result == DocumentResult(provider, scan, image) IN
           Sound("DOCUMENT_VERIFICATION", result[1], result[2])
<1> DEFINE ocr == Extract(provider, scan)
           confidence == Confident(provider, ocr, image)
           status == IF IsExpired(ocr.expiry_date) \/ ~Authentic(confidence) THEN "FAILED"
                     ELSE IF confidence < DocumentReviewThreshold THEN "REVIEW" ELSE "PASSED"
<1>1. DocumentResult(provider, scan, image) = <<status, confidence>>
  BY DEF DocumentResult
<1>2. confidence \in Int
  <2> HIDE DEF ocr
  <2>1. CASE provider = "stub"
    BY <2>1 DEF Images, Confident, StubConfidence
  <2>2. CASE provider = "inhouse"
    <3>1. image.sharpness \in Int /\ image.ela \in Int
      BY <2>2 DEF Images
    <3>2. image.sharpness \div 10 \in Int /\ image.ela \div 10 \in Int
      BY <3>1
    <3> QED BY <2>2, <3>2 DEF Confident, InHouseConfidence
  <2> QED BY <2>1, <2>2
<1> HIDE DEF ocr, confidence
<1>3. /\ status \in CheckStatus
      /\ status = "PASSED" => DocumentReviewThreshold <= confidence
  BY <1>2, ScoreAssumption DEF CheckStatus
<1> HIDE DEF status
<1> QED BY <1>1, <1>2, <1>3, WeakestValues DEF Sound

LEMMA FaceScores ==
  /\ \A selfie \in Selfies : LivenessScore(selfie) \in Int
  /\ \A cosine \in Int : MatchScore(cosine, 25, 55) \in Int
<1>1. ASSUME NEW selfie \in Selfies
      PROVE  LivenessScore(selfie) \in Int
  <2>1. /\ selfie.sharp \in Int /\ selfie.size \in Int
        /\ selfie.colour \in Int /\ selfie.real \in Int
    BY DEF Selfies
  <2>2. Heuristic(selfie) \in Int
    BY <2>1 DEF Heuristic
  <2>3. (85 * selfie.real + 15 * Heuristic(selfie)) \div 100 \in Int
    BY <2>1, <2>2
  <2> QED BY <2>2, <2>3 DEF LivenessScore
<1>2. ASSUME NEW cosine \in Int
      PROVE  MatchScore(cosine, 25, 55) \in Int
  BY DEF MatchScore
<1> QED BY <1>1, <1>2

LEMMA ResultSound ==
  ASSUME provider \in {"stub", "inhouse"}, NEW step \in Steps, NEW result \in Result(step)
  PROVE  Sound(step, result[1], result[2])
<1>1. \A s : Sound(s, HookReview[1], HookReview[2])
  BY DEF Sound, HookReview, CheckStatus
<1>2. CASE step = "DOCUMENT_VERIFICATION"
  <2>1. result = HookReview \/ \E image \in Images : result = DocumentResult(provider, scan, image)
    BY <1>2 DEF Result
  <2> QED BY <1>1, <1>2, <2>1, DocumentSound
<1>3. CASE step = "LIVENESS"
  <2>1. result = HookReview \/ \E score \in Int : result = LivenessResult(score)
    BY <1>3, FaceScores DEF Result
  <2> QED BY <1>1, <1>3, <2>1, WeakestValues, ScoreAssumption DEF Sound, LivenessResult, CheckStatus
<1>4. CASE step = "FACE_MATCH"
  <2>1. result = HookReview \/ \E score \in Int : result = MatchResult(score)
    BY <1>4, FaceScores DEF Result
  <2> QED BY <1>1, <1>4, <2>1, WeakestValues, ScoreAssumption DEF Sound, MatchResult, CheckStatus
<1>5. CASE step = "OTP"
  BY <1>5 DEF Result, Sound, CheckStatus
<1> QED BY <1>2, <1>3, <1>4, <1>5 DEF Steps

LEMMA ScoredHolds == Spec => []Scored
<1>1. Init => Scored
  BY DEF Init, Scored, Rated, Sound, CheckStatus
<1>2. Scored /\ [Next]_vars => Scored'
  <2> SUFFICES ASSUME Scored, [Next]_vars
               PROVE  Scored'
    OBVIOUS
  <2>1. CASE UNCHANGED vars
    BY <2>1 DEF vars, passport, Scored
  <2>2. ASSUME NEW step \in Policy(flow).steps, Write(step)
        PROVE  Scored'
    <3>1. step \in Steps
      BY FlowSteps DEF Scored, Steps
    <3>2. PICK result \in Result(step) :
            /\ checks' = [checks EXCEPT ![step] = result[1]]
            /\ internal' = [internal EXCEPT ![step] = result[2]]
            /\ UNCHANGED passport
      BY <2>2 DEF Write
    <3>3. Sound(step, result[1], result[2])
      BY <3>1, ResultSound DEF Scored
    <3>4. /\ checks' \in [Steps -> CheckStatus] /\ internal' \in [Steps -> Int]
          /\ flow' = flow /\ provider' = provider
      BY <3>1, <3>2, <3>3 DEF Scored, Rated, Sound, passport
    <3>5. ASSUME NEW s \in Steps PROVE Sound(s, checks'[s], internal'[s])
      BY <3>1, <3>2, <3>3 DEF Scored, Rated
    <3> QED BY <3>4, <3>5 DEF Scored, Rated
  <2> QED BY <2>1, <2>2 DEF Next
<1> QED BY <1>1, <1>2, PTL DEF Spec

-----------------------------------------------------------------------------
\* The default settings are such thresholds (core/config.py).
LEMMA DefaultsPass ==
  ASSUME ReviewThreshold = 50, DocumentReviewThreshold = 60,
         LivenessThreshold = 70, FaceMatchThreshold = 80
  PROVE  Passable
<1> SUFFICES ASSUME NEW f \in Flows
             PROVE  ~Below(ReviewThreshold, Policy(f), AllPassed, Weakest)
  BY DEF Passable
<1>1. /\ Weakest["DOCUMENT_VERIFICATION"] = 60
      /\ Weakest["LIVENESS"] = 70 /\ Weakest["FACE_MATCH"] = 80
      /\ Weakest \in [Steps -> Int]
  BY WeakestValues
<1>2. Passes(Policy(f), AllPassed)
  BY FlowSteps DEF Passes, AllPassed, Steps
<1>3. IF Policy(f).steps = Steps
      THEN Below(50, Policy(f), AllPassed, Weakest) <=>
             30 * 60 + 25 * 70 + 25 * 80 + 1500 < 95 * 50
      ELSE Below(50, Policy(f), AllPassed, Weakest) <=> 30 * 60 + 1500 < 45 * 50
  BY <1>1, <1>2, PassedScore
<1> QED BY <1>3

-----------------------------------------------------------------------------
(***************************************************************************)
(* The verdict.                                                            *)
(***************************************************************************)
\* What decide() answers, by cases.
LEMMA Verdicts ==
  ASSUME NEW f \in Flows, NEW c \in [Steps -> CheckStatus], NEW i
  PROVE  LET P == Policy(f)
             d == Decide(P, c, i) IN
    /\ d.completed => d.status \in {"REJECTED", "REVIEW", "VERIFIED"}
    /\ d.completed => HardFailures(P, c) # {} \/ Pending(P, c) = {}
    /\ HardFailures(P, c) # {} => /\ d.status = "REJECTED"
                                  /\ d.reasons = HardFailures(P, c) \X {"FAILED"}
    /\ d.status = "REJECTED" => \/ HardFailures(P, c) # {}
                                \/ Passes(P, c) /\ Below(ReviewThreshold, P, c, i)
    /\ d.status = "VERIFIED" <=> /\ Passes(P, c)
                                 /\ ~Below(ReviewThreshold, P, c, i)
                                 /\ ~Below(AcceptThreshold, P, c, i)
<1> DEFINE P == Policy(f)
           hard    == HardFailures(P, c)
           pending == Pending(P, c)
           review  == NeedReview(P, c)
           weak    == Below(ReviewThreshold, P, c, i)
           medium  == Below(AcceptThreshold, P, c, i)
           d       == Decide(P, c, i)
           failed  == hard \X {"FAILED"}
<1>1. P.steps \subseteq Steps
  BY FlowSteps DEF Steps
<1>2. Passes(P, c) <=> hard = {} /\ pending = {} /\ review = {}
  <2> HIDE DEF P
  <2> QED BY <1>1 DEF Passes, HardFailures, Pending, NeedReview, SoftFailures, WithStatus, CheckStatus
<1>3. d = CASE hard # {} -> Decision("REJECTED", TRUE, hard \X {"FAILED"})
            [] hard = {} /\ pending # {} ->
                 Decision("IN_PROGRESS", FALSE, pending \X {"PENDING"})
            [] hard = {} /\ pending = {} /\ review # {} ->
                 Decision("REVIEW", TRUE, review \X {"REVIEW"})
            [] hard = {} /\ pending = {} /\ review = {} /\ weak ->
                 Decision("REJECTED", TRUE, {<<"SCORE", "LOW_CONFIDENCE">>})
            [] hard = {} /\ pending = {} /\ review = {} /\ ~weak /\ medium ->
                 Decision("REVIEW", TRUE, {<<"SCORE", "MEDIUM_CONFIDENCE">>})
            [] OTHER -> Decision("VERIFIED", TRUE, {})
  BY DEF Decide
<1> HIDE DEF hard, pending, review, weak, medium, d
<1> DEFINE Answers ==
             /\ d.completed => d.status \in {"REJECTED", "REVIEW", "VERIFIED"}
             /\ d.completed => hard # {} \/ pending = {}
             /\ hard # {} => d.status = "REJECTED" /\ d.reasons = failed
             /\ d.status = "REJECTED" => hard # {} \/ (Passes(P, c) /\ weak)
             /\ d.status = "VERIFIED" <=> Passes(P, c) /\ ~weak /\ ~medium
<1> SUFFICES Answers
  BY DEF hard, pending, weak, medium, d
<1>4. CASE hard # {}
  <2>1. d = Decision("REJECTED", TRUE, failed)
    BY <1>3, <1>4
  <2> HIDE DEF failed
  <2>2. d.status = "REJECTED" /\ d.completed = TRUE /\ d.reasons = failed
    BY <2>1 DEF Decision
  <2> QED BY <1>2, <1>4, <2>2
<1>5. CASE hard = {} /\ pending # {}
  <2>1. d = Decision("IN_PROGRESS", FALSE, pending \X {"PENDING"})
    BY <1>3, <1>5
  <2>2. d.status = "IN_PROGRESS" /\ d.completed = FALSE /\ d.reasons = pending \X {"PENDING"}
    BY <2>1 DEF Decision
  <2> QED BY <1>2, <1>5, <2>2
<1>6. CASE hard = {} /\ pending = {} /\ review # {}
  <2>1. d = Decision("REVIEW", TRUE, review \X {"REVIEW"})
    BY <1>3, <1>6
  <2>2. d.status = "REVIEW" /\ d.completed = TRUE /\ d.reasons = review \X {"REVIEW"}
    BY <2>1 DEF Decision
  <2> QED BY <1>2, <1>6, <2>2
<1>7. CASE hard = {} /\ pending = {} /\ review = {} /\ weak
  <2>1. d = Decision("REJECTED", TRUE, {<<"SCORE", "LOW_CONFIDENCE">>})
    BY <1>3, <1>7
  <2>2. d.status = "REJECTED" /\ d.completed = TRUE /\ d.reasons = {<<"SCORE", "LOW_CONFIDENCE">>}
    BY <2>1 DEF Decision
  <2> QED BY <1>2, <1>7, <2>2
<1>8. CASE hard = {} /\ pending = {} /\ review = {} /\ ~weak /\ medium
  <2>1. d = Decision("REVIEW", TRUE, {<<"SCORE", "MEDIUM_CONFIDENCE">>})
    BY <1>3, <1>8
  <2>2. d.status = "REVIEW" /\ d.completed = TRUE /\ d.reasons = {<<"SCORE", "MEDIUM_CONFIDENCE">>}
    BY <2>1 DEF Decision
  <2> QED BY <1>2, <1>8, <2>2
<1>9. CASE hard = {} /\ pending = {} /\ review = {} /\ ~weak /\ ~medium
  <2>1. d = Decision("VERIFIED", TRUE, {})
    BY <1>3, <1>9
  <2>2. d.status = "VERIFIED" /\ d.completed = TRUE /\ d.reasons = {}
    BY <2>1 DEF Decision
  <2> QED BY <1>2, <1>9, <2>2
<1> QED BY <1>4, <1>5, <1>6, <1>7, <1>8, <1>9

\* A session all of whose checks are PASSED is at the review mark or above.
LEMMA PassedNotBelow ==
  ASSUME Passable, NEW f \in Flows, NEW c, NEW i, Rated(c, i), Passes(Policy(f), c)
  PROVE  ~Below(ReviewThreshold, Policy(f), c, i)
<1>1. i \in [Steps -> Int] /\ Passes(Policy(f), c) /\ ReviewThreshold \in Int
  BY ThresholdAssumption DEF Rated, Percent
<1>2. Passes(Policy(f), AllPassed)
  BY FlowSteps DEF Passes, AllPassed, Steps
<1>3. \A s \in Policy(f).steps \ {"OTP"} : Weakest[s] <= i[s]
  <2>1. Policy(f).steps \subseteq Steps
    BY FlowSteps DEF Steps
  <2> QED BY <2>1 DEF Passes, Rated, Sound
<1>4. Weakest \in [Steps -> Int] /\ ~Below(ReviewThreshold, Policy(f), AllPassed, Weakest)
  BY WeakestValues DEF Passable
<1> QED BY <1>1, <1>2, <1>3, <1>4, ScoreGrows

\* So the verdict on them is REJECTED exactly when a check failed that must not.
LEMMA RatedVerdicts ==
  ASSUME Passable, NEW f \in Flows, NEW c, NEW i, Rated(c, i)
  PROVE  LET P == Policy(f)
             d == Decide(P, c, i) IN
    /\ d.completed => d.status \in {"REJECTED", "REVIEW", "VERIFIED"}
    /\ d.completed => HardFailures(P, c) # {} \/ Pending(P, c) = {}
    /\ d.status = "REJECTED" <=> HardFailures(P, c) # {}
    /\ d.status = "REJECTED" => d.reasons = HardFailures(P, c) \X {"FAILED"}
    /\ d.status = "VERIFIED" <=> Passes(P, c) /\ ~Below(AcceptThreshold, P, c, i)
<1>1. c \in [Steps -> CheckStatus]
  BY DEF Rated
<1>2. Passes(Policy(f), c) => ~Below(ReviewThreshold, Policy(f), c, i)
  BY PassedNotBelow
<1> QED BY <1>1, <1>2, Verdicts

-----------------------------------------------------------------------------
\* Nobody is rejected for a low score alone: every rejection names a check
\* that failed (decide(): LOW_CONFIDENCE is never the reason).
THEOREM RejectionAlwaysNamesFailure ==
  ASSUME Passable
  PROVE  Spec => []RejectionNamesFailure
<1>1. Scored => RejectionNamesFailure
  <2> SUFFICES ASSUME Scored, Verdict.status = "REJECTED"
               PROVE  \E s \in Policy(flow).steps : <<s, "FAILED">> \in Verdict.reasons
    BY DEF RejectionNamesFailure
  <2>1. /\ HardFailures(Policy(flow), checks) # {}
        /\ Verdict.reasons = HardFailures(Policy(flow), checks) \X {"FAILED"}
    BY RatedVerdicts DEF Scored, Verdict
  <2>2. PICK s : s \in HardFailures(Policy(flow), checks)
    BY <2>1
  <2>3. s \in Policy(flow).steps
    BY <2>2 DEF HardFailures, WithStatus
  <2> QED BY <2>1, <2>2, <2>3
<1> QED BY <1>1, ScoredHolds, PTL

-----------------------------------------------------------------------------
(***************************************************************************)
(* One check gets better.                                                  *)
(***************************************************************************)
\* The check of step s, from (c, i) to (d, j), in a policy P.
Better(P, s, c, i, d, j) ==
  /\ Decide(P, c, i).completed /\ Decide(P, d, j).completed
  /\ c[s] # "PENDING"
  /\ Level(d[s]) >= Level(c[s])
  /\ d[s] # c[s] \/ j[s] >= i[s]
  /\ \A t \in Steps \ {s} : d[t] = c[t] /\ j[t] = i[t]

LEMMA Levels ==
  ASSUME NEW a \in CheckStatus \ {"PENDING"}, NEW b \in CheckStatus \ {"PENDING"},
         Level(b) >= Level(a)
  PROVE  /\ b = "FAILED" => a = "FAILED"
         /\ a = "PASSED" => b = "PASSED"
BY DEF Level, CheckStatus

\* It fails for no step for which it did not fail before.
LEMMA NoNewFailure ==
  ASSUME Passable, NEW f \in Flows, NEW s \in Policy(f).steps,
         NEW c, NEW i, Rated(c, i), NEW d, NEW j, Rated(d, j),
         Better(Policy(f), s, c, i, d, j),
         Decide(Policy(f), d, j).status = "REJECTED"
  PROVE  Decide(Policy(f), c, i).status = "REJECTED"
<1> DEFINE P == Policy(f)
<1>1. P.steps \subseteq Steps
  BY FlowSteps DEF Steps
<1>2. HardFailures(P, d) # {} /\ Better(P, s, c, i, d, j) /\ s \in P.steps
  BY RatedVerdicts
<1>3. HardFailures(P, c) # {} => Decide(P, c, i).status = "REJECTED"
  BY RatedVerdicts
<1> HIDE DEF P
<1>4. PICK t : t \in HardFailures(P, d)
  BY <1>2
<1>5. /\ t \in P.steps /\ d[t] = "FAILED"
      /\ t \in HardRejectSteps \/ t \notin P.reviewOnFailure
  BY <1>4 DEF HardFailures, WithStatus
<1>6. c[t] = "FAILED"
  <2>1. CASE t = s
    <3>1. c[s] \in CheckStatus \ {"PENDING"} /\ d[s] \in CheckStatus \ {"PENDING"}
      BY <1>1, <1>2, <1>5, <2>1 DEF Rated, Better, CheckStatus
    <3> QED BY <1>2, <1>5, <2>1, <3>1, Levels DEF Better
  <2>2. CASE t # s
    BY <1>1, <1>2, <1>5, <2>2 DEF Better
  <2> QED BY <2>1, <2>2
<1>7. t \in HardFailures(P, c)
  BY <1>5, <1>6 DEF HardFailures, WithStatus
<1> QED BY <1>3, <1>7 DEF P

\* Nor does it lose what it had passed.
LEMMA StaysVerified ==
  ASSUME Passable, NEW f \in Flows, NEW s \in Policy(f).steps,
         NEW c, NEW i, Rated(c, i), NEW d, NEW j, Rated(d, j),
         Better(Policy(f), s, c, i, d, j),
         Decide(Policy(f), c, i).status = "VERIFIED"
  PROVE  Decide(Policy(f), d, j).status = "VERIFIED"
<1> DEFINE P == Policy(f)
<1>1. P.steps \subseteq Steps
  BY FlowSteps DEF Steps
<1>2. /\ Passes(P, c) /\ ~Below(AcceptThreshold, P, c, i)
      /\ Better(P, s, c, i, d, j) /\ s \in P.steps
  BY RatedVerdicts
<1>3. Pending(P, d) = {}
  <2>1. /\ Decide(P, d, j).completed => HardFailures(P, d) # {} \/ Pending(P, d) = {}
        /\ HardFailures(P, d) # {} => Decide(P, d, j).status = "REJECTED"
    BY RatedVerdicts
  <2>2. Decide(P, d, j).status # "REJECTED"
    <3>1. Decide(P, c, i).status # "REJECTED"
      OBVIOUS
    <3> QED BY <3>1, NoNewFailure
  <2> QED BY <1>2, <2>1, <2>2 DEF Better
<1>4. /\ Passes(P, d) /\ ~Below(AcceptThreshold, P, d, j)
      => Decide(P, d, j).status = "VERIFIED"
  BY RatedVerdicts
<1> HIDE DEF P
<1>5. d[s] = "PASSED" /\ i[s] <= j[s]
  <2>1. c[s] = "PASSED"
    BY <1>2 DEF Passes
  <2>2. c[s] \in CheckStatus \ {"PENDING"} /\ d[s] \in CheckStatus \ {"PENDING"}
    BY <1>1, <1>2, <1>3, <2>1 DEF Rated, CheckStatus, Pending, WithStatus
  <2>3. d[s] = "PASSED"
    BY <1>2, <2>1, <2>2, Levels DEF Better
  <2>4. i[s] \in Int /\ j[s] \in Int
    BY <1>1, <1>2 DEF Rated
  <2> QED BY <1>2, <2>1, <2>3, <2>4 DEF Better
<1>6. ASSUME NEW t \in P.steps
      PROVE  d[t] = "PASSED" /\ i[t] <= j[t]
  <2>1. CASE t = s
    BY <1>5, <2>1
  <2>2. CASE t # s
    <3>1. d[t] = c[t] /\ j[t] = i[t] /\ c[t] = "PASSED"
      BY <1>1, <1>2, <2>2 DEF Better, Passes
    <3>2. i[t] \in Int
      BY <1>1 DEF Rated
    <3> QED BY <3>1, <3>2
  <2> QED BY <2>1, <2>2
<1>7. Passes(P, d) /\ \A t \in P.steps \ {"OTP"} : i[t] <= j[t]
  BY <1>6 DEF Passes
<1>8. ~Below(AcceptThreshold, P, d, j)
  <2>1. i \in [Steps -> Int] /\ j \in [Steps -> Int] /\ AcceptThreshold \in Int
    BY ThresholdAssumption DEF Rated, Percent
  <2> QED BY <1>2, <1>7, <2>1, ScoreGrows DEF P
<1> QED BY <1>4, <1>7, <1>8 DEF P

\* A better result for one step never makes the verdict worse (decide(),
\* _compute_risk()).
THEOREM BetterNeverWorse ==
  ASSUME Passable
  PROVE  Spec => BetterIsNeverWorse
<1>1. Scored /\ Scored' /\ [Next]_vars =>
        [\A s \in Policy(flow).steps :
           /\ Verdict.completed /\ Verdict'.completed
           /\ checks[s] # "PENDING"
           /\ Level(checks'[s]) >= Level(checks[s])
           /\ checks'[s] # checks[s] \/ internal'[s] >= internal[s]
           /\ \A t \in Steps \ {s} : checks'[t] = checks[t] /\ internal'[t] = internal[t]
           => Rank(Verdict'.status) >= Rank(Verdict.status)]_vars
  <2> SUFFICES ASSUME Scored, Scored', [Next]_vars, NEW s \in Policy(flow).steps,
                      Verdict.completed, Verdict'.completed,
                      checks[s] # "PENDING",
                      Level(checks'[s]) >= Level(checks[s]),
                      checks'[s] # checks[s] \/ internal'[s] >= internal[s],
                      \A t \in Steps \ {s} : checks'[t] = checks[t] /\ internal'[t] = internal[t]
               PROVE  Rank(Verdict'.status) >= Rank(Verdict.status)
    OBVIOUS
  <2>1. flow' = flow
    BY DEF Next, Write, vars, passport
  <2>2. /\ flow \in Flows /\ Rated(checks, internal) /\ Rated(checks', internal')
        /\ Verdict = Decide(Policy(flow), checks, internal)
        /\ Verdict' = Decide(Policy(flow), checks', internal')
    BY <2>1 DEF Scored, Verdict
  <2>3. Better(Policy(flow), s, checks, internal, checks', internal')
    BY <2>2 DEF Better
  <2>4. Verdict.status \in {"REJECTED", "REVIEW", "VERIFIED"}
    BY <2>2, RatedVerdicts
  <2>5. Verdict'.status \in {"REJECTED", "REVIEW", "VERIFIED"}
    BY <2>2, RatedVerdicts
  <2>6. Verdict'.status = "REJECTED" => Verdict.status = "REJECTED"
    BY <2>2, <2>3, NoNewFailure
  <2>7. Verdict.status = "VERIFIED" => Verdict'.status = "VERIFIED"
    BY <2>2, <2>3, StaysVerified
  <2> QED BY <2>4, <2>5, <2>6, <2>7 DEF Rank
<1> QED BY <1>1, ScoredHolds, PTL DEF Spec, BetterIsNeverWorse

-----------------------------------------------------------------------------
(***************************************************************************)
(* The printed passports.                                                  *)
(***************************************************************************)
Pieces(a, b, c, d, e, f) ==
  /\ {a, b, c, d, e, f} \subseteq Seq(Chars)
  /\ Len(a) = 10 /\ Len(b) = 3 /\ Len(c) = 7 /\ Len(d) = 1 /\ Len(e) = 7 /\ Len(f) = 15

LEMMA Assembled ==
  ASSUME NEW a, NEW b, NEW c, NEW d, NEW e, NEW f, Pieces(a, b, c, d, e, f)
  PROVE  LET l == a \o b \o c \o d \o e \o f IN
         /\ l \in Seq(Chars) /\ Len(l) = 43
         /\ \A k \in Nat : k <= 10 => Part(l, 0, k) = Part(a, 0, k)
         /\ \A k \in Nat : k <= 7 => Part(l, 13, k) = Part(c, 0, k) /\ Part(l, 21, k) = Part(e, 0, k)
<1> DEFINE z == 0
           p == 13
           q == 21
           l2 == a \o b
           l3 == l2 \o c
           l4 == l3 \o d
           l5 == l4 \o e
           l6 == l5 \o f
<1>1. z \in Nat /\ p \in Nat /\ q \in Nat
  OBVIOUS
<1>2. /\ a \in Seq(Chars) /\ b \in Seq(Chars) /\ c \in Seq(Chars)
      /\ d \in Seq(Chars) /\ e \in Seq(Chars) /\ f \in Seq(Chars)
  BY DEF Pieces
<1>3. Len(a) = 10 /\ Len(b) = 3 /\ Len(c) = 7 /\ Len(d) = 1 /\ Len(e) = 7 /\ Len(f) = 15
  BY DEF Pieces
<1> HIDE DEF z, p, q
<1>4. l2 \in Seq(Chars) /\ Len(l2) = 13
  <2>1. a \o b \in Seq(Chars) /\ Len(a \o b) = Len(a) + Len(b)
    BY <1>2, ConcatProperties
  <2> HIDE DEF l2
  <2>2. l2 \in Seq(Chars) /\ Len(l2) = Len(a) + Len(b)
    BY <2>1 DEF l2
  <2> QED BY <1>3, <2>2
<1> HIDE DEF l2
<1>5. l3 \in Seq(Chars) /\ Len(l3) = 20
  <2>1. l2 \o c \in Seq(Chars) /\ Len(l2 \o c) = Len(l2) + Len(c)
    BY <1>4, <1>2, ConcatProperties
  <2> HIDE DEF l3
  <2>2. l3 \in Seq(Chars) /\ Len(l3) = Len(l2) + Len(c)
    BY <2>1 DEF l3
  <2> QED BY <1>4, <1>3, <2>2
<1> HIDE DEF l3
<1>6. l4 \in Seq(Chars) /\ Len(l4) = 21
  <2>1. l3 \o d \in Seq(Chars) /\ Len(l3 \o d) = Len(l3) + Len(d)
    BY <1>5, <1>2, ConcatProperties
  <2> HIDE DEF l4
  <2>2. l4 \in Seq(Chars) /\ Len(l4) = Len(l3) + Len(d)
    BY <2>1 DEF l4
  <2> QED BY <1>5, <1>3, <2>2
<1> HIDE DEF l4
<1>7. l5 \in Seq(Chars) /\ Len(l5) = 28
  <2>1. l4 \o e \in Seq(Chars) /\ Len(l4 \o e) = Len(l4) + Len(e)
    BY <1>6, <1>2, ConcatProperties
  <2> HIDE DEF l5
  <2>2. l5 \in Seq(Chars) /\ Len(l5) = Len(l4) + Len(e)
    BY <2>1 DEF l5
  <2> QED BY <1>6, <1>3, <2>2
<1> HIDE DEF l5
<1>8. l6 \in Seq(Chars) /\ Len(l6) = 43
  <2>1. l5 \o f \in Seq(Chars) /\ Len(l5 \o f) = Len(l5) + Len(f)
    BY <1>7, <1>2, ConcatProperties
  <2> HIDE DEF l6
  <2>2. l6 \in Seq(Chars) /\ Len(l6) = Len(l5) + Len(f)
    BY <2>1 DEF l6
  <2> QED BY <1>7, <1>3, <2>2
<1> HIDE DEF l6
<1>9. ASSUME NEW k \in Nat, k <= 10
      PROVE  Part(l6, z, k) = Part(a, z, k)
  <2>1. z + k <= Len(a) /\ z + k <= Len(l2) /\ z + k <= Len(l3) /\ z + k <= Len(l4) /\ z + k <= Len(l5)
    BY <1>3, <1>4, <1>5, <1>6, <1>7, <1>9 DEF z
  <2>2. Part(l2, z, k) = Part(a, z, k)
    <3>1. a \in Seq(Chars) /\ b \in Seq(Chars) /\ z + k <= Len(a)
      BY <1>2, <2>1
    <3>2. Part(a \o b, z, k) = Part(a, z, k)
      BY <1>1, <3>1, PartLeft
    <3> QED BY <3>2 DEF l2
  <2>3. Part(l3, z, k) = Part(l2, z, k)
    <3>1. l2 \in Seq(Chars) /\ c \in Seq(Chars) /\ z + k <= Len(l2)
      BY <1>2, <1>4, <2>1
    <3>2. Part(l2 \o c, z, k) = Part(l2, z, k)
      BY <1>1, <3>1, PartLeft
    <3> QED BY <3>2 DEF l3
  <2>4. Part(l4, z, k) = Part(l3, z, k)
    <3>1. l3 \in Seq(Chars) /\ d \in Seq(Chars) /\ z + k <= Len(l3)
      BY <1>2, <1>5, <2>1
    <3>2. Part(l3 \o d, z, k) = Part(l3, z, k)
      BY <1>1, <3>1, PartLeft
    <3> QED BY <3>2 DEF l4
  <2>5. Part(l5, z, k) = Part(l4, z, k)
    <3>1. l4 \in Seq(Chars) /\ e \in Seq(Chars) /\ z + k <= Len(l4)
      BY <1>2, <1>6, <2>1
    <3>2. Part(l4 \o e, z, k) = Part(l4, z, k)
      BY <1>1, <3>1, PartLeft
    <3> QED BY <3>2 DEF l5
  <2>6. Part(l6, z, k) = Part(l5, z, k)
    <3>1. l5 \in Seq(Chars) /\ f \in Seq(Chars) /\ z + k <= Len(l5)
      BY <1>2, <1>7, <2>1
    <3>2. Part(l5 \o f, z, k) = Part(l5, z, k)
      BY <1>1, <3>1, PartLeft
    <3> QED BY <3>2 DEF l6
  <2> QED BY <2>2, <2>3, <2>4, <2>5, <2>6
<1>10. ASSUME NEW k \in Nat, k <= 7
      PROVE  Part(l6, p, k) = Part(c, z, k)
  <2>1. z + k <= Len(c) /\ p = Len(l2) + z /\ p + k <= Len(l3) /\ p + k <= Len(l4) /\ p + k <= Len(l5)
    BY <1>3, <1>4, <1>5, <1>6, <1>7, <1>10 DEF z, p
  <2>2. Part(l3, p, k) = Part(c, z, k)
    <3>1. l2 \in Seq(Chars) /\ c \in Seq(Chars) /\ z + k <= Len(c) /\ p = Len(l2) + z
      BY <1>2, <1>4, <2>1
    <3>2. Part(l2 \o c, p, k) = Part(c, z, k)
      BY <1>1, <3>1, PartRight
    <3> QED BY <3>2 DEF l3
  <2>3. Part(l4, p, k) = Part(l3, p, k)
    <3>1. l3 \in Seq(Chars) /\ d \in Seq(Chars) /\ p + k <= Len(l3)
      BY <1>2, <1>5, <2>1
    <3>2. Part(l3 \o d, p, k) = Part(l3, p, k)
      BY <1>1, <3>1, PartLeft
    <3> QED BY <3>2 DEF l4
  <2>4. Part(l5, p, k) = Part(l4, p, k)
    <3>1. l4 \in Seq(Chars) /\ e \in Seq(Chars) /\ p + k <= Len(l4)
      BY <1>2, <1>6, <2>1
    <3>2. Part(l4 \o e, p, k) = Part(l4, p, k)
      BY <1>1, <3>1, PartLeft
    <3> QED BY <3>2 DEF l5
  <2>5. Part(l6, p, k) = Part(l5, p, k)
    <3>1. l5 \in Seq(Chars) /\ f \in Seq(Chars) /\ p + k <= Len(l5)
      BY <1>2, <1>7, <2>1
    <3>2. Part(l5 \o f, p, k) = Part(l5, p, k)
      BY <1>1, <3>1, PartLeft
    <3> QED BY <3>2 DEF l6
  <2> QED BY <2>2, <2>3, <2>4, <2>5
<1>11. ASSUME NEW k \in Nat, k <= 7
      PROVE  Part(l6, q, k) = Part(e, z, k)
  <2>1. z + k <= Len(e) /\ q = Len(l4) + z /\ q + k <= Len(l5)
    BY <1>3, <1>4, <1>5, <1>6, <1>7, <1>11 DEF z, q
  <2>2. Part(l5, q, k) = Part(e, z, k)
    <3>1. l4 \in Seq(Chars) /\ e \in Seq(Chars) /\ z + k <= Len(e) /\ q = Len(l4) + z
      BY <1>2, <1>6, <2>1
    <3>2. Part(l4 \o e, q, k) = Part(e, z, k)
      BY <1>1, <3>1, PartRight
    <3> QED BY <3>2 DEF l5
  <2>3. Part(l6, q, k) = Part(l5, q, k)
    <3>1. l5 \in Seq(Chars) /\ f \in Seq(Chars) /\ q + k <= Len(l5)
      BY <1>2, <1>7, <2>1
    <3>2. Part(l5 \o f, q, k) = Part(l5, q, k)
      BY <1>1, <3>1, PartLeft
    <3> QED BY <3>2 DEF l6
  <2> QED BY <2>2, <2>3
<1>12. /\ \A k \in Nat : k <= 10 => Part(l6, 0, k) = Part(a, 0, k)
       /\ \A k \in Nat : k <= 7 => Part(l6, 13, k) = Part(c, 0, k) /\ Part(l6, 21, k) = Part(e, 0, k)
  BY <1>9, <1>10, <1>11 DEF z, p, q
<1> QED BY <1>8, <1>12 DEF l2, l3, l4, l5, l6

\* The values in front of the digits of every passport, and the digits.
Number == <<1, 2, 10, 11, 3, 4, 5, 6, 7>>
Born   == <<8, 5, 0, 1, 0, 1>>
Unsigned(expiry) ==
  Signed(Number) \o <<12, 24, 16>> \o Signed(Born) \o <<22>> \o Signed(expiry) \o [i \in 1 .. 15 |-> Filler]

LEMMA FixedFields ==
  /\ Number \in Seq(Chars) /\ Len(Number) = 9
  /\ Born \in Seq(Chars) /\ Len(Born) = 6
BY DEF Number, Born, Chars, Filler

LEMMA UnsignedPieces ==
  ASSUME NEW expiry \in Seq(Chars), Len(expiry) = 6
  PROVE  Pieces(Signed(Number), <<12, 24, 16>>, Signed(Born), <<22>>, Signed(expiry), [i \in 1 .. 15 |-> Filler])
<1>1. /\ <<12, 24, 16>> \in Seq(Chars) /\ Len(<<12, 24, 16>>) = 3
      /\ <<22>> \in Seq(Chars) /\ Len(<<22>>) = 1
  BY DEF Chars, Filler
<1>2. [i \in 1 .. 15 |-> Filler] \in Seq(Chars) /\ Len([i \in 1 .. 15 |-> Filler]) = 15
  BY DEF Chars, Filler
<1>3. Signed(Number) \in Seq(Chars) /\ Len(Signed(Number)) = 10
  <2>1. Number \in Seq(Chars) /\ Len(Number) = 9
    BY FixedFields
  <2>2. Signed(Number) \in Seq(Chars) /\ Len(Signed(Number)) = Len(Number) + 1
    BY <2>1, SignedType
  <2> QED BY <2>1, <2>2
<1>4. Signed(Born) \in Seq(Chars) /\ Len(Signed(Born)) = 7
  <2>1. Born \in Seq(Chars) /\ Len(Born) = 6
    BY FixedFields
  <2>2. Signed(Born) \in Seq(Chars) /\ Len(Signed(Born)) = Len(Born) + 1
    BY <2>1, SignedType
  <2> QED BY <2>1, <2>2
<1>5. Signed(expiry) \in Seq(Chars) /\ Len(Signed(expiry)) = 7
  <2>1. expiry \in Seq(Chars) /\ Len(expiry) = 6
    OBVIOUS
  <2>2. Signed(expiry) \in Seq(Chars) /\ Len(Signed(expiry)) = Len(expiry) + 1
    BY <2>1, SignedType
  <2> QED BY <2>1, <2>2
<1> QED BY <1>1, <1>2, <1>3, <1>4, <1>5 DEF Pieces

\* What is printed passes its own checks.
LEMMA Printed ==
  ASSUME NEW expiry \in Seq(Chars), Len(expiry) = 6
  PROVE  Line(expiry) \in Lines /\ Passing(Line(expiry)) /\ ExpiryDate(Line(expiry)) = expiry
<1> DEFINE l == Unsigned(expiry)
           c == CheckDigit(Composite(l))
           L == Append(l, c)
<1>1. Line(expiry) = L
  BY DEF Line, Unsigned, Signed, Number, Born
<1>2. /\ l \in Seq(Chars) /\ Len(l) = 43
      /\ \A k \in Nat : k <= 10 => Part(l, 0, k) = Part(Signed(Number), 0, k)
      /\ \A k \in Nat : k <= 7 =>
           Part(l, 13, k) = Part(Signed(Born), 0, k) /\ Part(l, 21, k) = Part(Signed(expiry), 0, k)
  <2> DEFINE a == Signed(Number)
             b == <<12, 24, 16>>
             d == Signed(Born)
             e == <<22>>
             f == Signed(expiry)
             g == [i \in 1 .. 15 |-> Filler]
  <2>1. Pieces(a, b, d, e, f, g)
    BY UnsignedPieces
  <2>2. l = a \o b \o d \o e \o f \o g
    BY DEF Unsigned
  <2> HIDE DEF a, b, d, e, f, g, l
  <2>3. /\ l \in Seq(Chars) /\ Len(l) = 43
        /\ \A k \in Nat : k <= 10 => Part(l, 0, k) = Part(a, 0, k)
        /\ \A k \in Nat : k <= 7 => Part(l, 13, k) = Part(d, 0, k) /\ Part(l, 21, k) = Part(f, 0, k)
    BY <2>1, <2>2, Assembled
  <2> QED BY <2>3 DEF a, d, f
<1> HIDE DEF l
<1>3. Composite(l) = Part(l, 0, 10) \o Part(l, 13, 7) \o Part(l, 21, 22)
  BY DEF Composite, Part
<1>4. Composite(l) \in Seq(Chars)
  <2>1. Part(l, 0, 10) \in Seq(Chars) /\ Part(l, 13, 7) \in Seq(Chars) /\ Part(l, 21, 22) \in Seq(Chars)
    <3> DEFINE i == 0
               m == 10
               j == 13
               n == 7
               o == 21
               p == 22
    <3>1. l \in Seq(Chars)
      BY <1>2
    <3>2. /\ i \in Nat /\ m \in Nat /\ j \in Nat /\ n \in Nat /\ o \in Nat /\ p \in Nat
          /\ i + m <= Len(l) /\ j + n <= Len(l) /\ o + p <= Len(l)
      BY <1>2
    <3> HIDE DEF i, m, j, n, o, p
    <3>3. Part(l, i, m) \in Seq(Chars) /\ Part(l, j, n) \in Seq(Chars) /\ Part(l, o, p) \in Seq(Chars)
      BY <3>1, <3>2, PartIn
    <3> QED BY <3>3 DEF i, m, j, n, o, p
  <2>2. Part(l, 0, 10) \o Part(l, 13, 7) \in Seq(Chars)
    BY <2>1, ConcatProperties
  <2>3. Part(l, 0, 10) \o Part(l, 13, 7) \o Part(l, 21, 22) \in Seq(Chars)
    BY <2>1, <2>2, ConcatProperties
  <2> QED BY <1>3, <2>3
<1>5. c \in Chars
  BY <1>4, DigitRange
<1> HIDE DEF c
<1>6. /\ L \in Seq(Chars) /\ Len(L) = 43 + 1 /\ L[43 + 1] = c
      /\ \A d, k \in Nat : d + k <= 43 => Part(L, d, k) = Part(l, d, k)
  <2>1. l \in Seq(Chars) /\ c \in Chars
    BY <1>2, <1>5
  <2>2. /\ L \in Seq(Chars) /\ Len(L) = Len(l) + 1 /\ L[Len(l) + 1] = c
        /\ \A d, k \in Nat : d + k <= Len(l) => Part(L, d, k) = Part(l, d, k)
    BY <2>1, PartsOfAppend
  <2>3. Len(l) = 43
    BY <1>2
  <2> HIDE DEF L
  <2> QED BY <2>2, <2>3
<1> HIDE DEF L
<1>7. L \in Lines
  BY <1>6 DEF Lines
<1>8. Composite(L) = Composite(l)
  <2>1. Composite(L) = Part(L, 0, 10) \o Part(L, 13, 7) \o Part(L, 21, 22)
    BY DEF Composite, Part
  <2>2. Part(L, 0, 10) = Part(l, 0, 10) /\ Part(L, 13, 7) = Part(l, 13, 7) /\ Part(L, 21, 22) = Part(l, 21, 22)
    BY <1>6
  <2> QED BY <1>3, <2>1, <2>2
<1>9. CheckDigit(Composite(L)) = L[44]
  BY <1>6, <1>8 DEF c
<1>10. CheckDigit(DocumentNumber(L)) = L[10]
  <2>1. Part(L, 0, 9) = Part(Signed(Number), 0, 9) /\ Part(L, 0, 9 + 1) = Part(Signed(Number), 0, 9 + 1)
    BY <1>2, <1>6
  <2>2. Part(L, 0, 9) = Number /\ L[9 + 1 + 0] = CheckDigit(Number)
    <3>1. FieldIn(L, 0, 9, Number)
      BY <1>6, <2>1, FixedFields DEF FieldIn
    <3> QED BY <3>1, FieldAt
  <2>3. DocumentNumber(L) = Part(L, 0, 9)
    BY DEF DocumentNumber, Part
  <2> QED BY <2>2, <2>3
<1>11. CheckDigit(BirthDate(L)) = L[20]
  <2>1. Part(L, 13, 6) = Part(Signed(Born), 0, 6) /\ Part(L, 13, 6 + 1) = Part(Signed(Born), 0, 6 + 1)
    BY <1>2, <1>6
  <2>2. Part(L, 13, 6) = Born /\ L[6 + 1 + 13] = CheckDigit(Born)
    <3>1. FieldIn(L, 13, 6, Born)
      BY <1>6, <2>1, FixedFields DEF FieldIn
    <3> QED BY <3>1, FieldAt
  <2>3. BirthDate(L) = Part(L, 13, 6)
    BY DEF BirthDate, Part
  <2> QED BY <2>2, <2>3
<1>12. ExpiryDate(L) = expiry /\ CheckDigit(ExpiryDate(L)) = L[28]
  <2>1. Part(L, 21, 6) = Part(Signed(expiry), 0, 6) /\ Part(L, 21, 6 + 1) = Part(Signed(expiry), 0, 6 + 1)
    BY <1>2, <1>6
  <2>2. Part(L, 21, 6) = expiry /\ L[6 + 1 + 21] = CheckDigit(expiry)
    <3>1. FieldIn(L, 21, 6, expiry)
      BY <1>6, <2>1 DEF FieldIn
    <3> QED BY <3>1, FieldAt
  <2>3. ExpiryDate(L) = Part(L, 21, 6)
    BY DEF ExpiryDate, Part
  <2> QED BY <2>2, <2>3
<1> QED BY <1>1, <1>7, <1>9, <1>10, <1>11, <1>12 DEF Passing

LEMMA Passports ==
  ASSUME NEW line \in {Valid, Expired}
  PROVE  /\ line \in Lines /\ ParseTd3(line).checks_passed
         /\ ExpiryDate(Expired) = <<2, 6, 0, 4, 1, 5>>
<1>1. /\ <<3, 1, 0, 5, 2, 0>> \in Seq(Chars) /\ Len(<<3, 1, 0, 5, 2, 0>>) = 6
      /\ <<2, 6, 0, 4, 1, 5>> \in Seq(Chars) /\ Len(<<2, 6, 0, 4, 1, 5>>) = 6
  BY DEF Chars, Filler
<1>2. /\ Valid \in Lines /\ Passing(Valid)
      /\ Expired \in Lines /\ Passing(Expired)
      /\ ExpiryDate(Expired) = <<2, 6, 0, 4, 1, 5>>
  <2> DEFINE v == <<3, 1, 0, 5, 2, 0>>
             e == <<2, 6, 0, 4, 1, 5>>
  <2>1. Valid = Line(v) /\ Expired = Line(e)
    BY DEF Valid, Expired
  <2>2. v \in Seq(Chars) /\ Len(v) = 6 /\ e \in Seq(Chars) /\ Len(e) = 6
    BY <1>1
  <2> SUFFICES /\ Valid \in Lines /\ Passing(Valid)
               /\ Expired \in Lines /\ Passing(Expired)
               /\ ExpiryDate(Expired) = e
    OBVIOUS
  <2> HIDE DEF v, e
  <2> QED BY <2>1, <2>2, Printed
<1> QED BY <1>2, ChecksOf

-----------------------------------------------------------------------------
(***************************************************************************)
(* What is made of a scan.                                                 *)
(***************************************************************************)
LEMMA CutLine ==
  ASSUME NEW line \in Lines, NEW k \in 0 .. 43
  PROVE  SubSeq(line, 1, k) \in Seq(Chars) /\ Len(SubSeq(line, 1, k)) < 44
<1>1. Inside(line, 0, k) /\ k < 44
  BY DEF Inside
<1>2. SubSeq(line, 1, k) = Part(line, 0, k)
  BY DEF Part
<1>3. Part(line, 0, k) \in Seq(Chars) /\ Len(Part(line, 0, k)) = k
  BY <1>1, PartType
<1> QED BY <1>1, <1>2, <1>3

\* A scan is cut short, or has the line's length and differs from it in one
\* place at most.
LEMMA ScanOf ==
  ASSUME NEW line \in Lines, NEW x \in Scans(line), x # NoMrz
  PROVE  /\ x \in Seq(Chars) /\ Len(x) <= 44
         /\ \/ Len(x) < 44
            \/ x \in Lines /\ \E p \in 1 .. 44 : \A i \in (1 .. 44) \ {p} : x[i] = line[i]
<1>1. line \in Seq(Chars) /\ Len(line) = 44
  BY LineChars
<1>2. \A k \in 0 .. 43 : SubSeq(line, 1, k) \in Seq(Chars) /\ Len(SubSeq(line, 1, k)) < 44
  BY CutLine
<1>3. ASSUME x \in Misread(line)
      PROVE  x \in Lines /\ \E p \in 1 .. 44 : \A i \in (1 .. 44) \ {p} : x[i] = line[i]
  <2>1. PICK p \in Positions, c \in Chars : x = [line EXCEPT ![p] = c]
    BY <1>3 DEF Misread, Chars
  <2>2. p \in 1 .. 44
    BY DEF Positions
  <2>3. p \in 1 .. Len(line)
    BY <1>1, <2>2
  <2>4. /\ x \in Seq(Chars) /\ Len(x) = Len(line)
        /\ \A i \in 1 .. Len(line) : x[i] = IF i = p THEN c ELSE line[i]
    <3>1. line \in Seq(Chars)
      BY <1>1
    <3>2. LET y == [line EXCEPT ![p] = c] IN
          /\ y \in Seq(Chars) /\ Len(y) = Len(line)
          /\ \A i \in 1 .. Len(line) : y[i] = IF i = p THEN c ELSE line[i]
      BY <2>3, <3>1, ExceptSeq
    <3> QED BY <2>1, <3>2
  <2>5. x \in Lines /\ \A i \in 1 .. 44 : x[i] = IF i = p THEN c ELSE line[i]
    BY <1>1, <2>4 DEF Lines
  <2> QED BY <2>2, <2>5
<1>4. CASE x = line
  <2>1. x \in Lines /\ \E p \in 1 .. 44 : \A i \in (1 .. 44) \ {p} : x[i] = line[i]
    <3>1. 1 \in 1 .. 44
      OBVIOUS
    <3> QED BY <1>4, <3>1
  <2>2. x \in Seq(Chars)
    BY <1>1, <1>4
  <2>3. Len(x) <= 44
    <3>1. Len(x) = 44
      BY <1>1, <1>4
    <3> QED BY <3>1
  <2> QED BY <2>1, <2>2, <2>3
<1>5. CASE x = SubSeq(line, 1, 43) \/ x = SubSeq(line, 1, 30)
  <2>1. x \in Seq(Chars) /\ Len(x) < 44
    <3>1. 43 \in 0 .. 43 /\ 30 \in 0 .. 43
      OBVIOUS
    <3> QED BY <1>2, <1>5, <3>1
  <2>2. Len(x) \in Nat
    BY <2>1, LenProperties
  <2> QED BY <2>1, <2>2
<1>6. CASE x \in Misread(line)
  <2>1. x \in Lines /\ \E p \in 1 .. 44 : \A i \in (1 .. 44) \ {p} : x[i] = line[i]
    BY <1>3, <1>6
  <2>2. x \in Seq(Chars) /\ Len(x) = 44
    BY <2>1, LineChars
  <2>3. Len(x) <= 44
    BY <2>2
  <2> QED BY <2>1, <2>2, <2>3
<1> QED BY <1>4, <1>5, <1>6 DEF Scans

LEMMA ReadWell ==
  ASSUME NEW line \in Lines, ParseTd3(line).checks_passed,
         NEW x \in Scans(line), x # NoMrz, ParseTd3(x).checks_passed
  PROVE  /\ Justified(x) = x
         /\ \A p \in Checked : CharValue(x[p]) % 10 = CharValue(line[p]) % 10
<1>1. x \in Seq(Chars) /\ Len(x) <= 44
  BY ScanOf
<1>2. Justified(x) \in Lines
  BY <1>1, JustifiedLine
<1>3. ~(Len(x) < 44)
  <2> SUFFICES ASSUME Len(x) < 44 PROVE FALSE
    OBVIOUS
  <2> DEFINE full == Justified(x)
  <2>1. full[44] = Filler
    BY <1>1, JustifiedLine
  <2>2. ~Passing(full)
    <3> HIDE DEF full
    <3>1. full \in Lines
      BY <1>2 DEF full
    <3> QED BY <2>1, <3>1, CutFails
  <2>3. Justified(full) = full
    <3>1. full \in Seq(Chars) /\ Len(full) = 44
      BY <1>2, LineChars
    <3>2. Len(full) <= 44
      BY <3>1
    <3> HIDE DEF full
    <3> QED BY <3>1, <3>2, JustifiedLine
  <2>4. ParseTd3(full) = ParseTd3(x)
    BY <2>3 DEF ParseTd3
  <2> QED BY <1>2, <2>2, <2>4, ChecksOf
<1>4. PICK p \in 1 .. 44 : x \in Lines /\ \A i \in (1 .. 44) \ {p} : x[i] = line[i]
  BY <1>3, ScanOf
<1>5. Justified(x) = x
  <2>1. Len(x) = 44
    BY <1>4, LineChars
  <2> QED BY <1>1, <2>1, JustifiedLine
<1>6. ASSUME NEW q \in Checked
      PROVE  CharValue(x[q]) % 10 = CharValue(line[q]) % 10
  <2>1. q \in 1 .. 44 /\ q \in Covered
    BY DEF Checked, Covered
  <2>2. CASE q = p
    BY <1>4, <2>1, <2>2, MisreadingIsSeen
  <2>3. CASE q # p
    BY <1>4, <2>1, <2>3
  <2> QED BY <2>2, <2>3
<1> QED BY <1>5, <1>6

LEMMA PassedDocument ==
  ASSUME provider \in {"stub", "inhouse"}, scan # NoMrz, NEW image \in Images,
         DocumentResult(provider, scan, image)[1] = "PASSED"
  PROVE  ParseTd3(scan).checks_passed /\ ~IsExpired(ParseTd3(scan).expiry_date)
<1> DEFINE ocr == Extract(provider, scan)
           confidence == Confident(provider, ocr, image)
<1>1. ocr = ParseTd3(scan)
  BY DEF Extract
<1>2. ~IsExpired(ocr.expiry_date) /\ Authentic(confidence)
  BY DEF DocumentResult
<1>3. ocr.checks_passed
  <2> SUFFICES ASSUME ~ocr.checks_passed PROVE FALSE
    OBVIOUS
  <2> HIDE DEF ocr
  <2>1. CASE provider = "stub"
    BY <1>2, <2>1 DEF Images, Confident, StubConfidence, Authentic
  <2>2. CASE provider = "inhouse"
    <3>1. image.sharpness \in {0, 100} /\ image.ela \in {0, 50, 100}
      BY <2>2 DEF Images
    <3>2. image.sharpness \div 10 \in {0, 10} /\ image.ela \div 10 \in {0, 5, 10}
      BY <3>1
    <3> QED BY <1>2, <2>2, <3>2 DEF Confident, InHouseConfidence, Authentic
  <2> QED BY <2>1, <2>2
<1> HIDE DEF ocr
<1> QED BY <1>1, <1>2, <1>3

\* Two months ago: the day the expired passport expired.
ExpiredOn == [year |-> 2026, month |-> 4, day |-> 15]

LEMMA ExpiredDate == ParseDate(<<2, 6, 0, 4, 1, 5>>, 99) = ExpiredOn
<1> DEFINE value == <<2, 6, 0, 4, 1, 5>>
<1>1. ToSet(value) \subseteq 0 .. 9
  BY DEF ToSet
<1>2. /\ 10 * value[1] + value[2] = 26 /\ 10 * value[3] + value[4] = 4
      /\ 10 * value[5] + value[6] = 15
  OBVIOUS
<1>3. 4 \in 1 .. 12 /\ 15 \in 1 .. DaysIn(2026, 4)
  BY DEF DaysIn
<1> QED BY <1>1, <1>2, <1>3 DEF ParseDate, ExpiredOn

\* What the reading of the passport rests on.
Scanned ==
  /\ provider \in {"stub", "inhouse"}
  /\ printed \in {Valid, Expired}
  /\ scan \in Scans(printed)
  /\ checks["DOCUMENT_VERIFICATION"] = "PASSED" =>
       \E image \in Images : DocumentResult(provider, scan, image)[1] = "PASSED"

LEMMA ScannedHolds == Spec => []Scanned
<1>1. Init => Scanned
  BY DEF Init, Scanned, Scans, Steps
<1>2. Scored /\ Scanned /\ [Next]_vars => Scanned'
  <2> SUFFICES ASSUME Scored, Scanned, [Next]_vars
               PROVE  Scanned'
    OBVIOUS
  <2>1. CASE UNCHANGED vars
    BY <2>1 DEF vars, passport, Scanned, Images
  <2>2. ASSUME NEW step \in Policy(flow).steps, Write(step)
        PROVE  Scanned'
    <3>1. step \in Steps
      BY FlowSteps DEF Scored, Steps
    <3>2. PICK result \in Result(step) :
            /\ checks' = [checks EXCEPT ![step] = result[1]]
            /\ UNCHANGED passport
      BY <2>2 DEF Write
    <3>3. /\ provider' = provider /\ printed' = printed /\ scan' = scan
          /\ Images' = Images
      BY <3>2 DEF passport, Images
    <3>4. ASSUME checks'["DOCUMENT_VERIFICATION"] = "PASSED"
          PROVE  \E image \in Images : DocumentResult(provider, scan, image)[1] = "PASSED"
      <4>1. CASE step = "DOCUMENT_VERIFICATION"
        <5>1. result[1] = "PASSED"
          BY <3>2, <3>4, <4>1 DEF Scored, Rated, Steps
        <5>2. result = HookReview \/ \E image \in Images : result = DocumentResult(provider, scan, image)
          BY <4>1 DEF Result
        <5> QED BY <5>1, <5>2 DEF HookReview
      <4>2. CASE step # "DOCUMENT_VERIFICATION"
        <5>1. checks["DOCUMENT_VERIFICATION"] = "PASSED"
          BY <3>1, <3>2, <3>4, <4>2 DEF Scored, Rated
        <5> QED BY <5>1 DEF Scanned
      <4> QED BY <4>1, <4>2
    <3> QED BY <3>3, <3>4 DEF Scanned
  <2> QED BY <2>1, <2>2 DEF Next
<1> QED BY <1>1, <1>2, ScoredHolds, PTL DEF Spec

LEMMA ScannedSound ==
  ASSUME Scanned, Before(ExpiredOn, Today)
  PROVE  ReadingIsSound
<1> SUFFICES ASSUME checks["DOCUMENT_VERIFICATION"] = "PASSED", scan # NoMrz
             PROVE  /\ \A p \in Checked : CharValue(Justified(scan)[p]) % 10 = CharValue(printed[p]) % 10
                    /\ printed = Expired => ExpiryDate(scan) # ExpiryDate(printed)
  BY DEF ReadingIsSound
<1>1. PICK image \in Images : DocumentResult(provider, scan, image)[1] = "PASSED"
  BY DEF Scanned
<1>2. ParseTd3(scan).checks_passed /\ ~IsExpired(ParseTd3(scan).expiry_date)
  BY <1>1, PassedDocument DEF Scanned
<1>3. printed \in Lines /\ ParseTd3(printed).checks_passed
  BY Passports DEF Scanned
<1>4. /\ Justified(scan) = scan
      /\ \A p \in Checked : CharValue(scan[p]) % 10 = CharValue(printed[p]) % 10
  BY <1>2, <1>3, ReadWell DEF Scanned
<1>5. ASSUME printed = Expired, ExpiryDate(scan) = ExpiryDate(printed)
      PROVE  FALSE
  <2>1. ExpiryDate(scan) = <<2, 6, 0, 4, 1, 5>>
    BY <1>5, Passports
  <2>2. ParseTd3(scan).expiry_date = ParseDate(ExpiryDate(scan), 99)
    BY <1>4 DEF ParseTd3
  <2>3. ParseTd3(scan).expiry_date = ExpiredOn
    BY <2>1, <2>2, ExpiredDate
  <2>4. ExpiredOn # NoDate
    BY DEF ExpiredOn, NoDate
  <2> QED BY <1>2, <2>3, <2>4 DEF IsExpired
<1> QED BY <1>4, <1>5

\* On any day after the expired passport expired, whatever the thresholds: a
\* document PASSED on its machine readable zone agrees with the printed line
\* wherever a check digit looks, up to tens, and an expired passport is PASSED
\* only if its expiry date was misread (parse_td3, check_authenticity,
\* process_document).
THEOREM ReadingAlwaysSound ==
  ASSUME Before(ExpiredOn, Today)
  PROVE  Spec => []ReadingIsSound
<1>1. Scanned => ReadingIsSound
  BY ScannedSound
<1> QED BY <1>1, ScannedHolds, PTL
=============================================================================
