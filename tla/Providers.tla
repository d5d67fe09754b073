------------------------------ MODULE Providers ------------------------------
(***************************************************************************)
(* What the OCR and face providers make of an image: the machine readable  *)
(* zone of a passport, the confidence that the document is authentic, the  *)
(* liveness and match scores, and the status an engine gives each.  Pure   *)
(* functions, no state.                                                    *)
(*                                                                         *)
(* An image is what its readers get out of it: signals, and the second     *)
(* line of the zone.  A score is a whole percentage, rounded down.  A      *)
(* character is its value in the check digits, 0..9 and A..Z as 10..35.    *)
(***************************************************************************)
EXTENDS Integers, SequencesExt

CONSTANTS
  DocumentReviewThreshold,  \* settings.document_review_threshold, in percent
  LivenessThreshold,        \* settings.liveness_threshold
  FaceMatchThreshold,       \* settings.face_match_threshold
  Today                     \* the date [year, month, day]

ASSUME ScoreAssumption ==
  {DocumentReviewThreshold, LivenessThreshold, FaceMatchThreshold} \subseteq 0 .. 100

-----------------------------------------------------------------------------
(***************************************************************************)
(* The machine readable zone (ICAO 9303, TD3).                             *)
(***************************************************************************)
Filler == 36

CharValue(char) == IF char = Filler THEN 0 ELSE char

\* Slip: 7, 3, 5.
WeightsWithFive == <<7, 3, 5>>

Weights == <<7, 3, 1>>

CheckDigit(value) ==
  LET total[i \in 0 .. Len(value)] ==
        IF i = 0 THEN 0 ELSE total[i - 1] + CharValue(value[i]) * Weights[((i - 1) % 3) + 1] IN
  total[Len(value)] % 10

\* ljust(44, FILLER)[:44]
Justified(line) == SubSeq(line \o [i \in 1 .. 44 |-> Filler], 1, 44)

DocumentNumber(line) == SubSeq(line, 1, 9)
BirthDate(line)      == SubSeq(line, 14, 19)
ExpiryDate(line)     == SubSeq(line, 22, 27)
Composite(line)      == SubSeq(line, 1, 10) \o SubSeq(line, 14, 20) \o SubSeq(line, 22, 43)

\* A check digit is compared as a character: a letter or a filler never is one.
Checks(line) ==
  [document_number |-> CheckDigit(DocumentNumber(line)) = line[10],
   birth_date      |-> CheckDigit(BirthDate(line)) = line[20],
   expiry_date     |-> CheckDigit(ExpiryDate(line)) = line[28],
   composite       |-> CheckDigit(Composite(line)) = line[44]]

NoDate == [year |-> 0, month |-> 0, day |-> 0]

DaysIn(year, month) ==
  CASE month \in {4, 6, 9, 11} -> 30
    [] month = 2 -> IF year % 4 = 0 THEN 29 ELSE 28
    [] OTHER -> 31

\* Nothing where a character is no digit, or the calendar has no such day.
ParseDate(value, pivot) ==
  LET number(i) == 10 * value[i] + value[i + 1]
      year == number(1) + (IF number(1) <= pivot THEN 2000 ELSE 1900) IN
  IF /\ ToSet(value) \subseteq 0 .. 9
     /\ number(3) \in 1 .. 12
     /\ number(5) \in 1 .. DaysIn(year, number(3))
  THEN [year |-> year, month |-> number(3), day |-> number(5)]
  ELSE NoDate

\* parse_td3() and, where find_mrz() finds no zone, its absence.
NoMrz == <<>>

ParseTd3(line) ==
  LET full == Justified(line)
      checks == Checks(full) IN
  [expiry_date   |-> ParseDate(ExpiryDate(full), 99),
   checks_passed |-> \A check \in DOMAIN checks : checks[check]]

Before(a, b) ==
  \/ a.year < b.year
  \/ a.year = b.year /\ a.month < b.month
  \/ a.year = b.year /\ a.month = b.month /\ a.day < b.day

IsExpired(expiry) == expiry # NoDate /\ Before(expiry, Today)

-----------------------------------------------------------------------------
(***************************************************************************)
(* The document.                                                           *)
(***************************************************************************)
\* extract(): without a zone the in-house provider has no fields, and the
\* stub invents a document that is sound.
Extract(provider, line) ==
  IF line # NoMrz THEN ParseTd3(line)
  ELSE [expiry_date |-> NoDate, checks_passed |-> provider = "stub"]

\* check_authenticity() of the in-house provider.  sharpness and ela: how much
\* of their share each earns, in percent.
InHouseConfidence(ocr, image) ==
  (IF ocr.checks_passed THEN 55 ELSE 0) + (IF image.portrait THEN 25 ELSE 0)
    + image.sharpness \div 10 + image.ela \div 10

\* check_authenticity() of the stub.  score: what it draws from the payload.
StubConfidence(ocr, image) ==
  IF image.directive THEN 10
  ELSE IF ocr.checks_passed \/ image.score <= 45 THEN image.score ELSE 45

Confident(provider, ocr, image) ==
  IF provider = "stub" THEN StubConfidence(ocr, image) ELSE InHouseConfidence(ocr, image)

Authentic(confidence) == confidence >= 60

\* identity.process_document(): the status and the score of the check.
DocumentResult(provider, line, image) ==
  LET ocr == Extract(provider, line)
      confidence == Confident(provider, ocr, image)
      status == IF IsExpired(ocr.expiry_date) \/ ~Authentic(confidence) THEN "FAILED"
                ELSE IF confidence < DocumentReviewThreshold THEN "REVIEW" ELSE "PASSED" IN
  <<status, confidence>>

-----------------------------------------------------------------------------
(***************************************************************************)
(* The face.                                                               *)
(***************************************************************************)
\* liveness_score().
Heuristic(selfie) == (50 * selfie.sharp + 35 * selfie.size + 15 * selfie.colour) \div 100

\* liveness() of the in-house provider: without the anti-spoofing model the
\* heuristic alone.
LivenessScore(selfie) ==
  IF ~selfie.face THEN 0
  ELSE IF selfie.antispoof THEN (85 * selfie.real + 15 * Heuristic(selfie)) \div 100
  ELSE Heuristic(selfie)

\* normalize_cosine(), between the two calibration points.
MatchScore(cosine, reject, accept) ==
  IF cosine <= reject THEN 0
  ELSE IF cosine >= accept THEN 100 ELSE (100 * (cosine - reject)) \div (accept - reject)

\* biometrics.process_selfie(): the two results.
LivenessResult(score) == <<IF score >= LivenessThreshold THEN "PASSED" ELSE "FAILED", score>>

MatchResult(score) == <<IF score >= FaceMatchThreshold THEN "PASSED" ELSE "FAILED", score>>
=============================================================================
