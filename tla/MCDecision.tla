----------------------------- MODULE MCDecision -----------------------------
(***************************************************************************)
(* The decision engine over the results its engines and providers produce, *)
(* for a session of any flow, one result changing at a time: the engines   *)
(* may write a check in any order and more than once.                      *)
(*                                                                         *)
(* Two passports are scanned, one of them expired two months ago, read as  *)
(* printed, with one character misread, cut short, or not at all.          *)
(***************************************************************************)
EXTENDS Decision, Providers

MCToday == [year |-> 2026, month |-> 6, day |-> 15]

VARIABLES flow, provider, printed, scan, checks, internal

passport == <<flow, provider, printed, scan>>
vars     == <<passport, checks, internal>>

\* The second line of a passport that expires on the given day.
Line(expiry) ==
  LET signed(value) == Append(value, CheckDigit(value))
      number  == signed(<<1, 2, 10, 11, 3, 4, 5, 6, 7>>)
      born    == signed(<<8, 5, 0, 1, 0, 1>>)
      expires == signed(expiry)
      rest    == [i \in 1 .. 15 |-> Filler]
      line    == number \o <<12, 24, 16>> \o born \o <<22>> \o expires \o rest IN
  Append(line, CheckDigit(Composite(line)))

Valid   == Line(<<3, 1, 0, 5, 2, 0>>)
Expired == Line(<<2, 6, 0, 4, 1, 5>>)

\* One character in each kind of field, read as one a little further or as a
\* filler.
Positions == {3, 10, 11, 15, 20, 24, 26, 27, 28, 44}

Misread(line) ==
  UNION {{[line EXCEPT ![p] = c] : c \in {line[p] + 1, line[p] + 2, line[p] + 10, Filler} \cap 0 .. Filler} :
           p \in Positions}

Scans(line) == {line, NoMrz, SubSeq(line, 1, 43), SubSeq(line, 1, 30)} \cup Misread(line)

Images ==
  IF provider = "stub"
  THEN [directive : BOOLEAN, score : {82, 99}]
  ELSE [portrait : BOOLEAN, sharpness : {0, 100}, ela : {0, 50, 100}]

Selfies == [face : BOOLEAN, antispoof : BOOLEAN, real : {0, 80},
            sharp : {0, 100}, size : {0, 100}, colour : {100}]

\* The failure hook's result: it stores no score, which counts as a half.
HookReview == <<"REVIEW", 50>>

\* What the engines write: a status and a score.
Result(step) ==
  CASE step = "DOCUMENT_VERIFICATION" ->
         {HookReview} \cup {DocumentResult(provider, scan, image) : image \in Images}
    [] step = "LIVENESS" ->
         {HookReview} \cup {LivenessResult(score) : score \in
           IF provider = "stub" THEN {5, 75, 99} ELSE {LivenessScore(s) : s \in Selfies}}
    [] step = "FACE_MATCH" ->
         {HookReview} \cup {MatchResult(score) : score \in
           IF provider = "stub" THEN {12, 82, 99}
           ELSE {MatchScore(cosine, 25, 55) : cosine \in {20, 48, 49, 52, 60}}}
    [] step = "OTP" -> {<<"PASSED", 100>>, <<"FAILED", 0>>}

\* How a document is read depends on neither the other steps nor the flow:
\* every misreading is tried in the flow with the fewest steps.
Init ==
  /\ flow \in Flows
  /\ provider \in {"stub", "inhouse"}
  /\ printed \in {Valid, Expired}
  /\ scan \in IF flow = "CITIZEN" THEN Scans(printed) ELSE {printed, NoMrz}
  /\ checks = [s \in Steps |-> "PENDING"]
  /\ internal = [s \in Steps |-> 0]

Write(step) ==
  \E result \in Result(step) :
    /\ checks' = [checks EXCEPT ![step] = result[1]]
    /\ internal' = [internal EXCEPT ![step] = result[2]]
    /\ UNCHANGED passport

Next == \E step \in Policy(flow).steps : Write(step)

Spec == Init /\ [][Next]_vars

Verdict == Decide(Policy(flow), checks, internal)

Rank(status) ==
  CASE status = "REJECTED" -> 0
    [] status = "REVIEW"   -> 1
    [] status = "VERIFIED" -> 2

\* The order of results, worst first.
Level(status) ==
  CASE status = "FAILED" -> 0 [] status = "REVIEW" -> 1 [] status = "PASSED" -> 2

\* A better result for one step never makes the verdict worse: neither the
\* weights nor the severities nor the thresholds contradict each other.
BetterIsNeverWorse ==
  [][\A s \in Policy(flow).steps :
       /\ Verdict.completed /\ Verdict'.completed
       /\ checks[s] # "PENDING"
       /\ Level(checks'[s]) >= Level(checks[s])
       /\ checks'[s] # checks[s] \/ internal'[s] >= internal[s]
       /\ \A t \in Steps \ {s} : checks'[t] = checks[t] /\ internal'[t] = internal[t]
       => Rank(Verdict'.status) >= Rank(Verdict.status)]_vars

\* Nobody is rejected for a low score alone: with the default thresholds the
\* weakest results that count as PASSED still score above the review mark,
\* so every rejection names a failed check.
RejectionNamesFailure ==
  Verdict.status = "REJECTED" => \E s \in Policy(flow).steps : <<s, "FAILED">> \in Verdict.reasons

\* The characters some check digit covers, and the digits themselves.
Checked == (1 .. 10) \cup (14 .. 20) \cup (22 .. 44)

\* The check digits see every misreading of one character that changes its
\* value modulo ten, in the digits themselves too, and a line cut short: a
\* document PASSED on its zone agrees with the printed line up to tens.  And an
\* expired passport is PASSED only if its expiry date was misread
\* (parse_td3, _is_expired; an unreadable date does not expire).
ReadingIsSound ==
  checks["DOCUMENT_VERIFICATION"] = "PASSED" /\ scan # NoMrz =>
    /\ \A p \in Checked : CharValue(Justified(scan)[p]) % 10 = CharValue(printed[p]) % 10
    /\ printed = Expired => ExpiryDate(scan) # ExpiryDate(printed)
=============================================================================
