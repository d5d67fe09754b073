-------------------------- MODULE OtpChallengeProofs --------------------------
(***************************************************************************)
(* Theorems about OtpChallenge, for any number of processes, sessions,     *)
(* destinations, attempts, requests and mishaps of Redis.                  *)
(*                                                                         *)
(* The argument.  Each request adds at most one to a counter, so what is   *)
(* counted and what may still be counted is at most what was begun         *)
(* (Counted).  A send has a created_at of its own, above all committed     *)
(* ones (Stamped); a verification holds a challenge of its session that is *)
(* no older than the one that was the latest when it came in (Held).  A    *)
(* challenge that was not verified has counted no more attempts than the   *)
(* audit trail has failures, and no fewer unless a write was lost          *)
(* (Tallied).  As long as Redis had no mishap, the counter of the cooldown *)
(* keeps a second send of the session out until the first has ended        *)
(* (Alone).                                                                *)
(***************************************************************************)
EXTENDS OtpChallenge, FiniteSetTheorems, TLAPS

-----------------------------------------------------------------------------
(***************************************************************************)
(* The inductive invariant.                                                *)
(***************************************************************************)
\* The requests in some phases, and what each counter is still waiting for.
Among(phases) == {p \in Procs : requests[p].phase \in phases}
InPhases(phases) == Cardinality(Among(phases))

ToCooldown    == {"cooldown"}
ToSession     == {"cooldown", "session"}
ToDestination == {"cooldown", "session", "destination"}
ToGateway     == {"cooldown", "session", "destination", "gateway"}
ToCompare     == {"verify", "compare"}

Measures == {ToCooldown, ToSession, ToDestination, ToGateway, Gate, ToCompare}

Counted ==
  /\ \A store \in Stores :
       /\ \A s \in Sessions : counts[store][<<"cooldown", s>>] + InPhases(ToCooldown) <= sends
       /\ \A s \in Sessions : counts[store][<<"send", s>>] + InPhases(ToSession) <= sends
       /\ \A d \in Dests : counts[store][<<"send", d>>] + InPhases(ToDestination) <= sends
  /\ \A k \in Sessions \cup Dests : sent[k] + InPhases(ToGateway) <= sends
  /\ stamp + InPhases(Gate) <= sends
  /\ \A c \in Stamps : failed[c] + InPhases(ToCompare) <= verifies

\* A session with challenges has a latest one.
HasLatest ==
  \A s \in Sessions : Of(s) # {} => \E c \in Of(s) : \A d \in Of(s) : c >= d

Stamped ==
  /\ \A c \in DOMAIN challenges : c <= stamp
  /\ \A p \in Procs : In(p, "inserted") => requests[p].at <= stamp /\ requests[p].at \notin DOMAIN challenges
  /\ \A p, q \in Procs : In(p, "inserted") /\ In(q, "inserted") /\ requests[p].at = requests[q].at => p = q
  /\ HasLatest

HeldBy(p) ==
  LET r == requests[p] IN
  /\ r.phase \in {"verify", "compare", "exhausted"} => r.known \in Of(r.session) \cup {0}
  /\ r.phase \in {"compare", "exhausted"} =>
       r.challenge \in Of(r.session) /\ r.challenge >= r.known /\ r.attempts <= failed[r.challenge]
  /\ r.phase = "compare" => r.attempts < MaxAttempts
  /\ r.phase = "exhausted" => r.attempts >= MaxAttempts

Held == \A p \in Procs : HeldBy(p)

Tallied ==
  /\ \A c \in DOMAIN challenges : /\ ~challenges[c].verified => challenges[c].attempts <= failed[c]
                                  /\ c \notin raced => failed[c] <= challenges[c].attempts
  /\ \A c \in Stamps \ DOMAIN challenges : failed[c] = 0

Past(p) == requests[p].phase \in (Gate \cup {"inserted"}) \ {"cooldown"}

Taken ==
  /\ \A p \in Procs : requests[p].phase \in {"delivered", "inserted"} => requests[p].taken
  /\ \A c \in DOMAIN challenges : challenges[c].pending => challenges[c].taken

Alone ==
  mishaps = 0 =>
    /\ avoiding = {}
    /\ \A p \in Procs : Past(p) => counts["redis"][<<"cooldown", requests[p].session>>] > 0
    /\ \A p, q \in Procs : Past(p) /\ Past(q) /\ requests[p].session = requests[q].session => p = q
    /\ \A p \in Procs : In(p, "inserted") => Pending(requests[p].session) \subseteq requests[p].supersedes
    /\ \A s \in Sessions : \A c, d \in Pending(s) : c = d

\* What concerns the rows and who is about to write them.
Rowwise == Stamped /\ Held /\ Tallied /\ CheckReflectsChallenges /\ Taken

Inv == TypeOK /\ Counted /\ Rowwise /\ Alone

-----------------------------------------------------------------------------
(***************************************************************************)
(* Counting requests.                                                      *)
(***************************************************************************)
LEMMA InPhasesNat == \A phases : InPhases(phases) \in Nat /\ InPhases(phases)' \in Nat
<1> TAKE phases
<1>1. IsFiniteSet(Procs)
  BY OtpAssumption
<1>2. Among(phases) \subseteq Procs /\ Among(phases)' \subseteq Procs
  BY DEF Among
<1>3. \A S \in SUBSET Procs : Cardinality(S) \in Nat
  BY <1>1, FS_Subset, FS_CardinalityType
<1> QED BY <1>2, <1>3 DEF InPhases

\* What InPhases() becomes when p becomes r.
LEMMA Moves ==
  ASSUME NEW p \in Procs, NEW r, requests' = [requests EXCEPT ![p] = r],
         DOMAIN requests = Procs, NEW phases
  PROVE  InPhases(phases)' = InPhases(phases)
                             + (IF r.phase \in phases THEN 1 ELSE 0)
                             - (IF requests[p].phase \in phases THEN 1 ELSE 0)
<1> DEFINE before == Among(phases)
           after == Among(phases)'
<1>1. IsFiniteSet(before) /\ Cardinality(before) \in Nat
  <2>1. IsFiniteSet(Procs)
    BY OtpAssumption
  <2> QED BY <2>1, FS_Subset, FS_CardinalityType DEF Among
<1>2. \A q \in Procs : requests'[q] = IF q = p THEN r ELSE requests[q]
  OBVIOUS
<1>3. InPhases(phases) = Cardinality(before) /\ InPhases(phases)' = Cardinality(after)
  BY DEF InPhases
<1>4. p \in before <=> requests[p].phase \in phases
  BY DEF Among
<1>5. CASE r.phase \in phases
  <2>1. after = before \cup {p}
    BY <1>2, <1>5 DEF Among
  <2>2. Cardinality(before \cup {p}) = IF p \in before THEN Cardinality(before) ELSE Cardinality(before) + 1
    BY <1>1, FS_AddElement
  <2> HIDE DEF before, after
  <2> QED BY <1>1, <1>3, <1>4, <1>5, <2>1, <2>2
<1>6. CASE r.phase \notin phases
  <2>1. after = before \ {p}
    BY <1>2, <1>6 DEF Among
  <2>2. Cardinality(before \ {p}) = IF p \in before THEN Cardinality(before) - 1 ELSE Cardinality(before)
    BY <1>1, FS_RemoveElement
  <2> HIDE DEF before, after
  <2> QED BY <1>1, <1>3, <1>4, <1>6, <2>1, <2>2
<1> QED BY <1>5, <1>6

-----------------------------------------------------------------------------
(***************************************************************************)
(* Types.                                                                  *)
(***************************************************************************)
\* TypeOK without the bounds that Counted gives.
Shape ==
  /\ counts \in [Stores -> [Keys -> Nat]]
  /\ avoiding \subseteq Procs
  /\ requests \in [Procs -> Request]
  /\ DOMAIN challenges \subseteq Stamps
  /\ \A c \in DOMAIN challenges : challenges[c] \in Challenge
  /\ stamp \in Nat
  /\ check \in [Sessions -> {"PENDING", "PASSED", "FAILED"}]
  /\ failed \in [Stamps -> Nat]
  /\ raced \subseteq Stamps
  /\ sent \in [Sessions \cup Dests -> Nat]
  /\ sends \in 0 .. MaxSends /\ verifies \in 0 .. MaxVerifies /\ mishaps \in 0 .. MaxMishaps

LEMMA ShapeIsTypeOK == Shape /\ Counted => TypeOK
<1> SUFFICES ASSUME Shape, Counted PROVE TypeOK
  OBVIOUS
<1>1. /\ InPhases(ToCooldown) \in Nat /\ InPhases(ToSession) \in Nat /\ InPhases(ToDestination) \in Nat
      /\ InPhases(ToGateway) \in Nat /\ InPhases(Gate) \in Nat /\ InPhases(ToCompare) \in Nat
  BY InPhasesNat
<1>2. MaxSends \in Nat /\ MaxVerifies \in Nat
  BY OtpAssumption
<1>3. counts \in [Stores -> [Keys -> 0 .. MaxSends]]
  <2> SUFFICES ASSUME NEW store \in Stores, NEW k \in Keys PROVE counts[store][k] <= MaxSends
    BY DEF Shape
  <2>1. counts[store][k] \in Nat
    BY DEF Shape
  <2>2. CASE \E s \in Sessions : k = <<"cooldown", s>> \/ k = <<"send", s>>
    BY <1>1, <1>2, <2>1, <2>2 DEF Counted, Shape
  <2>3. CASE \E d \in Dests : k = <<"send", d>>
    BY <1>1, <1>2, <2>1, <2>3 DEF Counted, Shape
  <2> QED BY <2>2, <2>3 DEF Keys
<1>4. sent \in [Sessions \cup Dests -> 0 .. MaxSends] /\ stamp \in 0 .. MaxSends
  BY <1>1, <1>2 DEF Counted, Shape
<1>5. failed \in [Stamps -> 0 .. MaxVerifies]
  BY <1>1, <1>2 DEF Counted, Shape
<1> QED BY <1>3, <1>4, <1>5 DEF Shape, TypeOK

LEMMA TypeOKIsShape == TypeOK => Shape
BY OtpAssumption DEF TypeOK, Shape

\* What the phase of a request says of the rest of it.
Phased ==
  \A p \in Procs :
    LET r == requests[p] IN
    /\ r.phase \in {"idle", "inserted", "verify", "compare", "exhausted"} \cup Gate
    /\ r.phase = "idle" <=> r = NoRequest
    /\ r.phase # "idle" => r.session \in Sessions
    /\ r.phase \in Gate =>
         /\ r.destination \in Dests /\ r.taken \in BOOLEAN
         /\ r = [phase |-> r.phase, session |-> r.session, destination |-> r.destination, taken |-> r.taken]
    /\ r.phase = "inserted" => r.taken \in BOOLEAN /\ r.supersedes \subseteq Stamps /\ r.at \in Stamps
    /\ r.phase \in {"verify", "compare", "exhausted"} => r.known \in 0 .. MaxSends
    /\ r.phase \in {"compare", "exhausted"} => r.challenge \in Stamps /\ r.attempts \in 0 .. MaxAttempts

LEMMA Phases == TypeOK => Phased
<1> SUFFICES ASSUME TypeOK, NEW p \in Procs
             PROVE  LET r == requests[p] IN
                    /\ r.phase \in {"idle", "inserted", "verify", "compare", "exhausted"} \cup Gate
                    /\ r.phase = "idle" <=> r = NoRequest
                    /\ r.phase # "idle" => r.session \in Sessions
                    /\ r.phase \in Gate =>
                         /\ r.destination \in Dests /\ r.taken \in BOOLEAN
                         /\ r = [phase |-> r.phase, session |-> r.session,
                                 destination |-> r.destination, taken |-> r.taken]
                    /\ r.phase = "inserted" =>
                         r.taken \in BOOLEAN /\ r.supersedes \subseteq Stamps /\ r.at \in Stamps
                    /\ r.phase \in {"verify", "compare", "exhausted"} => r.known \in 0 .. MaxSends
                    /\ r.phase \in {"compare", "exhausted"} =>
                         r.challenge \in Stamps /\ r.attempts \in 0 .. MaxAttempts
  BY DEF Phased
<1>1. requests[p] \in Request
  BY DEF TypeOK
<1> QED BY <1>1 DEF Request, Gate, NoRequest

-----------------------------------------------------------------------------
(***************************************************************************)
(* What is counted.                                                        *)
(***************************************************************************)
\* A step that counts nothing, and begins nothing.
LEMMA CountedKept ==
  ASSUME TypeOK, Shape', Counted,
         \A phases \in Measures : InPhases(phases)' <= InPhases(phases),
         \A store \in Stores, k \in Keys : counts'[store][k] <= counts[store][k],
         \A k \in Sessions \cup Dests : sent'[k] <= sent[k],
         UNCHANGED <<stamp, failed, sends, verifies>>
  PROVE  Counted'
<1>1. /\ \A phases \in Measures : InPhases(phases) \in Nat
      /\ \A phases \in Measures : InPhases(phases)' \in Nat
  BY InPhasesNat
<1>2. /\ ToCooldown \in Measures /\ ToSession \in Measures /\ ToDestination \in Measures
      /\ ToGateway \in Measures /\ Gate \in Measures /\ ToCompare \in Measures
  BY DEF Measures
<1>3. \A s \in Sessions : <<"cooldown", s>> \in Keys /\ <<"send", s>> \in Keys
  BY DEF Keys
<1>4. \A d \in Dests : <<"send", d>> \in Keys
  BY DEF Keys
<1>5. Shape
  BY TypeOKIsShape
<1>6. \A store \in Stores, k \in Keys : counts[store][k] \in Nat /\ counts'[store][k] \in Nat
  BY <1>5 DEF Shape
<1>7. /\ \A k \in Sessions \cup Dests : sent[k] \in Nat /\ sent'[k] \in Nat
      /\ stamp \in Nat /\ sends \in Nat /\ verifies \in Nat /\ \A c \in Stamps : failed[c] \in Nat
  BY <1>5 DEF Shape
<1>8. ASSUME NEW store \in Stores, NEW k \in Keys, NEW phases \in Measures,
             counts[store][k] + InPhases(phases) <= sends
      PROVE  counts'[store][k] + InPhases(phases)' <= sends
  BY <1>1, <1>6, <1>7, <1>8
<1>9. ASSUME NEW k \in Sessions \cup Dests, NEW phases \in Measures, sent[k] + InPhases(phases) <= sends
      PROVE  sent'[k] + InPhases(phases)' <= sends
  BY <1>1, <1>7, <1>9
<1>10. stamp + InPhases(Gate)' <= sends /\ \A c \in Stamps : failed[c] + InPhases(ToCompare)' <= verifies
  BY <1>1, <1>2, <1>7 DEF Counted
<1> QED BY <1>2, <1>3, <1>4, <1>8, <1>9, <1>10 DEF Counted

\* When p only goes on to r, whose phase counts for no more.
LEMMA MovesOn ==
  ASSUME TypeOK, NEW p \in Procs, NEW r, requests' = [requests EXCEPT ![p] = r],
         \A phases \in Measures : r.phase \in phases => requests[p].phase \in phases
  PROVE  \A phases \in Measures : InPhases(phases)' <= InPhases(phases)
<1> SUFFICES ASSUME NEW phases \in Measures PROVE InPhases(phases)' <= InPhases(phases)
  OBVIOUS
<1>1. DOMAIN requests = Procs
  BY DEF TypeOK
<1>2. InPhases(phases) \in Nat /\ InPhases(phases)' \in Nat
  BY InPhasesNat
<1>3. InPhases(phases)' = InPhases(phases)
                             + (IF r.phase \in phases THEN 1 ELSE 0)
                             - (IF requests[p].phase \in phases THEN 1 ELSE 0)
  BY <1>1, Moves
<1> QED BY <1>2, <1>3

\* A step that changes requests only.
LEMMA OnlyMoves ==
  ASSUME TypeOK, Counted, NEW p \in Procs, NEW r \in Request, requests' = [requests EXCEPT ![p] = r],
         \A phases \in Measures : r.phase \in phases => requests[p].phase \in phases,
         UNCHANGED <<counts, avoiding, challenges, stamp, check, failed, raced, sent, sends, verifies, mishaps>>
  PROVE  Shape' /\ Counted'
<1>1. Shape'
  BY TypeOKIsShape DEF Shape
<1>2. \A phases \in Measures : InPhases(phases)' <= InPhases(phases)
  BY MovesOn
<1>3. /\ \A store \in Stores, k \in Keys : counts'[store][k] <= counts[store][k]
      /\ \A k \in Sessions \cup Dests : sent'[k] <= sent[k]
  BY TypeOKIsShape DEF Shape
<1> QED BY <1>1, <1>2, <1>3, CountedKept

\* Ending a request counts for nothing.
LEMMA Ends ==
  \A p \in Procs, phases \in Measures : NoRequest.phase \notin phases
BY DEF NoRequest, Measures, ToCooldown, ToSession, ToDestination, ToGateway, Gate, ToCompare


\* The latest challenge of a session, and the one known to a request.
LEMMA Latest ==
  ASSUME TypeOK, HasLatest, NEW s \in Sessions
  PROVE  /\ Of(s) # {} => /\ LatestChallenge(s) \in Of(s)
                          /\ \A d \in Of(s) : LatestChallenge(s) >= d
         /\ Max(Of(s) \cup {0}) \in Of(s) \cup {0}
<1>1. Of(s) \subseteq Nat
  BY DEF Of, TypeOK, Stamps
<1>2. CASE Of(s) = {}
  <2>1. Max({0}) = 0
    BY DEF Max
  <2> QED BY <1>2, <2>1
<1>3. CASE Of(s) # {}
  <2>1. PICK c \in Of(s) : \A d \in Of(s) : c >= d
    BY <1>3 DEF HasLatest
  <2>2. LatestChallenge(s) \in Of(s) /\ \A d \in Of(s) : LatestChallenge(s) >= d
    BY <2>1 DEF LatestChallenge, Max
  <2>3. c \in Of(s) \cup {0} /\ \A d \in Of(s) \cup {0} : c >= d
    BY <1>1, <2>1
  <2>4. Max(Of(s) \cup {0}) \in Of(s) \cup {0}
    BY <2>3 DEF Max
  <2> QED BY <2>2, <2>4
<1> QED BY <1>2, <1>3

LEMMA TypeOKBegin ==
  ASSUME TypeOK, Counted, HasLatest, NEW p \in Procs, NEW s \in Sessions,
         StartVerify(p, s) \/ \E d \in Dests : StartSend(p, s, d)
  PROVE  Shape' /\ Counted'
<1>1. /\ DOMAIN requests = Procs /\ requests[p].phase = "idle"
      /\ Shape /\ MaxSends \in Nat /\ MaxVerifies \in Nat /\ sends \in Nat /\ verifies \in Nat
  BY TypeOKIsShape, OtpAssumption DEF TypeOK, StartVerify, StartSend, NoRequest
<1>2. /\ InPhases(ToCooldown) \in Nat /\ InPhases(ToSession) \in Nat /\ InPhases(ToDestination) \in Nat
      /\ InPhases(ToGateway) \in Nat /\ InPhases(Gate) \in Nat /\ InPhases(ToCompare) \in Nat
  BY InPhasesNat
<1>3. UNCHANGED <<counts, avoiding, challenges, stamp, check, failed, raced, sent, mishaps>>
  BY DEF StartVerify, StartSend, limits, rows
<1>4. CASE StartVerify(p, s)
  <2> DEFINE r == [phase |-> "verify", session |-> s, known |-> Max(Of(s) \cup {0})]
  <2>1. Max(Of(s) \cup {0}) \in 0 .. MaxSends
    <3>1. Max(Of(s) \cup {0}) \in Of(s) \cup {0}
      BY Latest
    <3>2. Of(s) \subseteq 1 .. MaxSends
      BY DEF Of, TypeOK, Stamps
    <3> QED BY <1>1, <3>1, <3>2
  <2>2. r \in Request
    BY <2>1 DEF Request
  <2>3. Shape'
    BY <1>1, <1>3, <1>4, <2>2 DEF StartVerify, Shape
  <2>4. requests' = [requests EXCEPT ![p] = r] /\ r.phase = "verify"
    BY <1>4 DEF StartVerify
  <2> HIDE DEF r
  <2>5. \A phases : InPhases(phases)' = InPhases(phases)
                             + (IF r.phase \in phases THEN 1 ELSE 0)
                             - (IF requests[p].phase \in phases THEN 1 ELSE 0)
    BY <1>1, <2>4, Moves
  <2>6. /\ InPhases(ToCooldown)' = InPhases(ToCooldown) /\ InPhases(ToSession)' = InPhases(ToSession)
        /\ InPhases(ToDestination)' = InPhases(ToDestination) /\ InPhases(ToGateway)' = InPhases(ToGateway)
        /\ InPhases(Gate)' = InPhases(Gate) /\ InPhases(ToCompare)' = InPhases(ToCompare) + 1
    BY <1>1, <1>2, <2>4, <2>5 DEF ToCooldown, ToSession, ToDestination, ToGateway, Gate, ToCompare
  <2>7. verifies' = verifies + 1 /\ sends' = sends
    BY <1>4 DEF StartVerify
  <2>8. Counted'
    BY <1>1, <1>2, <1>3, <2>6, <2>7 DEF Counted, Shape
  <2> QED BY <2>3, <2>8
<1>5. ASSUME NEW d \in Dests, StartSend(p, s, d) PROVE Shape' /\ Counted'
  <2> DEFINE r == [phase |-> "cooldown", session |-> s, destination |-> d, taken |-> FALSE]
  <2>1. r \in Request
    BY DEF Request, Gate
  <2>2. Shape'
    BY <1>1, <1>3, <1>5, <2>1 DEF StartSend, Shape
  <2>3. requests' = [requests EXCEPT ![p] = r] /\ r.phase = "cooldown"
    BY <1>5 DEF StartSend
  <2> HIDE DEF r
  <2>4. \A phases : InPhases(phases)' = InPhases(phases)
                             + (IF r.phase \in phases THEN 1 ELSE 0)
                             - (IF requests[p].phase \in phases THEN 1 ELSE 0)
    BY <1>1, <2>3, Moves
  <2>5. /\ InPhases(ToCooldown)' = InPhases(ToCooldown) + 1 /\ InPhases(ToSession)' = InPhases(ToSession) + 1
        /\ InPhases(ToDestination)' = InPhases(ToDestination) + 1
        /\ InPhases(ToGateway)' = InPhases(ToGateway) + 1
        /\ InPhases(Gate)' = InPhases(Gate) + 1 /\ InPhases(ToCompare)' = InPhases(ToCompare)
    BY <1>1, <1>2, <2>3, <2>4 DEF ToCooldown, ToSession, ToDestination, ToGateway, Gate, ToCompare
  <2>6. sends' = sends + 1 /\ verifies' = verifies
    BY <1>5 DEF StartSend
  <2>7. \A store \in Stores, k \in Keys : counts[store][k] \in Nat
    BY <1>1 DEF Shape
  <2>8. Counted'
    BY <1>1, <1>2, <1>3, <2>5, <2>6, <2>7 DEF Counted, Shape, Keys
  <2> QED BY <2>2, <2>8
<1> QED BY <1>4, <1>5

\* Going on to the next gate.
LEMMA GoesTo ==
  ASSUME TypeOK, NEW p \in Procs, requests[p].phase \in Gate, NEW next \in Gate, GoTo(p, next)
  PROVE  \E r \in Request : /\ requests' = [requests EXCEPT ![p] = r]
                            /\ r.phase = next /\ r.session = requests[p].session
                            /\ r.taken = requests[p].taken
<1> DEFINE q == requests[p]
           r == [phase |-> next, session |-> q.session, destination |-> q.destination, taken |-> q.taken]
<1>1. /\ q.session \in Sessions /\ q.destination \in Dests /\ q.taken \in BOOLEAN
      /\ q = [phase |-> q.phase, session |-> q.session, destination |-> q.destination, taken |-> q.taken]
  BY Phases DEF Phased, Gate
<1>2. [q EXCEPT !.phase = next] = r
  BY <1>1
<1>3. requests' = [requests EXCEPT ![p] = r]
  BY <1>2 DEF GoTo
<1>4. r \in Request
  BY <1>1 DEF Request
<1> QED BY <1>3, <1>4

\* One more for a key, in the store of the process.
LEMMA Counts ==
  ASSUME TypeOK, NEW p \in Procs, NEW key \in Keys, Count(p, key)
  PROVE  /\ counts' \in [Stores -> [Keys -> Nat]]
         /\ \A store \in Stores, k \in Keys :
              counts'[store][k] = IF store = Store(p) /\ k = key THEN counts[store][k] + 1
                                                                 ELSE counts[store][k]
<1>1. counts \in [Stores -> [Keys -> Nat]]
  BY TypeOKIsShape DEF Shape
<1>2. Store(p) \in Stores
  BY DEF Store, Stores
<1> QED BY <1>1, <1>2 DEF Count

\* A step that moves p on to r and counts one for a key that waited for it.
LEMMA CountedOne ==
  ASSUME TypeOK, Shape', Counted, NEW p \in Procs, NEW r, requests' = [requests EXCEPT ![p] = r],
         NEW phases \in Measures, r.phase \notin phases, requests[p].phase \in phases
  PROVE  InPhases(phases)' + 1 = InPhases(phases)
<1>1. DOMAIN requests = Procs
  BY DEF TypeOK
<1>2. InPhases(phases) \in Nat /\ InPhases(phases)' \in Nat
  BY InPhasesNat
<1>3. InPhases(phases)' = InPhases(phases)
                             + (IF r.phase \in phases THEN 1 ELSE 0)
                             - (IF requests[p].phase \in phases THEN 1 ELSE 0)
  BY <1>1, Moves
<1> QED BY <1>2, <1>3

LEMMA CountedAtGate ==
  ASSUME TypeOK, Counted, NEW p \in Procs, NEW r \in Request, requests' = [requests EXCEPT ![p] = r],
         NEW key \in Keys, Count(p, key),
         \A phases \in Measures : r.phase \in phases => requests[p].phase \in phases,
         \A s \in Sessions : key = <<"cooldown", s>> => requests[p].phase \in ToCooldown /\ r.phase \notin ToCooldown,
         \A s \in Sessions : key = <<"send", s>> => requests[p].phase \in ToSession /\ r.phase \notin ToSession,
         \A d \in Dests : key = <<"send", d>> => requests[p].phase \in ToDestination /\ r.phase \notin ToDestination,
         UNCHANGED <<avoiding, challenges, stamp, check, failed, raced, sent, sends, verifies, mishaps>>
  PROVE  Shape' /\ Counted'
<1>1. Shape'
  BY Counts, TypeOKIsShape DEF Shape
<1>2. /\ \A phases \in Measures : InPhases(phases)' <= InPhases(phases)
      /\ \A phases : InPhases(phases) \in Nat /\ InPhases(phases)' \in Nat
  BY MovesOn, InPhasesNat
<1>3. \A phases \in Measures :
        requests[p].phase \in phases /\ r.phase \notin phases => InPhases(phases)' + 1 = InPhases(phases)
  BY <1>1, CountedOne
<1>4. \A store \in Stores, k \in Keys :
        /\ counts[store][k] \in Nat
        /\ counts'[store][k] = counts[store][k] \/ counts'[store][k] = counts[store][k] + 1
        /\ k # key => counts'[store][k] = counts[store][k]
  BY Counts, TypeOKIsShape DEF Shape
<1>5. sends \in Nat /\ verifies \in Nat /\ stamp \in Nat
  BY DEF TypeOK
<1>6. /\ ToCooldown \in Measures /\ ToSession \in Measures /\ ToDestination \in Measures
      /\ ToGateway \in Measures /\ Gate \in Measures /\ ToCompare \in Measures
  BY DEF Measures
<1>7. ASSUME NEW store \in Stores, NEW k \in Keys, NEW phases \in Measures,
             counts[store][k] + InPhases(phases) <= sends,
             k = key => requests[p].phase \in phases /\ r.phase \notin phases
      PROVE  counts'[store][k] + InPhases(phases)' <= sends
  <2>1. CASE k = key
    BY <1>2, <1>3, <1>4, <1>5, <1>7, <2>1
  <2>2. CASE k # key
    BY <1>2, <1>4, <1>5, <1>7, <2>2
  <2> QED BY <2>1, <2>2
<1>8. ASSUME NEW store \in Stores
      PROVE  /\ \A s \in Sessions : counts'[store][<<"cooldown", s>>] + InPhases(ToCooldown)' <= sends
             /\ \A s \in Sessions : counts'[store][<<"send", s>>] + InPhases(ToSession)' <= sends
             /\ \A d \in Dests : counts'[store][<<"send", d>>] + InPhases(ToDestination)' <= sends
  <2>1. /\ \A s \in Sessions : <<"cooldown", s>> \in Keys /\ <<"send", s>> \in Keys
        /\ \A d \in Dests : <<"send", d>> \in Keys
    BY DEF Keys
  <2> QED BY <1>6, <1>7, <2>1 DEF Counted
<1>9. /\ \A k \in Sessions \cup Dests : sent[k] + InPhases(ToGateway)' <= sends
      /\ stamp + InPhases(Gate)' <= sends
      /\ \A c \in Stamps : failed[c] + InPhases(ToCompare)' <= verifies
  <2>1. ASSUME NEW n \in Nat, NEW m \in Nat, NEW phases \in Measures, n + InPhases(phases) <= m
        PROVE  n + InPhases(phases)' <= m
    BY <1>2, <2>1
  <2>2. /\ \A k \in Sessions \cup Dests : sent[k] \in Nat
        /\ \A c \in Stamps : failed[c] \in Nat
    BY TypeOKIsShape DEF Shape
  <2> QED BY <1>5, <1>6, <2>1, <2>2 DEF Counted
<1> QED BY <1>1, <1>8, <1>9 DEF Counted

\* Each of the three counting steps.
LEMMA TypeOKLimits ==
  ASSUME TypeOK, Counted, NEW p \in Procs, Cooldown(p) \/ CapSession(p) \/ CapDestination(p)
  PROVE  Shape' /\ Counted'
<1>1. UNCHANGED <<avoiding, challenges, stamp, check, failed, raced, sent, sends, verifies, mishaps>>
  BY DEF Cooldown, CapSession, CapDestination, Cap, rows
<1>2. /\ requests[p].phase \in Gate => requests[p].session \in Sessions /\ requests[p].destination \in Dests
      /\ NoRequest \in Request /\ NoRequest.phase = "idle"
  BY Phases DEF Phased, Gate, Request, NoRequest
<1> USE DEF ToCooldown, ToSession, ToDestination, ToGateway, Gate, ToCompare
<1>3. CASE Cooldown(p)
  <2>1. requests[p].phase = "cooldown"
    BY <1>3 DEF Cooldown, In
  <2>2. CASE EndRequest(p) /\ UNCHANGED counts
    BY <1>1, <1>2, <2>2, Ends, OnlyMoves DEF EndRequest
  <2>3. CASE Count(p, <<"cooldown", requests[p].session>>) /\ GoTo(p, "session")
    <3>1. PICK r \in Request : requests' = [requests EXCEPT ![p] = r] /\ r.phase = "session"
      BY <2>1, <2>3, GoesTo
    <3>2. \A phases \in Measures : r.phase \in phases => requests[p].phase \in phases
      BY <2>1, <3>1 DEF Measures
    <3>3. <<"cooldown", requests[p].session>> \in Keys
      BY <1>2, <2>1 DEF Keys
    <3> QED BY <1>1, <2>1, <2>3, <3>1, <3>2, <3>3, CountedAtGate
  <2> QED BY <1>3, <2>2, <2>3 DEF Cooldown
<1>4. CASE CapSession(p)
  <2>1. requests[p].phase = "session" /\ Count(p, <<"send", requests[p].session>>)
    BY <1>4 DEF CapSession, Cap, In
  <2>2. PICK r \in Request : requests' = [requests EXCEPT ![p] = r] /\ r.phase \in {"idle", "destination"}
    BY <1>2, <1>4, <2>1, GoesTo DEF CapSession, Cap, EndRequest
  <2>3. \A phases \in Measures : r.phase \in phases => requests[p].phase \in phases
    BY <2>1, <2>2 DEF Measures
  <2>4. <<"send", requests[p].session>> \in Keys /\ requests[p].session \notin Dests
    BY <1>2, <2>1, OtpAssumption DEF Keys
  <2> QED BY <1>1, <2>1, <2>2, <2>3, <2>4, CountedAtGate
<1>5. CASE CapDestination(p)
  <2>1. requests[p].phase = "destination" /\ Count(p, <<"send", requests[p].destination>>)
    BY <1>5 DEF CapDestination, Cap, In
  <2>2. PICK r \in Request : requests' = [requests EXCEPT ![p] = r] /\ r.phase \in {"idle", "gateway"}
    BY <1>2, <1>5, <2>1, GoesTo DEF CapDestination, Cap, EndRequest
  <2>3. \A phases \in Measures : r.phase \in phases => requests[p].phase \in phases
    BY <2>1, <2>2 DEF Measures
  <2>4. <<"send", requests[p].destination>> \in Keys /\ requests[p].destination \notin Sessions
    BY <1>2, <2>1, OtpAssumption DEF Keys
  <2> QED BY <1>1, <2>1, <2>2, <2>3, <2>4, CountedAtGate
<1> QED BY <1>3, <1>4, <1>5

\* No request moves: Redis and its clients, the clock.
LEMMA TypeOKAside ==
  ASSUME TypeOK, Counted,
         \/ \E p \in Procs : RedisFails(p) \/ TryAgain(p)
         \/ RedisRestarts \/ WindowEnds
         \/ \E s \in Sessions : CooldownEnds(s)
         \/ \E c \in Stamps : Expire(c)
  PROVE  Shape' /\ Counted'
<1>1. Shape
  BY TypeOKIsShape
<1>2. UNCHANGED <<requests, stamp, check, failed, raced, sends, verifies>>
  BY DEF RedisFails, TryAgain, RedisRestarts, WindowEnds, CooldownEnds, Expire, limits, rows
<1> DEFINE Fewer == /\ counts' \in [Stores -> [Keys -> Nat]]
                    /\ \A store \in Stores, k \in Keys : counts'[store][k] <= counts[store][k]
                    /\ sent' \in [Sessions \cup Dests -> Nat]
                    /\ \A k \in Sessions \cup Dests : sent'[k] <= sent[k]
                    /\ avoiding' \subseteq Procs /\ mishaps' \in 0 .. MaxMishaps
<1>3. /\ \A store \in Stores, k \in Keys : counts[store][k] \in Nat
      /\ \A k \in Sessions \cup Dests : sent[k] \in Nat
      /\ mishaps \in Nat /\ MaxMishaps \in Nat
  BY <1>1, OtpAssumption DEF Shape
<1>4. ASSUME \E p \in Procs : RedisFails(p) \/ TryAgain(p) PROVE Fewer
  <2>1. UNCHANGED <<counts, sent>>
    BY <1>4 DEF RedisFails, TryAgain
  <2>2. avoiding' \subseteq Procs /\ mishaps' \in 0 .. MaxMishaps
    BY <1>1, <1>3, <1>4 DEF RedisFails, TryAgain, Shape
  <2> QED BY <1>1, <1>3, <2>1, <2>2 DEF Shape
<1>5. ASSUME RedisRestarts PROVE Fewer
  <2>1. UNCHANGED <<sent, avoiding>> /\ mishaps' \in 0 .. MaxMishaps
    BY <1>3, <1>5 DEF RedisRestarts
  <2>2. /\ counts' \in [Stores -> [Keys -> Nat]]
        /\ \A store \in Stores, k \in Keys : counts'[store][k] = 0 \/ counts'[store][k] = counts[store][k]
    BY <1>1, <1>5 DEF RedisRestarts, Shape
  <2> QED BY <1>1, <1>3, <2>1, <2>2 DEF Shape
<1>6. ASSUME WindowEnds \/ \E s \in Sessions : CooldownEnds(s) PROVE Fewer
  <2>1. UNCHANGED <<avoiding, mishaps>>
    BY <1>6 DEF WindowEnds, CooldownEnds
  <2>2. /\ counts' \in [Stores -> [Keys -> Nat]]
        /\ \A store \in Stores, k \in Keys : counts'[store][k] = 0 \/ counts'[store][k] = counts[store][k]
    <3>1. CASE WindowEnds
      BY <3>1 DEF WindowEnds
    <3>2. ASSUME NEW s \in Sessions, CooldownEnds(s)
          PROVE  /\ counts' \in [Stores -> [Keys -> Nat]]
                 /\ \A store \in Stores, k \in Keys :
                      counts'[store][k] = 0 \/ counts'[store][k] = counts[store][k]
      <4>1. \A store \in Stores : counts[store] \in [Keys -> Nat]
        BY <1>1 DEF Shape
      <4>2. counts' = [store \in Stores |-> [counts[store] EXCEPT ![<<"cooldown", s>>] = 0]]
        BY <3>2 DEF CooldownEnds
      <4> QED BY <4>1, <4>2
    <3> QED BY <1>6, <3>1, <3>2
  <2>3. /\ sent' \in [Sessions \cup Dests -> Nat]
        /\ \A k \in Sessions \cup Dests : sent'[k] = 0 \/ sent'[k] = sent[k]
    <3>1. CASE WindowEnds
      BY <3>1 DEF WindowEnds
    <3>2. CASE UNCHANGED sent
      BY <1>1, <3>2 DEF Shape
    <3> QED BY <1>6, <3>1, <3>2 DEF CooldownEnds
  <2>4. /\ \A store \in Stores, k \in Keys : counts'[store][k] <= counts[store][k]
        /\ \A k \in Sessions \cup Dests : sent'[k] <= sent[k]
    BY <1>3, <2>2, <2>3
  <2> QED BY <1>1, <2>1, <2>2, <2>3, <2>4 DEF Shape
<1>7. ASSUME \E c \in Stamps : Expire(c) PROVE Fewer
  <2>1. UNCHANGED <<counts, sent, avoiding, mishaps>>
    BY <1>7 DEF Expire, limits
  <2> QED BY <1>1, <1>3, <2>1 DEF Shape
<1>8. Fewer
  BY <1>4, <1>5, <1>6, <1>7
<1>9. /\ DOMAIN challenges' = DOMAIN challenges
      /\ \A c \in DOMAIN challenges : challenges'[c] \in Challenge
  <2>1. CASE UNCHANGED challenges
    BY <1>1, <2>1 DEF Shape
  <2>2. ASSUME NEW c \in Stamps, Expire(c)
        PROVE  /\ DOMAIN challenges' = DOMAIN challenges
               /\ \A d \in DOMAIN challenges : challenges'[d] \in Challenge
    <3>1. c \in DOMAIN challenges /\ challenges[c] \in Challenge
          /\ challenges' = [challenges EXCEPT ![c] = [challenges[c] EXCEPT !.pending = FALSE]]
      BY <1>1, <2>2 DEF Expire, Shape
    <3>2. [challenges[c] EXCEPT !.pending = FALSE] \in Challenge
      BY <3>1 DEF Challenge
    <3> QED BY <1>1, <3>1, <3>2 DEF Shape
  <2> QED BY <2>1, <2>2 DEF RedisFails, TryAgain, RedisRestarts, WindowEnds, CooldownEnds, rows
<1>10. Shape'
  BY <1>1, <1>2, <1>8, <1>9 DEF Shape
<1>11. \A phases \in Measures : InPhases(phases)' <= InPhases(phases)
  BY <1>2, InPhasesNat DEF InPhases, Among
<1> QED BY <1>2, <1>8, <1>10, <1>11, CountedKept

\* A number that waits for a phase is free when the phase is left.
LEMMA TypeOKSend ==
  ASSUME TypeOK, Counted, NEW p \in Procs,
         GatewayTakes(p) \/ GatewayRefuses(p) \/ Insert(p) \/ CommitSend(p) \/ Abort(p)
  PROVE  Shape' /\ Counted'
<1>1. Shape /\ Phased
  BY TypeOKIsShape, Phases
<1>2. NoRequest \in Request /\ NoRequest.phase = "idle"
  BY DEF Request, NoRequest
<1>3. /\ ToCooldown \in Measures /\ ToSession \in Measures /\ ToDestination \in Measures
      /\ ToGateway \in Measures /\ Gate \in Measures /\ ToCompare \in Measures
  BY DEF Measures
<1>4. CASE GatewayRefuses(p) \/ Abort(p)
  BY <1>2, <1>4, Ends, OnlyMoves DEF GatewayRefuses, Abort, EndRequest, limits, rows
<1>5. CASE GatewayTakes(p)
  <2>1. /\ requests[p].phase = "gateway" /\ requests[p].session \in Sessions /\ requests[p].destination \in Dests
        /\ UNCHANGED <<counts, avoiding, challenges, stamp, check, failed, raced, sends, verifies, mishaps>>
    BY <1>1, <1>5 DEF Phased, GatewayTakes, In, Gate, limits, rows
  <2>2. PICK r \in Request : requests' = [requests EXCEPT ![p] = r] /\ r.phase \in {"idle", "delivered"}
    <3> DEFINE q == requests[p]
               r == [phase |-> "delivered", session |-> q.session, destination |-> q.destination, taken |-> TRUE]
    <3>1. r \in Request
      BY <2>1 DEF Request, Gate
    <3>2. CASE requests' = [requests EXCEPT ![p] = r]
      BY <3>1, <3>2
    <3>3. CASE EndRequest(p)
      BY <1>2, <3>3 DEF EndRequest
    <3> QED BY <1>5, <3>2, <3>3 DEF GatewayTakes
  <2>3. /\ sent' \in [Sessions \cup Dests -> Nat]
        /\ \A k \in Sessions \cup Dests : sent'[k] = sent[k] \/ sent'[k] = sent[k] + 1
    BY <1>1, <1>5 DEF GatewayTakes, Shape
  <2>4. Shape'
    BY <1>1, <2>1, <2>2, <2>3 DEF Shape
  <2>5. \A phases \in Measures : r.phase \in phases => requests[p].phase \in phases
    BY <2>1, <2>2 DEF Measures, ToCooldown, ToSession, ToDestination, ToGateway, Gate, ToCompare
  <2>6. /\ \A phases \in Measures : InPhases(phases)' <= InPhases(phases)
        /\ \A phases : InPhases(phases) \in Nat /\ InPhases(phases)' \in Nat
    BY <2>2, <2>5, MovesOn, InPhasesNat
  <2>7. InPhases(ToGateway)' + 1 = InPhases(ToGateway)
    <3>1. r.phase \notin ToGateway /\ requests[p].phase \in ToGateway
      BY <2>1, <2>2 DEF ToGateway
    <3> QED BY <1>3, <2>2, <2>4, <3>1, CountedOne
  <2>8. \A k \in Sessions \cup Dests : sent'[k] + InPhases(ToGateway)' <= sends
    BY <1>1, <2>3, <2>6, <2>7 DEF Counted, Shape
  <2>9. ASSUME NEW n \in Nat, NEW m \in Nat, NEW phases \in Measures, n + InPhases(phases) <= m
        PROVE  n + InPhases(phases)' <= m
    BY <2>6, <2>9
  <2>10. /\ \A store \in Stores :
             /\ \A s \in Sessions : counts[store][<<"cooldown", s>>] \in Nat /\ counts[store][<<"send", s>>] \in Nat
             /\ \A d \in Dests : counts[store][<<"send", d>>] \in Nat
         /\ \A c \in Stamps : failed[c] \in Nat
         /\ stamp \in Nat /\ sends \in Nat /\ verifies \in Nat
    BY <1>1 DEF Shape, Keys
  <2> QED BY <1>3, <2>1, <2>4, <2>8, <2>9, <2>10 DEF Counted
<1>6. CASE Insert(p)
  <2>1. /\ requests[p].phase = "delivered" /\ requests[p].session \in Sessions /\ requests[p].taken \in BOOLEAN
        /\ stamp' = stamp + 1
        /\ UNCHANGED <<counts, avoiding, challenges, check, failed, raced, sent, sends, verifies, mishaps>>
    BY <1>1, <1>6 DEF Phased, Insert, In, Gate, limits
  <2> DEFINE r == [phase |-> "inserted", session |-> requests[p].session, taken |-> requests[p].taken,
                   supersedes |-> Pending(requests[p].session), at |-> stamp + 1]
  <2>2. requests' = [requests EXCEPT ![p] = r] /\ r.phase = "inserted"
    BY <1>6 DEF Insert
  <2>3. /\ InPhases(Gate) \in Nat /\ InPhases(Gate)' \in Nat
        /\ InPhases(Gate)' = InPhases(Gate) - 1
    <3> HIDE DEF r
    <3>1. DOMAIN requests = Procs
      BY DEF TypeOK
    <3>2. InPhases(Gate)' = InPhases(Gate) + (IF r.phase \in Gate THEN 1 ELSE 0)
                                           - (IF requests[p].phase \in Gate THEN 1 ELSE 0)
      BY <2>2, <3>1, Moves
    <3>3. r.phase \notin Gate /\ requests[p].phase \in Gate
      BY <2>1, <2>2 DEF Gate
    <3> QED BY <3>2, <3>3, InPhasesNat
  <2>4. stamp + 1 \in Stamps
    BY <1>1, <2>3, OtpAssumption DEF Counted, Shape, Stamps
  <2>5. r \in Request
    BY <2>1, <2>4 DEF Request, Pending, Of, TypeOK
  <2>6. Shape'
    BY <1>1, <2>1, <2>2, <2>5 DEF Shape
  <2> HIDE DEF r
  <2>7. \A phases \in Measures : r.phase \in phases => requests[p].phase \in phases
    BY <2>2 DEF Measures, ToCooldown, ToSession, ToDestination, ToGateway, Gate, ToCompare
  <2>8. /\ \A phases \in Measures : InPhases(phases)' <= InPhases(phases)
        /\ \A phases : InPhases(phases) \in Nat /\ InPhases(phases)' \in Nat
    BY <2>2, <2>7, MovesOn, InPhasesNat
  <2>9. stamp' + InPhases(Gate)' <= sends
    BY <1>1, <2>1, <2>3 DEF Counted, Shape
  <2>10. ASSUME NEW n \in Nat, NEW m \in Nat, NEW phases \in Measures, n + InPhases(phases) <= m
         PROVE  n + InPhases(phases)' <= m
    BY <2>8, <2>10
  <2>11. /\ \A store \in Stores :
              /\ \A s \in Sessions : counts[store][<<"cooldown", s>>] \in Nat /\ counts[store][<<"send", s>>] \in Nat
              /\ \A d \in Dests : counts[store][<<"send", d>>] \in Nat
         /\ \A c \in Stamps : failed[c] \in Nat
         /\ \A k \in Sessions \cup Dests : sent[k] \in Nat
         /\ sends \in Nat /\ verifies \in Nat
    BY <1>1 DEF Shape, Keys
  <2> QED BY <1>3, <2>1, <2>6, <2>9, <2>10, <2>11 DEF Counted
<1>7. CASE CommitSend(p)
  <2>1. /\ requests[p].phase = "inserted" /\ requests[p].session \in Sessions /\ requests[p].taken \in BOOLEAN
        /\ requests[p].at \in Stamps
        /\ requests' = [requests EXCEPT ![p] = NoRequest]
        /\ UNCHANGED <<counts, avoiding, stamp, check, failed, raced, sent, sends, verifies, mishaps>>
    BY <1>1, <1>7 DEF Phased, CommitSend, In, EndRequest, limits
  <2>2. DOMAIN challenges' \subseteq Stamps /\ \A c \in DOMAIN challenges' : challenges'[c] \in Challenge
    <3>1. [session |-> requests[p].session, taken |-> requests[p].taken, attempts |-> 0,
           pending |-> TRUE, verified |-> FALSE] \in Challenge
      BY <2>1, OtpAssumption DEF Challenge
    <3>2. \A c \in DOMAIN challenges : [challenges[c] EXCEPT !.pending = FALSE] \in Challenge
      BY <1>1 DEF Shape, Challenge
    <3> QED BY <1>1, <1>7, <2>1, <3>1, <3>2 DEF CommitSend, Shape
  <2>3. Shape'
    BY <1>1, <1>2, <2>1, <2>2 DEF Shape
  <2>4. \A phases \in Measures : InPhases(phases)' <= InPhases(phases)
    BY <2>1, Ends, MovesOn
  <2>5. /\ \A store \in Stores, k \in Keys : counts'[store][k] <= counts[store][k]
        /\ \A k \in Sessions \cup Dests : sent'[k] <= sent[k]
    BY <1>1, <2>1 DEF Shape
  <2> QED BY <2>1, <2>3, <2>4, <2>5, CountedKept
<1> QED BY <1>4, <1>5, <1>6, <1>7

\* Writing attempts leaves rows as they should be.
LEMMA Attempts ==
  ASSUME TypeOK, Held, NEW p \in Procs, In(p, "compare"), NEW verified \in BOOLEAN, WriteAttempts(p, verified)
  PROVE  LET r == requests[p] IN
         /\ r.challenge \in DOMAIN challenges /\ r.attempts \in Nat /\ r.attempts < MaxAttempts
         /\ r.session \in Sessions /\ challenges[r.challenge].session = r.session
         /\ DOMAIN challenges' = DOMAIN challenges
         /\ \A c \in DOMAIN challenges :
              /\ challenges'[c] \in Challenge
              /\ c # r.challenge => challenges'[c] = challenges[c]
              /\ challenges'[c].session = challenges[c].session
              /\ challenges'[c].taken = challenges[c].taken
              /\ challenges'[c].pending = challenges[c].pending
         /\ challenges'[r.challenge].attempts = r.attempts + 1
         /\ challenges'[r.challenge].verified <=> verified \/ challenges[r.challenge].verified
<1> DEFINE r == requests[p]
           c == r.challenge
           n == r.attempts + 1
<1>1. /\ c \in Of(r.session) /\ r.attempts < MaxAttempts /\ r.attempts \in 0 .. MaxAttempts
      /\ r.session \in Sessions
  BY Phases DEF Phased, Held, HeldBy, In
<1>2. c \in DOMAIN challenges /\ challenges[c].session = r.session
  BY <1>1 DEF Of
<1>3. \A d \in DOMAIN challenges : challenges[d] \in Challenge
  BY DEF TypeOK
<1>4. n \in 0 .. MaxAttempts
  BY <1>1, OtpAssumption
<1>5. challenges' = [challenges EXCEPT ![c].attempts = n, ![c].verified = verified \/ @]
  BY DEF WriteAttempts
<1> HIDE DEF c, n
<1>6. /\ DOMAIN challenges' = DOMAIN challenges
      /\ \A d \in DOMAIN challenges : d # c => challenges'[d] = challenges[d]
  BY <1>5
<1>7. /\ challenges'[c] \in Challenge /\ challenges'[c].attempts = n
      /\ challenges'[c].session = challenges[c].session
      /\ challenges'[c].taken = challenges[c].taken
      /\ challenges'[c].pending = challenges[c].pending
      /\ challenges'[c].verified <=> verified \/ challenges[c].verified
  BY <1>2, <1>3, <1>4, <1>5 DEF Challenge
<1> QED BY <1>1, <1>2, <1>3, <1>6, <1>7 DEF c, n

\* A verification ends; a wrong code has been counted.
LEMMA TypeOKVerify ==
  ASSUME TypeOK, Counted, HasLatest, Held, NEW p \in Procs, Read(p) \/ Refuse(p) \/ Wrong(p) \/ Right(p)
  PROVE  Shape' /\ Counted'
<1>1. Shape /\ Phased
  BY TypeOKIsShape, Phases
<1>2. NoRequest \in Request /\ NoRequest.phase = "idle"
  BY DEF Request, NoRequest
<1>3. UNCHANGED <<counts, avoiding, stamp, sent, sends, verifies, mishaps>>
  BY DEF Read, Refuse, Wrong, Right, limits, rows
<1>4. CASE Read(p)
  <2>1. /\ requests[p].phase = "verify" /\ requests[p].session \in Sessions
        /\ requests[p].known \in 0 .. MaxSends
        /\ UNCHANGED <<counts, avoiding, challenges, stamp, check, failed, raced, sent, sends, verifies, mishaps>>
    BY <1>1, <1>4 DEF Phased, Read, In, limits, rows
  <2>2. PICK r \in Request : /\ requests' = [requests EXCEPT ![p] = r]
                             /\ r.phase \in {"idle", "compare", "exhausted"}
    <3>1. CASE EndRequest(p)
      BY <1>2, <3>1 DEF EndRequest
    <3>2. CASE Of(requests[p].session) # {} /\ ~EndRequest(p)
      <4> DEFINE q == requests[p]
                 c == LatestChallenge(q.session)
                 r == [phase |-> IF UsedUp(challenges[c].attempts) THEN "exhausted" ELSE "compare",
                       session |-> q.session, known |-> q.known,
                       challenge |-> c, attempts |-> challenges[c].attempts]
      <4>1. requests' = [requests EXCEPT ![p] = r]
        BY <1>4, <3>2 DEF Read
      <4>2. c \in Stamps /\ challenges[c].attempts \in 0 .. MaxAttempts
        <5>1. c \in Of(q.session)
          BY <2>1, <3>2, Latest
        <5> QED BY <1>1, <5>1 DEF Of, Shape, Challenge
      <4>3. r \in Request
        <5> HIDE DEF c
        <5> QED BY <2>1, <4>2 DEF Request
      <4> QED BY <4>1, <4>3
    <3> QED BY <1>4, <3>1, <3>2 DEF Read
  <2>3. \A phases \in Measures : r.phase \in phases => requests[p].phase \in phases
    BY <2>1, <2>2 DEF Measures, ToCooldown, ToSession, ToDestination, ToGateway, Gate, ToCompare
  <2> QED BY <2>1, <2>2, <2>3, OnlyMoves
<1>5. CASE Refuse(p)
  <2>1. /\ requests' = [requests EXCEPT ![p] = NoRequest]
        /\ UNCHANGED <<challenges, failed, raced>>
        /\ check' = [check EXCEPT ![requests[p].session] = "FAILED"]
    BY <1>5 DEF Refuse, EndRequest, SetCheck
  <2>2. Shape'
    BY <1>1, <1>2, <1>3, <2>1 DEF Shape
  <2>3. \A phases \in Measures : InPhases(phases)' <= InPhases(phases)
    BY <2>1, Ends, MovesOn
  <2>4. /\ \A store \in Stores, k \in Keys : counts'[store][k] <= counts[store][k]
        /\ \A k \in Sessions \cup Dests : sent'[k] <= sent[k]
    BY <1>1, <1>3 DEF Shape
  <2> QED BY <1>3, <2>1, <2>2, <2>3, <2>4, CountedKept
<1>6. ASSUME NEW verified \in BOOLEAN, In(p, "compare"), WriteAttempts(p, verified), EndRequest(p),
             \E status \in {"PASSED", "FAILED"} : SetCheck(requests[p].session, status) \/ UNCHANGED check,
             \/ UNCHANGED failed
             \/ failed' = [failed EXCEPT ![requests[p].challenge] = @ + 1]
      PROVE  Shape' /\ Counted'
  <2>1. /\ requests[p].phase = "compare" /\ requests[p].challenge \in Stamps
        /\ requests' = [requests EXCEPT ![p] = NoRequest]
    BY <1>1, <1>6 DEF Phased, In, EndRequest
  <2>2. DOMAIN challenges' = DOMAIN challenges /\ \A c \in DOMAIN challenges : challenges'[c] \in Challenge
    BY <1>6, Attempts, Zenon
  <2>3. raced' \subseteq Stamps /\ check' \in [Sessions -> {"PENDING", "PASSED", "FAILED"}]
    BY <1>1, <1>6, <2>1 DEF WriteAttempts, Shape, SetCheck
  <2>4. /\ failed' \in [Stamps -> Nat]
        /\ \A c \in Stamps : failed'[c] = failed[c] \/ failed'[c] = failed[c] + 1
    BY <1>1, <1>6 DEF Shape
  <2>5. Shape'
    BY <1>1, <1>2, <1>3, <2>1, <2>2, <2>3, <2>4 DEF Shape
  <2>6. /\ \A phases \in Measures : InPhases(phases)' <= InPhases(phases)
        /\ \A phases : InPhases(phases) \in Nat /\ InPhases(phases)' \in Nat
    BY <2>1, Ends, MovesOn, InPhasesNat
  <2>7. /\ ToCooldown \in Measures /\ ToSession \in Measures /\ ToDestination \in Measures
        /\ ToGateway \in Measures /\ Gate \in Measures /\ ToCompare \in Measures
    BY DEF Measures
  <2>8. InPhases(ToCompare)' + 1 = InPhases(ToCompare)
    <3>1. NoRequest.phase \notin ToCompare /\ requests[p].phase \in ToCompare
      BY <1>2, <2>1 DEF ToCompare
    <3> QED BY <2>1, <2>5, <2>7, <3>1, CountedOne
  <2>9. ASSUME NEW n \in Nat, NEW m \in Nat, NEW phases \in Measures, n + InPhases(phases) <= m
        PROVE  n + InPhases(phases)' <= m
    BY <2>6, <2>9
  <2>10. \A c \in Stamps : failed'[c] + InPhases(ToCompare)' <= verifies
    BY <1>1, <2>4, <2>6, <2>8 DEF Counted, Shape
  <2>11. /\ \A store \in Stores :
              /\ \A s \in Sessions : counts[store][<<"cooldown", s>>] \in Nat /\ counts[store][<<"send", s>>] \in Nat
              /\ \A d \in Dests : counts[store][<<"send", d>>] \in Nat
         /\ \A k \in Sessions \cup Dests : sent[k] \in Nat
         /\ stamp \in Nat /\ sends \in Nat /\ verifies \in Nat
    BY <1>1 DEF Shape, Keys
  <2> QED BY <1>3, <2>5, <2>7, <2>9, <2>10, <2>11 DEF Counted
<1>7. CASE Wrong(p)
  BY <1>6, <1>7 DEF Wrong
<1>8. CASE Right(p)
  BY <1>6, <1>8 DEF Right
<1> QED BY <1>4, <1>5, <1>7, <1>8

-----------------------------------------------------------------------------
(***************************************************************************)
(* The rows.                                                               *)
(***************************************************************************)
\* What a request holds stays so, while rows are added and failures counted.
LEMMA HeldOn ==
  ASSUME TypeOK, TypeOK', NEW q \in Procs, HeldBy(q), requests'[q] = requests[q],
         \A c \in DOMAIN challenges : c \in DOMAIN challenges' /\ challenges'[c].session = challenges[c].session,
         \A c \in Stamps : failed[c] <= failed'[c]
  PROVE  HeldBy(q)'
<1>1. \A s : Of(s) \subseteq Of(s)'
  BY DEF Of
<1>2. \A c \in Stamps : failed[c] \in Nat /\ failed'[c] \in Nat
  BY OtpAssumption DEF TypeOK
<1>3. requests[q].phase \in {"compare", "exhausted"} =>
        requests[q].challenge \in Stamps /\ requests[q].attempts \in Nat
  <2>1. Phased /\ \A n \in 0 .. MaxAttempts : n \in Nat
    BY Phases, OtpAssumption
  <2> QED BY <2>1 DEF Phased
<1> QED BY <1>1, <1>2, <1>3 DEF HeldBy

\* The rows are left alone, and nobody holds any that did not before.
LEMMA RowwiseAside ==
  ASSUME TypeOK, TypeOK', Rowwise, UNCHANGED rows,
         \A q \in Procs :
           \/ requests'[q] = requests[q]
           \/ /\ requests'[q].phase \notin {"inserted", "verify", "compare", "exhausted"}
              /\ requests'[q].phase = "delivered" => requests'[q].taken
  PROVE  Rowwise'
<1>1. UNCHANGED <<challenges, stamp, check, failed, raced>>
  BY DEF rows
<1>2. \A s : Of(s)' = Of(s)
  BY <1>1 DEF Of
<1>3. Stamped'
  BY <1>1, <1>2 DEF Rowwise, Stamped, HasLatest, In
<1>4. Held'
  <2> SUFFICES ASSUME NEW q \in Procs PROVE HeldBy(q)'
    BY DEF Held
  <2>1. CASE requests'[q] = requests[q]
    <3>1. \A c \in Stamps : failed[c] <= failed'[c]
      BY <1>1, OtpAssumption DEF TypeOK
    <3> QED BY <1>1, <2>1, <3>1, HeldOn DEF Rowwise, Held
  <2>2. CASE requests'[q].phase \notin {"inserted", "verify", "compare", "exhausted"}
    BY <2>2 DEF HeldBy
  <2> QED BY <2>1, <2>2
<1>5. Tallied' /\ CheckReflectsChallenges' /\ Taken'
  BY <1>1, <1>2 DEF Rowwise, Tallied, CheckReflectsChallenges, Taken
<1> QED BY <1>3, <1>4, <1>5 DEF Rowwise

LEMMA RowwiseSend ==
  ASSUME TypeOK, TypeOK', Rowwise, NEW p \in Procs,
         \/ \E s \in Sessions, d \in Dests : StartSend(p, s, d)
         \/ Cooldown(p) \/ CapSession(p) \/ CapDestination(p)
         \/ GatewayTakes(p) \/ GatewayRefuses(p) \/ Abort(p)
  PROVE  Rowwise'
<1>1. UNCHANGED rows
  BY DEF StartSend, Cooldown, CapSession, CapDestination, Cap, GatewayTakes, GatewayRefuses, Abort
<1>2. DOMAIN requests = Procs /\ NoRequest.phase = "idle"
  BY DEF TypeOK, NoRequest
<1> DEFINE Outside(q) == \/ requests'[q] = requests[q]
                         \/ /\ requests'[q].phase \notin {"inserted", "verify", "compare", "exhausted"}
                            /\ requests'[q].phase = "delivered" => requests'[q].taken
<1>3. ASSUME NEW q \in Procs PROVE Outside(q)
  <2>1. ASSUME NEW next \in {"session", "destination", "gateway"}, requests[p].phase \in Gate, GoTo(p, next)
        PROVE  Outside(q)
    <3>1. next \in Gate
      BY DEF Gate
    <3>2. PICK r \in Request : requests' = [requests EXCEPT ![p] = r] /\ r.phase = next
      BY <2>1, <3>1, GoesTo
    <3> QED BY <1>2, <3>2
  <2>2. CASE EndRequest(p)
    BY <1>2, <2>2 DEF EndRequest
  <2>3. ASSUME NEW s \in Sessions, NEW d \in Dests, StartSend(p, s, d) PROVE Outside(q)
    BY <1>2, <2>3 DEF StartSend
  <2>4. CASE Cooldown(p)
    BY <2>1, <2>2, <2>4 DEF Cooldown, In, Gate
  <2>5. CASE CapSession(p) \/ CapDestination(p)
    BY <2>1, <2>2, <2>5 DEF CapSession, CapDestination, Cap, In, Gate
  <2>6. CASE GatewayTakes(p)
    BY <1>2, <2>2, <2>6 DEF GatewayTakes
  <2> QED BY <2>2, <2>3, <2>4, <2>5, <2>6 DEF GatewayRefuses, Abort
<1> QED BY <1>1, <1>3, RowwiseAside

LEMMA RowwiseRedis ==
  ASSUME TypeOK, TypeOK', Rowwise,
         \/ \E p \in Procs : RedisFails(p) \/ TryAgain(p)
         \/ RedisRestarts \/ WindowEnds
         \/ \E s \in Sessions : CooldownEnds(s)
  PROVE  Rowwise'
<1>1. UNCHANGED <<rows, requests>>
  BY DEF RedisFails, TryAgain, RedisRestarts, WindowEnds, CooldownEnds
<1> QED BY <1>1, RowwiseAside

LEMMA RowwiseRead ==
  ASSUME TypeOK, TypeOK', Rowwise, NEW p \in Procs,
         Read(p) \/ \E s \in Sessions : StartVerify(p, s)
  PROVE  Rowwise'
<1>0. UNCHANGED <<challenges, stamp, check, failed, raced>>
  BY DEF Read, StartVerify, rows
<1>1. /\ UNCHANGED <<challenges, stamp, check, failed, raced>>
      /\ DOMAIN requests = Procs /\ HasLatest /\ Phased
      /\ \A c \in Stamps : failed[c] <= failed'[c]
  <2>1. \A c \in Stamps : failed[c] <= failed'[c]
    BY <1>0, OtpAssumption DEF TypeOK
  <2> QED BY <1>0, <2>1, Phases DEF TypeOK, Rowwise, Stamped
<1>2. \A s : Of(s)' = Of(s)
  BY <1>1 DEF Of
<1>3. \A q \in Procs : q # p => requests'[q] = requests[q]
  BY <1>1 DEF Read, StartVerify, EndRequest
<1>4. requests'[p].phase \notin Gate \cup {"inserted"} /\ HeldBy(p)'
  <2>1. ASSUME NEW s \in Sessions, StartVerify(p, s)
        PROVE  requests'[p].phase \notin Gate \cup {"inserted"} /\ HeldBy(p)'
    <3>1. requests'[p] = [phase |-> "verify", session |-> s, known |-> Max(Of(s) \cup {0})]
      BY <1>1, <2>1 DEF StartVerify
    <3>2. requests'[p].phase = "verify" /\ requests'[p].session = s
          /\ requests'[p].known = Max(Of(s) \cup {0})
      BY <3>1
    <3>3. Max(Of(s) \cup {0}) \in Of(s) \cup {0}
      BY <1>1, Latest
    <3> QED BY <1>2, <3>2, <3>3 DEF HeldBy, Gate
  <2>2. CASE EndRequest(p)
    <3>1. requests'[p].phase = "idle"
      BY <1>1, <2>2 DEF EndRequest, NoRequest
    <3> QED BY <3>1 DEF HeldBy, Gate
  <2>3. CASE Read(p) /\ ~EndRequest(p)
    <3> DEFINE q == requests[p]
               c == LatestChallenge(q.session)
               r == [phase |-> IF UsedUp(challenges[c].attempts) THEN "exhausted" ELSE "compare",
                     session |-> q.session, known |-> q.known,
                     challenge |-> c, attempts |-> challenges[c].attempts]
    <3>1. /\ q.phase = "verify" /\ q.session \in Sessions
          /\ Of(q.session) # {} /\ ~challenges[c].verified
          /\ requests' = [requests EXCEPT ![p] = r]
      BY <1>1, <2>3 DEF Phased, Read, In
    <3>2. requests'[p] = r
      BY <1>1, <3>1
    <3>3. c \in Of(q.session) /\ \A d \in Of(q.session) : c >= d
      BY <1>1, <3>1, Latest
    <3>4. q.known \in Of(q.session) \cup {0}
      BY <3>1 DEF Rowwise, Held, HeldBy
    <3>5. c \in Stamps /\ challenges[c].attempts \in 0 .. MaxAttempts /\ challenges[c].attempts <= failed[c]
      BY <3>1, <3>3 DEF Of, TypeOK, Challenge, Rowwise, Tallied
    <3>6. c >= q.known
      BY <3>3, <3>4, <3>5 DEF Stamps
    <3> HIDE DEF c
    <3>7. /\ requests'[p].phase = IF UsedUp(challenges[c].attempts) THEN "exhausted" ELSE "compare"
          /\ requests'[p].session = q.session /\ requests'[p].known = q.known
          /\ requests'[p].challenge = c /\ requests'[p].attempts = challenges[c].attempts
      BY <3>2
    <3>8. requests'[p].phase = "exhausted" => challenges[c].attempts >= MaxAttempts
      BY <3>7 DEF UsedUp
    <3>9. requests'[p].phase = "compare" => challenges[c].attempts < MaxAttempts
      BY <3>5, <3>7, OtpAssumption DEF UsedUp
    <3>10. requests'[p].phase \in {"compare", "exhausted"}
      BY <3>7
    <3> HIDE DEF q, r
    <3>11. HeldBy(p)'
      BY <1>1, <1>2, <3>3, <3>4, <3>5, <3>6, <3>7, <3>8, <3>9 DEF HeldBy
    <3> QED BY <3>10, <3>11 DEF Gate
  <2> QED BY <2>1, <2>2, <2>3 DEF Read
<1>5. Held'
  BY <1>1, <1>3, <1>4, HeldOn DEF Held, Rowwise
<1>6. Stamped'
  BY <1>1, <1>2, <1>3, <1>4 DEF Rowwise, Stamped, HasLatest, In
<1>7. Taken'
  BY <1>1, <1>3, <1>4 DEF Rowwise, Taken, Gate
<1>8. Tallied' /\ CheckReflectsChallenges'
  BY <1>1, <1>2 DEF Rowwise, Tallied, CheckReflectsChallenges
<1> QED BY <1>5, <1>6, <1>7, <1>8 DEF Rowwise

LEMMA RowwiseInsert ==
  ASSUME TypeOK, TypeOK', Rowwise, NEW p \in Procs, Insert(p)
  PROVE  Rowwise'
<1>1. /\ UNCHANGED <<challenges, check, failed, raced>>
      /\ stamp' = stamp + 1 /\ stamp \in Nat
      /\ requests[p].phase = "delivered"
      /\ DOMAIN requests = Procs
      /\ \A c \in Stamps : failed[c] <= failed'[c]
  BY OtpAssumption DEF Insert, In, TypeOK
<1>2. \A s : Of(s)' = Of(s)
  BY <1>1 DEF Of
<1>3. \A q \in Procs : q # p => requests'[q] = requests[q]
  BY <1>1 DEF Insert
<1>4. /\ requests'[p].phase = "inserted" /\ requests'[p].at = stamp + 1
      /\ requests'[p].taken = requests[p].taken
  BY <1>1 DEF Insert
<1>5. \A c \in DOMAIN challenges : c \in Nat
  BY DEF TypeOK, Stamps
<1>6. \A q \in Procs : q # p /\ In(q, "inserted") => requests[q].at \in Nat /\ requests[q].at <= stamp
  <2>1. Phased /\ \A n \in Stamps : n \in Nat
    BY Phases DEF Stamps
  <2> QED BY <2>1 DEF Phased, Rowwise, Stamped, In
<1>7. Stamped'
  <2>1. \A c \in DOMAIN challenges : c <= stamp' /\ c # stamp + 1
    BY <1>1, <1>5 DEF Rowwise, Stamped
  <2>2. \A q \in Procs : In(q, "inserted")' => requests'[q].at <= stamp'
                                               /\ requests'[q].at \notin DOMAIN challenges
    BY <1>1, <1>3, <1>4, <1>6, <2>1 DEF In, Rowwise, Stamped
  <2>3. \A q, r \in Procs : In(q, "inserted")' /\ In(r, "inserted")' /\ requests'[q].at = requests'[r].at => q = r
    BY <1>1, <1>3, <1>4, <1>6 DEF In, Rowwise, Stamped
  <2>4. HasLatest'
    BY <1>2 DEF HasLatest, Rowwise, Stamped
  <2> QED BY <1>1, <2>1, <2>2, <2>3, <2>4 DEF Stamped
<1>8. Held'
  <2>1. HeldBy(p)'
    BY <1>4 DEF HeldBy
  <2> QED BY <1>1, <1>3, <2>1, HeldOn DEF Held, Rowwise
<1>9. Taken'
  BY <1>1, <1>3, <1>4 DEF Rowwise, Taken
<1>10. Tallied' /\ CheckReflectsChallenges'
  BY <1>1, <1>2 DEF Rowwise, Tallied, CheckReflectsChallenges
<1> QED BY <1>7, <1>8, <1>9, <1>10 DEF Rowwise

LEMMA RowwiseCommit ==
  ASSUME TypeOK, TypeOK', Rowwise, NEW p \in Procs, CommitSend(p)
  PROVE  Rowwise'
<1> DEFINE q == requests[p]
           new == [session |-> q.session, taken |-> q.taken, attempts |-> 0,
                   pending |-> TRUE, verified |-> FALSE]
<1>0. Phased
  BY Phases
<1>1. /\ q.phase = "inserted" /\ q.at \in Stamps /\ q.session \in Sessions /\ q.taken
      /\ q.at \notin DOMAIN challenges /\ q.at <= stamp
      /\ UNCHANGED <<stamp, check, failed, raced>>
      /\ requests' = [requests EXCEPT ![p] = NoRequest]
      /\ DOMAIN requests = Procs /\ NoRequest.phase = "idle"
  BY <1>0 DEF Phased, CommitSend, EndRequest, In, Rowwise, Stamped, Taken, TypeOK, NoRequest
<1>2. /\ DOMAIN challenges' = DOMAIN challenges \cup {q.at}
      /\ challenges'[q.at] = new
      /\ \A c \in DOMAIN challenges : \/ challenges'[c] = challenges[c]
                                      \/ challenges'[c] = [challenges[c] EXCEPT !.pending = FALSE]
  BY <1>1 DEF CommitSend
<1>3. /\ challenges'[q.at].session = q.session /\ challenges'[q.at].taken = q.taken
      /\ challenges'[q.at].attempts = 0 /\ challenges'[q.at].verified = FALSE
  BY <1>2
<1>4. \A c \in DOMAIN challenges :
        /\ challenges'[c].session = challenges[c].session /\ challenges'[c].taken = challenges[c].taken
        /\ challenges'[c].attempts = challenges[c].attempts /\ challenges'[c].verified = challenges[c].verified
        /\ challenges'[c].pending => challenges[c].pending
  <2> SUFFICES ASSUME NEW c \in DOMAIN challenges
               PROVE  /\ challenges'[c].session = challenges[c].session /\ challenges'[c].taken = challenges[c].taken
                      /\ challenges'[c].attempts = challenges[c].attempts
                      /\ challenges'[c].verified = challenges[c].verified
                      /\ challenges'[c].pending => challenges[c].pending
    OBVIOUS
  <2>1. challenges[c] \in Challenge
    BY DEF TypeOK
  <2> QED BY <1>2, <2>1 DEF Challenge
<1> HIDE DEF new
<1>5. \A s : Of(s)' = Of(s) \cup (IF s = q.session THEN {q.at} ELSE {})
  BY <1>1, <1>2, <1>3, <1>4 DEF Of
<1>6. \A r \in Procs : r # p => requests'[r] = requests[r]
  BY <1>1
<1>7. requests'[p].phase = "idle"
  BY <1>1
<1>8. stamp \in Nat /\ (\A c \in Stamps : c \in Nat) /\ DOMAIN challenges \subseteq Stamps
  BY DEF TypeOK, Stamps
<1> HIDE DEF q
<1>9. HasLatest'
  <2> SUFFICES ASSUME NEW s \in Sessions, Of(s)' # {}
               PROVE  \E c \in Of(s)' : \A d \in Of(s)' : c >= d
    BY DEF HasLatest
  <2>1. HasLatest /\ Of(s) \subseteq Stamps
    BY <1>8 DEF Rowwise, Stamped, Of
  <2>2. CASE s # q.session
    BY <1>5, <2>1, <2>2 DEF HasLatest
  <2>3. CASE s = q.session /\ Of(s) = {}
    BY <1>1, <1>5, <1>8, <2>3
  <2>4. CASE s = q.session /\ Of(s) # {}
    <3>1. PICK c \in Of(s) : \A d \in Of(s) : c >= d
      BY <2>1, <2>4 DEF HasLatest
    <3>2. CASE c >= q.at
      BY <1>5, <2>4, <3>1, <3>2
    <3>3. CASE ~(c >= q.at)
      <4>1. \A d \in Of(s) : q.at >= d
        BY <1>1, <1>8, <2>1, <3>1, <3>3
      <4> QED BY <1>1, <1>5, <1>8, <2>4, <4>1
    <3> QED BY <3>2, <3>3
  <2> QED BY <2>2, <2>3, <2>4
<1>10. Stamped'
  <2>1. \A c \in DOMAIN challenges' : c <= stamp'
    BY <1>1, <1>2 DEF Rowwise, Stamped
  <2>2. \A r \in Procs : In(r, "inserted")' => r # p /\ In(r, "inserted") /\ requests'[r] = requests[r]
    BY <1>6, <1>7 DEF In
  <2>3. \A r \in Procs : r # p /\ In(r, "inserted") => requests[r].at # q.at
    BY <1>1 DEF q, In, Rowwise, Stamped
  <2>4. \A r \in Procs : In(r, "inserted")' => requests'[r].at <= stamp' /\ requests'[r].at \notin DOMAIN challenges'
    BY <1>1, <1>2, <2>2, <2>3 DEF Rowwise, Stamped
  <2>5. \A r, t \in Procs : In(r, "inserted")' /\ In(t, "inserted")' /\ requests'[r].at = requests'[t].at => r = t
    BY <2>2 DEF Rowwise, Stamped
  <2> QED BY <1>9, <2>1, <2>4, <2>5 DEF Stamped
<1>11. Held'
  <2>1. HeldBy(p)'
    BY <1>7 DEF HeldBy
  <2>2. \A c \in Stamps : failed[c] <= failed'[c]
    BY <1>1, OtpAssumption DEF TypeOK
  <2> QED BY <1>2, <1>4, <1>6, <2>1, <2>2, HeldOn DEF Held, Rowwise
<1>12. Tallied'
  BY <1>1, <1>2, <1>3, <1>4 DEF Rowwise, Tallied
<1>13. Taken'
  BY <1>1, <1>2, <1>3, <1>4, <1>6, <1>7 DEF Rowwise, Taken
<1>14. CheckReflectsChallenges'
  <2> SUFFICES ASSUME NEW s \in Sessions
               PROVE  /\ check'[s] = "PASSED" => \E c \in Of(s)' : challenges'[c].verified
                      /\ check'[s] = "FAILED" => \E c \in Of(s)' : failed'[c] >= MaxAttempts
                      /\ check'[s] = "PENDING" => \A c \in Of(s)' :
                           ~challenges'[c].verified /\ challenges'[c].attempts < MaxAttempts
    BY DEF CheckReflectsChallenges
  <2>1. /\ check[s] = "PASSED" => \E c \in Of(s) : challenges[c].verified
        /\ check[s] = "FAILED" => \E c \in Of(s) : failed[c] >= MaxAttempts
        /\ check[s] = "PENDING" => \A c \in Of(s) :
             ~challenges[c].verified /\ challenges[c].attempts < MaxAttempts
    BY DEF Rowwise, CheckReflectsChallenges
  <2>2. Of(s) \subseteq DOMAIN challenges /\ 0 < MaxAttempts
    BY OtpAssumption DEF Of
  <2> QED BY <1>1, <1>3, <1>4, <1>5, <2>1, <2>2
<1> QED BY <1>10, <1>11, <1>12, <1>13, <1>14 DEF Rowwise

LEMMA RowwiseExpire ==
  ASSUME TypeOK, TypeOK', Rowwise, NEW e \in Stamps, Expire(e)
  PROVE  Rowwise'
<1>1. /\ e \in DOMAIN challenges
      /\ challenges' = [challenges EXCEPT ![e].pending = FALSE]
      /\ UNCHANGED <<requests, stamp, check, failed, raced>>
      /\ \A c \in DOMAIN challenges : challenges[c] \in Challenge
  BY DEF Expire, TypeOK
<1>2. /\ DOMAIN challenges' = DOMAIN challenges
      /\ \A c \in DOMAIN challenges :
           /\ challenges'[c].session = challenges[c].session /\ challenges'[c].taken = challenges[c].taken
           /\ challenges'[c].attempts = challenges[c].attempts /\ challenges'[c].verified = challenges[c].verified
           /\ challenges'[c].pending => challenges[c].pending
  <2> SUFFICES ASSUME NEW c \in DOMAIN challenges
               PROVE  /\ challenges'[c].session = challenges[c].session /\ challenges'[c].taken = challenges[c].taken
                      /\ challenges'[c].attempts = challenges[c].attempts
                      /\ challenges'[c].verified = challenges[c].verified
                      /\ challenges'[c].pending => challenges[c].pending
    BY <1>1
  <2>1. CASE c = e
    BY <1>1, <2>1 DEF Challenge
  <2>2. CASE c # e
    BY <1>1, <2>2
  <2> QED BY <2>1, <2>2
<1>3. \A s : Of(s)' = Of(s) /\ Of(s) \subseteq DOMAIN challenges
  BY <1>2 DEF Of
<1>4. Stamped'
  BY <1>1, <1>2, <1>3 DEF Rowwise, Stamped, HasLatest, In
<1>5. Held'
  <2>1. \A c \in Stamps : failed[c] <= failed'[c]
    BY <1>1, OtpAssumption DEF TypeOK
  <2> QED BY <1>1, <1>2, <2>1, HeldOn DEF Held, Rowwise
<1>6. Tallied' /\ Taken'
  BY <1>1, <1>2 DEF Rowwise, Tallied, Taken
<1>7. CheckReflectsChallenges'
  BY <1>1, <1>2, <1>3 DEF Rowwise, CheckReflectsChallenges
<1> QED BY <1>4, <1>5, <1>6, <1>7 DEF Rowwise

LEMMA RowwiseRefuse ==
  ASSUME TypeOK, TypeOK', Rowwise, NEW p \in Procs, Refuse(p)
  PROVE  Rowwise'
<1> DEFINE q == requests[p]
<1>0. Phased
  BY Phases
<1>1. /\ q.phase = "exhausted" /\ q.session \in Sessions
      /\ q.challenge \in Stamps /\ q.attempts \in 0 .. MaxAttempts
      /\ UNCHANGED <<challenges, stamp, failed, raced>>
      /\ requests' = [requests EXCEPT ![p] = NoRequest]
      /\ check' = [check EXCEPT ![q.session] = "FAILED"]
      /\ DOMAIN requests = Procs /\ DOMAIN check = Sessions /\ NoRequest.phase = "idle"
  BY <1>0 DEF Phased, Refuse, SetCheck, EndRequest, In, TypeOK, NoRequest
<1>2. \A s : Of(s)' = Of(s)
  BY <1>1 DEF Of
<1>3. \A r \in Procs : r # p => requests'[r] = requests[r]
  BY <1>1
<1>4. requests'[p].phase = "idle"
  BY <1>1
<1>5. Stamped'
  BY <1>1, <1>2, <1>3, <1>4 DEF Rowwise, Stamped, HasLatest, In
<1>6. Held'
  <2>1. HeldBy(p)'
    BY <1>4 DEF HeldBy
  <2>2. \A c \in Stamps : failed[c] <= failed'[c]
    BY <1>1, OtpAssumption DEF TypeOK
  <2> QED BY <1>1, <1>3, <2>1, <2>2, HeldOn DEF Held, Rowwise
<1>7. Tallied' /\ Taken'
  BY <1>1, <1>3, <1>4 DEF Rowwise, Tallied, Taken
<1>8. CheckReflectsChallenges'
  <2>1. q.challenge \in Of(q.session) /\ failed[q.challenge] >= MaxAttempts
    <3>1. /\ q.challenge \in Of(q.session) /\ q.attempts <= failed[q.challenge]
          /\ q.attempts >= MaxAttempts
      BY <1>1 DEF Rowwise, Held, HeldBy
    <3>2. failed[q.challenge] \in Nat /\ q.attempts \in Nat /\ MaxAttempts \in Nat
      BY <1>1, OtpAssumption DEF TypeOK
    <3> QED BY <3>1, <3>2
  <2> HIDE DEF q
  <2> QED BY <1>1, <1>2, <2>1 DEF Rowwise, CheckReflectsChallenges
<1> QED BY <1>5, <1>6, <1>7, <1>8 DEF Rowwise

LEMMA RowwiseCompare ==
  ASSUME TypeOK, TypeOK', Rowwise, NEW p \in Procs, Wrong(p) \/ Right(p)
  PROVE  Rowwise'
<1> DEFINE q == requests[p]
           k == q.challenge
<1>0. Phased /\ Held
  BY Phases DEF Rowwise
<1>1. /\ q.phase = "compare" /\ q.session \in Sessions /\ k \in Stamps /\ q.attempts \in 0 .. MaxAttempts
      /\ UNCHANGED stamp
      /\ requests' = [requests EXCEPT ![p] = NoRequest]
      /\ raced' = IF challenges[k].attempts # q.attempts THEN raced \cup {k} ELSE raced
      /\ DOMAIN requests = Procs /\ DOMAIN check = Sessions /\ NoRequest.phase = "idle"
  BY <1>0 DEF Phased, Wrong, Right, WriteAttempts, EndRequest, In, TypeOK, NoRequest
<1>2. /\ k \in DOMAIN challenges /\ q.attempts < MaxAttempts /\ challenges[k].session = q.session
      /\ DOMAIN challenges' = DOMAIN challenges
      /\ \A c \in DOMAIN challenges :
           /\ c # k => challenges'[c] = challenges[c]
           /\ challenges'[c].session = challenges[c].session /\ challenges'[c].taken = challenges[c].taken
           /\ challenges'[c].pending = challenges[c].pending
      /\ challenges'[k].attempts = q.attempts + 1
      /\ challenges[k].verified => challenges'[k].verified
      /\ Right(p) => challenges'[k].verified
      /\ Wrong(p) => (challenges'[k].verified <=> challenges[k].verified)
  <2>1. CASE Wrong(p)
    <3>1. In(p, "compare") /\ WriteAttempts(p, FALSE)
      BY <2>1 DEF Wrong
    <3>2. ~Right(p) \/ challenges'[k].verified
      <4>1. ASSUME Right(p) PROVE challenges'[k].verified
        <5>1. In(p, "compare") /\ WriteAttempts(p, TRUE)
          BY <4>1 DEF Right
        <5> QED BY <1>0, <5>1, Attempts
      <4> QED BY <4>1
    <3> QED BY <1>0, <3>1, <3>2, Attempts
  <2>2. CASE Right(p) /\ ~Wrong(p)
    <3>1. In(p, "compare") /\ WriteAttempts(p, TRUE)
      BY <2>2 DEF Right
    <3> QED BY <1>0, <2>2, <3>1, Attempts
  <2> QED BY <2>1, <2>2
<1>3. \A s : Of(s)' = Of(s) /\ Of(s) \subseteq DOMAIN challenges
  BY <1>2 DEF Of
<1>4. \A r \in Procs : r # p => requests'[r] = requests[r]
  BY <1>1
<1>5. requests'[p].phase = "idle"
  BY <1>1
<1>6. /\ \A c \in Stamps : failed[c] \in Nat /\ failed'[c] \in Nat /\ failed[c] <= failed'[c]
      /\ \A c \in Stamps : c # k => failed'[c] = failed[c]
      /\ Wrong(p) => failed'[k] = failed[k] + 1
      /\ failed'[k] = failed[k] + 1 \/ failed'[k] = failed[k]
  <2>1. \A c \in Stamps : failed[c] \in Nat /\ failed'[c] \in Nat
    BY OtpAssumption DEF TypeOK
  <2>2. DOMAIN failed = Stamps
    BY DEF TypeOK
  <2>3. CASE Wrong(p)
    <3>1. failed' = [failed EXCEPT ![k] = @ + 1]
      BY <2>3 DEF Wrong
    <3> HIDE DEF k
    <3> QED BY <1>1, <2>1, <2>2, <3>1
  <2>4. CASE Right(p) /\ ~Wrong(p)
    <3>1. failed' = failed
      BY <2>4 DEF Right
    <3> QED BY <1>1, <2>1, <2>4, <3>1
  <2> QED BY <2>3, <2>4
<1>7. q.attempts \in Nat /\ MaxAttempts \in Nat /\ DOMAIN challenges \subseteq Stamps
      /\ \A c \in DOMAIN challenges : challenges[c].attempts \in Nat
  BY <1>1, OtpAssumption DEF TypeOK, Challenge
<1>8. q.attempts <= failed[k] /\ k \in Of(q.session)
  BY <1>0, <1>1 DEF Held, HeldBy
<1>9. \/ Wrong(p) /\ check' = [check EXCEPT ![q.session] = "FAILED"] /\ q.attempts + 1 >= MaxAttempts
      \/ Wrong(p) /\ check' = check /\ q.attempts + 1 < MaxAttempts
      \/ Right(p) /\ check' = [check EXCEPT ![q.session] = "PASSED"]
  <2>1. CASE Wrong(p) /\ UsedUp(q.attempts + 1)
    <3>1. check' = [check EXCEPT ![q.session] = "FAILED"]
      BY <2>1 DEF Wrong, SetCheck
    <3>2. q.attempts + 1 >= MaxAttempts
      BY <2>1 DEF UsedUp
    <3> QED BY <2>1, <3>1, <3>2
  <2>2. CASE Wrong(p) /\ ~UsedUp(q.attempts + 1)
    <3>1. check' = check
      BY <2>2 DEF Wrong
    <3>2. q.attempts + 1 < MaxAttempts
      BY <1>7, <2>2 DEF UsedUp
    <3> QED BY <2>2, <3>1, <3>2
  <2>3. CASE Right(p)
    BY <2>3 DEF Right, SetCheck
  <2> QED BY <2>1, <2>2, <2>3
<1> HIDE DEF q, k
<1>10. Stamped'
  BY <1>1, <1>2, <1>3, <1>4, <1>5 DEF Rowwise, Stamped, HasLatest, In
<1>11. Held'
  <2>1. HeldBy(p)'
    BY <1>5 DEF HeldBy
  <2> QED BY <1>0, <1>2, <1>4, <1>6, <2>1, HeldOn DEF Held
<1>12. Taken'
  BY <1>2, <1>4, <1>5 DEF Rowwise, Taken
<1>13. Tallied'
  <2> SUFFICES ASSUME NEW c \in DOMAIN challenges
               PROVE  /\ ~challenges'[c].verified => challenges'[c].attempts <= failed'[c]
                      /\ c \notin raced' => failed'[c] <= challenges'[c].attempts
    BY <1>2, <1>6, <1>7 DEF Rowwise, Tallied
  <2>1. CASE c # k
    BY <1>1, <1>2, <1>6, <1>7, <2>1 DEF Rowwise, Tallied
  <2>2. CASE c = k
    <3>1. ~challenges'[k].verified => Wrong(p)
      BY <1>9, <1>2
    <3>2. ~challenges'[k].verified => challenges'[k].attempts <= failed'[k]
      BY <1>1, <1>2, <1>6, <1>7, <1>8, <3>1
    <3>3. ASSUME k \notin raced' PROVE failed'[k] <= challenges'[k].attempts
      <4>1. challenges[k].attempts = q.attempts /\ k \notin raced
        BY <1>1, <3>3
      <4>2. failed[k] <= challenges[k].attempts
        BY <1>2, <4>1 DEF Rowwise, Tallied
      <4> QED BY <1>1, <1>2, <1>6, <1>7, <4>1, <4>2
    <3> QED BY <2>2, <3>2, <3>3
  <2> QED BY <2>1, <2>2
<1>14. CheckReflectsChallenges'
  <2> SUFFICES ASSUME NEW s \in Sessions
               PROVE  /\ check'[s] = "PASSED" => \E c \in Of(s)' : challenges'[c].verified
                      /\ check'[s] = "FAILED" => \E c \in Of(s)' : failed'[c] >= MaxAttempts
                      /\ check'[s] = "PENDING" => \A c \in Of(s)' :
                           ~challenges'[c].verified /\ challenges'[c].attempts < MaxAttempts
    BY DEF CheckReflectsChallenges
  <2>1. /\ check[s] = "PASSED" => \E c \in Of(s) : challenges[c].verified
        /\ check[s] = "FAILED" => \E c \in Of(s) : failed[c] >= MaxAttempts
        /\ check[s] = "PENDING" => \A c \in Of(s) :
             ~challenges[c].verified /\ challenges[c].attempts < MaxAttempts
    BY DEF Rowwise, CheckReflectsChallenges
  <2>2. \A c \in Of(s) : c # k => challenges'[c] = challenges[c]
    BY <1>2, <1>3
  <2>3. \A c \in Of(s) : challenges[c].verified => challenges'[c].verified
    BY <1>2, <1>3
  <2>4. \A c \in Of(s) : failed[c] >= MaxAttempts => failed'[c] >= MaxAttempts
    BY <1>3, <1>6, <1>7
  <2>5. s = q.session \/ k \notin Of(s)
    BY <1>2 DEF Of
  <2>6. CASE Right(p) /\ check' = [check EXCEPT ![q.session] = "PASSED"]
    <3>1. CASE s = q.session
      <4>1. check'[s] = "PASSED" /\ k \in Of(s)' /\ challenges'[k].verified
        BY <1>1, <1>2, <1>3, <1>8, <2>6, <3>1
      <4> QED BY <4>1
    <3>2. CASE s # q.session
      BY <1>1, <1>3, <2>1, <2>2, <2>3, <2>4, <2>5, <2>6, <3>2
    <3> QED BY <3>1, <3>2
  <2>7. CASE Wrong(p) /\ check' = [check EXCEPT ![q.session] = "FAILED"] /\ q.attempts + 1 >= MaxAttempts
    <3>1. CASE s = q.session
      <4>1. check'[s] = "FAILED" /\ k \in Of(s)' /\ failed'[k] >= MaxAttempts
        <5>1. failed'[k] = failed[k] + 1 /\ failed[k] \in Nat
          BY <1>1, <1>6, <2>7
        <5> QED BY <1>1, <1>3, <1>7, <1>8, <2>7, <3>1, <5>1
      <4> QED BY <4>1
    <3>2. CASE s # q.session
      BY <1>1, <1>3, <2>1, <2>2, <2>3, <2>4, <2>5, <2>7, <3>2
    <3> QED BY <3>1, <3>2
  <2>8. CASE Wrong(p) /\ check' = check /\ q.attempts + 1 < MaxAttempts
    <3>1. ASSUME check[s] = "PENDING", NEW c \in Of(s)
          PROVE  ~challenges'[c].verified /\ challenges'[c].attempts < MaxAttempts
      <4>1. ~challenges[c].verified /\ challenges[c].attempts < MaxAttempts
        BY <2>1, <3>1
      <4>2. CASE c = k
        BY <1>2, <2>8, <4>1, <4>2
      <4>3. CASE c # k
        BY <2>2, <4>1, <4>3
      <4> QED BY <4>2, <4>3
    <3> QED BY <1>3, <2>1, <2>3, <2>4, <2>8, <3>1
  <2> QED BY <1>9, <2>6, <2>7, <2>8
<1> QED BY <1>10, <1>11, <1>12, <1>13, <1>14 DEF Rowwise

-----------------------------------------------------------------------------
(***************************************************************************)
(* One send at a time, while Redis counts for all.                         *)
(***************************************************************************)
\* Nobody passes the cooldown, nothing new is pending.
LEMMA AloneOn ==
  ASSUME TypeOK, TypeOK', Alone, mishaps' = mishaps, avoiding' \subseteq avoiding,
         \A s \in Sessions : counts["redis"][<<"cooldown", s>>] > 0 => counts'["redis"][<<"cooldown", s>>] > 0,
         \A s \in Sessions : Pending(s)' \subseteq Pending(s),
         \A q \in Procs : \/ requests'[q] = requests[q]
                          \/ ~Past(q)'
                          \/ /\ Past(q) /\ requests'[q].session = requests[q].session
                             /\ requests'[q].phase # "inserted"
  PROVE  Alone'
<1> SUFFICES ASSUME mishaps = 0
             PROVE  /\ avoiding' = {}
                    /\ \A p \in Procs : Past(p)' => counts'["redis"][<<"cooldown", requests'[p].session>>] > 0
                    /\ \A p, q \in Procs : Past(p)' /\ Past(q)' /\ requests'[p].session = requests'[q].session => p = q
                    /\ \A p \in Procs : In(p, "inserted")' =>
                         (Pending(requests[p].session) \subseteq requests[p].supersedes)'
                    /\ \A s \in Sessions : \A c, d \in Pending(s)' : c = d
  BY DEF Alone
<1>1. \A p \in Procs : Past(p)' => Past(p) /\ requests'[p].session = requests[p].session
  BY DEF Past
<1>2. \A p \in Procs : Past(p) => requests[p].session \in Sessions
  BY Phases DEF Phased, Past, Gate
<1>3. \A p \in Procs : In(p, "inserted")' => requests'[p] = requests[p] /\ In(p, "inserted") /\ Past(p)
  BY DEF In, Past, Gate
<1>4. /\ \A p \in Procs : Past(p) => counts["redis"][<<"cooldown", requests[p].session>>] > 0
      /\ \A p, q \in Procs : Past(p) /\ Past(q) /\ requests[p].session = requests[q].session => p = q
      /\ \A p \in Procs : In(p, "inserted") => Pending(requests[p].session) \subseteq requests[p].supersedes
      /\ \A s \in Sessions : \A c, d \in Pending(s) : c = d
      /\ avoiding = {}
  BY DEF Alone
<1>5. \A p \in Procs : Past(p)' => counts'["redis"][<<"cooldown", requests'[p].session>>] > 0
  BY <1>1, <1>2, <1>4
<1>6. \A p, q \in Procs : Past(p)' /\ Past(q)' /\ requests'[p].session = requests'[q].session => p = q
  BY <1>1, <1>4
<1>7. \A p \in Procs : In(p, "inserted")' =>
        (Pending(requests[p].session) \subseteq requests[p].supersedes)'
  <2> SUFFICES ASSUME NEW p \in Procs, In(p, "inserted")'
               PROVE  (Pending(requests[p].session) \subseteq requests[p].supersedes)'
    OBVIOUS
  <2>1. requests'[p] = requests[p] /\ In(p, "inserted") /\ requests[p].session \in Sessions
    BY <1>2, <1>3
  <2>2. \A t \in Sessions : {c \in DOMAIN challenges' : /\ challenges'[c].session = t
                                                       /\ challenges'[c].pending /\ ~challenges'[c].verified}
                            \subseteq Pending(t)
    BY DEF Pending, Of
  <2> QED BY <1>4, <2>1, <2>2 DEF Pending, Of
<1> QED BY <1>4, <1>5, <1>6, <1>7

\* Who takes the cooldown is the only one of its session.
LEMMA AloneCooldown ==
  ASSUME TypeOK, TypeOK', Alone, NEW p \in Procs, Cooldown(p)
  PROVE  Alone'
<1>1. /\ requests[p].phase = "cooldown" /\ requests[p].session \in Sessions
      /\ UNCHANGED <<avoiding, mishaps, challenges>> /\ DOMAIN requests = Procs
      /\ NoRequest.phase = "idle"
  BY Phases DEF Phased, Cooldown, In, Gate, rows, TypeOK, NoRequest
<1>2. \A s : Pending(s)' = Pending(s)
  BY <1>1 DEF Pending, Of
<1>3. CASE EndRequest(p) /\ UNCHANGED counts
  <2>1. \A q \in Procs : requests'[q] = requests[q] \/ ~Past(q)'
    BY <1>1, <1>3 DEF EndRequest, Past, Gate
  <2> QED BY <1>1, <1>2, <1>3, <2>1, AloneOn
<1>4. CASE Count(p, <<"cooldown", requests[p].session>>) /\ Free(p, <<"cooldown", requests[p].session>>)
           /\ GoTo(p, "session")
  <2> DEFINE s == requests[p].session
             key == <<"cooldown", s>>
  <2> SUFFICES ASSUME mishaps = 0
               PROVE  /\ avoiding' = {}
                      /\ \A r \in Procs : Past(r)' => counts'["redis"][<<"cooldown", requests'[r].session>>] > 0
                      /\ \A q, r \in Procs : Past(q)' /\ Past(r)' /\ requests'[q].session = requests'[r].session => q = r
                      /\ \A r \in Procs : In(r, "inserted")' =>
                           Pending(requests'[r].session) \subseteq requests'[r].supersedes
                      /\ \A t \in Sessions : \A c, d \in Pending(t) : c = d
    BY <1>1, <1>2 DEF Alone
  <2>1. /\ \A r \in Procs : Past(r) => counts["redis"][<<"cooldown", requests[r].session>>] > 0
        /\ \A q, r \in Procs : Past(q) /\ Past(r) /\ requests[q].session = requests[r].session => q = r
        /\ \A r \in Procs : In(r, "inserted") => Pending(requests[r].session) \subseteq requests[r].supersedes
        /\ \A t \in Sessions : \A c, d \in Pending(t) : c = d
        /\ avoiding = {}
    BY DEF Alone
  <2>2. Store(p) = "redis" /\ "redis" \in Stores /\ key \in Keys
    BY <1>1, <2>1 DEF Store, Stores, Keys
  <2>3. counts["redis"][key] = 0
    BY <1>4, <2>2 DEF Free
  <2>4. \A k \in Keys : counts["redis"][k] \in Nat
                        /\ counts'["redis"][k] = IF k = key THEN counts["redis"][k] + 1 ELSE counts["redis"][k]
    <3>1. counts' = [counts EXCEPT !["redis"][key] = @ + 1]
      BY <1>4, <2>2 DEF Count
    <3>2. counts \in [Stores -> [Keys -> Nat]]
      BY TypeOKIsShape DEF Shape
    <3> HIDE DEF key
    <3> QED BY <2>2, <3>1, <3>2
  <2>5. PICK r \in Request : requests' = [requests EXCEPT ![p] = r] /\ r.phase = "session" /\ r.session = s
    <3>1. "session" \in Gate /\ requests[p].phase \in Gate
      BY <1>1 DEF Gate
    <3> QED BY <1>4, <3>1, GoesTo
  <2>6. \A q \in Procs : Past(q) => requests[q].session # s
    BY <2>1, <2>3
  <2>7. ~Past(p) /\ \A q \in Procs : q # p => requests'[q] = requests[q]
    BY <1>1, <2>5 DEF Past
  <2>8. requests'[p].session = s /\ requests'[p].phase = "session"
    BY <1>1, <2>5
  <2>9. \A q \in Procs : Past(q)' => q = p \/ (Past(q) /\ requests'[q] = requests[q])
    BY <2>7 DEF Past
  <2>10. \A q \in Procs : Past(q) => <<"cooldown", requests[q].session>> \in Keys
    BY Phases DEF Phased, Past, Gate, Keys
  <2> HIDE DEF s
  <2>11. \A q \in Procs : Past(q)' => counts'["redis"][<<"cooldown", requests'[q].session>>] > 0
    <3> SUFFICES ASSUME NEW q \in Procs, Past(q)'
                 PROVE  counts'["redis"][<<"cooldown", requests'[q].session>>] > 0
      OBVIOUS
    <3>1. CASE q = p
      BY <2>2, <2>3, <2>4, <2>8, <3>1
    <3>2. CASE Past(q) /\ requests'[q] = requests[q]
      BY <2>1, <2>4, <2>10, <3>2
    <3> QED BY <2>9, <3>1, <3>2
  <2>12. \A q, t \in Procs : Past(q)' /\ Past(t)' /\ requests'[q].session = requests'[t].session => q = t
    BY <2>1, <2>6, <2>8, <2>9
  <2>13. \A q \in Procs : In(q, "inserted")' => In(q, "inserted") /\ requests'[q] = requests[q]
    BY <2>7, <2>8 DEF In
  <2> QED BY <1>1, <2>1, <2>11, <2>12, <2>13
<1> QED BY <1>3, <1>4 DEF Cooldown

\* A request goes on, or ends, with its session.
LEMMA AloneSend ==
  ASSUME TypeOK, TypeOK', Alone, NEW p \in Procs,
         \/ \E s \in Sessions : StartVerify(p, s) \/ \E d \in Dests : StartSend(p, s, d)
         \/ CapSession(p) \/ CapDestination(p) \/ GatewayTakes(p) \/ GatewayRefuses(p) \/ Abort(p)
         \/ Read(p) \/ Refuse(p)
  PROVE  Alone'
<1>1. UNCHANGED <<mishaps, avoiding, challenges>> /\ DOMAIN requests = Procs
  BY DEF StartVerify, StartSend, CapSession, CapDestination, Cap, GatewayTakes, GatewayRefuses, Abort,
         Read, Refuse, limits, rows, TypeOK
<1>2. \A s \in Sessions : Pending(s)' \subseteq Pending(s)
  BY <1>1 DEF Pending, Of
<1> DEFINE Outside(q) == \/ requests'[q] = requests[q]
                         \/ ~Past(q)'
                         \/ /\ Past(q) /\ requests'[q].session = requests[q].session
                            /\ requests'[q].phase # "inserted"
           More == \A s \in Sessions :
                     counts["redis"][<<"cooldown", s>>] > 0 => counts'["redis"][<<"cooldown", s>>] > 0
<1>3. ASSUME EndRequest(p) PROVE \A q \in Procs : Outside(q)
  BY <1>1, <1>3 DEF EndRequest, NoRequest, Past, Gate
<1>4. CASE UNCHANGED counts /\ EndRequest(p)
  <2>1. More
    BY <1>4
  <2> QED BY <1>1, <1>2, <1>3, <1>4, <2>1, AloneOn
<1>5. ASSUME NEW s \in Sessions, StartVerify(p, s) \/ \E d \in Dests : StartSend(p, s, d) PROVE Alone'
  <2>1. /\ requests'[p].phase \in {"verify", "cooldown"}
        /\ \A q \in Procs : q # p => requests'[q] = requests[q]
    BY <1>1, <1>5 DEF StartVerify, StartSend
  <2>2. \A q \in Procs : Outside(q)
    BY <2>1 DEF Past, Gate
  <2>3. More
    BY <1>5 DEF StartVerify, StartSend, limits
  <2> QED BY <1>1, <1>2, <2>2, <2>3, AloneOn
<1>6. CASE CapSession(p) \/ CapDestination(p)
  <2>1. requests[p].phase \in {"session", "destination"}
    BY <1>6 DEF CapSession, CapDestination, Cap, In
  <2>2. \A q \in Procs : Outside(q)
    <3>1. ASSUME NEW next \in {"destination", "gateway"}, GoTo(p, next) PROVE \A q \in Procs : Outside(q)
      <4>1. next \in Gate /\ requests[p].phase \in Gate
        BY <2>1 DEF Gate
      <4>2. PICK r \in Request : /\ requests' = [requests EXCEPT ![p] = r]
                                 /\ r.phase = next /\ r.session = requests[p].session
        BY <3>1, <4>1, GoesTo
      <4>3. Past(p) /\ r.phase # "inserted"
        BY <2>1, <4>2 DEF Past, Gate
      <4> QED BY <1>1, <4>2, <4>3
    <3> QED BY <1>3, <1>6, <3>1 DEF CapSession, CapDestination, Cap
  <2>3. More
    <3>1. PICK key : key \in Keys /\ Count(p, key)
      <4>1. requests[p].session \in Sessions /\ requests[p].destination \in Dests
        BY <2>1, Phases DEF Phased, Gate
      <4> QED BY <1>6, <4>1 DEF CapSession, CapDestination, Cap, Keys
    <3>2. \A store \in Stores, k \in Keys : counts'[store][k] >= counts[store][k] /\ counts[store][k] \in Nat
                                            /\ counts'[store][k] \in Nat
      <4>1. \A store \in Stores, k \in Keys : counts[store][k] \in Nat
        BY TypeOKIsShape DEF Shape
      <4>2. \A store \in Stores, k \in Keys : counts'[store][k] = counts[store][k] + 1
                                              \/ counts'[store][k] = counts[store][k]
        BY <3>1, Counts
      <4> QED BY <4>1, <4>2
    <3>3. "redis" \in Stores /\ \A s \in Sessions : <<"cooldown", s>> \in Keys
      BY DEF Stores, Keys
    <3> QED BY <3>2, <3>3
  <2> QED BY <1>1, <1>2, <2>2, <2>3, AloneOn
<1>7. CASE GatewayTakes(p)
  <2>1. requests[p].phase = "gateway" /\ UNCHANGED counts
    BY <1>7 DEF GatewayTakes, In, limits
  <2>2. CASE EndRequest(p)
    BY <1>4, <2>1, <2>2
  <2>3. CASE requests' = [requests EXCEPT ![p] = [phase |-> "delivered", session |-> requests[p].session,
                            destination |-> requests[p].destination, taken |-> TRUE]]
    <3>1. /\ \A q \in Procs : q # p => requests'[q] = requests[q]
          /\ requests'[p].phase = "delivered" /\ requests'[p].session = requests[p].session
      BY <1>1, <2>3
    <3>2. Past(p)
      BY <2>1 DEF Past, Gate
    <3>3. \A q \in Procs : Outside(q)
      BY <3>1, <3>2
    <3> QED BY <1>1, <1>2, <2>1, <3>3, AloneOn
  <2> QED BY <1>7, <2>2, <2>3 DEF GatewayTakes
<1>8. CASE GatewayRefuses(p) \/ Abort(p) \/ Refuse(p)
  BY <1>4, <1>8 DEF GatewayRefuses, Abort, Refuse, limits
<1>9. CASE Read(p)
  <2>1. UNCHANGED counts
    BY <1>9 DEF Read, limits
  <2>2. CASE EndRequest(p)
    BY <1>4, <2>1, <2>2
  <2>3. CASE ~EndRequest(p)
    <3>1. /\ \A q \in Procs : q # p => requests'[q] = requests[q]
          /\ requests'[p].phase \in {"exhausted", "compare"}
      BY <1>1, <1>9, <2>3 DEF Read
    <3>2. \A q \in Procs : Outside(q)
      BY <3>1 DEF Past, Gate
    <3> QED BY <1>1, <1>2, <2>1, <3>2, AloneOn
  <2> QED BY <2>2, <2>3
<1> QED BY <1>5, <1>6, <1>7, <1>8, <1>9

\* Nothing becomes pending by a verification or by time.
LEMMA AloneRows ==
  ASSUME TypeOK, TypeOK', Alone, Held,
         \/ \E p \in Procs : Wrong(p) \/ Right(p)
         \/ \E c \in Stamps : Expire(c)
  PROVE  Alone'
<1>1. UNCHANGED <<counts, avoiding, mishaps>> /\ DOMAIN requests = Procs
  BY DEF Wrong, Right, Expire, limits, TypeOK
<1>2. ASSUME NEW p \in Procs, Wrong(p) \/ Right(p) PROVE Alone'
  <2>1. PICK verified \in BOOLEAN : In(p, "compare") /\ WriteAttempts(p, verified)
    BY <1>2 DEF Wrong, Right
  <2>2. /\ DOMAIN challenges' = DOMAIN challenges
        /\ \A c \in DOMAIN challenges :
             /\ challenges'[c].session = challenges[c].session
             /\ challenges'[c].pending = challenges[c].pending
             /\ challenges[c].verified => challenges'[c].verified
    <3>1. /\ DOMAIN challenges' = DOMAIN challenges
          /\ \A c \in DOMAIN challenges :
               /\ c # requests[p].challenge => challenges'[c] = challenges[c]
               /\ challenges'[c].session = challenges[c].session
               /\ challenges'[c].pending = challenges[c].pending
          /\ challenges[requests[p].challenge].verified => challenges'[requests[p].challenge].verified
      BY <2>1, Attempts
    <3> QED BY <3>1
  <2>3. \A s \in Sessions : Pending(s)' \subseteq Pending(s)
    BY <2>2 DEF Pending, Of
  <2>4. \A q \in Procs : requests'[q] = requests[q] \/ ~Past(q)'
    <3>1. requests' = [requests EXCEPT ![p] = NoRequest]
      BY <1>2 DEF Wrong, Right, EndRequest
    <3> QED BY <1>1, <3>1 DEF NoRequest, Past, Gate
  <2> QED BY <1>1, <2>3, <2>4, AloneOn
<1>3. ASSUME NEW e \in Stamps, Expire(e) PROVE Alone'
  <2>1. /\ challenges' = [challenges EXCEPT ![e].pending = FALSE]
        /\ \A c \in DOMAIN challenges : challenges[c] \in Challenge
        /\ UNCHANGED requests
    BY <1>3 DEF Expire, TypeOK
  <2>2. /\ DOMAIN challenges' = DOMAIN challenges
        /\ \A c \in DOMAIN challenges :
             /\ challenges'[c].session = challenges[c].session
             /\ challenges'[c].verified = challenges[c].verified
             /\ challenges'[c].pending => challenges[c].pending
    BY <2>1 DEF Challenge
  <2>3. \A s \in Sessions : Pending(s)' \subseteq Pending(s)
    BY <2>2 DEF Pending, Of
  <2> QED BY <1>1, <2>1, <2>3, AloneOn
<1> QED BY <1>2, <1>3

\* A key expires only when nobody sends under it; a mishap is a mishap.
LEMMA AloneRedis ==
  ASSUME TypeOK, TypeOK', Alone,
         \/ \E p \in Procs : RedisFails(p) \/ TryAgain(p)
         \/ RedisRestarts \/ WindowEnds
         \/ \E s \in Sessions : CooldownEnds(s)
  PROVE  Alone'
<1>1. UNCHANGED <<requests, challenges>>
  BY DEF RedisFails, TryAgain, RedisRestarts, WindowEnds, CooldownEnds, rows
<1>2. \A s : Pending(s)' = Pending(s)
  BY <1>1 DEF Pending, Of
<1>3. CASE RedisRestarts \/ \E p \in Procs : RedisFails(p)
  <2>1. mishaps' = mishaps + 1
    BY <1>3 DEF RedisRestarts, RedisFails
  <2>2. mishaps \in Nat
    BY OtpAssumption DEF TypeOK
  <2> QED BY <2>1, <2>2 DEF Alone
<1>4. CASE \E p \in Procs : TryAgain(p)
  BY <1>1, <1>2, <1>4, AloneOn DEF TryAgain
<1>5. CASE WindowEnds \/ \E s \in Sessions : CooldownEnds(s)
  <2>1. UNCHANGED <<avoiding, mishaps>>
    BY <1>5 DEF WindowEnds, CooldownEnds
  <2>2. \A q \in Procs : Past(q) => /\ Sending(q) /\ requests[q].session \in Sessions
                                    /\ <<"cooldown", requests[q].session>> \in Keys
    BY Phases DEF Phased, Past, Sending, Gate, Keys
  <2>3. \A q \in Procs : Past(q) => counts'["redis"][<<"cooldown", requests[q].session>>]
                                    = counts["redis"][<<"cooldown", requests[q].session>>]
    <3>1. CASE WindowEnds
      BY <2>2, <3>1 DEF WindowEnds
    <3>2. ASSUME NEW s \in Sessions, CooldownEnds(s), NEW q \in Procs, Past(q)
          PROVE  counts'["redis"][<<"cooldown", requests[q].session>>]
                 = counts["redis"][<<"cooldown", requests[q].session>>]
      <4>1. /\ counts' = [store \in Stores |-> [counts[store] EXCEPT ![<<"cooldown", s>>] = 0]]
            /\ requests[q].session # s /\ "redis" \in Stores
        BY <2>2, <3>2 DEF CooldownEnds, Stores
      <4>2. counts["redis"] \in [Keys -> Nat] /\ <<"cooldown", requests[q].session>> # <<"cooldown", s>>
        BY <4>1, TypeOKIsShape DEF Shape
      <4> QED BY <2>2, <3>2, <4>1, <4>2
    <3> QED BY <1>5, <3>1, <3>2
  <2>4. \A q \in Procs : (Past(q)' <=> Past(q)) /\ (In(q, "inserted")' <=> In(q, "inserted"))
    BY <1>1 DEF Past, In
  <2>5. \A q \in Procs : (Pending(requests[q].session))' = Pending(requests[q].session)
    BY <1>1 DEF Pending, Of
  <2> QED BY <1>1, <1>2, <2>1, <2>3, <2>4, <2>5 DEF Alone
<1> QED BY <1>3, <1>4, <1>5

\* The search for pending codes finds them all.
LEMMA AloneInsert ==
  ASSUME TypeOK, TypeOK', Alone, NEW p \in Procs, Insert(p)
  PROVE  Alone'
<1>1. /\ UNCHANGED <<counts, avoiding, mishaps, challenges>> /\ DOMAIN requests = Procs
      /\ requests[p].phase = "delivered"
  BY DEF Insert, In, limits, TypeOK
<1>2. /\ \A q \in Procs : q # p => requests'[q] = requests[q]
      /\ requests'[p].phase = "inserted" /\ requests'[p].session = requests[p].session
      /\ requests'[p].supersedes = Pending(requests[p].session)
  BY <1>1 DEF Insert
<1>3. \A q \in Procs : (Past(q)' <=> Past(q)) /\ requests'[q].session = requests[q].session
  BY <1>1, <1>2 DEF Past, Gate
<1>4. \A s : Pending(s)' = Pending(s)
  BY <1>1 DEF Pending, Of
<1>5. \A q \in Procs : (Pending(requests[q].session))' = Pending(requests[q].session)
  BY <1>1, <1>3 DEF Pending, Of
<1>6. \A q \in Procs : In(q, "inserted")' => q = p \/ (In(q, "inserted") /\ requests'[q] = requests[q])
  BY <1>2 DEF In
<1>7. mishaps = 0 => \A q \in Procs : In(q, "inserted")' =>
        Pending(requests[q].session) \subseteq requests'[q].supersedes
  BY <1>2, <1>6 DEF Alone
<1> QED BY <1>1, <1>3, <1>4, <1>5, <1>7 DEF Alone

\* The new code is the only one that is pending.
LEMMA AloneCommit ==
  ASSUME TypeOK, TypeOK', Alone, Stamped, NEW p \in Procs, CommitSend(p)
  PROVE  Alone'
<1>0. Phased
  BY Phases
<1>1. /\ UNCHANGED <<counts, avoiding, mishaps>> /\ DOMAIN requests = Procs
      /\ requests[p].phase = "inserted" /\ requests[p].session \in Sessions
      /\ requests' = [requests EXCEPT ![p] = NoRequest] /\ NoRequest.phase = "idle"
  BY <1>0 DEF Phased, CommitSend, EndRequest, In, limits, TypeOK, NoRequest
<1> DEFINE r == requests[p]
<1> PICK s \in Sessions : s = r.session
  BY <1>1
<1>2. /\ DOMAIN challenges' = DOMAIN challenges \cup {r.at}
      /\ challenges'[r.at].session = s
      /\ \A c \in DOMAIN challenges :
           c # r.at => challenges'[c] = IF c \in r.supersedes THEN [challenges[c] EXCEPT !.pending = FALSE]
                                                              ELSE challenges[c]
  BY DEF CommitSend
<1>3. \A c \in DOMAIN challenges : c # r.at =>
        /\ challenges'[c].session = challenges[c].session
        /\ challenges'[c].verified = challenges[c].verified
        /\ challenges'[c].pending => challenges[c].pending /\ c \notin r.supersedes
  <2> SUFFICES ASSUME NEW c \in DOMAIN challenges, c # r.at
               PROVE  /\ challenges'[c].session = challenges[c].session
                      /\ challenges'[c].verified = challenges[c].verified
                      /\ challenges'[c].pending => challenges[c].pending /\ c \notin r.supersedes
    OBVIOUS
  <2>1. challenges[c] \in Challenge
    BY DEF TypeOK
  <2> QED BY <1>2, <2>1 DEF Challenge
<1>4. \A q \in Procs : Past(q)' => q # p /\ Past(q) /\ requests'[q] = requests[q]
  BY <1>1 DEF Past, Gate
<1>5. Past(p) /\ In(p, "inserted")
  BY <1>1 DEF Past, Gate, In
<1>6. \A q \in Procs : In(q, "inserted")' => Past(q)' /\ In(q, "inserted") /\ requests'[q] = requests[q]
  BY <1>1 DEF In, Past, Gate
<1> HIDE DEF r
<1>7. \A t \in Sessions : t # s => Pending(t)' \subseteq Pending(t)
  BY <1>2, <1>3 DEF Pending, Of
<1>8. ASSUME mishaps = 0 PROVE Pending(s)' \subseteq {r.at}
  <2>1. Pending(s) \subseteq r.supersedes
    BY <1>5, <1>8 DEF Alone, r
  <2>2. ASSUME NEW c \in Pending(s)', c # r.at PROVE FALSE
    <3>1. /\ c \in DOMAIN challenges' /\ challenges'[c].session = s
          /\ challenges'[c].pending /\ ~challenges'[c].verified
      BY <2>2 DEF Pending, Of
    <3>2. c \in Pending(s) /\ c \notin r.supersedes
      BY <1>2, <1>3, <2>2, <3>1 DEF Pending, Of
    <3> QED BY <2>1, <3>2
  <2> QED BY <2>2
<1>9. ASSUME mishaps = 0, NEW q \in Procs, In(q, "inserted")'
      PROVE  (Pending(requests[q].session) \subseteq requests[q].supersedes)'
  <2>1. q # p /\ Past(q) /\ In(q, "inserted") /\ requests'[q] = requests[q]
    BY <1>4, <1>6, <1>9
  <2>2. requests[q].session # s
    BY <1>5, <1>9, <2>1 DEF Alone, r
  <2>3. requests[q].session \in Sessions
    BY <1>0, <2>1 DEF Phased, In
  <2>4. Pending(requests[q].session) \subseteq requests[q].supersedes
    BY <1>9, <2>1 DEF Alone
  <2>5. \A t \in Sessions : t # s =>
          {c \in DOMAIN challenges' : /\ challenges'[c].session = t
                                      /\ challenges'[c].pending /\ ~challenges'[c].verified} \subseteq Pending(t)
    BY <1>2, <1>3 DEF Pending, Of
  <2> QED BY <2>1, <2>2, <2>3, <2>4, <2>5 DEF Pending, Of
<1>10. ASSUME mishaps = 0
       PROVE  /\ avoiding' = {}
              /\ \A q \in Procs : Past(q)' => counts'["redis"][<<"cooldown", requests'[q].session>>] > 0
              /\ \A q, t \in Procs : Past(q)' /\ Past(t)' /\ requests'[q].session = requests'[t].session => q = t
              /\ \A t \in Sessions : \A c, d \in Pending(t)' : c = d
  <2>1. \A t \in Sessions : \A c, d \in Pending(t)' : c = d
    BY <1>7, <1>8, <1>10 DEF Alone
  <2> QED BY <1>1, <1>4, <1>10, <2>1 DEF Alone
<1> QED BY <1>1, <1>9, <1>10 DEF Alone

-----------------------------------------------------------------------------
(***************************************************************************)
(* The invariant holds.                                                    *)
(***************************************************************************)
LEMMA InitInv == Init => Inv
<1> SUFFICES ASSUME Init PROVE Inv
  OBVIOUS
<1>1. \A phases \in Measures : InPhases(phases) = 0
  <2> SUFFICES ASSUME NEW phases \in Measures PROVE InPhases(phases) = 0
    OBVIOUS
  <2>1. Among(phases) = {}
    BY DEF Init, NoRequest, Among, Measures, ToCooldown, ToSession, ToDestination, ToGateway, Gate, ToCompare
  <2> QED BY <2>1, FS_EmptySet DEF InPhases
<1>2. /\ ToCooldown \in Measures /\ ToSession \in Measures /\ ToDestination \in Measures
      /\ ToGateway \in Measures /\ Gate \in Measures /\ ToCompare \in Measures
  BY DEF Measures
<1>3. Shape
  BY OtpAssumption DEF Init, Shape, Request, NoRequest
<1>4. /\ \A s \in Sessions : <<"cooldown", s>> \in Keys /\ <<"send", s>> \in Keys
      /\ \A d \in Dests : <<"send", d>> \in Keys
  BY DEF Keys
<1>5. Counted
  <2>1. /\ \A store \in Stores, k \in Keys : counts[store][k] = 0
        /\ \A k \in Sessions \cup Dests : sent[k] = 0
        /\ \A c \in Stamps : failed[c] = 0
        /\ stamp = 0 /\ sends = 0 /\ verifies = 0
    BY DEF Init
  <2>2. /\ InPhases(ToCooldown) = 0 /\ InPhases(ToSession) = 0 /\ InPhases(ToDestination) = 0
        /\ InPhases(ToGateway) = 0 /\ InPhases(Gate) = 0 /\ InPhases(ToCompare) = 0
    BY <1>1, <1>2
  <2>3. ASSUME NEW store \in Stores
        PROVE  /\ \A s \in Sessions : counts[store][<<"cooldown", s>>] + InPhases(ToCooldown) <= sends
               /\ \A s \in Sessions : counts[store][<<"send", s>>] + InPhases(ToSession) <= sends
               /\ \A d \in Dests : counts[store][<<"send", d>>] + InPhases(ToDestination) <= sends
    <3>1. ASSUME NEW n, n = 0, NEW m, m = 0 PROVE n + m <= sends
      BY <2>1, <3>1
    <3>2. /\ \A s \in Sessions : counts[store][<<"cooldown", s>>] = 0 /\ counts[store][<<"send", s>>] = 0
          /\ \A d \in Dests : counts[store][<<"send", d>>] = 0
      BY <1>4, <2>1
    <3> QED BY <2>2, <3>1, <3>2
  <2> QED BY <2>1, <2>2, <2>3 DEF Counted
<1>6. \A s : Of(s) = {} /\ Pending(s) = {}
  BY DEF Init, Of, Pending
<1>7. \A p \in Procs : requests[p].phase = "idle"
  BY DEF Init, NoRequest
<1>8. Stamped /\ Held
  BY <1>6, <1>7 DEF Init, Stamped, HasLatest, Held, HeldBy, In
<1>9. Tallied /\ Taken
  BY <1>7 DEF Init, Tallied, Taken
<1>10. CheckReflectsChallenges
  BY <1>6 DEF Init, CheckReflectsChallenges
<1>11. Alone
  BY <1>6, <1>7 DEF Init, Alone, Past, Gate, In
<1> QED BY <1>3, <1>5, <1>8, <1>9, <1>10, <1>11, ShapeIsTypeOK DEF Inv, Rowwise

LEMMA NextInv == Inv /\ [Next]_vars => Inv'
<1> SUFFICES ASSUME Inv, [Next]_vars PROVE Inv'
  OBVIOUS
<1>1. TypeOK /\ Counted /\ Rowwise /\ Alone /\ Held /\ Stamped /\ HasLatest
  BY DEF Inv, Rowwise, Stamped
<1>2. ASSUME Shape', Counted', TypeOK' => Rowwise' /\ Alone' PROVE Inv'
  <2>1. (Shape /\ Counted => TypeOK)'
    BY ShapeIsTypeOK, PTL
  <2> QED BY <1>2, <2>1 DEF Inv
<1>3. ASSUME NEW p \in Procs, NEW s \in Sessions, StartVerify(p, s) PROVE Inv'
  BY <1>1, <1>2, <1>3, TypeOKBegin, RowwiseRead, AloneSend
<1>4. ASSUME NEW p \in Procs, NEW s \in Sessions, NEW d \in Dests, StartSend(p, s, d) PROVE Inv'
  BY <1>1, <1>2, <1>4, TypeOKBegin, RowwiseSend, AloneSend
<1>5. ASSUME NEW p \in Procs, Cooldown(p) PROVE Inv'
  BY <1>1, <1>2, <1>5, TypeOKLimits, RowwiseSend, AloneCooldown
<1>6. ASSUME NEW p \in Procs, CapSession(p) \/ CapDestination(p) PROVE Inv'
  BY <1>1, <1>2, <1>6, TypeOKLimits, RowwiseSend, AloneSend
<1>7. ASSUME NEW p \in Procs, GatewayTakes(p) \/ GatewayRefuses(p) \/ Abort(p) PROVE Inv'
  BY <1>1, <1>2, <1>7, TypeOKSend, RowwiseSend, AloneSend
<1>8. ASSUME NEW p \in Procs, Insert(p) PROVE Inv'
  BY <1>1, <1>2, <1>8, TypeOKSend, RowwiseInsert, AloneInsert
<1>9. ASSUME NEW p \in Procs, CommitSend(p) PROVE Inv'
  BY <1>1, <1>2, <1>9, TypeOKSend, RowwiseCommit, AloneCommit
<1>10. ASSUME NEW p \in Procs, Read(p) PROVE Inv'
  BY <1>1, <1>2, <1>10, TypeOKVerify, RowwiseRead, AloneSend
<1>11. ASSUME NEW p \in Procs, Refuse(p) PROVE Inv'
  BY <1>1, <1>2, <1>11, TypeOKVerify, RowwiseRefuse, AloneSend
<1>12. ASSUME NEW p \in Procs, Wrong(p) \/ Right(p) PROVE Inv'
  BY <1>1, <1>2, <1>12, TypeOKVerify, RowwiseCompare, AloneRows
<1>13. ASSUME NEW e \in Stamps, Expire(e) PROVE Inv'
  BY <1>1, <1>2, <1>13, TypeOKAside, RowwiseExpire, AloneRows
<1>14. ASSUME \/ \E p \in Procs : RedisFails(p) \/ TryAgain(p)
              \/ RedisRestarts \/ WindowEnds
              \/ \E s \in Sessions : CooldownEnds(s)
       PROVE  Inv'
  BY <1>1, <1>2, <1>14, TypeOKAside, RowwiseRedis, AloneRedis
<1>15. CASE UNCHANGED vars
  <2>1. UNCHANGED <<counts, avoiding, mishaps, requests, challenges, stamp, check, failed, raced,
                    sent, sends, verifies>>
    BY <1>15 DEF vars, limits, rows
  <2>2. Shape'
    BY <1>1, <2>1, TypeOKIsShape DEF Shape
  <2>3. Counted'
    BY <1>1, <2>1 DEF Counted, InPhases, Among
  <2>4. Rowwise'
    BY <1>1, <2>1 DEF Rowwise, Stamped, HasLatest, Held, HeldBy, Tallied, CheckReflectsChallenges, Taken, Of, In
  <2>5. Alone'
    BY <1>1, <2>1 DEF Alone, Past, In, Pending, Of
  <2> QED BY <1>2, <2>2, <2>3, <2>4, <2>5
<1> QED BY <1>3, <1>4, <1>5, <1>6, <1>7, <1>8, <1>9, <1>10, <1>11, <1>12, <1>13, <1>14, <1>15 DEF Next

LEMMA AlwaysInv == Spec => []Inv
BY InitInv, NextInv, PTL DEF Spec

-----------------------------------------------------------------------------
(***************************************************************************)
(* The theorems.                                                           *)
(***************************************************************************)
\* Every variable keeps its type: no counter runs past what was asked for,
\* whichever store a process counts in (ratelimit.py, otp.py).
THEOREM OtpTypeOK == Spec => []TypeOK
<1>1. Inv => TypeOK
  BY DEF Inv
<1> QED BY <1>1, AlwaysInv, PTL

\* A code is compared with a challenge no older than the latest one when the
\* request came in (_latest_challenge, verify_otp).
THEOREM NothingStaleIsCompared == Spec => []ComparedIsCurrent
<1>1. Inv => ComparedIsCurrent
  BY DEF Inv, Rowwise, Held, HeldBy, ComparedIsCurrent, In
<1> QED BY <1>1, AlwaysInv, PTL

\* Only a lost write gives a challenge more wrong codes than the maximum
\* (verify_otp).
THEOREM TriesStayCapped == Spec => []TriesCapped
<1>1. Inv => TriesCapped
  <2> SUFFICES ASSUME Inv, NEW c \in Stamps, failed[c] > MaxAttempts PROVE c \in raced
    BY DEF TriesCapped
  <2>1. TypeOK /\ Tallied /\ failed[c] \in Nat /\ MaxAttempts \in Nat
    BY OtpAssumption DEF Inv, Rowwise, TypeOK
  <2>2. c \in DOMAIN challenges
    BY <2>1 DEF Tallied
  <2>3. challenges[c].attempts \in 0 .. MaxAttempts
    BY <2>1, <2>2 DEF TypeOK, Challenge
  <2> QED BY <2>1, <2>2, <2>3 DEF Tallied
<1> QED BY <1>1, AlwaysInv, PTL

\* The session's check and its challenges tell the same (verify_otp, set_check).
THEOREM CheckAndChallengesAgree == Spec => []CheckReflectsChallenges
<1>1. Inv => CheckReflectsChallenges
  BY DEF Inv, Rowwise
<1> QED BY <1>1, AlwaysInv, PTL

\* The cooldown keeps a session at one pending code, as long as Redis counts
\* for everyone, and every pending code was taken by the gateway (send_otp).
THEOREM OneCodeIsLive == Spec => []OneLiveCode
<1>1. Inv => OneLiveCode
  <2> SUFFICES ASSUME Inv, NEW s \in Sessions
               PROVE  /\ Cardinality(Pending(s)) > 1 => mishaps > 0
                      /\ \A c \in Pending(s) : challenges[c].taken
    BY DEF OneLiveCode
  <2>1. \A c \in Pending(s) : challenges[c].taken
    BY DEF Inv, Rowwise, Taken, Pending, Of
  <2>2. mishaps \in Nat
    BY OtpAssumption DEF Inv, TypeOK
  <2>3. ASSUME mishaps = 0 PROVE ~(Cardinality(Pending(s)) > 1)
    <3>1. \A c, d \in Pending(s) : c = d
      BY <2>3 DEF Inv, Alone
    <3>2. CASE Pending(s) = {}
      BY <3>2, FS_EmptySet
    <3>3. CASE Pending(s) # {}
      <4>1. PICK c : Pending(s) = {c}
        BY <3>1, <3>3
      <4>2. Cardinality({c}) = 1
        BY FS_Singleton
      <4> QED BY <4>1, <4>2
    <3> QED BY <3>2, <3>3
  <2> QED BY <2>1, <2>2, <2>3
<1> QED BY <1>1, AlwaysInv, PTL
=============================================================================
