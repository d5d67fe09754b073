---------------------------- MODULE OtpChallenge ----------------------------
(***************************************************************************)
(* One-time codes: sending them, within limits several API processes       *)
(* share, and verifying what the end user types.                           *)
(*                                                                         *)
(* The limits are counters in Redis; a process that cannot reach Redis     *)
(* counts in its own memory for a while.  The challenges are rows: a send  *)
(* reads the pending ones, calls the gateway before it writes anything,    *)
(* and commits at its end; a verification reads the latest challenge       *)
(* without a lock and writes attempts back as the number it read plus one. *)
(* An UPDATE holds the row until the commit, so writing and committing are *)
(* one step here; any transaction may fail instead (Abort).                *)
(*                                                                         *)
(* The sessions are open, with consent, in a flow with OTP: those guards   *)
(* are in KycSession.                                                      *)
(***************************************************************************)
EXTENDS Naturals, FiniteSets, FiniteSetsExt

CONSTANTS
  Procs,              \* API processes, one request at a time each
  Sessions, Dests,    \* sessions, destinations
  MaxAttempts,        \* settings.otp_max_attempts
  MaxPerSession,      \* settings.otp_max_sends_per_session
  MaxPerDestination,  \* settings.otp_max_sends_per_destination
  MaxSends,           \* bound: requests to send, ever
  MaxVerifies,        \* bound: requests to verify, ever
  MaxMishaps          \* bound: calls to Redis that fail, restarts of Redis

ASSUME OtpAssumption ==
  /\ MaxAttempts \in Nat \ {0}
  /\ MaxPerSession \in Nat /\ MaxPerDestination \in Nat
  /\ MaxSends \in Nat /\ MaxVerifies \in Nat /\ MaxMishaps \in Nat
  /\ IsFiniteSet(Procs) /\ "redis" \notin Procs
  /\ Sessions \cap Dests = {}

VARIABLES
  counts,      \* limiter: the counters, per store and key
  avoiding,    \* processes that leave Redis alone for 30 seconds
  requests,    \* what each process is doing
  challenges,  \* the committed rows of otp_challenges, by their created_at
  stamp,       \* the last created_at given
  check,       \* the session's OTP check
  failed,      \* audit: OTP_FAILED events of each challenge
  raced,       \* challenges on which a verification wrote over another's count
  sent,        \* codes the gateway took, per session and per destination
  mishaps, sends, verifies

limits == <<counts, avoiding, mishaps>>
rows   == <<challenges, stamp, check, failed, raced>>
vars   == <<limits, requests, rows, sent, sends, verifies>>

-----------------------------------------------------------------------------
Stamps == 1 .. MaxSends
Stores == Procs \cup {"redis"}
Keys   == ({"cooldown"} \X Sessions) \cup ({"send"} \X (Sessions \cup Dests))

Challenge ==
  [session : Sessions, taken : BOOLEAN, attempts : 0 .. MaxAttempts,
   pending : BOOLEAN, verified : BOOLEAN]

NoRequest == [phase |-> "idle"]
Gate      == {"cooldown", "session", "destination", "gateway", "delivered"}
Request   ==
  {NoRequest}
  \cup [phase : Gate, session : Sessions, destination : Dests, taken : BOOLEAN]
  \cup [phase : {"inserted"}, session : Sessions, taken : BOOLEAN, supersedes : SUBSET Stamps, at : Stamps]
  \cup [phase : {"verify"}, session : Sessions, known : 0 .. MaxSends]
  \cup [phase : {"compare", "exhausted"}, session : Sessions, known : 0 .. MaxSends,
        challenge : Stamps, attempts : 0 .. MaxAttempts]

TypeOK ==
  /\ counts \in [Stores -> [Keys -> 0 .. MaxSends]]
  /\ avoiding \subseteq Procs
  /\ requests \in [Procs -> Request]
  /\ DOMAIN challenges \subseteq Stamps
  /\ \A c \in DOMAIN challenges : challenges[c] \in Challenge
  /\ stamp \in 0 .. MaxSends
  /\ check \in [Sessions -> {"PENDING", "PASSED", "FAILED"}]
  /\ failed \in [Stamps -> 0 .. MaxVerifies]
  /\ raced \subseteq Stamps
  /\ sent \in [Sessions \cup Dests -> 0 .. MaxSends]
  /\ sends \in 0 .. MaxSends /\ verifies \in 0 .. MaxVerifies /\ mishaps \in 0 .. MaxMishaps

Init ==
  /\ counts = [s \in Stores |-> [k \in Keys |-> 0]]
  /\ avoiding = {}
  /\ requests = [p \in Procs |-> NoRequest]
  /\ challenges = [c \in {} |-> {}]
  /\ stamp = 0
  /\ check = [s \in Sessions |-> "PENDING"]
  /\ failed = [c \in Stamps |-> 0]
  /\ raced = {}
  /\ sent = [k \in Sessions \cup Dests |-> 0]
  /\ sends = 0 /\ verifies = 0 /\ mishaps = 0

In(p, phase)  == requests[p].phase = phase
GoTo(p, next) == requests' = [requests EXCEPT ![p].phase = next]
EndRequest(p) == requests' = [requests EXCEPT ![p] = NoRequest]

-----------------------------------------------------------------------------
(***************************************************************************)
(* The rate limiter.                                                       *)
(***************************************************************************)
Store(p) == IF p \in avoiding THEN p ELSE "redis"

\* hit() and acquire_once() add one in Redis, or in the process's memory
\* while it leaves Redis alone.
Count(p, key) == counts' = [counts EXCEPT ![Store(p)][key] = @ + 1]

Free(p, key) == counts[Store(p)][key] = 0

\* A call fails: the process leaves Redis alone for 30 seconds, this call
\* included (_mark_redis_down).
RedisFails(p) ==
  /\ requests[p].phase \in {"cooldown", "session", "destination"}
  /\ p \notin avoiding
  /\ mishaps < MaxMishaps
  /\ mishaps' = mishaps + 1
  /\ avoiding' = avoiding \cup {p}
  /\ UNCHANGED <<counts, requests, rows, sent, sends, verifies>>

\* The 30 seconds are over.
TryAgain(p) ==
  /\ p \in avoiding
  /\ avoiding' = avoiding \ {p}
  /\ UNCHANGED <<counts, mishaps, requests, rows, sent, sends, verifies>>

\* Redis comes back without its keys.
RedisRestarts ==
  /\ mishaps < MaxMishaps
  /\ mishaps' = mishaps + 1
  /\ counts' = [counts EXCEPT !["redis"] = [k \in Keys |-> 0]]
  /\ UNCHANGED <<avoiding, requests, rows, sent, sends, verifies>>

Sending(p) == requests[p].phase \in Gate \cup {"inserted"}

\* The cooldown of 60 seconds outlasts the 10 seconds the gateway has.
CooldownEnds(s) ==
  /\ \A p \in Procs : Sending(p) => requests[p].session # s
  /\ \E store \in Stores : counts[store][<<"cooldown", s>>] > 0
  /\ counts' = [store \in Stores |-> [counts[store] EXCEPT ![<<"cooldown", s>>] = 0]]
  /\ UNCHANGED <<avoiding, mishaps, requests, rows, sent, sends, verifies>>

\* An hour without a send: every key has expired.  (Each hit() moves the
\* expiry of its key, so nothing expires before.)
WindowEnds ==
  /\ \A p \in Procs : ~Sending(p)
  /\ \E store \in Stores, k \in Keys : counts[store][k] > 0
  /\ counts' = [store \in Stores |-> [k \in Keys |-> 0]]
  /\ sent' = [k \in Sessions \cup Dests |-> 0]
  /\ UNCHANGED <<avoiding, mishaps, requests, rows, sends, verifies>>

-----------------------------------------------------------------------------
(***************************************************************************)
(* send_otp().                                                             *)
(***************************************************************************)
StartSend(p, s, d) ==
  /\ requests[p] = NoRequest
  /\ sends < MaxSends
  /\ sends' = sends + 1
  /\ requests' = [requests EXCEPT ![p] =
       [phase |-> "cooldown", session |-> s, destination |-> d, taken |-> FALSE]]
  /\ UNCHANGED <<limits, rows, sent, verifies>>

\* Slip: the answer of acquire_once() is not looked at.
CooldownIgnored(p) ==
  /\ In(p, "cooldown")
  /\ Count(p, <<"cooldown", requests[p].session>>)
  /\ GoTo(p, "session")
  /\ UNCHANGED <<avoiding, mishaps, rows, sent, sends, verifies>>

\* acquire_once(): the first caller only.
Cooldown(p) ==
  LET key == <<"cooldown", requests[p].session>> IN
  /\ In(p, "cooldown")
  /\ IF Free(p, key)
     THEN Count(p, key) /\ GoTo(p, "session")
     ELSE EndRequest(p) /\ UNCHANGED counts
  /\ UNCHANGED <<avoiding, mishaps, rows, sent, sends, verifies>>

\* Slip: one more than the cap.
WithinLoosely(p, key, cap) == counts[Store(p)][key] <= cap

\* The count after hit() is not over the cap.
Within(p, key, cap) == counts[Store(p)][key] + 1 <= cap

\* The two caps, one after the other.  A refused request has counted too.
Cap(p, phase, holder, cap, next) ==
  LET key == <<"send", holder>> IN
  /\ In(p, phase)
  /\ Count(p, key)
  /\ IF Within(p, key, cap) THEN GoTo(p, next) ELSE EndRequest(p)
  /\ UNCHANGED <<avoiding, mishaps, rows, sent, sends, verifies>>

CapSession(p) == Cap(p, "session", requests[p].session, MaxPerSession, "destination")

CapDestination(p) ==
  Cap(p, "destination", requests[p].destination, MaxPerDestination, "gateway")

\* The gateway takes the code, and says so, or not in time.
GatewayTakes(p) ==
  LET r == requests[p] IN
  /\ In(p, "gateway")
  /\ sent' = [k \in DOMAIN sent |-> IF k \in {r.session, r.destination} THEN sent[k] + 1 ELSE sent[k]]
  /\ \/ requests' = [requests EXCEPT ![p] =
          [phase |-> "delivered", session |-> r.session, destination |-> r.destination, taken |-> TRUE]]
     \/ EndRequest(p)
  /\ UNCHANGED <<limits, rows, sends, verifies>>

\* Unreachable, an error status, or an error in the body: 503, no challenge.
GatewayRefuses(p) ==
  /\ In(p, "gateway")
  /\ EndRequest(p)
  /\ UNCHANGED <<limits, rows, sent, sends, verifies>>

Of(s)      == {c \in DOMAIN challenges : challenges[c].session = s}
Pending(s) == {c \in Of(s) : challenges[c].pending /\ ~challenges[c].verified}

\* _invalidate_pending() and the INSERT.
Insert(p) ==
  LET r == requests[p] IN
  /\ In(p, "delivered")
  /\ stamp' = stamp + 1
  /\ requests' = [requests EXCEPT ![p] =
       [phase |-> "inserted", session |-> r.session, taken |-> r.taken,
        supersedes |-> Pending(r.session), at |-> stamp + 1]]
  /\ UNCHANGED <<limits, challenges, check, failed, raced, sent, sends, verifies>>

CommitSend(p) ==
  LET r == requests[p]
      new == [session |-> r.session, taken |-> r.taken, attempts |-> 0,
              pending |-> TRUE, verified |-> FALSE] IN
  /\ In(p, "inserted")
  /\ challenges' = [c \in DOMAIN challenges \cup {r.at} |->
       IF c = r.at THEN new
       ELSE IF c \in r.supersedes THEN [challenges[c] EXCEPT !.pending = FALSE]
       ELSE challenges[c]]
  /\ EndRequest(p)
  /\ UNCHANGED <<limits, stamp, check, failed, raced, sent, sends, verifies>>

\* The database refuses, or the process dies.
Abort(p) ==
  /\ requests[p] # NoRequest
  /\ EndRequest(p)
  /\ UNCHANGED <<limits, rows, sent, sends, verifies>>

\* expires_at passes.
Expire(c) ==
  /\ c \in DOMAIN challenges
  /\ challenges[c].pending
  /\ challenges' = [challenges EXCEPT ![c].pending = FALSE]
  /\ UNCHANGED <<limits, requests, stamp, check, failed, raced, sent, sends, verifies>>

-----------------------------------------------------------------------------
(***************************************************************************)
(* verify_otp() and its route.                                             *)
(***************************************************************************)
StartVerify(p, s) ==
  /\ requests[p] = NoRequest
  /\ verifies < MaxVerifies
  /\ verifies' = verifies + 1
  /\ requests' = [requests EXCEPT ![p] =
       [phase |-> "verify", session |-> s, known |-> Max(Of(s) \cup {0})]]
  /\ UNCHANGED <<limits, rows, sent, sends>>

\* Slip: created_at in ascending order.
OldestChallenge(s) == Min(Of(s))

\* _latest_challenge().
LatestChallenge(s) == Max(Of(s))

\* Slip: the attempt that reaches the maximum is given another one.
UsedUpLate(attempts) == attempts > MaxAttempts

UsedUp(attempts) == attempts >= MaxAttempts

\* Reads the latest challenge: none, verified already or expired end the
\* request.
Read(p) ==
  LET s == requests[p].session
      found == Of(s) # {}
      c == LatestChallenge(s) IN
  /\ In(p, "verify")
  /\ IF found /\ challenges[c].pending /\ ~challenges[c].verified
     THEN requests' = [requests EXCEPT ![p] =
            [phase |-> IF UsedUp(challenges[c].attempts) THEN "exhausted" ELSE "compare",
             session |-> s, known |-> @.known,
             challenge |-> c, attempts |-> challenges[c].attempts]]
     ELSE EndRequest(p)
  /\ UNCHANGED <<limits, rows, sent, sends, verifies>>

SetCheck(s, status) == check' = [check EXCEPT ![s] = status]

\* No attempt left: FAILED, once more.
Refuse(p) ==
  /\ In(p, "exhausted")
  /\ SetCheck(requests[p].session, "FAILED")
  /\ EndRequest(p)
  /\ UNCHANGED <<limits, challenges, stamp, failed, raced, sent, sends, verifies>>

\* attempts as it was read, plus one, whatever is in the row by now.
WriteAttempts(p, verified) ==
  LET r == requests[p] IN
  /\ challenges' = [challenges EXCEPT ![r.challenge].attempts = r.attempts + 1,
                                      ![r.challenge].verified = verified \/ @]
  /\ raced' = IF challenges[r.challenge].attempts # r.attempts
              THEN raced \cup {r.challenge} ELSE raced

\* Slip: the check is left to the next verification.
WrongUnchecked(p) ==
  LET r == requests[p] IN
  /\ In(p, "compare")
  /\ WriteAttempts(p, FALSE)
  /\ failed' = [failed EXCEPT ![r.challenge] = @ + 1]
  /\ EndRequest(p)
  /\ UNCHANGED <<limits, stamp, check, sent, sends, verifies>>

\* Slip: the count is reverted with the refusal.
WrongUncounted(p) ==
  LET r == requests[p] IN
  /\ In(p, "compare")
  /\ failed' = [failed EXCEPT ![r.challenge] = @ + 1]
  /\ IF UsedUp(r.attempts + 1) THEN SetCheck(r.session, "FAILED") ELSE UNCHANGED check
  /\ EndRequest(p)
  /\ UNCHANGED <<limits, challenges, stamp, raced, sent, sends, verifies>>

\* A wrong code.
Wrong(p) ==
  LET r == requests[p] IN
  /\ In(p, "compare")
  /\ WriteAttempts(p, FALSE)
  /\ failed' = [failed EXCEPT ![r.challenge] = @ + 1]
  /\ IF UsedUp(r.attempts + 1) THEN SetCheck(r.session, "FAILED") ELSE UNCHANGED check
  /\ EndRequest(p)
  /\ UNCHANGED <<limits, stamp, sent, sends, verifies>>

\* The code; the session is evaluated next (KycSession).
Right(p) ==
  /\ In(p, "compare")
  /\ WriteAttempts(p, TRUE)
  /\ SetCheck(requests[p].session, "PASSED")
  /\ EndRequest(p)
  /\ UNCHANGED <<limits, stamp, failed, sent, sends, verifies>>

Next ==
  \/ \E p \in Procs :
       \/ \E s \in Sessions : StartVerify(p, s) \/ \E d \in Dests : StartSend(p, s, d)
       \/ Cooldown(p) \/ CapSession(p) \/ CapDestination(p)
       \/ GatewayTakes(p) \/ GatewayRefuses(p) \/ Insert(p) \/ CommitSend(p)
       \/ Read(p) \/ Refuse(p) \/ Wrong(p) \/ Right(p)
       \/ Abort(p) \/ RedisFails(p) \/ TryAgain(p)
  \/ \E s \in Sessions : CooldownEnds(s)
  \/ \E c \in Stamps : Expire(c)
  \/ RedisRestarts \/ WindowEnds

Spec == Init /\ [][Next]_vars

-----------------------------------------------------------------------------
(***************************************************************************)
(* What codes must keep.                                                   *)
(***************************************************************************)

\* The caps hold across processes, sessions, refusals and failed sends: within
\* a window no session and no destination is sent more codes than its cap,
\* but for one more cap's worth for each mishap of Redis, which has a process
\* count alone or all counts lost (_enforce_send_limits).
CapsHold ==
  /\ \A s \in Sessions : sent[s] <= MaxPerSession * (1 + mishaps)
  /\ \A d \in Dests : sent[d] <= MaxPerDestination * (1 + mishaps)

\* A fresh send supersedes every pending code: two are pending at once only
\* if Redis had a mishap, since the search for pending codes and the commit are
\* steps apart and only the cooldown keeps another send out
\* (_invalidate_pending).  A code the gateway did not take is never pending
\* (send_otp).
OneLiveCode ==
  \A s \in Sessions :
    /\ Cardinality(Pending(s)) > 1 => mishaps > 0
    /\ \A c \in Pending(s) : challenges[c].taken

\* Whatever is pending, a code is compared with the latest challenge only: a
\* code superseded before the request came in is never compared, let alone
\* accepted (verify_otp).
ComparedIsCurrent ==
  \A p \in Procs : In(p, "compare") => requests[p].challenge >= requests[p].known

\* More wrong codes than the maximum are compared with a challenge only if
\* two verifications overlapped and one wrote over the other's count.
TriesCapped == \A c \in Stamps : failed[c] > MaxAttempts => c \in raced

\* The check and the challenges agree: PASSED has a verified challenge,
\* FAILED one with the maximum of wrong codes in the audit trail, and while it
\* is PENDING there is neither (set_check is in the challenge's transaction).
CheckReflectsChallenges ==
  \A s \in Sessions :
    LET verified == {c \in Of(s) : challenges[c].verified}
        usedUp == {c \in Of(s) : failed[c] >= MaxAttempts} IN
    /\ check[s] = "PASSED" => verified # {}
    /\ check[s] = "FAILED" => usedUp # {}
    /\ check[s] = "PENDING" => verified = {} /\ \A c \in Of(s) : challenges[c].attempts < MaxAttempts
=============================================================================
