---------------------------- MODULE OtpCapsProofs ----------------------------
(***************************************************************************)
(* The caps on sends hold, for any number of processes, sessions,          *)
(* destinations, caps, requests and mishaps of Redis.                      *)
(*                                                                         *)
(* The argument.  A request that passed a cap was given a place in the     *)
(* store that counted it, one of as many as the cap.  A store is Redis or  *)
(* the memory of a process that once failed to reach it, and places are    *)
(* only ever lost when Redis restarts; so each mishap is worth one cap's   *)
(* places: those of a store that counts alone, or those that were lost     *)
(* (Paid).  A window that ends takes the sends and the places with it.     *)
(***************************************************************************)
EXTENDS OtpChallengeProofs

-----------------------------------------------------------------------------
(***************************************************************************)
(* The inductive invariant.                                                *)
(***************************************************************************)
Holders == Sessions \cup Dests

CapOf(h)   == IF h \in Sessions THEN MaxPerSession ELSE MaxPerDestination
CountOf(h) == <<"send", h>>

\* Who passed the cap of h, and may still have a code sent.
PassedBy(p, h) ==
  \/ requests[p].phase \in {"destination", "gateway"} /\ requests[p].session = h
  \/ requests[p].phase = "gateway" /\ requests[p].destination = h

Passed(h) == {p \in Procs : PassedBy(p, h)}

\* Who counts alone, and the places given in a store.
Lone(h)   == {p \in Procs : p \in avoiding \/ counts[p][CountOf(h)] > 0}
Places(h) ==
  {x \in (Lone(h) \cup {"redis"}) \X (1 .. CapOf(h)) : x[2] <= counts[x[1]][CountOf(h)]}

PaidWith(sends_, mishaps_, cap, lone, places) ==
  lone <= mishaps_ /\ sends_ <= cap * (mishaps_ - lone) + places

Paid(h) ==
  PaidWith(sent[h] + Cardinality(Passed(h)), mishaps, CapOf(h),
           Cardinality(Lone(h)), Cardinality(Places(h)))

Ledger == \A h \in Holders : Paid(h)

-----------------------------------------------------------------------------
(***************************************************************************)
(* Arithmetic and counting.                                                *)
(***************************************************************************)
LEMMA Times ==
  ASSUME NEW cap \in Nat, NEW m \in Nat, NEW n \in Nat
  PROVE  /\ cap * m \in Nat
         /\ cap * (m + 1) = cap * m + cap
         /\ cap * (m + n) = cap * m + cap * n
         /\ m <= n => cap * m <= cap * n
<1>1. cap * m \in Nat /\ cap * (m + 1) = cap * m + cap /\ cap * (m + n) = cap * m + cap * n
  OBVIOUS
<1>2. ASSUME m <= n PROVE cap * m <= cap * n
  <2>1. PICK k \in Nat : n = m + k
    <3>1. n - m \in Nat /\ n = m + (n - m)
      BY <1>2
    <3> QED BY <3>1
  <2>2. cap * n = cap * m + cap * k /\ cap * k \in Nat /\ cap * m \in Nat
    BY <2>1
  <2> QED BY <2>2
<1> QED BY <1>1, <1>2

LEMMA Larger ==
  ASSUME NEW S, NEW T, IsFiniteSet(T)
  PROVE  /\ S \subseteq T => IsFiniteSet(S) /\ Cardinality(S) <= Cardinality(T)
         /\ \A x : S \subseteq T \cup {x} =>
              IsFiniteSet(S) /\ Cardinality(S) <= Cardinality(T) + 1
         /\ \A x \in T : S \subseteq T \ {x} =>
              IsFiniteSet(S) /\ Cardinality(S) + 1 <= Cardinality(T)
<1>0. Cardinality(T) \in Nat
  BY FS_CardinalityType
<1>1. ASSUME NEW R, IsFiniteSet(R), S \subseteq R
      PROVE  IsFiniteSet(S) /\ Cardinality(S) <= Cardinality(R) /\ Cardinality(S) \in Nat
  BY <1>1, FS_Subset, FS_CardinalityType
<1>2. S \subseteq T => IsFiniteSet(S) /\ Cardinality(S) <= Cardinality(T)
  BY <1>1
<1>3. ASSUME NEW x, S \subseteq T \cup {x}
      PROVE  IsFiniteSet(S) /\ Cardinality(S) <= Cardinality(T) + 1
  <2> DEFINE R == T \cup {x}
  <2>1. IsFiniteSet(R) /\ Cardinality(R) = IF x \in T THEN Cardinality(T) ELSE Cardinality(T) + 1
    BY FS_AddElement
  <2>2. S \subseteq R /\ Cardinality(R) \in Nat
    BY <1>3, <2>1, FS_CardinalityType
  <2> HIDE DEF R
  <2> QED BY <1>0, <1>1, <2>1, <2>2
<1>4. ASSUME NEW x \in T, S \subseteq T \ {x}
      PROVE  IsFiniteSet(S) /\ Cardinality(S) + 1 <= Cardinality(T)
  <2> DEFINE R == T \ {x}
  <2>1. IsFiniteSet(R) /\ Cardinality(R) = Cardinality(T) - 1
    BY FS_RemoveElement
  <2>2. S \subseteq R /\ Cardinality(R) \in Nat
    BY <1>4, <2>1, FS_CardinalityType
  <2> HIDE DEF R
  <2> QED BY <1>0, <1>1, <2>1, <2>2
<1> QED BY <1>2, <1>3, <1>4

\* A store has as many places as the cap, at most.
LEMMA Rows ==
  ASSUME NEW S, IsFiniteSet(S), NEW cap \in Nat
  PROVE  /\ IsFiniteSet(S \X (1 .. cap))
         /\ Cardinality(S \X (1 .. cap)) = cap * Cardinality(S)
<1>1. IsFiniteSet(1 .. cap) /\ Cardinality(1 .. cap) = cap
  <2>1. 0 \in Int /\ 1 \in Int /\ cap \in Int
    OBVIOUS
  <2>2. /\ IsFiniteSet(1 .. cap)
        /\ Cardinality(1 .. cap) = IF 1 > cap THEN 0 ELSE cap - 1 + 1
    BY <2>1, FS_Interval
  <2> QED BY <2>2
<1>2. /\ IsFiniteSet(S \X (1 .. cap))
      /\ Cardinality(S \X (1 .. cap)) = Cardinality(S) * Cardinality(1 .. cap)
  BY <1>1, FS_Product
<1>3. Cardinality(S) \in Nat
  BY FS_CardinalityType
<1> QED BY <1>1, <1>2, <1>3

\* The ledger's sets are finite, and nothing in it is negative.
LEMMA Finite ==
  ASSUME TypeOK, NEW h \in Holders
  PROVE  /\ IsFiniteSet(Passed(h)) /\ Cardinality(Passed(h)) \in Nat
         /\ IsFiniteSet(Lone(h)) /\ Cardinality(Lone(h)) \in Nat
         /\ IsFiniteSet(Places(h)) /\ Cardinality(Places(h)) \in Nat
         /\ Cardinality(Places(h)) <= CapOf(h) * Cardinality(Lone(h)) + CapOf(h)
         /\ sent[h] \in Nat /\ mishaps \in Nat /\ CapOf(h) \in Nat
         /\ \A store \in Stores : counts[store][CountOf(h)] \in Nat
<1>1. IsFiniteSet(Procs) /\ CapOf(h) \in Nat
  BY OtpAssumption DEF CapOf
<1>2. IsFiniteSet(Passed(h)) /\ IsFiniteSet(Lone(h))
  BY <1>1, FS_Subset DEF Passed, Lone
<1>3. Cardinality(Passed(h)) \in Nat /\ Cardinality(Lone(h)) \in Nat
  BY <1>2, FS_CardinalityType
<1> DEFINE stores == Lone(h) \cup {"redis"}
           all    == stores \X (1 .. CapOf(h))
<1>4. "redis" \notin Lone(h)
  BY OtpAssumption DEF Lone
<1>5. IsFiniteSet(stores) /\ Cardinality(stores) = Cardinality(Lone(h)) + 1
  BY <1>2, <1>4, FS_AddElement
<1>6. Places(h) \subseteq all
  BY DEF Places
<1> HIDE DEF stores
<1>7. IsFiniteSet(all) /\ Cardinality(all) = CapOf(h) * Cardinality(stores)
  BY <1>1, <1>5, Rows
<1> HIDE DEF all
<1>8. IsFiniteSet(Places(h)) /\ Cardinality(Places(h)) <= Cardinality(all)
  BY <1>6, <1>7, FS_Subset
<1>9. Cardinality(Places(h)) \in Nat
  BY <1>8, FS_CardinalityType
<1>10. Cardinality(all) = CapOf(h) * Cardinality(Lone(h)) + CapOf(h)
  BY <1>1, <1>3, <1>5, <1>7, Times
<1>11. sent[h] \in Nat /\ mishaps \in Nat
  BY OtpAssumption DEF TypeOK, Holders
<1>12. CountOf(h) \in Keys
  BY DEF CountOf, Keys, Holders
<1>13. \A store \in Stores : counts[store][CountOf(h)] \in Nat
  BY <1>12, OtpAssumption DEF TypeOK
<1> QED BY <1>1, <1>2, <1>3, <1>8, <1>9, <1>10, <1>11, <1>13

-----------------------------------------------------------------------------
(***************************************************************************)
(* The ledger, step by step.                                               *)
(***************************************************************************)
FiniteAt(h) ==
  /\ IsFiniteSet(Passed(h)) /\ Cardinality(Passed(h)) \in Nat
  /\ IsFiniteSet(Lone(h)) /\ Cardinality(Lone(h)) \in Nat
  /\ IsFiniteSet(Places(h)) /\ Cardinality(Places(h)) \in Nat
  /\ sent[h] \in Nat /\ mishaps \in Nat

LEMMA FiniteBefore == TypeOK => \A h \in Holders : FiniteAt(h)
BY Finite DEF FiniteAt

LEMMA FiniteAfter == (TypeOK => \A h \in Holders : FiniteAt(h))'
BY FiniteBefore, PTL

\* The ledger of h holds after a step that gives or loses no place, has no
\* mishap, and leaves no more who count alone.
LEMMA StillPaid ==
  ASSUME TypeOK, TypeOK', NEW h \in Holders, Paid(h),
         mishaps' = mishaps, Lone(h)' \subseteq Lone(h), Places(h) \subseteq Places(h)',
         \/ Passed(h)' \subseteq Passed(h) /\ sent'[h] = sent[h]
         \/ \E p \in Passed(h) : Passed(h)' \subseteq Passed(h) \ {p} /\ sent'[h] = sent[h] + 1
  PROVE  Paid(h)'
<1> DEFINE L == Cardinality(Lone(h))    M == Cardinality(Lone(h)')
           P == Cardinality(Passed(h))  Q == Cardinality(Passed(h)')
           S == Cardinality(Places(h))  T == Cardinality(Places(h)')
           c == CapOf(h)
<1>1. /\ IsFiniteSet(Lone(h)) /\ IsFiniteSet(Passed(h)) /\ IsFiniteSet(Places(h)')
      /\ L \in Nat /\ M \in Nat /\ P \in Nat /\ Q \in Nat /\ S \in Nat /\ T \in Nat
      /\ sent[h] \in Nat /\ sent'[h] \in Nat /\ mishaps \in Nat
  BY FiniteBefore, FiniteAfter DEF FiniteAt
<1>2. c \in Nat
  BY Finite
<1>3. M <= L /\ S <= T
  BY <1>1, Larger
<1>4. sent'[h] + Q <= sent[h] + P
  <2>1. CASE Passed(h)' \subseteq Passed(h) /\ sent'[h] = sent[h]
    <3>1. Q <= P
      BY <1>1, <2>1, Larger
    <3> HIDE DEF P, Q
    <3> QED BY <1>1, <2>1, <3>1
  <2>2. ASSUME NEW p \in Passed(h), Passed(h)' \subseteq Passed(h) \ {p}, sent'[h] = sent[h] + 1
        PROVE  sent'[h] + Q <= sent[h] + P
    <3>1. Q + 1 <= P
      BY <1>1, <2>2, Larger
    <3> HIDE DEF P, Q
    <3> QED BY <1>1, <2>2, <3>1
  <2> QED BY <2>1, <2>2
<1>5. L <= mishaps /\ sent[h] + P <= c * (mishaps - L) + S
  BY DEF Paid, PaidWith
<1>6. SUFFICES M <= mishaps /\ sent'[h] + Q <= c * (mishaps - M) + T
  BY DEF Paid, PaidWith, CapOf
<1> HIDE DEF L, M, P, Q, S, T, c
<1>7. M <= mishaps /\ mishaps - L \in Nat /\ mishaps - M \in Nat /\ mishaps - L <= mishaps - M
  BY <1>1, <1>3, <1>5
<1>8. /\ c * (mishaps - L) \in Nat /\ c * (mishaps - M) \in Nat
      /\ c * (mishaps - L) <= c * (mishaps - M)
  BY <1>2, <1>7, Times
<1> QED BY <1>1, <1>3, <1>4, <1>5, <1>7, <1>8

\* A mishap has one more count alone, or has the places of a store lost.
LEMMA PaidByMishap ==
  ASSUME TypeOK, TypeOK', NEW h \in Holders, Paid(h), mishaps' = mishaps + 1,
         Passed(h)' \subseteq Passed(h), sent'[h] = sent[h],
         \/ /\ \E p : Lone(h)' \subseteq Lone(h) \cup {p}
            /\ Places(h) \subseteq Places(h)'
         \/ /\ Lone(h)' \subseteq Lone(h)
            /\ Places(h) \subseteq Places(h)' \cup ({"redis"} \X (1 .. CapOf(h)))
  PROVE  Paid(h)'
<1> DEFINE L == Cardinality(Lone(h))    M == Cardinality(Lone(h)')
           P == Cardinality(Passed(h))  Q == Cardinality(Passed(h)')
           S == Cardinality(Places(h))  T == Cardinality(Places(h)')
           c == CapOf(h)
<1>1. /\ IsFiniteSet(Lone(h)) /\ IsFiniteSet(Passed(h)) /\ IsFiniteSet(Places(h)')
      /\ L \in Nat /\ M \in Nat /\ P \in Nat /\ Q \in Nat /\ S \in Nat /\ T \in Nat
      /\ sent[h] \in Nat /\ mishaps \in Nat
  BY FiniteBefore, FiniteAfter DEF FiniteAt
<1>2. c \in Nat
  BY Finite
<1>3. Q <= P
  BY <1>1, Larger
<1>4. L <= mishaps /\ sent[h] + P <= c * (mishaps - L) + S
  BY DEF Paid, PaidWith
<1>5. SUFFICES M <= mishaps' /\ sent'[h] + Q <= c * (mishaps' - M) + T
  BY DEF Paid, PaidWith, CapOf
<1>6. mishaps' = mishaps + 1 /\ sent'[h] = sent[h]
  OBVIOUS
<1>7. CASE (\E p : Lone(h)' \subseteq Lone(h) \cup {p}) /\ Places(h) \subseteq Places(h)'
  <2>1. M <= L + 1 /\ S <= T
    BY <1>1, <1>7, Larger
  <2> HIDE DEF L, M, P, Q, S, T, c
  <2>2. /\ M <= mishaps' /\ mishaps - L \in Nat /\ mishaps' - M \in Nat
        /\ mishaps - L <= mishaps' - M
    BY <1>1, <1>4, <1>6, <2>1
  <2>3. /\ c * (mishaps - L) \in Nat /\ c * (mishaps' - M) \in Nat
        /\ c * (mishaps - L) <= c * (mishaps' - M)
    BY <1>2, <2>2, Times
  <2> QED BY <1>1, <1>3, <1>4, <1>6, <2>1, <2>2, <2>3
<1>8. CASE /\ Lone(h)' \subseteq Lone(h)
           /\ Places(h) \subseteq Places(h)' \cup ({"redis"} \X (1 .. CapOf(h)))
  <2>1. M <= L
    BY <1>1, <1>8, Larger
  <2>2. S <= T + c
    <3> DEFINE R == {"redis"} \X (1 .. CapOf(h))
               B == Places(h)'
    <3>1. IsFiniteSet({"redis"}) /\ Cardinality({"redis"}) = 1
      BY FS_Singleton
    <3>2. IsFiniteSet(R) /\ Cardinality(R) = c * 1
      BY <1>2, <3>1, Rows
    <3>3. Cardinality(R) = c
      BY <1>2, <3>2
    <3>4. IsFiniteSet(B) /\ Places(h) \subseteq B \cup R /\ T = Cardinality(B)
      BY <1>1, <1>8
    <3>5. Cardinality(B \cap R) \in Nat
      <4> HIDE DEF B, R
      <4> QED BY <3>2, FS_Subset, FS_CardinalityType
    <3> HIDE DEF B, R
    <3>6. /\ IsFiniteSet(B \cup R)
          /\ Cardinality(B \cup R) = Cardinality(B) + Cardinality(R) - Cardinality(B \cap R)
      BY <3>2, <3>4, FS_Union
    <3>7. S <= Cardinality(B \cup R)
      BY <3>4, <3>6, FS_Subset
    <3> HIDE DEF S, T, c
    <3> QED BY <1>1, <1>2, <3>3, <3>4, <3>5, <3>6, <3>7
  <2> HIDE DEF L, M, P, Q, S, T, c
  <2>3. /\ M <= mishaps' /\ mishaps - L \in Nat /\ mishaps' - M \in Nat
        /\ (mishaps - L) + 1 <= mishaps' - M
    BY <1>1, <1>4, <1>6, <2>1
  <2>4. c * (mishaps - L) \in Nat /\ c * (mishaps - L) + c <= c * (mishaps' - M)
    <3>1. c * ((mishaps - L) + 1) <= c * (mishaps' - M)
      BY <1>2, <2>3, Times
    <3>2. c * ((mishaps - L) + 1) = c * (mishaps - L) + c /\ c * (mishaps - L) \in Nat
      BY <1>2, <2>3, Times
    <3> QED BY <3>1, <3>2
  <2>5. c * (mishaps' - M) \in Nat
    BY <1>2, <2>3, Times
  <2> QED BY <1>1, <1>2, <1>3, <1>4, <1>6, <2>2, <2>3, <2>4, <2>5
<1> QED BY <1>7, <1>8

\* Who passes the cap takes the place that its count gave.
LEMMA PaidByPlace ==
  ASSUME TypeOK, TypeOK', NEW h \in Holders, Paid(h), mishaps' = mishaps, sent'[h] = sent[h],
         Lone(h)' \subseteq Lone(h),
         NEW p, Passed(h)' \subseteq Passed(h) \cup {p},
         NEW x, x \notin Places(h), Places(h) \cup {x} \subseteq Places(h)'
  PROVE  Paid(h)'
<1> DEFINE L == Cardinality(Lone(h))    M == Cardinality(Lone(h)')
           P == Cardinality(Passed(h))  Q == Cardinality(Passed(h)')
           S == Cardinality(Places(h))  T == Cardinality(Places(h)')
           c == CapOf(h)
<1>1. /\ IsFiniteSet(Lone(h)) /\ IsFiniteSet(Passed(h)) /\ IsFiniteSet(Places(h)')
      /\ IsFiniteSet(Places(h))
      /\ L \in Nat /\ M \in Nat /\ P \in Nat /\ Q \in Nat /\ S \in Nat /\ T \in Nat
      /\ sent[h] \in Nat /\ mishaps \in Nat
  BY FiniteBefore, FiniteAfter DEF FiniteAt
<1>2. c \in Nat
  BY Finite
<1>3. M <= L /\ Q <= P + 1
  BY <1>1, Larger
<1>4. S + 1 <= T
  <2>1. x \in Places(h)' /\ Places(h) \subseteq Places(h)' \ {x}
    OBVIOUS
  <2> QED BY <1>1, <2>1, Larger
<1>5. L <= mishaps /\ sent[h] + P <= c * (mishaps - L) + S
  BY DEF Paid, PaidWith
<1>6. SUFFICES M <= mishaps /\ sent[h] + Q <= c * (mishaps - M) + T
  BY DEF Paid, PaidWith, CapOf
<1> HIDE DEF L, M, P, Q, S, T, c
<1>7. M <= mishaps /\ mishaps - L \in Nat /\ mishaps - M \in Nat /\ mishaps - L <= mishaps - M
  BY <1>1, <1>3, <1>5
<1>8. /\ c * (mishaps - L) \in Nat /\ c * (mishaps - M) \in Nat
      /\ c * (mishaps - L) <= c * (mishaps - M)
  BY <1>2, <1>7, Times
<1> QED BY <1>1, <1>3, <1>4, <1>5, <1>7, <1>8

-----------------------------------------------------------------------------
(***************************************************************************)
(* The steps.                                                              *)
(***************************************************************************)
LEMMA SameLimits ==
  ASSUME NEW h \in Holders, avoiding' = avoiding,
         \A store \in Stores : counts'[store][CountOf(h)] = counts[store][CountOf(h)]
  PROVE  Lone(h)' = Lone(h) /\ Places(h)' = Places(h)
<1>1. Lone(h)' = Lone(h)
  BY DEF Lone, CountOf, Stores
<1>2. Lone(h) \cup {"redis"} \subseteq Stores
  BY DEF Lone, Stores
<1>3. \A x \in (Lone(h) \cup {"redis"}) \X (1 .. CapOf(h)) : x[1] \in Stores
  BY <1>2
<1> QED BY <1>1, <1>3 DEF Places, CapOf, CountOf

LEMMA OnlyOnePasses ==
  ASSUME NEW h \in Holders, NEW p \in Procs, \A q \in Procs \ {p} : requests'[q] = requests[q]
  PROVE  /\ Passed(h)' \subseteq Passed(h) \cup {p}
         /\ (PassedBy(p, h)' => PassedBy(p, h)) => Passed(h)' \subseteq Passed(h)
         /\ ~PassedBy(p, h)' => Passed(h)' \subseteq Passed(h) \ {p}
BY DEF Passed, PassedBy

\* What becomes of requests.
LEMMA OthersGoOn ==
  ASSUME TypeOK, NEW p \in Procs,
         \/ EndRequest(p) \/ \E next : GoTo(p, next)
         \/ \E r : requests' = [requests EXCEPT ![p] = r]
  PROVE  \A q \in Procs \ {p} : requests'[q] = requests[q]
BY DEF TypeOK, EndRequest, GoTo

\* The steps that change no count of sends.
Quiet(p) ==
  \/ \E s \in Sessions : StartVerify(p, s) \/ \E d \in Dests : StartSend(p, s, d)
  \/ GatewayRefuses(p) \/ Insert(p) \/ CommitSend(p)
  \/ Read(p) \/ Refuse(p) \/ Wrong(p) \/ Right(p) \/ Abort(p)

LEMMA PaidQuiet ==
  ASSUME TypeOK, TypeOK', NEW h \in Holders, Paid(h), NEW p \in Procs, Quiet(p)
  PROVE  Paid(h)'
<1>1. UNCHANGED <<counts, avoiding, mishaps, sent>>
  BY DEF Quiet, StartVerify, StartSend, GatewayRefuses, Insert, CommitSend, Read, Refuse, Wrong, Right,
         Abort, limits
<1>2. \A q \in Procs \ {p} : requests'[q] = requests[q]
  BY DEF Quiet, StartVerify, StartSend, GatewayRefuses, Insert, CommitSend, Read, Refuse, Wrong, Right,
         Abort, EndRequest, TypeOK
<1>3. requests'[p].phase \notin {"destination", "gateway"}
  <2>1. ASSUME NEW r, requests' = [requests EXCEPT ![p] = r],
               r.phase \in {"idle", "verify", "cooldown", "inserted", "exhausted", "compare"}
        PROVE  requests'[p].phase \notin {"destination", "gateway"}
    BY <2>1 DEF TypeOK
  <2>2. CASE EndRequest(p)
    BY <2>2 DEF EndRequest, NoRequest, TypeOK
  <2>3. CASE Read(p)
    <3>1. PICK k, c, a, s, x :
              \/ requests' = [requests EXCEPT ![p] = NoRequest]
              \/ /\ x \in {"exhausted", "compare"}
                 /\ requests' = [requests EXCEPT ![p] =
                      [phase |-> x, session |-> s, known |-> k, challenge |-> c, attempts |-> a]]
      BY <2>3 DEF Read, EndRequest
    <3> QED BY <2>1, <2>2, <3>1 DEF EndRequest
  <2>4. CASE Insert(p)
    BY <2>4 DEF Insert, TypeOK
  <2>5. ASSUME NEW s \in Sessions, StartVerify(p, s) \/ \E d \in Dests : StartSend(p, s, d)
        PROVE  requests'[p].phase \notin {"destination", "gateway"}
    BY <2>5 DEF StartVerify, StartSend, TypeOK
  <2> QED BY <2>2, <2>3, <2>4, <2>5 DEF Quiet, GatewayRefuses, CommitSend, Refuse, Wrong, Right, Abort
<1>4. Passed(h)' \subseteq Passed(h)
  BY <1>2, <1>3, OnlyOnePasses DEF PassedBy
<1>5. Lone(h)' = Lone(h) /\ Places(h)' = Places(h)
  BY <1>1, SameLimits
<1> QED BY <1>1, <1>4, <1>5, StillPaid

LEMMA PaidExpire ==
  ASSUME TypeOK, TypeOK', NEW h \in Holders, Paid(h), NEW c \in Stamps, Expire(c)
  PROVE  Paid(h)'
<1>1. UNCHANGED <<counts, avoiding, mishaps, sent, requests>>
  BY DEF Expire, limits
<1>2. Passed(h)' \subseteq Passed(h)
  BY <1>1 DEF Passed, PassedBy
<1>3. Lone(h)' = Lone(h) /\ Places(h)' = Places(h)
  BY <1>1, SameLimits
<1> QED BY <1>1, <1>2, <1>3, StillPaid

\* The cooldown is counted under another key.
LEMMA PaidCooldown ==
  ASSUME TypeOK, TypeOK', NEW h \in Holders, Paid(h),
         \/ \E p \in Procs : Cooldown(p)
         \/ \E s \in Sessions : CooldownEnds(s)
  PROVE  Paid(h)'
<1>1. UNCHANGED <<avoiding, mishaps, sent>>
  BY DEF Cooldown, CooldownEnds
<1>2. \A s : CountOf(h) # <<"cooldown", s>>
  BY DEF CountOf
<1>3. CountOf(h) \in Keys
  BY DEF CountOf, Keys, Holders
<1>4. \A store \in Stores : counts'[store][CountOf(h)] = counts[store][CountOf(h)]
  <2>1. ASSUME NEW p \in Procs, Cooldown(p)
        PROVE  \A store \in Stores : counts'[store][CountOf(h)] = counts[store][CountOf(h)]
    <3> DEFINE key == <<"cooldown", requests[p].session>>
    <3>1. Count(p, key) \/ counts' = counts
      BY <2>1 DEF Cooldown
    <3>2. key \in Keys
      <4>1. requests[p].session \in Sessions
        BY <2>1, Phases DEF Cooldown, In, Phased
      <4> QED BY <4>1 DEF Keys
    <3>3. key # CountOf(h)
      BY <1>2
    <3> HIDE DEF key
    <3>4. CASE Count(p, key)
      <4>1. \A store \in Stores, k \in Keys :
              counts'[store][k] = IF store = Store(p) /\ k = key THEN counts[store][k] + 1
                                                                 ELSE counts[store][k]
        BY <3>2, <3>4, Counts
      <4> QED BY <1>3, <3>3, <4>1
    <3> QED BY <3>1, <3>4
  <2>2. ASSUME NEW s \in Sessions, CooldownEnds(s)
        PROVE  \A store \in Stores : counts'[store][CountOf(h)] = counts[store][CountOf(h)]
    <3>1. counts' = [store \in Stores |-> [counts[store] EXCEPT ![<<"cooldown", s>>] = 0]]
      BY <2>2 DEF CooldownEnds
    <3>2. \A store \in Stores : counts[store] \in [Keys -> 0 .. MaxSends]
      BY DEF TypeOK
    <3> HIDE DEF CountOf
    <3> QED BY <1>2, <1>3, <3>1, <3>2
  <2> QED BY <2>1, <2>2
<1>5. Passed(h)' \subseteq Passed(h)
  <2>1. ASSUME NEW p \in Procs, Cooldown(p) PROVE Passed(h)' \subseteq Passed(h)
    <3>1. GoTo(p, "session") \/ EndRequest(p)
      BY <2>1 DEF Cooldown
    <3>2. \A q \in Procs \ {p} : requests'[q] = requests[q]
      BY <3>1, OthersGoOn
    <3>3. requests'[p].phase \in {"session", "idle"}
      <4>1. CASE EndRequest(p)
        BY <4>1 DEF EndRequest, NoRequest, TypeOK
      <4>2. CASE GoTo(p, "session")
        <5>1. \E r \in Request : requests' = [requests EXCEPT ![p] = r] /\ r.phase = "session"
          BY <2>1, <4>2, GoesTo DEF Cooldown, In, Gate
        <5> QED BY <5>1 DEF TypeOK
      <4> QED BY <3>1, <4>1, <4>2
    <3> QED BY <3>2, <3>3, OnlyOnePasses DEF PassedBy
  <2>2. ASSUME NEW s \in Sessions, CooldownEnds(s) PROVE Passed(h)' \subseteq Passed(h)
    BY <2>2 DEF CooldownEnds, Passed, PassedBy
  <2> QED BY <2>1, <2>2
<1>6. Lone(h)' = Lone(h) /\ Places(h)' = Places(h)
  BY <1>1, <1>4, SameLimits
<1> QED BY <1>1, <1>5, <1>6, StillPaid

\* A cap: the place is new, as long as the count is not over the cap.
LEMMA PaidCap ==
  ASSUME TypeOK, TypeOK', NEW h \in Holders, Paid(h), NEW p \in Procs,
         NEW holder \in Holders, Count(p, CountOf(holder)),
         UNCHANGED <<avoiding, mishaps, sent>>,
         \A q \in Procs \ {p} : requests'[q] = requests[q],
         holder # h => (PassedBy(p, h)' => PassedBy(p, h)),
         holder = h => ~PassedBy(p, h)' \/ Within(p, CountOf(h), CapOf(h))
  PROVE  Paid(h)'
<1>1. /\ \A g \in Holders : CountOf(g) \in Keys
      /\ \A g \in Holders : CountOf(g) = CountOf(h) => g = h
      /\ Store(p) \in Stores
  BY DEF CountOf, Keys, Holders, Store, Stores
<1>2. \A store \in Stores, k \in Keys :
        counts'[store][k] = IF store = Store(p) /\ k = CountOf(holder) THEN counts[store][k] + 1
                                                                       ELSE counts[store][k]
  BY <1>1, Counts
<1>3. \A store \in Stores : counts[store][CountOf(h)] \in Nat
  BY Finite
<1>4. CASE holder # h
  <2>1. \A store \in Stores : counts'[store][CountOf(h)] = counts[store][CountOf(h)]
    BY <1>1, <1>2, <1>4
  <2>2. Lone(h)' = Lone(h) /\ Places(h)' = Places(h)
    BY <2>1, SameLimits
  <2>3. Passed(h)' \subseteq Passed(h)
    BY <1>4, OnlyOnePasses
  <2> QED BY <2>2, <2>3, StillPaid
<1>5. CASE holder = h
  <2> DEFINE n == counts[Store(p)][CountOf(h)]
  <2>1. /\ \A store \in Stores \ {Store(p)} : counts'[store][CountOf(h)] = counts[store][CountOf(h)]
        /\ counts'[Store(p)][CountOf(h)] = n + 1 /\ n \in Nat
    BY <1>1, <1>2, <1>3, <1>5
  <2>2. Store(p) \in Procs => Store(p) \in avoiding
    BY OtpAssumption DEF Store
  <2>3. Lone(h)' \subseteq Lone(h) /\ Lone(h) \subseteq Lone(h)'
    <3> SUFFICES ASSUME NEW q \in Procs
                 PROVE  (q \in avoiding \/ counts'[q][CountOf(h)] > 0)
                          <=> (q \in avoiding \/ counts[q][CountOf(h)] > 0)
      BY DEF Lone, CountOf
    <3>1. CASE q = Store(p)
      BY <2>2, <3>1
    <3>2. CASE q # Store(p)
      BY <2>1, <3>2 DEF Stores
    <3> QED BY <3>1, <3>2
  <2>4. Store(p) \in Lone(h) \cup {"redis"}
    BY <2>2 DEF Lone, Store
  <2>5. \A x \in Places(h) : x \in Places(h)'
    <3> SUFFICES ASSUME NEW x \in Places(h) PROVE x \in Places(h)'
      OBVIOUS
    <3>1. /\ x \in (Lone(h) \cup {"redis"}) \X (1 .. CapOf(h))
          /\ x[2] <= counts[x[1]][CountOf(h)]
      BY DEF Places
    <3>2. x[1] \in Stores /\ x[2] \in Nat
      BY <3>1 DEF Lone, Stores
    <3>3. x[2] <= counts'[x[1]][CountOf(h)]
      BY <1>3, <2>1, <3>1, <3>2
    <3>4. x \in (Lone(h)' \cup {"redis"}) \X (1 .. CapOf(h))
      BY <2>3, <3>1
    <3> QED BY <3>3, <3>4 DEF Places, CapOf, CountOf
  <2>6. CASE Passed(h)' \subseteq Passed(h)
    BY <2>3, <2>5, <2>6, StillPaid
  <2>7. CASE ~(Passed(h)' \subseteq Passed(h))
    <3>1. PassedBy(p, h)'
      BY <2>7, OnlyOnePasses
    <3>2. n + 1 <= CapOf(h)
      BY <1>5, <3>1 DEF Within
    <3> DEFINE x == <<Store(p), n + 1>>
    <3>3. x \notin Places(h)
      <4>1. ~(n + 1 <= n)
        BY <2>1
      <4>2. x \in Places(h) => x[2] <= counts[x[1]][CountOf(h)]
        BY DEF Places
      <4> QED BY <4>1, <4>2
    <3>4. x \in Places(h)'
      <4>1. n + 1 \in 1 .. CapOf(h) /\ n + 1 <= n + 1
        BY <2>1, <3>2, Finite
      <4>2. x \in (Lone(h)' \cup {"redis"}) \X (1 .. CapOf(h))
        BY <2>3, <2>4, <4>1
      <4>3. x[2] <= counts'[x[1]][CountOf(h)]
        BY <2>1, <4>1
      <4> QED BY <4>2, <4>3 DEF Places, CapOf, CountOf
    <3>5. Passed(h)' \subseteq Passed(h) \cup {p}
      BY OnlyOnePasses
    <3> HIDE DEF x
    <3>6. Places(h) \cup {x} \subseteq Places(h)'
      BY <2>5, <3>4
    <3> QED BY <2>3, <3>3, <3>5, <3>6, PaidByPlace
  <2> QED BY <2>6, <2>7
<1> QED BY <1>4, <1>5

LEMMA PaidSend ==
  ASSUME TypeOK, TypeOK', NEW h \in Holders, Paid(h), NEW p \in Procs,
         CapSession(p) \/ CapDestination(p) \/ GatewayTakes(p)
  PROVE  Paid(h)'
<1> DEFINE r == requests[p]
<1>1. /\ r.session \in Sessions /\ r.destination \in Dests
      /\ r.session \in Holders /\ r.destination \in Holders /\ r.phase \in Gate
  BY Phases DEF CapSession, CapDestination, Cap, GatewayTakes, In, Phased, Gate, Holders
<1>2. Sessions \cap Dests = {}
  BY OtpAssumption
\* Going on keeps the session and the destination.
<1>3. ASSUME NEW next \in Gate, GoTo(p, next)
      PROVE  /\ requests'[p].phase = next /\ requests'[p].session = r.session
             /\ requests'[p].destination = r.destination
  <2>1. /\ r = [phase |-> r.phase, session |-> r.session, destination |-> r.destination,
                taken |-> r.taken]
    BY <1>1, Phases DEF Phased
  <2>2. [r EXCEPT !.phase = next] = [phase |-> next, session |-> r.session,
                                     destination |-> r.destination, taken |-> r.taken]
    BY <2>1
  <2>3. requests'[p] = [r EXCEPT !.phase = next]
    BY <1>3 DEF GoTo, TypeOK
  <2> HIDE DEF r
  <2> QED BY <2>2, <2>3
<1>4. EndRequest(p) => ~PassedBy(p, h)'
  BY DEF EndRequest, NoRequest, PassedBy, TypeOK
<1>5. CASE CapSession(p)
  <2>1. /\ r.phase = "session" /\ Count(p, CountOf(r.session))
        /\ UNCHANGED <<avoiding, mishaps, sent>>
        /\ GoTo(p, "destination") \/ EndRequest(p)
        /\ ~Within(p, CountOf(r.session), MaxPerSession) => EndRequest(p)
    BY <1>5 DEF CapSession, Cap, In, CountOf
  <2>2. \A q \in Procs \ {p} : requests'[q] = requests[q]
    BY <2>1, OthersGoOn
  <2>3. r.session # h => (PassedBy(p, h)' => PassedBy(p, h))
    <3>1. CASE GoTo(p, "destination")
      BY <1>3, <3>1 DEF PassedBy, Gate
    <3> QED BY <1>4, <2>1, <3>1
  <2>4. r.session = h => ~PassedBy(p, h)' \/ Within(p, CountOf(h), CapOf(h))
    BY <1>1, <1>4, <2>1 DEF CapOf
  <2> HIDE DEF r
  <2> QED BY <1>1, <2>1, <2>2, <2>3, <2>4, PaidCap
<1>6. CASE CapDestination(p)
  <2>1. /\ r.phase = "destination" /\ Count(p, CountOf(r.destination))
        /\ UNCHANGED <<avoiding, mishaps, sent>>
        /\ GoTo(p, "gateway") \/ EndRequest(p)
        /\ ~Within(p, CountOf(r.destination), MaxPerDestination) => EndRequest(p)
    BY <1>6 DEF CapDestination, Cap, In, CountOf
  <2>2. \A q \in Procs \ {p} : requests'[q] = requests[q]
    BY <2>1, OthersGoOn
  <2>3. r.destination # h => (PassedBy(p, h)' => PassedBy(p, h))
    <3>1. CASE GoTo(p, "gateway")
      BY <1>3, <2>1, <3>1 DEF PassedBy, Gate
    <3> QED BY <1>4, <2>1, <3>1
  <2>4. r.destination = h => ~PassedBy(p, h)' \/ Within(p, CountOf(h), CapOf(h))
    <3>1. r.destination \notin Sessions
      BY <1>1, <1>2
    <3> QED BY <1>1, <1>4, <2>1, <3>1 DEF CapOf
  <2> HIDE DEF r
  <2> QED BY <1>1, <2>1, <2>2, <2>3, <2>4, PaidCap
<1>7. CASE GatewayTakes(p)
  <2>1. /\ r.phase = "gateway" /\ UNCHANGED <<counts, avoiding, mishaps>>
        /\ sent' = [k \in DOMAIN sent |-> IF k \in {r.session, r.destination} THEN sent[k] + 1
                                                                              ELSE sent[k]]
    BY <1>7 DEF GatewayTakes, In, limits
  <2>2. h \in DOMAIN sent
    BY DEF TypeOK, Holders
  <2>3. \A q \in Procs \ {p} : requests'[q] = requests[q]
    BY <1>7, OthersGoOn DEF GatewayTakes
  <2>4. requests'[p].phase \in {"delivered", "idle"}
    BY <1>7 DEF GatewayTakes, EndRequest, NoRequest, TypeOK
  <2>5. Passed(h)' \subseteq Passed(h) \ {p}
    BY <2>3, <2>4, OnlyOnePasses DEF PassedBy
  <2>6. Lone(h)' = Lone(h) /\ Places(h)' = Places(h)
    BY <2>1, SameLimits
  <2>7. CASE h \in {r.session, r.destination}
    <3>1. p \in Passed(h)
      BY <2>1, <2>7 DEF Passed, PassedBy
    <3>2. sent'[h] = sent[h] + 1
      BY <2>1, <2>2, <2>7
    <3> QED BY <2>1, <2>5, <2>6, <3>1, <3>2, StillPaid
  <2>8. CASE h \notin {r.session, r.destination}
    <3>1. sent'[h] = sent[h]
      BY <2>1, <2>2, <2>8
    <3>2. Passed(h)' \subseteq Passed(h)
      BY <2>5
    <3> QED BY <2>1, <2>6, <3>1, <3>2, StillPaid
  <2> QED BY <2>7, <2>8
<1> QED BY <1>5, <1>6, <1>7

\* Redis is left alone, is tried again, or comes back without its keys.
LEMMA PaidRedis ==
  ASSUME TypeOK, TypeOK', NEW h \in Holders, Paid(h),
         (\E p \in Procs : RedisFails(p) \/ TryAgain(p)) \/ RedisRestarts
  PROVE  Paid(h)'
<1>1. UNCHANGED <<requests, sent>>
  BY DEF RedisFails, TryAgain, RedisRestarts
<1>2. Passed(h)' \subseteq Passed(h)
  BY <1>1 DEF Passed, PassedBy
<1>3. \A store \in Stores : counts[store][CountOf(h)] \in Nat
  BY Finite
<1>4. ASSUME NEW p \in Procs, RedisFails(p) PROVE Paid(h)'
  <2>1. counts' = counts /\ mishaps' = mishaps + 1 /\ avoiding' = avoiding \cup {p}
    BY <1>4 DEF RedisFails
  <2>2. Lone(h)' \subseteq Lone(h) \cup {p} /\ Lone(h) \subseteq Lone(h)'
    BY <2>1 DEF Lone, CountOf
  <2>3. Places(h) \subseteq Places(h)'
    BY <2>1, <2>2 DEF Places, CapOf, CountOf
  <2> QED BY <1>1, <1>2, <2>1, <2>2, <2>3, PaidByMishap
<1>5. ASSUME NEW p \in Procs, TryAgain(p) PROVE Paid(h)'
  <2>1. counts' = counts /\ mishaps' = mishaps /\ avoiding' = avoiding \ {p}
    BY <1>5 DEF TryAgain
  <2>2. Lone(h)' \subseteq Lone(h)
    BY <2>1 DEF Lone, CountOf
  <2>3. ASSUME NEW x \in Places(h) PROVE x \in Places(h)'
    <3>1. /\ x \in (Lone(h) \cup {"redis"}) \X (1 .. CapOf(h))
          /\ x[2] <= counts[x[1]][CountOf(h)]
      BY DEF Places
    <3>2. x[1] \in Stores /\ x[2] \in Nat /\ x[2] > 0
      BY <3>1 DEF Lone, Stores
    <3>3. counts[x[1]][CountOf(h)] > 0
      BY <1>3, <3>1, <3>2
    <3>4. x[1] \in Lone(h)' \cup {"redis"}
      BY <2>1, <3>1, <3>3 DEF Lone, CountOf
    <3>5. x \in (Lone(h)' \cup {"redis"}) \X (1 .. CapOf(h))
      BY <3>1, <3>4
    <3> QED BY <2>1, <3>1, <3>5 DEF Places, CapOf, CountOf
  <2>4. Places(h) \subseteq Places(h)'
    BY <2>3
  <2> QED BY <1>1, <1>2, <2>1, <2>2, <2>4, StillPaid
<1>6. CASE RedisRestarts
  <2>1. /\ mishaps' = mishaps + 1 /\ avoiding' = avoiding
        /\ \A p \in Procs : counts'[p] = counts[p]
    BY <1>6, OtpAssumption DEF RedisRestarts, TypeOK, Stores
  <2>2. Lone(h)' = Lone(h)
    BY <2>1 DEF Lone, CountOf
  <2>3. ASSUME NEW x \in Places(h) PROVE x \in Places(h)' \cup ({"redis"} \X (1 .. CapOf(h)))
    <3>1. /\ x \in (Lone(h) \cup {"redis"}) \X (1 .. CapOf(h))
          /\ x[2] <= counts[x[1]][CountOf(h)]
      BY DEF Places
    <3>2. CASE x[1] = "redis"
      BY <3>1, <3>2
    <3>3. CASE x[1] \in Procs
      <4>1. x[2] <= counts'[x[1]][CountOf(h)]
        BY <2>1, <3>1, <3>3
      <4> QED BY <2>2, <3>1, <4>1 DEF Places, CapOf, CountOf
    <3> QED BY <3>1, <3>2, <3>3 DEF Lone
  <2>4. Places(h) \subseteq Places(h)' \cup ({"redis"} \X (1 .. CapOf(h)))
    BY <2>3
  <2> QED BY <1>1, <1>2, <2>1, <2>2, <2>4, PaidByMishap
<1> QED BY <1>4, <1>5, <1>6

\* A window that ends leaves nobody under way, and nothing sent.
LEMMA PaidWindow ==
  ASSUME TypeOK, TypeOK', NEW h \in Holders, Paid(h), WindowEnds
  PROVE  Paid(h)'
<1>1. UNCHANGED <<avoiding, mishaps, requests>> /\ \A p \in Procs : ~Sending(p)
  BY DEF WindowEnds
<1>2. Passed(h)' = {}
  BY <1>1 DEF Passed, PassedBy, Sending, Gate
<1>3. sent'[h] = 0
  BY DEF WindowEnds, Holders
<1>4. Lone(h)' \subseteq Lone(h)
  <2>1. CountOf(h) \in Keys
    BY DEF CountOf, Keys, Holders
  <2>2. \A p \in Procs : counts'[p][CountOf(h)] = 0
    BY <2>1 DEF WindowEnds, Stores
  <2> QED BY <1>1, <2>2 DEF Lone, CountOf
<1> DEFINE L == Cardinality(Lone(h))  M == Cardinality(Lone(h)')  T == Cardinality(Places(h)')
           c == CapOf(h)
<1>5. /\ L \in Nat /\ M \in Nat /\ T \in Nat /\ mishaps \in Nat /\ c \in Nat
      /\ M <= L /\ L <= mishaps
  <2>1. IsFiniteSet(Lone(h)) /\ L \in Nat /\ M \in Nat /\ T \in Nat /\ mishaps \in Nat
    BY FiniteBefore, FiniteAfter DEF FiniteAt
  <2>2. M <= L
    BY <1>4, <2>1, Larger
  <2>3. L <= mishaps
    BY DEF Paid, PaidWith
  <2> QED BY <2>1, <2>2, <2>3, Finite
<1>6. Paid(h)' <=> M <= mishaps' /\ sent'[h] + Cardinality(Passed(h)') <= c * (mishaps' - M) + T
  BY DEF Paid, PaidWith, CapOf
<1>7. Cardinality(Passed(h)') = 0
  BY <1>2, FS_EmptySet
<1> HIDE DEF L, M, T, c
<1>8. mishaps - M \in Nat
  BY <1>5
<1>9. c * (mishaps - M) \in Nat
  BY <1>5, <1>8, Times
<1> QED BY <1>1, <1>3, <1>5, <1>6, <1>7, <1>9

-----------------------------------------------------------------------------
(***************************************************************************)
(* The theorem.                                                            *)
(***************************************************************************)
LEMMA InitLedger == Init => Ledger
<1> SUFFICES ASSUME Init, NEW h \in Holders PROVE Paid(h)
  BY DEF Ledger
<1>1. Passed(h) = {}
  BY DEF Init, Passed, PassedBy, NoRequest
<1>2. CountOf(h) \in Keys
  BY DEF CountOf, Keys, Holders
<1>3. \A store \in Stores : counts[store][CountOf(h)] = 0
  BY <1>2 DEF Init
<1>4. Lone(h) = {}
  BY <1>3 DEF Init, Lone, Stores
<1>5. Places(h) = {}
  BY <1>3, <1>4 DEF Places, Stores
<1>6. sent[h] = 0 /\ mishaps = 0 /\ CapOf(h) \in Nat
  BY OtpAssumption DEF Init, Holders, CapOf
<1>7. CapOf(h) * 0 \in Nat
  BY <1>6, Times
<1> QED BY <1>1, <1>4, <1>5, <1>6, <1>7, FS_EmptySet DEF Paid, PaidWith

LEMMA NextLedger == TypeOK /\ TypeOK' /\ Ledger /\ [Next]_vars => Ledger'
<1> SUFFICES ASSUME TypeOK, TypeOK', Ledger, [Next]_vars, NEW h \in Holders PROVE Paid(h)'
  BY DEF Ledger, Holders
<1>0. Paid(h)
  BY DEF Ledger
<1>1. CASE UNCHANGED vars
  <2>1. UNCHANGED <<counts, avoiding, mishaps, sent, requests>>
    BY <1>1 DEF vars, limits
  <2>2. Passed(h)' \subseteq Passed(h)
    BY <2>1 DEF Passed, PassedBy
  <2>3. Lone(h)' = Lone(h) /\ Places(h)' = Places(h)
    BY <2>1, SameLimits
  <2> QED BY <1>0, <2>1, <2>2, <2>3, StillPaid
<1>2. ASSUME NEW p \in Procs, Quiet(p) PROVE Paid(h)'
  BY <1>0, <1>2, PaidQuiet
<1>3. ASSUME NEW p \in Procs, Cooldown(p) PROVE Paid(h)'
  BY <1>0, <1>3, PaidCooldown
<1>4. ASSUME NEW p \in Procs, CapSession(p) \/ CapDestination(p) \/ GatewayTakes(p) PROVE Paid(h)'
  BY <1>0, <1>4, PaidSend
<1>5. CASE (\E p \in Procs : RedisFails(p) \/ TryAgain(p)) \/ RedisRestarts
  BY <1>0, <1>5, PaidRedis
<1>6. ASSUME NEW s \in Sessions, CooldownEnds(s) PROVE Paid(h)'
  BY <1>0, <1>6, PaidCooldown
<1>7. ASSUME NEW c \in Stamps, Expire(c) PROVE Paid(h)'
  BY <1>0, <1>7, PaidExpire
<1>8. CASE WindowEnds
  BY <1>0, <1>8, PaidWindow
<1>9. CASE Next
  BY <1>2, <1>3, <1>4, <1>5, <1>6, <1>7, <1>8, <1>9 DEF Next, Quiet
<1> QED BY <1>1, <1>9

\* Within a window no session and no destination is sent more codes than its
\* cap, but for one more cap's worth for each mishap of Redis: whatever the
\* processes, the refusals and the failed sends (_enforce_send_limits).
THEOREM CapsAlwaysHold == Spec => []CapsHold
<1>1. Inv => TypeOK
  BY DEF Inv
<1>2. TypeOK /\ Ledger => CapsHold
  <2> SUFFICES ASSUME TypeOK, Ledger, NEW h \in Holders PROVE sent[h] <= CapOf(h) * (1 + mishaps)
    <3>1. \A s \in Sessions : s \in Holders /\ CapOf(s) = MaxPerSession
      BY DEF Holders, CapOf
    <3>2. \A d \in Dests : d \in Holders /\ CapOf(d) = MaxPerDestination
      BY OtpAssumption DEF Holders, CapOf
    <3> QED BY <3>1, <3>2 DEF CapsHold
  <2> DEFINE L == Cardinality(Lone(h))  P == Cardinality(Passed(h))  S == Cardinality(Places(h))
             c == CapOf(h)
  <2>1. L <= mishaps /\ sent[h] + P <= c * (mishaps - L) + S
    BY DEF Ledger, Paid, PaidWith
  <2>2. /\ L \in Nat /\ P \in Nat /\ S \in Nat /\ c \in Nat /\ mishaps \in Nat /\ sent[h] \in Nat
        /\ S <= c * L + c
    BY Finite
  <2> HIDE DEF L, P, S, c
  <2>3. mishaps - L \in Nat /\ (mishaps - L) + L = mishaps
    BY <2>1, <2>2
  <2>4. /\ c * (mishaps - L) \in Nat /\ c * L \in Nat /\ c * mishaps \in Nat
        /\ c * ((mishaps - L) + L) = c * (mishaps - L) + c * L
        /\ c * (mishaps + 1) = c * mishaps + c
    BY <2>2, <2>3, Times
  <2>5. c * mishaps = c * (mishaps - L) + c * L
    BY <2>3, <2>4
  <2>6. sent[h] <= c * mishaps + c
    BY <2>1, <2>2, <2>4, <2>5
  <2>7. 1 + mishaps = mishaps + 1
    BY <2>2
  <2> QED BY <2>4, <2>6, <2>7 DEF c
<1> QED BY <1>1, <1>2, InitLedger, NextLedger, AlwaysInv, PTL DEF Spec
=============================================================================
