--------------------------- MODULE AuditChainProofs ---------------------------
(***************************************************************************)
(* Theorems about AuditChain, for any number of transactions and any of    *)
(* the writers.                                                            *)
(*                                                                         *)
(* The argument.  What a transaction sees is always a sound chain: dense   *)
(* and with a last event (Sound).  A pending event is later than every     *)
(* committed one (Later), for its number was free and a dense chain has no *)
(* free number below its last.  So at most one transaction at a time has   *)
(* pending events (OneWriter): a second one would need the number that the *)
(* first has taken.  A commit then makes the committed chain exactly what  *)
(* the transaction saw.  The row lock adds that whoever holds the row FOR  *)
(* UPDATE is alone with it (Exclusive), while a finished transaction that  *)
(* has events holds it too (Referenced).  And the pending events of a      *)
(* transaction are those of its script so far, numbered on from the last   *)
(* committed one (BatchInv).                                               *)
(***************************************************************************)
EXTENDS AuditChain, FiniteSetTheorems, TLAPS

-----------------------------------------------------------------------------
(***************************************************************************)
(* The inductive invariant.                                                *)
(***************************************************************************)
\* Every number up to that of an event is used.
Dense(S) == \A e \in S : \A k \in 1 .. e.sequence : \E d \in S : d.sequence = k

HasLast(S) == \E last \in S : \A e \in S : e.sequence <= last.sequence

Numbered(S) == \A e \in S : e.sequence \in Nat \ {0}

Sound(S) == Numbered(S) /\ VerifyChain(S) /\ Dense(S) /\ HasLast(S)

AllSound == Sound(events) /\ \A t \in Txs : Sound(Visible(t))

Later == \A t \in Txs : \A e \in rows[t] : \A d \in events : d.sequence < e.sequence

OneWriter == \A t, u \in Txs : rows[t] # {} /\ rows[u] # {} => t = u

Exclusive == \A t \in Txs : "FOR_UPDATE" \in holds[t] => \A u \in Others(t) : holds[u] = {}

\* A pending event is the one being inserted, or its transaction has a lock
\* on the session row.
Referenced ==
  \A t \in Txs : \A e \in rows[t] :
    \/ Appending(t) /\ tail[t] # Unread /\ e.sequence = tail[t].sequence + 1
    \/ holds[t] # {}

\* Committed events are those of committed transactions.
Owned ==
  \A e \in events : e.tx # "create" => e.tx \in Txs /\ phase[e.tx] = "committed"

NotBegun == \A t \in Txs : phase[t] = "idle" => done[t] = 0

ChainInv ==
  /\ AllSound /\ Later /\ OneWriter
  /\ Owned /\ NotBegun

LockInv == Exclusive /\ Referenced /\ LockedReadsLast

-----------------------------------------------------------------------------
(***************************************************************************)
(* The scripts are sequences.                                              *)
(***************************************************************************)
Vocabulary ==
  {"READ", "REFER", "UPDATE", "LOCK", "KYC_DECISION", "CONSENT_GIVEN", "CONSENT_DECLINED",
   "UPLOADED", "OCR_COMPLETED", "DOCUMENT_CHECKED", "LIVENESS_FAILED", "LIVENESS_PASSED",
   "FACE_MATCHED", "PROCESSING_FAILED", "OTP_SENT", "OTP_FAILED", "OTP_VERIFIED",
   "DECISION_OVERRIDDEN", "SESSION_EXPIRED", "WEBHOOK_DELIVERED", "CONTRACT_GENERATED",
   "HASH_GENERATED", "DOCUMENT_SIGNED", "TIMESTAMPED", "DOCUMENT_ARCHIVED", "DATA_PURGED"}

LEMMA ScriptsAreSequences == \A s \in Work : s \in Seq(Vocabulary)
<1>1. Verdicts \subseteq Seq(Vocabulary)
  BY DEF Verdicts, Vocabulary
<1>2. \A s \in Seq(Vocabulary) : \A v \in Verdicts : s \o v \in Seq(Vocabulary)
  BY <1>1
<1>3. Consent \cup Upload \cup OtpSend \subseteq Seq(Vocabulary)
  BY DEF Consent, Upload, OtpSend, Vocabulary
<1>4. Override \cup Expiry \cup Delivery \cup Purge \subseteq Seq(Vocabulary)
  BY DEF Override, Expiry, Delivery, Purge, Vocabulary
<1>5. Seal \subseteq Seq(Vocabulary)
  BY DEF Seal, Vocabulary
<1>6. DocumentTask \cup FailureHook \subseteq Seq(Vocabulary)
  <2>1. /\ <<"OCR_COMPLETED", "DOCUMENT_CHECKED">> \in Seq(Vocabulary)
        /\ <<"PROCESSING_FAILED">> \in Seq(Vocabulary)
    BY DEF Vocabulary
  <2> QED BY <2>1, <1>2 DEF DocumentTask, FailureHook
<1>7. SelfieTask \subseteq Seq(Vocabulary)
  <2>1. /\ <<"REFER", "LIVENESS_FAILED">> \in Seq(Vocabulary)
        /\ <<"REFER", "LIVENESS_PASSED", "LOCK", "FACE_MATCHED">> \in Seq(Vocabulary)
    BY DEF Vocabulary
  <2> QED BY <2>1, <1>2 DEF SelfieTask
<1>8. OtpVerify \subseteq Seq(Vocabulary)
  <2>1. /\ <<"OTP_VERIFIED">> \in Seq(Vocabulary)
        /\ {<<"OTP_FAILED">>, <<"OTP_FAILED", "LOCK">>} \subseteq Seq(Vocabulary)
    BY DEF Vocabulary
  <2> QED BY <2>1, <1>2 DEF OtpVerify
<1>9. \A k \in DOMAIN Scripts : Scripts[k] \subseteq Seq(Vocabulary)
  BY <1>3, <1>4, <1>5, <1>6, <1>7, <1>8 DEF Scripts
<1> QED BY <1>9, ChainAssumption DEF Work

-----------------------------------------------------------------------------
(***************************************************************************)
(* Chains.                                                                 *)
(***************************************************************************)
\* The event LastEvent() chooses is the last one.
LEMMA LastIsLast ==
  ASSUME NEW t \in Txs, Sound(Visible(t))
  PROVE  /\ LastEvent(t) \in Visible(t)
         /\ \A e \in Visible(t) : e.sequence <= LastEvent(t).sequence
BY DEF Sound, HasLast, LastEvent

\* A sound chain stays sound when the next event is linked to one of its own
\* and has a number of its own.
LEMMA SoundWithNext ==
  ASSUME NEW S, Sound(S), NEW last \in S, NEW t, NEW type,
         \A d \in S : d.sequence # last.sequence + 1
  PROVE  LET e == NewEvent(t, type, last) IN
           /\ e.sequence = last.sequence + 1 /\ e.tx = t
           /\ e.sequence \in Nat \ {0}
           /\ Sound(S \cup {e})
<1> DEFINE e == NewEvent(t, type, last)
           T == S \cup {e}
<1>1. /\ e.sequence = last.sequence + 1 /\ e.tx = t
      /\ e.event_type = type /\ e.previous_event_hash = last.event_hash
      /\ e.event_hash = <<e.sequence, e.event_type, e.tx, e.previous_event_hash>>
  BY DEF NewEvent, ComputeEventHash
<1>2. last.sequence \in Nat \ {0} /\ e.sequence \in Nat \ {0} /\ e.sequence > 1
  BY <1>1 DEF Sound, Numbered
<1>3. Numbered(T)
  BY <1>2 DEF Sound, Numbered
<1>4. VerifyChain(T)
  <2> HIDE DEF e
  <2> SUFFICES ASSUME NEW f \in T
               PROVE  /\ f.event_hash = <<f.sequence, f.event_type, f.tx, f.previous_event_hash>>
                      /\ \A d \in T : d.sequence = f.sequence => d = f
                      /\ f.sequence = 1 => f.previous_event_hash = NoHash
                      /\ f.sequence > 1 => \E d \in T : /\ d.sequence = f.sequence - 1
                                                        /\ d.event_hash = f.previous_event_hash
    BY DEF VerifyChain
  <2>1. CASE f = e
    BY <2>1, <1>1, <1>2
  <2>2. CASE f \in S
    BY <2>2, <1>1 DEF Sound, VerifyChain
  <2> QED BY <2>1, <2>2
<1>5. Dense(T)
  <2> HIDE DEF e
  <2> SUFFICES ASSUME NEW f \in T, NEW k \in 1 .. f.sequence
               PROVE  \E d \in T : d.sequence = k
    BY DEF Dense
  <2>1. CASE f = e
    <3>1. k = e.sequence \/ k \in 1 .. last.sequence
      BY <2>1, <1>1, <1>2
    <3> QED BY <3>1 DEF Sound, Dense
  <2>2. CASE f \in S
    BY <2>2 DEF Sound, Dense
  <2> QED BY <2>1, <2>2
<1>6. HasLast(T)
  <2> HIDE DEF e
  <2>1. PICK top \in S : \A d \in S : d.sequence <= top.sequence
    BY DEF Sound, HasLast
  <2>2. top.sequence \in Nat
    BY DEF Sound, Numbered
  <2>3. CASE e.sequence <= top.sequence
    BY <2>1, <2>2, <2>3 DEF HasLast
  <2>4. CASE top.sequence < e.sequence
    <3>1. \A d \in T : d.sequence <= e.sequence
      BY <2>1, <2>2, <2>4, <1>2 DEF Sound, Numbered
    <3> QED BY <3>1 DEF HasLast
  <2> QED BY <2>2, <2>3, <2>4, <1>2
<1> QED BY <1>1, <1>2, <1>3, <1>4, <1>5, <1>6 DEF Sound

\* What a step is to the database: it reads or locks, inserts an event,
\* commits, or is rolled back.
ReadsOrLocks(t) ==
  \/ \E s \in Work : Begin(t, s)
  \/ ReadTail(t) \/ Refer(t) \/ UpdateRow(t) \/ LockUpdates(t) \/ LockSelects(t)

LEMMA NextCases ==
  ASSUME Next
  PROVE  \E t \in Txs : ReadsOrLocks(t) \/ Insert(t) \/ Commit(t) \/ (Running(t) /\ Rollback(t))
BY DEF Next, Step, ReadsOrLocks, Collide, Fail, BreakDeadlock, ToInsert, Appending

-----------------------------------------------------------------------------
(***************************************************************************)
(* Type correctness.                                                       *)
(***************************************************************************)
\* What a transaction does to its own part of the state.
LEMMA Lengths ==
  ASSUME TypeOK, NEW t \in Txs
  PROVE  /\ Len(script[t]) \in Nat /\ done[t] \in Nat /\ done[t] <= Len(script[t])
         /\ ~Finished(t) => done[t] + 1 \in 0 .. Len(script[t])
<1>1. script[t] \in Seq(Vocabulary)
  <2>1. <<>> \in Seq(Vocabulary)
    OBVIOUS
  <2> QED BY <2>1, ScriptsAreSequences DEF TypeOK
<1> QED BY <1>1 DEF TypeOK, Finished

LEMMA TypeOKInit == Init => TypeOK
BY DEF Init, TypeOK, NewEvent, NoEvents

\* What an insert adds.
LEMMA Inserting ==
  ASSUME TypeOK, AllSound, NEW t \in Txs, Insert(t)
  PROVE  \E e :
           /\ tail[t] \in Visible(t)
           /\ e.sequence = tail[t].sequence + 1 /\ e.sequence \in Nat \ {0} /\ e.tx = t
           /\ Sound(Visible(t) \cup {e})
           /\ \A u \in Txs : \A d \in Visible(u) : d.sequence # e.sequence
           /\ rows'[t] = rows[t] \cup {e}
           /\ \A u \in Others(t) : rows'[u] = rows[u]
<1> DEFINE e == NewEvent(t, Op(t), tail[t])
<1>1. tail[t] \in Visible(t)
  BY DEF Insert, ToInsert, TypeOK
<1>2. \A u \in Txs : \A d \in Visible(u) : d.sequence # tail[t].sequence + 1
  BY DEF Insert, Free
<1>3. Sound(Visible(t))
  BY DEF AllSound
<1>4. /\ e.sequence = tail[t].sequence + 1 /\ e.tx = t
      /\ e.sequence \in Nat \ {0}
      /\ Sound(Visible(t) \cup {e})
  <2>1. \A d \in Visible(t) : d.sequence # tail[t].sequence + 1
    BY <1>2
  <2> HIDE DEF e
  <2> QED BY <1>1, <1>3, <2>1, SoundWithNext DEF e
<1>5. rows'[t] = rows[t] \cup {e} /\ \A u \in Others(t) : rows'[u] = rows[u]
  BY DEF Insert, TypeOK, Others
<1> HIDE DEF e
<1> QED BY <1>1, <1>2, <1>4, <1>5 DEF e

LEMMA TypeOKNext == TypeOK /\ ChainInv /\ [Next]_vars => TypeOK'
<1> SUFFICES ASSUME TypeOK, ChainInv, [Next]_vars PROVE TypeOK'
  OBVIOUS
<1> USE DEF TypeOK
<1>1. CASE UNCHANGED vars
  BY <1>1 DEF vars, txvars, Visible
<1>2. ASSUME NEW t \in Txs, NEW s \in Work, Begin(t, s) PROVE TypeOK'
  <2>1. done[t] = 0 /\ Len(s) \in Nat
    BY <1>2, ScriptsAreSequences DEF ChainInv, NotBegun, Begin
  <2> QED BY <1>2, <2>1 DEF Begin, Visible
<1>3. ASSUME NEW t \in Txs, ReadTail(t) PROVE TypeOK'
  <2>1. LastEvent(t) \in Visible(t)
    BY LastIsLast DEF ChainInv, AllSound
  <2>2. ~Finished(t)
    BY <1>3 DEF ReadTail, At, Appending
  <2> QED BY <1>3, <2>1, <2>2, Lengths DEF ReadTail, Visible
<1>4. ASSUME NEW t \in Txs, Insert(t) PROVE TypeOK'
  <2>1. \A u \in Txs : Visible(u) \subseteq Visible(u)'
    BY <1>4 DEF Insert, Visible
  <2> HIDE DEF TypeOK
  <2>2. \A u \in Txs : \A e \in rows'[u] : e.sequence \in Nat \ {0} /\ e.tx = u
    <3>1. PICK new : /\ new.sequence \in Nat \ {0} /\ new.tx = t
                     /\ rows'[t] = rows[t] \cup {new}
                     /\ \A u \in Others(t) : rows'[u] = rows[u]
      BY <1>4, Inserting DEF ChainInv
    <3> QED BY <3>1 DEF TypeOK, Others
  <2>3. DOMAIN rows' = Txs
    BY <1>4 DEF Insert, TypeOK
  <2> QED BY <1>4, <2>1, <2>2, <2>3 DEF Insert, TypeOK
<1>5. ASSUME NEW t \in Txs, ToRefer(t) \/ At(t, {"LOCK"}), UNCHANGED <<events, script, phase, rows>>,
             Advance(t), NEW lock \in Locks, holds' = [holds EXCEPT ![t] = @ \cup {lock}]
      PROVE TypeOK'
  <2>1. ~Finished(t)
    BY <1>5 DEF ToRefer, At, Appending
  <2> QED BY <1>5, <2>1, Lengths DEF Advance, Visible
<1>6. ASSUME NEW t \in Txs, UpdateRow(t) PROVE TypeOK'
  <2>1. ~Finished(t)
    BY <1>6 DEF UpdateRow, At
  <2> QED BY <1>6, <2>1, Lengths DEF UpdateRow, Visible, Locks
<1>7. ASSUME NEW t \in Txs, LockUpdates(t) PROVE TypeOK'
  BY <1>7 DEF LockUpdates, Visible, Locks
<1>8. ASSUME NEW t \in Txs, Commit(t) PROVE TypeOK'
  BY <1>8 DEF Commit, End, Visible
<1>9. ASSUME NEW t \in Txs, Rollback(t) PROVE TypeOK'
  BY <1>9 DEF Rollback, End, Visible
<1>10. ASSUME NEW t \in Txs, Refer(t) PROVE TypeOK'
  BY <1>10, <1>5 DEF Refer, Locks
<1>11. ASSUME NEW t \in Txs, LockSelects(t) PROVE TypeOK'
  BY <1>11, <1>5 DEF LockSelects, Locks
<1> QED
  BY <1>1, <1>2, <1>3, <1>4, <1>6, <1>7, <1>8, <1>9, <1>10, <1>11, NextCases DEF ReadsOrLocks

-----------------------------------------------------------------------------
(***************************************************************************)
(* The chain.                                                              *)
(***************************************************************************)
LEMMA ChainInit == Init => ChainInv
<1> SUFFICES ASSUME Init PROVE ChainInv
  OBVIOUS
<1> DEFINE first == NewEvent("create", "KYC_SESSION_CREATED", NoEvents)
<1>1. /\ first.sequence = 1 /\ first.tx = "create" /\ first.previous_event_hash = NoHash
      /\ first.event_hash = <<first.sequence, first.event_type, first.tx, first.previous_event_hash>>
  BY DEF NewEvent, NoEvents, ComputeEventHash
<1>2. events = {first} /\ \A t \in Txs : Visible(t) = {first}
  BY DEF Init, Visible
<1> HIDE DEF first
<1>3. Sound({first})
  BY <1>1 DEF Sound, Numbered, VerifyChain, Dense, HasLast
<1>4. AllSound
  BY <1>2, <1>3 DEF AllSound
<1>5. Later /\ OneWriter /\ NotBegun
  BY DEF Init, Later, OneWriter, NotBegun
<1>6. Owned
  BY <1>1, <1>2 DEF Owned
<1> QED BY <1>4, <1>5, <1>6 DEF ChainInv

\* No events come or go.
LEMMA ChainReads ==
  ASSUME TypeOK, ChainInv, NEW t \in Txs, ReadsOrLocks(t)
  PROVE  ChainInv'
<1>1. events' = events /\ rows' = rows
  BY DEF ReadsOrLocks, Begin, ReadTail, Refer, UpdateRow, LockUpdates, LockSelects
<1>2. AllSound' /\ Later' /\ OneWriter'
  BY <1>1 DEF ChainInv, AllSound, Later, OneWriter, Visible
<1>3. \A u \in Txs : phase[u] = "committed" => phase'[u] = "committed"
  BY DEF ReadsOrLocks, Begin, ReadTail, Refer, UpdateRow, LockUpdates, LockSelects, TypeOK
<1>4. Owned'
  BY <1>1, <1>3 DEF ChainInv, Owned
<1>5. \A u \in Txs : phase'[u] = "idle" => phase[u] = "idle" /\ done'[u] = done[u]
  BY DEF ReadsOrLocks, Begin, ReadTail, Refer, UpdateRow, LockUpdates, LockSelects, TypeOK,
         At, ToRefer, Appending, Running, Advance
<1>6. NotBegun'
  BY <1>5 DEF ChainInv, NotBegun
<1> QED BY <1>2, <1>4, <1>6 DEF ChainInv

\* The new event is the only pending one of its number, and no other
\* transaction has any.
LEMMA ChainInserts ==
  ASSUME TypeOK, ChainInv, NEW t \in Txs, Insert(t)
  PROVE  ChainInv'
<1>1. PICK e : /\ tail[t] \in Visible(t)
               /\ e.sequence = tail[t].sequence + 1 /\ e.sequence \in Nat \ {0} /\ e.tx = t
               /\ Sound(Visible(t) \cup {e})
               /\ \A u \in Txs : \A d \in Visible(u) : d.sequence # e.sequence
               /\ rows'[t] = rows[t] \cup {e}
               /\ \A u \in Others(t) : rows'[u] = rows[u]
  BY Inserting DEF ChainInv
<1>2. events' = events /\ phase' = phase /\ done' = done
  BY DEF Insert
<1>3. AllSound'
  <2>1. Visible(t)' = Visible(t) \cup {e}
    BY <1>1, <1>2 DEF Visible
  <2>2. \A u \in Others(t) : Visible(u)' = Visible(u)
    BY <1>1, <1>2 DEF Visible
  <2> QED BY <1>1, <1>2, <2>1, <2>2 DEF ChainInv, AllSound, Others
<1>4. \A d \in events : d.sequence < e.sequence
  <2> SUFFICES ASSUME NEW d \in events, e.sequence <= d.sequence PROVE FALSE
    BY <1>1 DEF TypeOK
  <2>1. \E c \in events : c.sequence = e.sequence
    BY <1>1 DEF ChainInv, AllSound, Sound, Dense, TypeOK
  <2> QED BY <1>1, <2>1 DEF Visible
<1>5. Later'
  BY <1>1, <1>2, <1>4 DEF ChainInv, Later, Others
<1>6. \A u \in Others(t) : rows[u] = {}
  <2> SUFFICES ASSUME NEW u \in Others(t), NEW d \in rows[u] PROVE FALSE
    OBVIOUS
  <2>1. u \in Txs /\ u # t
    BY DEF Others
  <2>2. rows[t] = {}
    BY <2>1 DEF ChainInv, OneWriter
  <2>3. tail[t] \in events
    BY <1>1, <2>2 DEF Visible
  <2>4. tail[t].sequence < d.sequence
    BY <2>1, <2>3 DEF ChainInv, Later
  <2>5. e.sequence \in 1 .. d.sequence
    BY <1>1, <2>1, <2>3, <2>4 DEF TypeOK
  <2>6. \E c \in Visible(u) : c.sequence = e.sequence
    BY <2>1, <2>5 DEF ChainInv, AllSound, Sound, Dense, Visible
  <2> QED BY <1>1, <2>1, <2>6
<1>7. OneWriter'
  BY <1>1, <1>6 DEF OneWriter, Others
<1>8. Owned' /\ NotBegun'
  BY <1>2 DEF ChainInv, Owned, NotBegun
<1> QED BY <1>3, <1>5, <1>7, <1>8 DEF ChainInv

\* The committed chain becomes what the transaction saw.
LEMMA ChainCommits ==
  ASSUME TypeOK, ChainInv, NEW t \in Txs, Commit(t)
  PROVE  ChainInv'
<1>1. /\ events' = Visible(t)
      /\ rows'[t] = {} /\ \A u \in Others(t) : rows'[u] = rows[u]
      /\ phase'[t] = "committed" /\ \A u \in Others(t) : phase'[u] = phase[u]
      /\ done' = done
  BY DEF Commit, End, Visible, Others, TypeOK
<1>2. ASSUME NEW u \in Others(t), rows[u] # {}
      PROVE  events' = events /\ Visible(u)' = Visible(u)
  <2>1. rows[t] = {}
    BY <1>2 DEF ChainInv, OneWriter, Others
  <2> QED BY <1>1, <2>1 DEF Visible
<1>3. AllSound'
  <2>1. Sound(events')
    BY <1>1 DEF ChainInv, AllSound
  <2>2. ASSUME NEW u \in Txs PROVE Sound(Visible(u)')
    <3>1. CASE rows'[u] = {}
      BY <2>1, <3>1 DEF Visible
    <3>2. CASE rows'[u] # {}
      BY <1>1, <1>2, <3>2 DEF ChainInv, AllSound, Others
    <3> QED BY <3>1, <3>2
  <2> QED BY <2>1, <2>2 DEF AllSound
<1>4. Later'
  <2> SUFFICES ASSUME NEW u \in Txs, NEW e \in rows'[u], NEW d \in events'
               PROVE  d.sequence < e.sequence
    BY DEF Later
  <2>1. u \in Others(t) /\ rows[u] # {} /\ e \in rows[u]
    BY <1>1 DEF Others
  <2> QED BY <1>2, <2>1 DEF ChainInv, Later
<1>5. OneWriter'
  BY <1>1 DEF ChainInv, OneWriter, Others
<1>6. Owned'
  BY <1>1 DEF ChainInv, Owned, Visible, Others, TypeOK
<1>7. NotBegun'
  BY <1>1 DEF ChainInv, NotBegun, Others
<1> QED BY <1>3, <1>4, <1>5, <1>6, <1>7 DEF ChainInv

LEMMA ChainRollsBack ==
  ASSUME TypeOK, ChainInv, NEW t \in Txs, Running(t), Rollback(t)
  PROVE  ChainInv'
<1>1. /\ events' = events
      /\ rows'[t] = {} /\ \A u \in Others(t) : rows'[u] = rows[u]
      /\ phase'[t] = "aborted" /\ \A u \in Others(t) : phase'[u] = phase[u]
      /\ \A u \in Others(t) : done'[u] = done[u]
  BY DEF Rollback, End, Others, TypeOK
<1>2. AllSound'
  <2>1. Visible(t)' = events
    BY <1>1 DEF Visible
  <2>2. \A u \in Others(t) : Visible(u)' = Visible(u)
    BY <1>1 DEF Visible
  <2> QED BY <1>1, <2>1, <2>2 DEF ChainInv, AllSound, Others
<1>3. Later' /\ OneWriter' /\ NotBegun'
  BY <1>1 DEF ChainInv, Later, OneWriter, NotBegun, Others
<1>4. Owned'
  BY <1>1 DEF ChainInv, Owned, Running, Others
<1> QED BY <1>2, <1>3, <1>4 DEF ChainInv

LEMMA ChainNext == TypeOK /\ ChainInv /\ [Next]_vars => ChainInv'
<1> SUFFICES ASSUME TypeOK, ChainInv, [Next]_vars PROVE ChainInv'
  OBVIOUS
<1>1. CASE UNCHANGED vars
  BY <1>1 DEF vars, txvars, ChainInv, AllSound, Later, OneWriter, Owned, NotBegun, Visible
<1>2. CASE Next
  BY <1>2, NextCases, ChainReads, ChainInserts, ChainCommits, ChainRollsBack
<1> QED BY <1>1, <1>2

LEMMA AlwaysSound == Spec => [](TypeOK /\ ChainInv)
BY TypeOKInit, TypeOKNext, ChainInit, ChainNext, PTL DEF Spec

-----------------------------------------------------------------------------
(***************************************************************************)
(* The row lock.                                                           *)
(***************************************************************************)
LEMMA LockInit == Init => LockInv
BY DEF Init, LockInv, Exclusive, Referenced, LockedReadsLast

\* Only one transaction holds the row FOR UPDATE, and then nobody else any
\* lock.
LEMMA ExclusiveNext == TypeOK /\ Exclusive /\ [Next]_vars => Exclusive'
<1> SUFFICES ASSUME TypeOK, Exclusive, [Next]_vars PROVE Exclusive'
  OBVIOUS
<1> USE DEF Exclusive, Others
<1>1. CASE holds' = holds
  BY <1>1
<1>2. ASSUME NEW t \in Txs, Refer(t) PROVE Exclusive'
  BY <1>2 DEF Refer, MayShare, TypeOK
<1>3. ASSUME NEW t \in Txs, UpdateRow(t) \/ LockUpdates(t) PROVE Exclusive'
  <2>1. /\ holds' = [holds EXCEPT ![t] = @ \cup {"UPDATE"}]
        /\ \A u \in Others(t) : "FOR_UPDATE" \notin holds[u]
    BY <1>3 DEF UpdateRow, LockUpdates, MayUpdate
  <2>2. \A u \in Txs : "FOR_UPDATE" \in holds'[u] => u = t /\ "FOR_UPDATE" \in holds[t]
    BY <2>1 DEF TypeOK
  <2>3. \A u \in Others(t) : holds'[u] = holds[u]
    BY <2>1 DEF TypeOK
  <2> QED BY <2>2, <2>3
<1>4. ASSUME NEW t \in Txs, LockSelects(t) PROVE Exclusive'
  BY <1>4 DEF LockSelects, MayLock, TypeOK
<1>5. ASSUME NEW t \in Txs, holds' = [holds EXCEPT ![t] = {}] PROVE Exclusive'
  BY <1>5 DEF TypeOK
<1> QED
  BY <1>1, <1>2, <1>3, <1>4, <1>5, NextCases
     DEF ReadsOrLocks, Begin, ReadTail, Insert, Commit, Rollback, vars, txvars

\* An event is pending under a lock from the moment its INSERT has ended.
LEMMA ReferencedNext == TypeOK /\ ChainInv /\ Referenced /\ [Next]_vars => Referenced'
<1> SUFFICES ASSUME TypeOK, ChainInv, Referenced, [Next]_vars PROVE Referenced'
  OBVIOUS
<1>1. CASE UNCHANGED vars
  BY <1>1 DEF vars, txvars, Referenced, Appending, Running, Finished, Op
\* What t does leaves the events of the others as they are.
<1>3. ASSUME NEW t \in Txs,
             \A u \in Others(t) : /\ rows'[u] = rows[u] /\ holds'[u] = holds[u] /\ tail'[u] = tail[u]
                                  /\ script'[u] = script[u] /\ done'[u] = done[u] /\ phase'[u] = phase[u],
             rows'[t] = {} \/ holds'[t] # {}
                \/ (\A e \in rows'[t] : /\ Appending(t)' /\ tail'[t] # Unread
                                        /\ e.sequence = tail'[t].sequence + 1)
      PROVE  Referenced'
  BY <1>3 DEF Referenced, Others, Appending, Running, Finished, Op
<1>4. ASSUME NEW t \in Txs, NEW s \in Work, Begin(t, s) PROVE Referenced'
  <2>1. rows[t] # {} => holds[t] # {}
    BY <1>4 DEF Referenced, Begin, Appending, Running
  <2> QED BY <1>3, <1>4, <2>1 DEF Begin, Others, TypeOK
<1>5. ASSUME NEW t \in Txs, ReadTail(t) PROVE Referenced'
  <2>1. rows[t] # {} => holds[t] # {}
    BY <1>5 DEF Referenced, ReadTail, At, Appending, Ops
  <2> QED BY <1>3, <1>5, <2>1 DEF ReadTail, Others, TypeOK
<1>6. ASSUME NEW t \in Txs, Insert(t) PROVE Referenced'
  <2>1. rows[t] # {} => holds[t] # {}
    BY <1>6 DEF Referenced, Insert, ToInsert, Inserted
  <2>2. PICK e : /\ e.sequence = tail[t].sequence + 1
                 /\ rows'[t] = rows[t] \cup {e}
                 /\ \A u \in Others(t) : rows'[u] = rows[u]
    BY <1>6, Inserting DEF ChainInv
  <2>3. Appending(t)' /\ tail'[t] # Unread
    BY <1>6 DEF Insert, ToInsert, Appending, Running, Finished, Op
  <2>4. /\ holds' = holds /\ tail' = tail /\ script' = script /\ done' = done /\ phase' = phase
    BY <1>6 DEF Insert
  <2>5. CASE rows[t] = {}
    <3>1. \A d \in rows'[t] : d.sequence = tail'[t].sequence + 1
      BY <2>2, <2>4, <2>5
    <3> QED BY <1>3, <2>2, <2>3, <2>4, <3>1
  <2>6. CASE rows[t] # {}
    BY <1>3, <2>1, <2>2, <2>4, <2>6
  <2> QED BY <2>5, <2>6
<1>7. ASSUME NEW t \in Txs, Refer(t) \/ UpdateRow(t) \/ LockUpdates(t) \/ LockSelects(t)
      PROVE  Referenced'
  <2>1. holds'[t] # {}
    <3>1. \E lock \in Locks : holds' = [holds EXCEPT ![t] = @ \cup {lock}]
      BY <1>7 DEF Refer, UpdateRow, LockUpdates, LockSelects, Locks
    <3> QED BY <3>1 DEF TypeOK
  <2> QED BY <1>3, <1>7, <2>1 DEF Refer, UpdateRow, LockUpdates, LockSelects, Advance, Others, TypeOK
<1>8. ASSUME NEW t \in Txs, Commit(t) PROVE Referenced'
  BY <1>3, <1>8 DEF Commit, End, Others, TypeOK
<1>9. ASSUME NEW t \in Txs, Rollback(t) PROVE Referenced'
  BY <1>3, <1>9 DEF Rollback, End, Others, TypeOK
<1> QED
  BY <1>1, <1>4, <1>5, <1>6, <1>7, <1>8, <1>9, NextCases DEF ReadsOrLocks

\* A transaction that holds the row FOR UPDATE sees no commit of an event.
LEMMA LockedReadsLastNext ==
  TypeOK /\ ChainInv /\ LockInv /\ [Next]_vars => LockedReadsLast'
<1> SUFFICES ASSUME TypeOK, ChainInv, LockInv, [Next]_vars,
                    NEW t \in Txs, "FOR_UPDATE" \in holds'[t], tail'[t] # Unread
             PROVE  \A e \in events' : e.sequence <= tail'[t].sequence
  BY DEF LockedReadsLast
<1>1. CASE UNCHANGED vars
  BY <1>1 DEF vars, txvars, LockInv, LockedReadsLast
<1>2. ASSUME NEW u \in Txs, u # t, ReadsOrLocks(u) \/ Insert(u) \/ (Running(u) /\ Rollback(u))
      PROVE  events' = events /\ holds'[t] = holds[t] /\ tail'[t] = tail[t]
  BY <1>2 DEF ReadsOrLocks, Begin, ReadTail, Refer, UpdateRow, LockUpdates, LockSelects, Advance,
              Insert, Rollback, End, TypeOK
<1>3. ASSUME NEW u \in Txs, u # t, Commit(u)
      PROVE  events' = events /\ holds'[t] = holds[t] /\ tail'[t] = tail[t]
  <2>1. holds'[t] = holds[t] /\ tail'[t] = tail[t]
    BY <1>3 DEF Commit, End, TypeOK
  <2>2. holds[u] = {}
    BY <1>3, <2>1 DEF LockInv, Exclusive, Others
  <2>3. rows[u] = {}
    BY <1>3, <2>2 DEF LockInv, Referenced, Commit, Appending
  <2> QED BY <1>3, <2>1, <2>3 DEF Commit
<1>4. ASSUME ReadTail(t) PROVE \A e \in events' : e.sequence <= tail'[t].sequence
  <2>1. tail'[t] = LastEvent(t) /\ events' = events
    BY <1>4 DEF ReadTail, TypeOK
  <2> QED BY <2>1, LastIsLast DEF ChainInv, AllSound, Visible
<1>5. ASSUME Insert(t) \/ UpdateRow(t)
      PROVE  events' = events /\ "FOR_UPDATE" \in holds[t] /\ tail'[t] = tail[t]
  BY <1>5 DEF Insert, UpdateRow, TypeOK
<1>6. ASSUME LockUpdates(t) \/ \E s \in Work : Begin(t, s)
      PROVE  events' = events /\ "FOR_UPDATE" \in holds[t] /\ tail'[t] = tail[t]
  BY <1>6 DEF LockUpdates, Begin, TypeOK
<1>7. ~Refer(t) /\ ~LockSelects(t) /\ ~Commit(t) /\ ~Rollback(t)
  BY DEF Refer, LockSelects, Commit, Rollback, End, Advance, TypeOK
<1> QED
  BY <1>1, <1>2, <1>3, <1>4, <1>5, <1>6, <1>7, NextCases
     DEF ReadsOrLocks, LockInv, LockedReadsLast

LEMMA LockNext == TypeOK /\ ChainInv /\ LockInv /\ [Next]_vars => LockInv'
BY ExclusiveNext, ReferencedNext, LockedReadsLastNext DEF LockInv

LEMMA AlwaysLocked == Spec => []LockInv
BY AlwaysSound, LockInit, LockNext, PTL DEF Spec

-----------------------------------------------------------------------------
(***************************************************************************)
(* The chain as a log.                                                     *)
(***************************************************************************)
LogOf(S) == [n \in {e.sequence : e \in S} |-> CHOOSE e \in S : e.sequence = n]

\* The entry at a number is the event that has it.
LEMMA Entries ==
  ASSUME NEW S, VerifyChain(S)
  PROVE  /\ \A e \in S : e.sequence \in DOMAIN LogOf(S) /\ LogOf(S)[e.sequence] = e
         /\ \A n \in DOMAIN LogOf(S) : LogOf(S)[n] \in S /\ LogOf(S)[n].sequence = n
<1>1. \A n \in DOMAIN LogOf(S) : LogOf(S)[n] \in S /\ LogOf(S)[n].sequence = n
  BY DEF LogOf
<1>2. \A e \in S : e.sequence \in DOMAIN LogOf(S)
  BY DEF LogOf
<1>3. \A e \in S : LogOf(S)[e.sequence] = e
  BY <1>1, <1>2 DEF VerifyChain
<1> QED BY <1>1, <1>2, <1>3

LEMMA LogIsLinked ==
  ASSUME NEW S, Sound(S)
  PROVE  Log!Linked(LogOf(S))
<1> SUFFICES ASSUME NEW n \in DOMAIN LogOf(S)
             PROVE  /\ n \in Nat \ {0}
                    /\ n = 1 => LogOf(S)[n].previous_event_hash = NoHash
                    /\ n > 1 => /\ n - 1 \in DOMAIN LogOf(S)
                                /\ LogOf(S)[n].previous_event_hash = LogOf(S)[n - 1].event_hash
  BY DEF Log!Linked
<1>1. PICK e \in S : e.sequence = n /\ LogOf(S)[n] = e
  BY Entries DEF Sound
<1>2. n \in Nat \ {0}
  BY <1>1 DEF Sound, Numbered
<1>3. n > 1 => \E d \in S : d.sequence = n - 1 /\ d.event_hash = e.previous_event_hash
  BY <1>1 DEF Sound, VerifyChain
<1>4. n = 1 => e.previous_event_hash = NoHash
  BY <1>1 DEF Sound, VerifyChain
<1>5. \A d \in S : d.sequence \in DOMAIN LogOf(S) /\ LogOf(S)[d.sequence] = d
  BY Entries DEF Sound
<1> QED BY <1>1, <1>2, <1>3, <1>4, <1>5

\* The chain begins as a log of one entry.
LEMMA LogInit == Init => Log!Init
<1> SUFFICES ASSUME Init PROVE Log!Init
  OBVIOUS
<1>1. Sound(events)
  BY ChainInit DEF ChainInv, AllSound
<1>2. ChainLog = LogOf(events)
  BY DEF ChainLog, LogOf
<1>3. {e.sequence : e \in events} = {1}
  BY DEF Init, NewEvent, NoEvents
<1>4. DOMAIN ChainLog = {1}
  BY <1>3 DEF ChainLog
<1> QED BY <1>1, <1>2, <1>4, LogIsLinked DEF Log!Init

\* A commit appends what the transaction inserted, and only that.
LEMMA CommitAppends ==
  ASSUME TypeOK, ChainInv, NEW t \in Txs, Commit(t)
  PROVE  Log!Append
<1> DEFINE old == LogOf(events)
           new == LogOf(events')
<1>1. /\ events' = Visible(t) /\ events' = events \cup rows[t]
      /\ Sound(events) /\ Sound(events')
  BY DEF Commit, Visible, ChainInv, AllSound
<1>2. /\ \A e \in events : e.sequence \in DOMAIN old /\ old[e.sequence] = e
      /\ \A n \in DOMAIN old : old[n] \in events /\ old[n].sequence = n
  BY <1>1, Entries DEF Sound
<1>3. /\ \A e \in events' : e.sequence \in DOMAIN new /\ new[e.sequence] = e
      /\ \A n \in DOMAIN new : new[n] \in events' /\ new[n].sequence = n
  BY <1>1, Entries DEF Sound
<1>4. Log!Linked(new)
  BY <1>1, LogIsLinked
<1>5. ChainLog = old /\ ChainLog' = new
  BY DEF ChainLog, LogOf
<1> HIDE DEF old, new
<1>6. \A n \in DOMAIN old : n \in DOMAIN new /\ new[n] = old[n]
  BY <1>1, <1>2, <1>3
<1>7. \A n \in DOMAIN new \ DOMAIN old : new[n] \in rows[t] /\ new[n].tx = t /\ new[n].sequence = n
  BY <1>1, <1>2, <1>3 DEF TypeOK
<1>8. \A m \in DOMAIN old : old[m].tx # t
  BY <1>2, ChainAssumption DEF ChainInv, Owned, Commit, Running
<1>9. \A n \in DOMAIN new \ DOMAIN old : \A m \in DOMAIN old : m < n /\ old[m].tx # new[n].tx
  BY <1>2, <1>7, <1>8 DEF ChainInv, Later
<1> QED BY <1>4, <1>5, <1>6, <1>7, <1>9 DEF Log!Append

\* Every step appends or leaves the log alone.
LEMMA LogNext == TypeOK /\ ChainInv /\ [Next]_vars => [Log!Append]_ChainLog
<1> SUFFICES ASSUME TypeOK, ChainInv, [Next]_vars PROVE Log!Append \/ ChainLog' = ChainLog
  OBVIOUS
<1>1. events' = events => ChainLog' = ChainLog
  BY DEF ChainLog
<1>2. CASE UNCHANGED vars
  BY <1>1, <1>2 DEF vars
<1>3. ASSUME NEW t \in Txs, ReadsOrLocks(t) \/ Insert(t) \/ (Running(t) /\ Rollback(t))
      PROVE  events' = events
  BY <1>3 DEF ReadsOrLocks, Begin, ReadTail, Refer, UpdateRow, LockUpdates, LockSelects,
              Insert, Rollback
<1> QED BY <1>1, <1>2, <1>3, NextCases, CommitAppends

-----------------------------------------------------------------------------
(***************************************************************************)
(* What a transaction leaves.                                              *)
(***************************************************************************)
\* The places of its script whose event a transaction has inserted.
Recorded(t) ==
  {i \in Recording(script[t]) :
     i <= done[t] \/ (i = done[t] + 1 /\ tail[t] # Unread /\ Inserted(t))}

Pairs(S) == {<<e.sequence, e.event_type>> : e \in S}

\* The events of the given places, numbered from that of the last one on.
Batch(last, s, places) == {<<last.sequence + Nth(s, i), s[i]>> : i \in places}

\* The pending events of a transaction are those of its script so far, and
\* continue the committed ones.
Pending(t) ==
  IF rows[t] = {} THEN Recorded(t) = {}
  ELSE \E last \in events :
         /\ Pairs(rows[t]) = Batch(last, script[t], Recorded(t))
         /\ \E top \in rows[t] :
              /\ top.sequence = last.sequence + Cardinality(Recorded(t))
              /\ \A e \in Visible(t) : e.sequence <= top.sequence

\* The events of a committed one are all those of its script.
Left(t) ==
  LET mine == {e \in events : e.tx = t} IN
  \E last \in events \ mine : Pairs(mine) = Batch(last, script[t], Recording(script[t]))

BatchOf(t) ==
  /\ rows[t] # {} => Running(t)
  /\ At(t, Ops) /\ tail[t] # Unread => ~Inserted(t)
  /\ Running(t) => Pending(t)
  /\ phase[t] = "committed" => Left(t)

BatchInv == \A t \in Txs : BatchOf(t)

\* A script is a sequence of words, and its places are finite in number.
LEMMA Places ==
  ASSUME TypeOK, NEW t \in Txs
  PROVE  /\ script[t] \in Seq(Vocabulary) /\ Len(script[t]) \in Nat
         /\ DOMAIN script[t] = 1 .. Len(script[t])
         /\ Recording(script[t]) \subseteq 1 .. Len(script[t])
         /\ \A i \in Recording(script[t]) : i \in Nat \ {0} /\ i <= Len(script[t])
         /\ done[t] \in Nat /\ done[t] <= Len(script[t])
         /\ IsFiniteSet(Recorded(t)) /\ Cardinality(Recorded(t)) \in Nat
<1>1. script[t] \in Seq(Vocabulary)
  <2>1. <<>> \in Seq(Vocabulary)
    OBVIOUS
  <2> QED BY <2>1, ScriptsAreSequences DEF TypeOK
<1>2. Recording(script[t]) \subseteq 1 .. Len(script[t])
  BY <1>1 DEF Recording
<1>3. IsFiniteSet(1 .. Len(script[t]))
  BY <1>1, FS_Interval
<1>4. IsFiniteSet(Recorded(t))
  <2>1. Recorded(t) \subseteq 1 .. Len(script[t])
    BY <1>2 DEF Recorded
  <2> QED BY <1>3, <2>1, FS_Subset
<1> QED BY <1>1, <1>2, <1>4, FS_CardinalityType DEF TypeOK

\* What a step of one transaction leaves to the others.
Apart(t) ==
  \A u \in Others(t) :
    /\ rows'[u] = rows[u] /\ tail'[u] = tail[u] /\ script'[u] = script[u]
    /\ done'[u] = done[u] /\ phase'[u] = phase[u]

LEMMA OthersKept ==
  ASSUME TypeOK, ChainInv, BatchInv, NEW t \in Txs, Apart(t), NEW u \in Others(t),
         events' = events \/ events' = events \cup rows[t]
  PROVE  BatchOf(u)'
<1>1. /\ u \in Txs /\ u # t
      /\ rows'[u] = rows[u] /\ tail'[u] = tail[u] /\ script'[u] = script[u]
      /\ done'[u] = done[u] /\ phase'[u] = phase[u]
  BY DEF Apart, Others
<1>2. /\ At(u, Ops)' = At(u, Ops) /\ Inserted(u)' = Inserted(u) /\ Running(u)' = Running(u)
      /\ Recorded(u)' = Recorded(u)
  BY <1>1 DEF At, Running, Finished, Op, Inserted, Recorded
<1>3. rows[u] # {} => events' = events
  BY <1>1 DEF ChainInv, OneWriter
<1>4. Running(u) => Pending(u)'
  <2>1. Running(u) => Pending(u)
    BY <1>1 DEF BatchInv, BatchOf
  <2>2. CASE rows[u] = {}
    BY <1>1, <1>2, <2>1, <2>2 DEF Pending
  <2>3. CASE rows[u] # {}
    <3>1. Visible(u)' = Visible(u) /\ events' = events
      BY <1>1, <1>3, <2>3 DEF Visible
    <3> QED BY <1>1, <1>2, <2>1, <2>3, <3>1 DEF Pending
  <2> QED BY <2>2, <2>3
<1>5. phase[u] = "committed" => Left(u)'
  <2> SUFFICES ASSUME phase[u] = "committed" PROVE Left(u)'
    OBVIOUS
  <2> DEFINE mine == {e \in events : e.tx = u}
             then == {e \in events' : e.tx = u}
  <2>1. PICK last \in events \ mine :
          Pairs(mine) = Batch(last, script[u], Recording(script[u]))
    BY <1>1 DEF BatchInv, BatchOf, Left
  <2>2. then = mine
    BY <1>1 DEF TypeOK
  <2>3. last \in events' \ then
    BY <2>1, <2>2
  <2> QED BY <1>1, <2>1, <2>2, <2>3 DEF Left
<1> QED BY <1>1, <1>2, <1>4, <1>5 DEF BatchInv, BatchOf

\* It is enough to look at the transaction that steps.
LEMMA OwnStep ==
  ASSUME TypeOK, ChainInv, BatchInv, NEW t \in Txs, Apart(t), BatchOf(t)',
         events' = events \/ events' = events \cup rows[t]
  PROVE  BatchInv'
<1>1. \A u \in Others(t) : BatchOf(u)'
  BY OthersKept
<1> QED BY <1>1 DEF BatchInv, Others

\* A step that inserts nothing and passes no event that is not inserted.
LEMMA PendingKept ==
  ASSUME TypeOK, BatchInv, NEW t \in Txs, events' = events, rows'[t] = rows[t],
         script'[t] = script[t], Recorded(t)' = Recorded(t), Running(t)
  PROVE  Pending(t)'
<1>1. Pending(t)
  BY DEF BatchInv, BatchOf
<1>2. Visible(t)' = Visible(t)
  BY DEF Visible
<1> QED BY <1>1, <1>2 DEF Pending

\* The next operation is as far as the events go that are inserted already.
LEMMA RecordedKept ==
  ASSUME TypeOK, NEW t \in Txs, script'[t] = script[t], done'[t] = done[t] + 1,
         tail'[t] # Unread => ~Inserted(t)',
         done[t] + 1 \in Recording(script[t]) => tail[t] # Unread /\ Inserted(t)
  PROVE  Recorded(t)' = Recorded(t)
<1>1. ASSUME NEW i \in Recording(script[t])
      PROVE  i <= done[t] + 1 <=>
               (i <= done[t] \/ (i = done[t] + 1 /\ tail[t] # Unread /\ Inserted(t)))
  <2>1. i \in Nat /\ done[t] \in Nat
    BY Places
  <2>2. i <= done[t] + 1 <=> (i <= done[t] \/ i = done[t] + 1)
    BY <2>1
  <2> QED BY <2>2
<1>2. Recorded(t)' = {i \in Recording(script[t]) : i <= done[t] + 1}
  BY DEF Recorded
<1> QED BY <1>1, <1>2 DEF Recorded

LEMMA BatchReads ==
  ASSUME TypeOK, ChainInv, BatchInv, NEW t \in Txs, ReadsOrLocks(t)
  PROVE  BatchInv'
<1>0. BatchOf(t)
  BY DEF BatchInv
<1>1. /\ Apart(t) /\ events' = events /\ rows' = rows
      /\ DOMAIN done = Txs /\ DOMAIN tail = Txs
  BY DEF ReadsOrLocks, Begin, ReadTail, Refer, UpdateRow, LockUpdates, LockSelects, Advance,
         Apart, Others, TypeOK
<1>2. ASSUME NEW s \in Work, Begin(t, s) PROVE BatchOf(t)'
  <2>1. rows[t] = {} /\ done[t] = 0 /\ done' = done
    BY <1>0, <1>2 DEF Begin, BatchOf, ChainInv, NotBegun, Running
  <2>2. ~Inserted(t)' /\ phase'[t] = "running"
    BY <1>1, <1>2, <2>1 DEF Inserted, Begin, TypeOK
  <2>3. \A i \in Recording(script'[t]) : i \in Nat \ {0}
    BY <1>2, ScriptsAreSequences DEF Begin, TypeOK, Recording
  <2>4. Recorded(t)' = {}
    BY <2>1, <2>2, <2>3 DEF Recorded
  <2> QED BY <1>1, <2>1, <2>2, <2>4 DEF BatchOf, Running, Pending
<1>3. ASSUME ReadTail(t) PROVE BatchOf(t)'
  <2>1. /\ Running(t) /\ script' = script /\ phase' = phase
        /\ tail'[t] = LastEvent(t)
        /\ done'[t] = IF Op(t) = "READ" THEN done[t] + 1 ELSE done[t]
    BY <1>1, <1>3 DEF ReadTail, At, Appending
  <2>2. ~Inserted(t)'
    <3>1. \A e \in rows[t] : e.sequence \in Nat /\ e.sequence <= LastEvent(t).sequence
      BY LastIsLast DEF ChainInv, AllSound, Visible, TypeOK
    <3>2. LastEvent(t).sequence \in Nat
      BY LastIsLast DEF ChainInv, AllSound, Visible, TypeOK
    <3> QED BY <1>1, <2>1, <3>1, <3>2 DEF Inserted
  <2>3. Recorded(t)' = Recorded(t)
    <3>1. CASE Op(t) = "READ"
      <4>1. done[t] + 1 \notin Recording(script[t])
        BY <3>1 DEF Op, Recording, Ops
      <4> QED BY <2>1, <2>2, <3>1, <4>1, RecordedKept
    <3>2. CASE Op(t) # "READ"
      <4>1. tail[t] = Unread
        BY <1>3, <3>2 DEF ReadTail, At
      <4> QED BY <2>1, <2>2, <3>2, <4>1 DEF Recorded
    <3> QED BY <3>1, <3>2
  <2>4. Pending(t)'
    BY <1>1, <2>1, <2>3, PendingKept
  <2> QED BY <1>0, <2>1, <2>2, <2>4 DEF BatchOf, Running
\* The next operation, whose event has not been read for.
<1>4. ASSUME ToRefer(t) \/ At(t, {"LOCK"}), Advance(t), UNCHANGED <<script, phase>>
      PROVE  BatchOf(t)'
  <2>1. /\ Running(t) /\ script' = script /\ phase' = phase
        /\ tail'[t] = Unread /\ done'[t] = done[t] + 1
    BY <1>1, <1>4 DEF ToRefer, At, Appending, Advance
  <2>2. Recorded(t)' = Recorded(t)
    <3>1. CASE At(t, Ops)
      <4>1. done[t] + 1 \notin Recording(script[t])
        BY <3>1 DEF At, Op, Recording
      <4> QED BY <2>1, <4>1, RecordedKept
    <3>2. CASE ~At(t, Ops)
      <4>1. tail[t] # Unread /\ Inserted(t)
        BY <1>4, <3>2 DEF ToRefer, At, Ops
      <4> QED BY <2>1, <4>1, RecordedKept
    <3> QED BY <3>1, <3>2
  <2>3. Pending(t)'
    BY <1>1, <2>1, <2>2, PendingKept
  <2> QED BY <1>0, <2>1, <2>3 DEF BatchOf, Running
<1>5. ASSUME UpdateRow(t) PROVE BatchOf(t)'
  <2>1. /\ At(t, Ops) /\ Running(t) /\ script' = script /\ phase' = phase
        /\ tail' = tail /\ done'[t] = done[t] + 1
    BY <1>1, <1>5 DEF UpdateRow, At, Ops
  <2>2. tail[t] # Unread => ~Inserted(t) /\ ~Inserted(t)'
    BY <1>0, <1>1, <2>1 DEF BatchOf, Inserted
  <2>3. done[t] + 1 \notin Recording(script[t])
    BY <2>1 DEF At, Op, Recording
  <2>4. Recorded(t)' = Recorded(t)
    BY <2>1, <2>2, <2>3, RecordedKept
  <2>5. Pending(t)'
    BY <1>1, <2>1, <2>4, PendingKept
  <2> QED BY <1>0, <2>1, <2>2, <2>5 DEF BatchOf, Running
<1>6. ASSUME LockUpdates(t) PROVE BatchOf(t)'
  <2>1. script' = script /\ phase' = phase /\ tail' = tail /\ done' = done
    BY <1>6 DEF LockUpdates
  <2>2. /\ At(t, Ops)' = At(t, Ops) /\ Inserted(t)' = Inserted(t) /\ Running(t)' = Running(t)
        /\ Recorded(t)' = Recorded(t)
    BY <1>1, <2>1 DEF At, Running, Finished, Op, Inserted, Recorded
  <2>3. Running(t) => Pending(t)'
    BY <1>1, <2>1, <2>2, PendingKept
  <2>4. phase[t] # "committed"
    BY <1>6 DEF LockUpdates, At, Running
  <2> QED BY <1>0, <1>1, <2>1, <2>2, <2>3, <2>4 DEF BatchOf
<1>7. BatchOf(t)'
  BY <1>2, <1>3, <1>4, <1>5, <1>6 DEF ReadsOrLocks, Refer, LockSelects
<1> QED BY <1>1, <1>7, OwnStep

\* An event is inserted right after the last one its transaction sees, which
\* is the last committed one or its own previous one.
LEMMA BatchInserts ==
  ASSUME TypeOK, ChainInv, BatchInv, NEW t \in Txs, Insert(t)
  PROVE  BatchInv'
<1> DEFINE e == NewEvent(t, Op(t), tail[t])
           i == done[t] + 1
<1>0. BatchOf(t) /\ Running(t) /\ Pending(t)
  BY DEF BatchInv, BatchOf, Insert, ToInsert, Appending
<1>1. /\ Apart(t) /\ events' = events /\ rows'[t] = rows[t] \cup {e}
      /\ script' = script /\ done' = done /\ phase' = phase /\ tail' = tail
      /\ tail[t] # Unread /\ ~Inserted(t) /\ i \in Recording(script[t])
  BY Places DEF Insert, ToInsert, Appending, Finished, Op, Recording, Apart, Others, TypeOK
<1>2. /\ e.sequence = tail[t].sequence + 1 /\ e.event_type = script[t][i]
      /\ tail[t] \in Visible(t)
  BY <1>1 DEF NewEvent, Op, TypeOK
<1> HIDE DEF e
<1>3. /\ Inserted(t)'
      /\ Recorded(t)' = Recorded(t) \cup {i} /\ i \notin Recorded(t)
      /\ Recorded(t) = {j \in Recording(script[t]) : j < i}
  <2>1. Inserted(t)'
    BY <1>1, <1>2 DEF Inserted
  <2>2. ASSUME NEW j \in Recording(script[t])
        PROVE  /\ (j <= done[t] \/ j = done[t] + 1) <=> (j <= done[t] \/ j = i)
               /\ j <= done[t] <=> j < i
    <3>1. j \in Nat /\ done[t] \in Nat
      BY Places
    <3> QED BY <3>1
  <2>3. /\ Recorded(t)' = {j \in Recording(script[t]) : j <= done[t] \/ j = done[t] + 1}
        /\ Recorded(t) = {j \in Recording(script[t]) : j <= done[t]}
    BY <1>1, <2>1 DEF Recorded
  <2>4. i \notin Recorded(t)
    BY <2>3, Places
  <2> QED BY <1>1, <2>1, <2>2, <2>3, <2>4
\* No event is later than the one that was read.
<1>4. /\ tail[t].sequence \in Nat
      /\ \A d \in Visible(t) : d.sequence \in Nat /\ d.sequence <= tail[t].sequence
  <2>1. Numbered(Visible(t)) /\ Dense(Visible(t))
    BY DEF ChainInv, AllSound, Sound
  <2>2. \A d \in Visible(t) : d.sequence # tail[t].sequence + 1
    BY DEF Insert, Free
  <2>3. tail[t].sequence \in Nat
    BY <1>2, <2>1 DEF Numbered
  <2>4. ASSUME NEW d \in Visible(t), d.sequence > tail[t].sequence PROVE FALSE
    <3>1. tail[t].sequence + 1 \in 1 .. d.sequence
      BY <2>1, <2>3, <2>4 DEF Numbered
    <3> QED BY <2>1, <2>2, <3>1 DEF Dense
  <2> QED BY <2>1, <2>3, <2>4 DEF Numbered
<1>5. \E last \in events : /\ Pairs(rows[t]) = Batch(last, script[t], Recorded(t))
                           /\ tail[t].sequence = last.sequence + Cardinality(Recorded(t))
  <2>1. CASE rows[t] = {}
    <3>1. Recorded(t) = {} /\ tail[t] \in events
      BY <1>0, <1>2, <2>1 DEF Pending, Visible
    <3>2. Pairs(rows[t]) = {} /\ Batch(tail[t], script[t], Recorded(t)) = {}
      BY <2>1, <3>1 DEF Pairs, Batch
    <3>3. Cardinality(Recorded(t)) = 0
      BY <3>1, FS_EmptySet
    <3> QED BY <1>4, <3>1, <3>2, <3>3
  <2>2. CASE rows[t] # {}
    <3>1. PICK last \in events :
            /\ Pairs(rows[t]) = Batch(last, script[t], Recorded(t))
            /\ \E top \in rows[t] :
                 /\ top.sequence = last.sequence + Cardinality(Recorded(t))
                 /\ \A d \in Visible(t) : d.sequence <= top.sequence
      BY <1>0, <2>2 DEF Pending
    <3>2. PICK top \in rows[t] :
            /\ top.sequence = last.sequence + Cardinality(Recorded(t))
            /\ \A d \in Visible(t) : d.sequence <= top.sequence
      BY <3>1
    <3>3. top.sequence = tail[t].sequence
      BY <1>2, <1>4, <3>2 DEF Visible
    <3> QED BY <3>1, <3>2, <3>3
  <2> QED BY <2>1, <2>2
<1>6. PICK last \in events :
        /\ Pairs(rows[t]) = Batch(last, script[t], Recorded(t))
        /\ tail[t].sequence = last.sequence + Cardinality(Recorded(t))
  BY <1>5
<1>7. /\ Cardinality(Recorded(t)) \in Nat
      /\ Cardinality(Recorded(t) \cup {i}) = Cardinality(Recorded(t)) + 1
      /\ Nth(script[t], i) = Cardinality(Recorded(t)) + 1
  <2>1. {j \in Recording(script[t]) : j <= i} = Recorded(t) \cup {i}
    BY <1>1, <1>3, Places
  <2>2. Cardinality(Recorded(t) \cup {i}) = Cardinality(Recorded(t)) + 1
    BY <1>3, Places, FS_AddElement
  <2> QED BY <2>1, <2>2, Places DEF Nth
<1>8. last.sequence \in Nat /\ e.sequence = last.sequence + Nth(script[t], i)
  <2>1. last.sequence \in Nat
    BY DEF TypeOK
  <2> QED BY <1>2, <1>6, <1>7, <2>1
<1>9. Pairs(rows'[t]) = Batch(last, script[t], Recorded(t)')
  <2>1. Pairs(rows'[t]) = Pairs(rows[t]) \cup {<<e.sequence, e.event_type>>}
    BY <1>1 DEF Pairs
  <2>2. Batch(last, script[t], Recorded(t) \cup {i})
          = Batch(last, script[t], Recorded(t)) \cup {<<last.sequence + Nth(script[t], i), script[t][i]>>}
    BY DEF Batch
  <2> QED BY <1>2, <1>3, <1>6, <1>8, <2>1, <2>2
<1>10. Pending(t)'
  <2>1. e \in rows'[t] /\ rows'[t] # {}
    BY <1>1
  <2>2. e.sequence = last.sequence + Cardinality(Recorded(t)')
    BY <1>3, <1>7, <1>8
  <2>3. Visible(t)' = Visible(t) \cup {e}
    BY <1>1 DEF Visible
  <2>4. \A d \in Visible(t)' : d.sequence <= e.sequence
    BY <1>2, <1>4, <2>3
  <2> QED BY <1>1, <1>9, <2>1, <2>2, <2>4 DEF Pending
<1>11. BatchOf(t)'
  <2>1. ~At(t, Ops)'
    BY <1>1 DEF At, Op, Recording
  <2> QED BY <1>0, <1>1, <1>10, <2>1 DEF BatchOf, Running
<1> QED BY <1>1, <1>11, OwnStep

\* A commit turns the pending events of the whole script into committed ones.
LEMMA BatchCommits ==
  ASSUME TypeOK, ChainInv, BatchInv, NEW t \in Txs, Commit(t)
  PROVE  BatchInv'
<1>0. Running(t) /\ Pending(t) /\ done[t] = Len(script[t])
  BY DEF BatchInv, BatchOf, Commit, Finished
<1>1. /\ Apart(t) /\ events' = events \cup rows[t] /\ rows'[t] = {}
      /\ phase'[t] = "committed" /\ script' = script
  BY DEF Commit, End, Apart, Others, TypeOK
<1>2. Recorded(t) = Recording(script[t])
  BY <1>0, Places DEF Recorded
<1> DEFINE mine == {e \in events' : e.tx = t}
<1>3. mine = rows[t] /\ \A e \in events : e.tx # t
  <2>1. \A e \in events : e.tx # t
    BY <1>0, ChainAssumption DEF ChainInv, Owned, Running
  <2> QED BY <1>1, <2>1 DEF TypeOK
<1>4. \E last \in events : Pairs(rows[t]) = Batch(last, script[t], Recorded(t))
  <2>1. CASE rows[t] = {}
    <3>1. PICK last : last \in events
      BY DEF ChainInv, AllSound, Sound, HasLast
    <3>2. Pairs(rows[t]) = {} /\ Batch(last, script[t], Recorded(t)) = {}
      BY <1>0, <2>1 DEF Pending, Pairs, Batch
    <3> QED BY <3>1, <3>2
  <2>2. CASE rows[t] # {}
    BY <1>0, <2>2 DEF Pending
  <2> QED BY <2>1, <2>2
<1>5. Left(t)'
  <2>1. PICK last \in events : Pairs(rows[t]) = Batch(last, script[t], Recorded(t))
    BY <1>4
  <2>2. last \in events' \ mine
    BY <1>1, <1>3
  <2> QED BY <1>1, <1>2, <1>3, <2>1, <2>2 DEF Left
<1>6. BatchOf(t)'
  BY <1>1, <1>5 DEF BatchOf, At, Running
<1> QED BY <1>1, <1>6, OwnStep

LEMMA BatchRollsBack ==
  ASSUME TypeOK, ChainInv, BatchInv, NEW t \in Txs, Rollback(t)
  PROVE  BatchInv'
<1>1. Apart(t) /\ events' = events /\ rows'[t] = {} /\ phase'[t] = "aborted"
  BY DEF Rollback, End, Apart, Others, TypeOK
<1>2. BatchOf(t)'
  BY <1>1 DEF BatchOf, At, Running
<1> QED BY <1>1, <1>2, OwnStep

LEMMA BatchNext == TypeOK /\ ChainInv /\ BatchInv /\ [Next]_vars => BatchInv'
<1> SUFFICES ASSUME TypeOK, ChainInv, BatchInv, [Next]_vars PROVE BatchInv'
  OBVIOUS
<1>1. ASSUME UNCHANGED vars, NEW t \in Txs PROVE BatchOf(t)'
  <2>1. BatchOf(t)
    BY DEF BatchInv
  <2> QED BY <1>1, <2>1 DEF vars, txvars, BatchOf, At, Running, Finished, Op, Inserted,
         Pending, Recorded, Left, Visible
<1>2. CASE Next
  BY <1>2, NextCases, BatchReads, BatchInserts, BatchCommits, BatchRollsBack
<1> QED BY <1>1, <1>2 DEF BatchInv

LEMMA BatchInit == Init => BatchInv
BY DEF Init, BatchInv, BatchOf, At, Running

-----------------------------------------------------------------------------
(***************************************************************************)
(* The theorems.                                                           *)
(***************************************************************************)
\* The state has the shape record_event() and the database give it: what a
\* transaction has read is an event it can see, and what it has inserted is
\* its own.
THEOREM ChainTypeOK == Spec => []TypeOK
BY AlwaysSound, PTL

\* However the writers of audit_events interleave and fail, verify_chain()
\* accepts the committed chain.
THEOREM ChainAlwaysVerifies == Spec => []ChainVerifies
<1>1. ChainInv => ChainVerifies
  BY DEF ChainInv, AllSound, Sound, ChainVerifies
<1> QED BY <1>1, AlwaysSound, PTL

\* A transaction that reads the last event under lock_session() is never
\* overtaken by another writer of the chain.
THEOREM AlwaysLockedReadsLast == Spec => []LockedReadsLast
<1>1. LockInv => LockedReadsLast
  BY DEF LockInv
<1> QED BY <1>1, AlwaysLocked, PTL

\* The committed chain implements the append-only log: it grows by whole
\* transactions, and no committed event moves, changes or goes.
THEOREM ChainImplementsLog == Spec => AppendsOnly
<1>1. TypeOK /\ ChainInv /\ [Next]_vars => [Log!Append]_ChainLog
  BY LogNext
<1> QED BY <1>1, LogInit, AlwaysSound, PTL DEF Spec, AppendsOnly, Log!Spec

\* All or nothing: the events of a committed transaction are those of its
\* whole script, in order and next to one another, and no other transaction
\* has any.
THEOREM AlwaysAllOrNothing == Spec => []AllOrNothing
<1>1. ChainInv /\ BatchInv => AllOrNothing
  <2> SUFFICES ASSUME ChainInv, BatchInv, NEW t \in Txs
               PROVE  /\ phase[t] # "committed" => {e \in events : e.tx = t} = {}
                      /\ phase[t] = "committed" => Left(t)
    BY DEF AllOrNothing, Left, Pairs, Batch
  <2>1. phase[t] # "committed" => \A e \in events : e.tx # t
    BY ChainAssumption DEF ChainInv, Owned
  <2> QED BY <2>1 DEF BatchInv, BatchOf
<1>2. Spec => []BatchInv
  BY AlwaysSound, BatchInit, BatchNext, PTL DEF Spec
<1> QED BY <1>1, <1>2, AlwaysSound, PTL
=============================================================================
