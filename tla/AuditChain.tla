----------------------------- MODULE AuditChain -----------------------------
(***************************************************************************)
(* The audit chain of one session, written by transactions that run at the *)
(* same time: requests, tasks, failure hooks, the sweep, the purge.        *)
(*                                                                         *)
(* record_event() takes no lock.  It reads the last event it can see, and  *)
(* inserts the next one with that event's hash; what keeps two writers     *)
(* apart is the unique (session_id, sequence) and, for those that call     *)
(* lock_session(), the row of kyc_sessions.  The database is PostgreSQL at *)
(* READ COMMITTED:                                                         *)
(*   - a query sees the committed rows and the transaction's own;          *)
(*   - an INSERT waits for another transaction's uncommitted row with the  *)
(*     same key, and fails when a committed row has it;                    *)
(*   - a row that references the session takes a KEY SHARE lock on it;     *)
(*   - lock_session() is an UPDATE followed by SELECT ... FOR UPDATE;      *)
(*   - a cycle of waits is broken by failing one transaction on it.        *)
(* A transaction that fails is rolled back: db_session() does so, and      *)
(* get_db() closes the session.                                            *)
(***************************************************************************)
EXTENDS Naturals, Sequences, FiniteSets

CONSTANTS
  Txs,       \* bound: the transactions that ever run
  Kinds,     \* bound: which of the writers below take part
  NoHash     \* previous_event_hash of the first event

(***************************************************************************)
(* What each writer does to the database, in order: an audit event by its  *)
(* name, REFER for another row that references the session, UPDATE for a   *)
(* plain update of the session, LOCK for lock_session().  READ is the      *)
(* query of record_event() when its flush() has an UPDATE to send before   *)
(* the event.  What a transaction does with a row it holds FOR UPDATE      *)
(* never waits and is left out, audit events excepted.  One name stands    *)
(* for the events of the good and of the bad outcome (DOCUMENT_VERIFIED    *)
(* and DOCUMENT_REJECTED, KYC_DECISION and DECISION_BLOCKED ...).          *)
(***************************************************************************)
Verdicts == {<<"LOCK">>, <<"LOCK", "KYC_DECISION">>}

Consent == {<<"READ", "UPDATE", "CONSENT_GIVEN">>, <<"CONSENT_DECLINED">>}

Upload == {<<"REFER", "UPLOADED">>}

DocumentTask == {<<"OCR_COMPLETED", "DOCUMENT_CHECKED">> \o v : v \in Verdicts}

SelfieTask ==
  {<<"REFER", "LIVENESS_FAILED">> \o v : v \in Verdicts} \cup
  {<<"REFER", "LIVENESS_PASSED", "LOCK", "FACE_MATCHED">> \o v : v \in Verdicts}

FailureHook == {<<"PROCESSING_FAILED">> \o v : v \in Verdicts}

OtpSend == {<<"REFER", "OTP_SENT">>}

OtpVerify == {<<"OTP_FAILED">>, <<"OTP_FAILED", "LOCK">>} \cup {<<"OTP_VERIFIED">> \o v : v \in Verdicts}

Override == {<<"LOCK", "DECISION_OVERRIDDEN">>}

Expiry == {<<"LOCK">>, <<"LOCK", "SESSION_EXPIRED">>}

Delivery == {<<"WEBHOOK_DELIVERED">>}

Seal == {<<"REFER", "CONTRACT_GENERATED", "HASH_GENERATED", "DOCUMENT_SIGNED", "REFER",
           "TIMESTAMPED", "REFER", "DOCUMENT_ARCHIVED", "REFER">>}

Purge == {<<"DATA_PURGED", "UPDATE">>}

Scripts ==
  [consent |-> Consent, upload |-> Upload, document |-> DocumentTask, selfie |-> SelfieTask,
   hook |-> FailureHook, otp_send |-> OtpSend, otp_verify |-> OtpVerify, override |-> Override,
   expiry |-> Expiry, delivery |-> Delivery, seal |-> Seal, purge |-> Purge]

Work == UNION {Scripts[k] : k \in Kinds}

ASSUME ChainAssumption ==
  /\ Kinds \subseteq DOMAIN Scripts
  /\ "create" \notin Txs

VARIABLES
  events,    \* the committed rows of audit_events
  script,    \* what each transaction has to do
  done,      \* how much of it is done
  phase,     \* idle, running, committed or aborted
  tail,      \* the last event each transaction read for its next one
  rows,      \* the events each transaction inserted, uncommitted
  holds      \* the locks each transaction has on the session row

txvars == <<script, done, phase, tail, rows, holds>>
vars   == <<events, txvars>>

-----------------------------------------------------------------------------
(***************************************************************************)
(* Rows and hashes.                                                        *)
(***************************************************************************)
Locks == {"KEY_SHARE", "UPDATE", "FOR_UPDATE"}
Ops   == {"READ", "REFER", "UPDATE", "LOCK"}

\* What stands for the last event before the first one, and before a read.
NoEvents == [sequence |-> 0, event_hash |-> NoHash]
Unread   == [sequence |-> 0, event_hash |-> "unread"]

\* _compute_event_hash() has no collisions: it is the tuple of what it covers.
ComputeEventHash(t, type, last) == <<last.sequence + 1, type, t, last.event_hash>>

NewEvent(t, type, last) ==
  [sequence            |-> last.sequence + 1,
   event_type          |-> type,
   tx                  |-> t,
   previous_event_hash |-> last.event_hash,
   event_hash          |-> ComputeEventHash(t, type, last)]

Op(t)       == script[t][done[t] + 1]
Finished(t) == done[t] = Len(script[t])
Running(t)  == phase[t] = "running"
At(t, ops)  == Running(t) /\ ~Finished(t) /\ Op(t) \in ops
Appending(t) == Running(t) /\ ~Finished(t) /\ Op(t) \notin Ops

Others(t)  == Txs \ {t}
Visible(t) == events \cup rows[t]

\* Slip: the last event is looked for among the committed ones only.
LastCommitted(t) ==
  CHOOSE e \in events : \A d \in events : d.sequence <= e.sequence

\* The query of record_event().  The chain is never empty: create_session()
\* records the first event in the transaction that inserts the session.
LastEvent(t) ==
  CHOOSE e \in Visible(t) : \A d \in Visible(t) : d.sequence <= e.sequence

-----------------------------------------------------------------------------
(***************************************************************************)
(* The steps of a transaction.                                             *)
(***************************************************************************)
Init ==
  /\ events = {NewEvent("create", "KYC_SESSION_CREATED", NoEvents)}
  /\ script = [t \in Txs |-> <<>>]
  /\ done   = [t \in Txs |-> 0]
  /\ phase  = [t \in Txs |-> "idle"]
  /\ tail   = [t \in Txs |-> Unread]
  /\ rows   = [t \in Txs |-> {}]
  /\ holds  = [t \in Txs |-> {}]

Begin(t, s) ==
  /\ phase[t] = "idle"
  /\ phase' = [phase EXCEPT ![t] = "running"]
  /\ script' = [script EXCEPT ![t] = s]
  /\ UNCHANGED <<events, done, tail, rows, holds>>

ReadTail(t) ==
  /\ At(t, {"READ"}) \/ (Appending(t) /\ tail[t] = Unread)
  /\ tail' = [tail EXCEPT ![t] = LastEvent(t)]
  /\ done' = IF Op(t) = "READ" THEN [done EXCEPT ![t] = @ + 1] ELSE done
  /\ UNCHANGED <<events, script, phase, rows, holds>>

\* The event is in the index, with the session row still to be referenced.
Inserted(t) == \E e \in rows[t] : e.sequence = tail[t].sequence + 1

ToInsert(t) == Appending(t) /\ tail[t] # Unread /\ ~Inserted(t)
ToRefer(t)  == At(t, {"REFER"}) \/ (Appending(t) /\ tail[t] # Unread /\ Inserted(t))

\* Slip: sequence numbers need not be unique.
FreeAnyway(t) == TRUE

Free(t) == \A u \in Txs : \A e \in Visible(u) : e.sequence # tail[t].sequence + 1

Insert(t) ==
  /\ ToInsert(t)
  /\ Free(t)
  /\ rows' = [rows EXCEPT ![t] = @ \cup {NewEvent(t, Op(t), tail[t])}]
  /\ UNCHANGED <<events, script, done, phase, tail, holds>>

\* The next operation; what was read is used for one event only.
Advance(t) ==
  /\ done' = [done EXCEPT ![t] = @ + 1]
  /\ tail' = [tail EXCEPT ![t] = Unread]

MayShare(t) == \A u \in Others(t) : "FOR_UPDATE" \notin holds[u]

\* Slip: record_event() commits where it should flush.
ReferAndCommit(t) ==
  /\ ToRefer(t)
  /\ MayShare(t)
  /\ holds' = [holds EXCEPT ![t] = {}]
  /\ events' = events \cup rows[t]
  /\ Advance(t)
  /\ UNCHANGED <<script, phase, rows>>

\* The foreign key of a new row: it ends the INSERT of an event too.
Refer(t) ==
  /\ ToRefer(t)
  /\ MayShare(t)
  /\ holds' = [holds EXCEPT ![t] = @ \cup {"KEY_SHARE"}]
  /\ Advance(t)
  /\ UNCHANGED <<events, script, phase, rows>>

MayUpdate(t) == \A u \in Others(t) : holds[u] \cap {"UPDATE", "FOR_UPDATE"} = {}

UpdateRow(t) ==
  /\ At(t, {"UPDATE"})
  /\ MayUpdate(t)
  /\ holds' = [holds EXCEPT ![t] = @ \cup {"UPDATE"}]
  /\ done' = [done EXCEPT ![t] = @ + 1]
  /\ UNCHANGED <<events, script, phase, tail, rows>>

\* lock_session(), its UPDATE ...
LockUpdates(t) ==
  /\ At(t, {"LOCK"})
  /\ "UPDATE" \notin holds[t]
  /\ MayUpdate(t)
  /\ holds' = [holds EXCEPT ![t] = @ \cup {"UPDATE"}]
  /\ UNCHANGED <<events, script, done, phase, tail, rows>>

\* Slip: lock_session() without with_for_update().
MayLockShared(t) == TRUE

MayLock(t) == \A u \in Others(t) : holds[u] = {}

\* ... and its SELECT ... FOR UPDATE.
LockSelects(t) ==
  /\ At(t, {"LOCK"})
  /\ "UPDATE" \in holds[t]
  /\ MayLock(t)
  /\ holds' = [holds EXCEPT ![t] = @ \cup {"FOR_UPDATE"}]
  /\ Advance(t)
  /\ UNCHANGED <<events, script, phase, rows>>

\* Slip: the event that was read outlives the transaction.
EndRemembering(t, outcome) ==
  /\ phase' = [phase EXCEPT ![t] = outcome]
  /\ rows' = [rows EXCEPT ![t] = {}]
  /\ UNCHANGED tail

\* The connection goes back to the pool.
End(t, outcome) ==
  /\ phase' = [phase EXCEPT ![t] = outcome]
  /\ tail' = [tail EXCEPT ![t] = Unread]
  /\ rows' = [rows EXCEPT ![t] = {}]

Commit(t) ==
  /\ Running(t) /\ Finished(t)
  /\ events' = events \cup rows[t]
  /\ End(t, "committed")
  /\ holds' = [holds EXCEPT ![t] = {}]
  /\ UNCHANGED <<script, done>>

\* Slip: the connection goes back to the pool with its transaction open.
LeaveOpen(t) ==
  /\ End(t, "aborted")
  /\ script' = [script EXCEPT ![t] = <<>>]
  /\ done' = [done EXCEPT ![t] = 0]
  /\ UNCHANGED <<events, holds>>

Rollback(t) ==
  /\ End(t, "aborted")
  /\ holds' = [holds EXCEPT ![t] = {}]
  /\ script' = [script EXCEPT ![t] = <<>>]
  /\ done' = [done EXCEPT ![t] = 0]
  /\ UNCHANGED events

\* Another transaction committed this sequence number first.
Collide(t) ==
  /\ ToInsert(t)
  /\ \E e \in events : e.sequence = tail[t].sequence + 1
  /\ Rollback(t)

\* An exception of the handler or the task, or its process gone.
Fail(t) ==
  /\ Running(t)
  /\ Rollback(t)

(***************************************************************************)
(* Waiting, and the deadlock detector.                                     *)
(***************************************************************************)
WaitsFor(t) ==
  {u \in Others(t) :
     \/ ToInsert(t) /\ \E e \in rows[u] : e.sequence = tail[t].sequence + 1
     \/ ToRefer(t) /\ "FOR_UPDATE" \in holds[u]
     \/ At(t, {"UPDATE"}) /\ holds[u] \cap {"UPDATE", "FOR_UPDATE"} # {}
     \/ At(t, {"LOCK"}) /\ "UPDATE" \notin holds[t] /\ holds[u] \cap {"UPDATE", "FOR_UPDATE"} # {}
     \/ At(t, {"LOCK"}) /\ "UPDATE" \in holds[t] /\ holds[u] # {}}

\* A set of transactions in which each waits for one and is waited for by one.
OnCycle(t) ==
  \E S \in SUBSET Txs :
    /\ t \in S
    /\ \A u \in S : /\ WaitsFor(u) \cap S # {}
                    /\ \E v \in S : u \in WaitsFor(v)

BreakDeadlock(t) ==
  /\ Running(t)
  /\ OnCycle(t)
  /\ Rollback(t)

Step(t) ==
  \/ ReadTail(t) \/ Insert(t) \/ Refer(t) \/ UpdateRow(t)
  \/ LockUpdates(t) \/ LockSelects(t) \/ Commit(t) \/ Collide(t)

Next ==
  \E t \in Txs :
    \/ \E s \in Work : Begin(t, s)
    \/ Step(t)
    \/ Fail(t)
    \/ BreakDeadlock(t)

Spec == Init /\ [][Next]_vars

\* The database does something as long as some transaction is not waiting or
\* there is a deadlock to break; nothing obliges a transaction to begin or to
\* fail.
FairSpec == Spec /\ WF_vars(\E t \in Txs : Step(t) \/ BreakDeadlock(t))

-----------------------------------------------------------------------------
(***************************************************************************)
(* What the chain must keep.                                               *)
(***************************************************************************)
TypeOK ==
  /\ \A e \in events : e.sequence \in Nat \ {0} /\ e.tx \in Txs \cup {"create"}
  /\ script \in [Txs -> Work \cup {<<>>}]
  /\ done \in [Txs -> Nat]
  /\ phase \in [Txs -> {"idle", "running", "committed", "aborted"}]
  /\ DOMAIN tail = Txs /\ DOMAIN rows = Txs
  /\ \A t \in Txs : /\ done[t] \in 0 .. Len(script[t])
                    /\ tail[t] = Unread \/ tail[t] \in Visible(t)
                    /\ \A e \in rows[t] : e.sequence \in Nat \ {0} /\ e.tx = t
  /\ holds \in [Txs -> SUBSET Locks]

\* verify_chain(): sorted by sequence, each event is at its own index, links
\* to the one before it, and has the hash its content computes to.
VerifyChain(chain) ==
  \A e \in chain :
    /\ e.event_hash = <<e.sequence, e.event_type, e.tx, e.previous_event_hash>>
    /\ \A d \in chain : d.sequence = e.sequence => d = e
    /\ e.sequence = 1 => e.previous_event_hash = NoHash
    /\ e.sequence > 1 => \E d \in chain : /\ d.sequence = e.sequence - 1
                                          /\ d.event_hash = e.previous_event_hash

\* Whatever transactions run at the same time, and whichever of them fail,
\* an export of the committed events verifies: no fork, no hole, no bad link
\* (audit.verify_chain on record_event's output).
ChainVerifies == VerifyChain(events)

\* The places of a script where an event is recorded, and how many of them
\* there are up to a place.
Recording(s) == {i \in DOMAIN s : s[i] \notin Ops}
Nth(s, i)    == Cardinality({j \in Recording(s) : j <= i})

\* All or nothing: a committed transaction has left every event of its
\* script, in order, next to one another and after an event of another
\* transaction; any other has left none (db_session and get_db roll back).
AllOrNothing ==
  \A t \in Txs :
    LET mine == {e \in events : e.tx = t}
        s    == script[t]
    IN  /\ phase[t] # "committed" => mine = {}
        /\ phase[t] = "committed" =>
             \E last \in events \ mine :
               {<<e.sequence, e.event_type>> : e \in mine} =
                 {<<last.sequence + Nth(s, i), s[i]>> : i \in Recording(s)}

\* What lock_session() is worth to the audit chain: a transaction that reads
\* the last event while it has the row FOR UPDATE is never overtaken, so a
\* KYC_DECISION or a DECISION_OVERRIDDEN is never lost to a collision.
LockedReadsLast ==
  \A t \in Txs :
    "FOR_UPDATE" \in holds[t] /\ tail[t] # Unread =>
      \A e \in events : e.sequence <= tail[t].sequence

\* The committed events as the log of AppendOnlyLog.
ChainLog == [n \in {e.sequence : e \in events} |-> CHOOSE e \in events : e.sequence = n]

Log == INSTANCE AppendOnlyLog WITH log <- ChainLog

\* The chain implements the append-only log: transactions append whole
\* batches, and nothing committed moves, changes or goes.
AppendsOnly == Log!Spec

\* Nobody waits for ever: every transaction commits or is rolled back.  The
\* writers take the index entry of their event and the session row in both
\* orders, so this rests on the deadlock detector.
EveryTransactionEnds ==
  \A t \in Txs : phase[t] = "running" ~> phase[t] \in {"committed", "aborted"}
=============================================================================
