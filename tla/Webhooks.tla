------------------------------ MODULE Webhooks ------------------------------
(***************************************************************************)
(* Telling the tenant that a session has closed: from the transaction that *)
(* closes it, through the delivery row and the Celery message, to the POST *)
(* the tenant answers.                                                     *)
(*                                                                         *)
(* A run reads the delivery, makes the POST with no lock held, and writes  *)
(* the outcome in the transaction it read in.  A failed POST marks the row *)
(* FAILED, appends WEBHOOK_FAILED and raises, so db_session() rolls both   *)
(* back: no failure is ever stored, and the row stays as it was read.      *)
(* Celery retries httpx errors only; a transaction refused by the database *)
(* (two writers of the audit chain, see AuditChain) ends the run.          *)
(* The tenant has a webhook_url; without one nothing is queued.            *)
(***************************************************************************)
EXTENDS Naturals, Sequences, FiniteSets

CONSTANTS
  Closers,      \* bound: transactions that close or override at once
  Workers,      \* worker processes
  Statuses,     \* the terminal statuses in play
  MaxRetries,   \* settings.webhook_max_attempts, the retries of a message
  MaxClosings,  \* bound: transactions that close or override, ever
  MaxOutages,   \* bound: POSTs the tenant does not take
  MaxMishaps,   \* bound: answers lost, runs lost or delivered again
  MaxCollisions \* bound: outcomes the database refuses

ASSUME WebhookAssumption ==
  /\ MaxRetries \in Nat /\ MaxClosings \in Nat
  /\ MaxOutages \in Nat /\ MaxMishaps \in Nat /\ MaxCollisions \in Nat
  /\ "OPEN" \notin Statuses
  /\ "nobody" \notin Closers

VARIABLES
  status,      \* the status of the committed session row, OPEN until closed
  shown,       \* every status that was committed: what the pull API has shown
  lock,        \* who has the session row locked
  closers,     \* the closing transactions
  deliveries,  \* the committed rows of webhook_deliveries, oldest first
  queue,       \* broker: messages waiting, per <<delivery, retries so far>>
  runs,        \* what each worker is delivering
  heard,       \* how often the tenant took each delivery
  dropped,     \* deliveries of which a message was lost or given up
  closings, outages, mishaps, collisions

rowvars  == <<status, shown, lock, closers, deliveries>>
taskvars == <<queue, runs>>
faults   == <<outages, mishaps, collisions>>
vars     == <<rowvars, taskvars, heard, dropped, closings, faults>>

-----------------------------------------------------------------------------
(***************************************************************************)
(* Types.                                                                  *)
(***************************************************************************)
Ids   == 1 .. MaxClosings
Tries == 0 .. MaxRetries

Delivery == [event : Statuses, status : {"PENDING", "DELIVERED"}]

NoClose == [phase |-> "idle"]
Closer  == {NoClose} \cup [phase : {"locked"}, target : Statuses]
                     \cup [phase : {"queued"}, target : Statuses, new : BOOLEAN]
                     \cup [phase : {"sending"}, id : Ids]

NoRun == [phase |-> "idle"]
Run   == {NoRun} \cup [phase : {"posting", "accepted", "refused"}, id : Ids, tries : Tries]

TypeOK ==
  /\ status \in Statuses \cup {"OPEN"}
  /\ shown \subseteq Statuses
  /\ lock \in Closers \cup {"nobody"}
  /\ closers \in [Closers -> Closer]
  /\ deliveries \in Seq(Delivery) /\ Len(deliveries) <= closings
  /\ queue \in [Ids \X Tries -> Nat]
  /\ runs \in [Workers -> Run]
  /\ \A w \in Workers : runs[w].phase # "idle" => runs[w].id \in DOMAIN deliveries
  /\ heard \in [Ids -> Nat]
  /\ dropped \subseteq Ids
  /\ closings \in 0 .. MaxClosings
  /\ outages \in 0 .. MaxOutages
  /\ mishaps \in 0 .. MaxMishaps
  /\ collisions \in 0 .. MaxCollisions

Init ==
  /\ status = "OPEN"
  /\ shown = {}
  /\ lock = "nobody"
  /\ closers = [c \in Closers |-> NoClose]
  /\ deliveries = <<>>
  /\ queue = [m \in Ids \X Tries |-> 0]
  /\ runs = [w \in Workers |-> NoRun]
  /\ heard = [d \in Ids |-> 0]
  /\ dropped = {}
  /\ closings = 0
  /\ outages = 0 /\ mishaps = 0 /\ collisions = 0

-----------------------------------------------------------------------------
(***************************************************************************)
(* Closing, overriding or expiring the session, and queueing the event.    *)
(***************************************************************************)
\* Slip: the session is read without lock_session().
CloseUnlocked(c, target) ==
  /\ closers[c] = NoClose
  /\ closings < MaxClosings
  /\ status # target
  /\ closings' = closings + 1
  /\ closers' = [closers EXCEPT ![c] = [phase |-> "locked", target |-> target]]
  /\ UNCHANGED <<status, shown, lock, deliveries, taskvars, heard, dropped, faults>>

\* evaluate(), override_decision() and expire() hold the row lock, and queue
\* an event only when the status changes.
Close(c, target) ==
  /\ closers[c] = NoClose
  /\ closings < MaxClosings
  /\ lock = "nobody"
  /\ status # target
  /\ closings' = closings + 1
  /\ lock' = c
  /\ closers' = [closers EXCEPT ![c] = [phase |-> "locked", target |-> target]]
  /\ UNCHANGED <<status, shown, deliveries, taskvars, heard, dropped, faults>>

\* An earlier delivery of the event, not FAILED.
Existing(event) ==
  \E i \in DOMAIN deliveries : /\ deliveries[i].event = event
                               /\ deliveries[i].status \in {"PENDING", "DELIVERED"}

Send(id) == queue' = [queue EXCEPT ![<<id, 0>>] = @ + 1]

\* Slip: the row is committed on its own.
QueueAndCommit(c) ==
  /\ closers[c].phase = "locked"
  /\ ~Existing(closers[c].target)
  /\ deliveries' = Append(deliveries, [event |-> closers[c].target, status |-> "PENDING"])
  /\ Send(Len(deliveries) + 1)
  /\ closers' = [closers EXCEPT ![c] = [phase |-> "queued", target |-> @.target, new |-> FALSE]]
  /\ UNCHANGED <<status, shown, lock, runs, heard, dropped, closings, faults>>

\* Slip: only the closing is notified, not an override after it.
QueueClosingEvent(c) ==
  /\ closers[c].phase = "locked"
  /\ closers' = [closers EXCEPT ![c] = [phase |-> "queued", target |-> @.target,
                                        new |-> status = "OPEN"]]
  /\ UNCHANGED <<status, shown, lock, deliveries, taskvars, heard, dropped, closings, faults>>

QueueSessionEvent(c) ==
  /\ closers[c].phase = "locked"
  /\ closers' = [closers EXCEPT ![c] = [phase |-> "queued", target |-> @.target,
                                        new |-> ~Existing(@.target)]]
  /\ UNCHANGED <<status, shown, lock, deliveries, taskvars, heard, dropped, closings, faults>>

Unlock(c) == lock' = IF lock = c THEN "nobody" ELSE lock

Commit(c) ==
  /\ closers[c].phase = "queued"
  /\ status' = closers[c].target
  /\ shown' = shown \cup {closers[c].target}
  /\ Unlock(c)
  /\ IF closers[c].new
     THEN /\ deliveries' = Append(deliveries, [event |-> closers[c].target, status |-> "PENDING"])
          /\ closers' = [closers EXCEPT ![c] = [phase |-> "sending", id |-> Len(deliveries) + 1]]
     ELSE /\ closers' = [closers EXCEPT ![c] = NoClose]
          /\ UNCHANGED deliveries
  /\ UNCHANGED <<taskvars, heard, dropped, closings, faults>>

Abort(c) ==
  /\ closers[c].phase \in {"locked", "queued"}
  /\ Unlock(c)
  /\ closers' = [closers EXCEPT ![c] = NoClose]
  /\ UNCHANGED <<status, shown, deliveries, taskvars, heard, dropped, closings, faults>>

\* Slip: the listener is on another session object, and never called.
DispatchNothing(c) ==
  /\ closers[c].phase = "sending"
  /\ closers' = [closers EXCEPT ![c] = NoClose]
  /\ UNCHANGED <<status, shown, lock, deliveries, taskvars, heard, dropped, closings, faults>>

\* _dispatch_after_commit().
Dispatch(c) ==
  /\ closers[c].phase = "sending"
  /\ Send(closers[c].id)
  /\ closers' = [closers EXCEPT ![c] = NoClose]
  /\ UNCHANGED <<status, shown, lock, deliveries, runs, heard, dropped, closings, faults>>

\* The broker does not take the message: the row stays PENDING, and is
\* found as Existing from then on.
DispatchLost(c) ==
  /\ closers[c].phase = "sending"
  /\ mishaps < MaxMishaps
  /\ mishaps' = mishaps + 1
  /\ dropped' = dropped \cup {closers[c].id}
  /\ closers' = [closers EXCEPT ![c] = NoClose]
  /\ UNCHANGED <<status, shown, lock, deliveries, taskvars, heard, closings, outages, collisions>>

-----------------------------------------------------------------------------
(***************************************************************************)
(* The task deliver_webhook.                                               *)
(***************************************************************************)
Deliverable(d) == d \in DOMAIN deliveries /\ deliveries[d].status # "DELIVERED"

Take(d, tries) ==
  /\ queue[<<d, tries>>] > 0
  /\ queue' = [queue EXCEPT ![<<d, tries>>] = @ - 1]

StartRun(w, d, tries) ==
  /\ runs[w] = NoRun
  /\ Take(d, tries)
  /\ Deliverable(d)
  /\ runs' = [runs EXCEPT ![w] = [phase |-> "posting", id |-> d, tries |-> tries]]
  /\ UNCHANGED <<rowvars, heard, dropped, closings, faults>>

\* Missing or DELIVERED: nothing to do.
NothingToDo(w, d, tries) ==
  /\ runs[w] = NoRun
  /\ Take(d, tries)
  /\ ~Deliverable(d)
  /\ UNCHANGED <<rowvars, runs, heard, dropped, closings, faults>>

\* The tenant takes the notification and its 2xx arrives.
PostAccepted(w) ==
  /\ runs[w].phase = "posting"
  /\ heard' = [heard EXCEPT ![runs[w].id] = @ + 1]
  /\ runs' = [runs EXCEPT ![w].phase = "accepted"]
  /\ UNCHANGED <<rowvars, queue, dropped, closings, faults>>

\* The tenant takes it, but the answer does not come back in time.
PostUnanswered(w) ==
  /\ runs[w].phase = "posting"
  /\ mishaps < MaxMishaps
  /\ mishaps' = mishaps + 1
  /\ heard' = [heard EXCEPT ![runs[w].id] = @ + 1]
  /\ runs' = [runs EXCEPT ![w].phase = "refused"]
  /\ UNCHANGED <<rowvars, queue, dropped, closings, outages, collisions>>

\* Unreachable, or an error status (raise_for_status).
PostRefused(w) ==
  /\ runs[w].phase = "posting"
  /\ outages < MaxOutages
  /\ outages' = outages + 1
  /\ runs' = [runs EXCEPT ![w].phase = "refused"]
  /\ UNCHANGED <<rowvars, queue, heard, dropped, closings, mishaps, collisions>>

EndRun(w) == runs' = [runs EXCEPT ![w] = NoRun]

RecordDelivered(w) ==
  /\ runs[w].phase = "accepted"
  /\ deliveries' = [deliveries EXCEPT ![runs[w].id].status = "DELIVERED"]
  /\ EndRun(w)
  /\ UNCHANGED <<status, shown, lock, closers, queue, heard, dropped, closings, faults>>

\* Slip: one retry too few.
RetriableLess(w) == runs[w].tries + 1 < MaxRetries

Retriable(w) == runs[w].tries < MaxRetries

\* Slip: the transaction commits before the exception leaves it.
RetryRecorded(w) ==
  /\ runs[w].phase = "refused"
  /\ Retriable(w)
  /\ deliveries' = [deliveries EXCEPT ![runs[w].id].status = "FAILED"]
  /\ queue' = [queue EXCEPT ![<<runs[w].id, runs[w].tries + 1>>] = @ + 1]
  /\ EndRun(w)
  /\ UNCHANGED <<status, shown, lock, closers, heard, dropped, closings, faults>>

\* FAILED and its audit event are rolled back by the exception that has the
\* message retried ...
Retry(w) ==
  /\ runs[w].phase = "refused"
  /\ Retriable(w)
  /\ queue' = [queue EXCEPT ![<<runs[w].id, runs[w].tries + 1>>] = @ + 1]
  /\ EndRun(w)
  /\ UNCHANGED <<rowvars, heard, dropped, closings, faults>>

\* ... or given up: the row is PENDING again, for good.
GiveUp(w) ==
  /\ runs[w].phase = "refused"
  /\ ~Retriable(w)
  /\ dropped' = dropped \cup {runs[w].id}
  /\ EndRun(w)
  /\ UNCHANGED <<rowvars, queue, heard, closings, faults>>

\* Slip: autoretry_for = (Exception,), as the other tasks have it.
RetryCollided(w) ==
  /\ runs[w].phase \in {"accepted", "refused"}
  /\ collisions < MaxCollisions
  /\ collisions' = collisions + 1
  /\ runs[w].tries < MaxRetries
  /\ queue' = [queue EXCEPT ![<<runs[w].id, runs[w].tries + 1>>] = @ + 1]
  /\ EndRun(w)
  /\ UNCHANGED <<rowvars, heard, dropped, closings, outages, mishaps>>

\* The audit event collides: not an httpx error, so not retried, whether the
\* POST was taken or not.
Collide(w) ==
  /\ runs[w].phase \in {"accepted", "refused"}
  /\ collisions < MaxCollisions
  /\ collisions' = collisions + 1
  /\ dropped' = dropped \cup {runs[w].id}
  /\ EndRun(w)
  /\ UNCHANGED <<rowvars, queue, heard, closings, outages, mishaps>>

\* The worker dies; what it was doing is lost ...
LoseRun(w) ==
  /\ runs[w] # NoRun
  /\ mishaps < MaxMishaps
  /\ mishaps' = mishaps + 1
  /\ dropped' = dropped \cup {runs[w].id}
  /\ EndRun(w)
  /\ UNCHANGED <<rowvars, queue, heard, closings, outages, collisions>>

\* ... or delivered again (acks_late), perhaps while it still goes on.
Redeliver(w) ==
  /\ runs[w] # NoRun
  /\ mishaps < MaxMishaps
  /\ mishaps' = mishaps + 1
  /\ queue' = [queue EXCEPT ![<<runs[w].id, runs[w].tries>>] = @ + 1]
  /\ EndRun(w) \/ UNCHANGED runs
  /\ UNCHANGED <<rowvars, heard, dropped, closings, outages, collisions>>

Work(w) ==
  \/ \E d \in Ids, tries \in Tries : StartRun(w, d, tries) \/ NothingToDo(w, d, tries)
  \/ PostAccepted(w) \/ PostRefused(w)
  \/ RecordDelivered(w) \/ Retry(w) \/ GiveUp(w)

Next ==
  \/ \E c \in Closers :
       \/ \E target \in Statuses : Close(c, target)
       \/ QueueSessionEvent(c) \/ Commit(c) \/ Abort(c) \/ Dispatch(c) \/ DispatchLost(c)
  \/ \E w \in Workers :
       \/ Work(w)
       \/ PostUnanswered(w) \/ Collide(w) \/ LoseRun(w) \/ Redeliver(w)

Spec == Init /\ [][Next]_vars

\* Workers go on working, and a transaction that has committed runs its hook.
\* Nothing obliges anyone to close a session, or the tenant to answer well.
FairSpec ==
  /\ Spec
  /\ \A w \in Workers : WF_vars(Work(w))
  /\ \A c \in Closers : WF_vars(Dispatch(c))

-----------------------------------------------------------------------------
(***************************************************************************)
(* What notification must keep.                                            *)
(***************************************************************************)

\* However many transactions close and override the session, an event has at
\* most one delivery: the search for an existing one and the insert are two
\* steps, and the row lock holds between them (queue_session_event).
OneDeliveryPerEvent ==
  \A i, j \in DOMAIN deliveries : deliveries[i].event = deliveries[j].event => i = j

\* The tenant is only ever told a status that the pull API has shown: nothing
\* is sent for a transaction that rolls back (_dispatch_after_commit).
ToldWhatWasShown ==
  \A d \in Ids : heard[d] > 0 => d \in DOMAIN deliveries /\ deliveries[d].event \in shown

\* DELIVERED is never a guess, the tenant took that notification; and though
\* deliveries are at least once, each repetition has its mishap: a lost answer
\* or a message delivered again.  Refusals, retries and transactions the
\* database refuses repeat nothing the tenant has already taken
\* (deliver_webhook).
HeardOnceOrMishap ==
  \A d \in Ids :
    /\ d \in DOMAIN deliveries /\ deliveries[d].status = "DELIVERED" => heard[d] > 0
    /\ heard[d] <= 1 + mishaps

\* An event the tenant never heard was lost for a reason: more refused POSTs
\* than a message has retries, a lost message or run, or a collision on the
\* audit chain.  (The row says PENDING in each case, never FAILED.)
UnheardHasCause ==
  \A d \in dropped :
    heard[d] > 0 \/ outages > MaxRetries \/ mishaps > 0 \/ collisions > 0

\* Every queued event is heard by the tenant or given up for such a reason;
\* none is forgotten between the commit, the broker and the workers.
QueuedIsHeard ==
  \A d \in Ids : (d \in DOMAIN deliveries) ~> (heard[d] > 0 \/ d \in dropped)

\* The rows and what came of them as the notices of TenantNotices.
Events(ds) == {deliveries[d].event : d \in ds}
Queued     == [d \in DOMAIN deliveries |-> deliveries[d].event]
Heard      == Events({d \in DOMAIN deliveries : heard[d] > 0})
Delivered  == Events({d \in DOMAIN deliveries : deliveries[d].status = "DELIVERED"})

Notices == INSTANCE TenantNotices WITH notices <- Queued, known <- Heard, ticked <- Delivered

\* The webhooks implement the notices: for all the transactions, retries and
\* faults, no status is ever committed without the row that announces it
\* (queue_session_event runs in the transaction of the verdict), a row is never
\* renamed or taken away, the tenant hears of committed rows only, and
\* DELIVERED follows the tenant's answer and stays (deliver_webhook).
KeepsNotices == Notices!Spec
=============================================================================
