---------------------------- MODULE WebhooksProofs ----------------------------
(***************************************************************************)
(* Theorems about Webhooks, for any number of closing transactions,        *)
(* workers, statuses, retries and faults.                                  *)
(*                                                                         *)
(* The argument.  The transaction that is between lock_session() and its   *)
(* commit is the one that has the row lock (Locking), so nobody adds a     *)
(* delivery between its search for an existing one and its insert          *)
(* (NewIsNew).  A delivery, a message, a run and a notification each exist *)
(* only after the commit that made them (Committed).  As long as no answer *)
(* and no run was lost, a message's retries are so many refused POSTs      *)
(* (RetriesWereRefused).  What may still have the tenant hear of a         *)
(* delivery, its chances, are handed on from the commit to the broker to a *)
(* run and back; a chance is used up when the tenant takes the             *)
(* notification, and none is added without a mishap (Budget).              *)
(***************************************************************************)
EXTENDS Webhooks, FiniteSetTheorems, SequenceTheorems, TLAPS

-----------------------------------------------------------------------------
(***************************************************************************)
(* The inductive invariant.                                                *)
(***************************************************************************)
Closing(c) == closers[c].phase \in {"locked", "queued"}

\* The second part: a closing transaction has a delivery's number to itself.
Locking ==
  /\ \A c \in Closers : Closing(c) <=> lock = c
  /\ lock # "nobody" => Len(deliveries) < closings

NewIsNew ==
  \A c \in Closers : closers[c].phase = "queued" /\ closers[c].new => ~Existing(closers[c].target)

Committed ==
  /\ \A i \in DOMAIN deliveries : deliveries[i].event \in shown
  /\ \A c \in Closers : closers[c].phase = "sending" => closers[c].id \in DOMAIN deliveries
  /\ \A d \in Ids, k \in Tries : queue[<<d, k>>] > 0 => d \in DOMAIN deliveries
  /\ \A d \in Ids : heard[d] > 0 => d \in DOMAIN deliveries

RetriesWereRefused ==
  mishaps = 0 =>
    /\ \A d \in Ids, k \in Tries : queue[<<d, k>>] > 0 => k <= outages
    /\ \A w \in Workers : runs[w].phase # "idle" => runs[w].tries <= outages
    /\ \A w \in Workers : runs[w].phase = "refused" => runs[w].tries < outages

RowInv == Locking /\ NewIsNew /\ OneDeliveryPerEvent

Inv == TypeOK /\ RowInv /\ Committed /\ RetriesWereRefused /\ UnheardHasCause

-----------------------------------------------------------------------------
(***************************************************************************)
(* The steps by what they touch.                                           *)
(***************************************************************************)
RowStep(c) ==
  \/ \E target \in Statuses : Close(c, target)
  \/ QueueSessionEvent(c) \/ Commit(c) \/ Abort(c)

DispatchStep(c) == Dispatch(c) \/ DispatchLost(c)

TaskStep(w) ==
  \/ \E d \in Ids, tries \in Tries : StartRun(w, d, tries) \/ NothingToDo(w, d, tries)
  \/ PostAccepted(w) \/ PostUnanswered(w) \/ PostRefused(w)
  \/ Retry(w) \/ GiveUp(w) \/ Collide(w) \/ LoseRun(w) \/ Redeliver(w)

LEMMA NextCases ==
  ASSUME Next
  PROVE  \/ \E c \in Closers : RowStep(c) \/ DispatchStep(c)
         \/ \E w \in Workers : TaskStep(w) \/ RecordDelivered(w)
BY DEF Next, Work, RowStep, DispatchStep, TaskStep

LEMMA InitInv == Init => Inv
<1> SUFFICES ASSUME Init PROVE Inv
  OBVIOUS
<1> USE DEF Init
<1>1. TypeOK
  BY WebhookAssumption DEF TypeOK, Closer, NoClose, Run, NoRun
<1>2. RowInv
  BY WebhookAssumption DEF RowInv, Locking, Closing, NewIsNew, OneDeliveryPerEvent, NoClose
<1>3. Committed
  BY DEF Committed, NoClose
<1>4. RetriesWereRefused /\ UnheardHasCause
  BY DEF RetriesWereRefused, UnheardHasCause, NoRun
<1> QED BY <1>1, <1>2, <1>3, <1>4 DEF Inv

-----------------------------------------------------------------------------
(***************************************************************************)
(* Type correctness.                                                       *)
(***************************************************************************)
\* What the phase of a closer says of the rest of it, and that of a run.
Phased ==
  /\ \A c \in Closers :
       /\ closers[c].phase \in {"idle", "locked", "queued", "sending"}
       /\ Closing(c) => closers[c].target \in Statuses
       /\ closers[c].phase = "queued" => closers[c].new \in BOOLEAN
       /\ closers[c].phase = "sending" => closers[c].id \in Ids
  /\ \A w \in Workers :
       /\ runs[w].phase \in {"idle", "posting", "accepted", "refused"}
       /\ runs[w] # NoRun => /\ runs[w].phase # "idle"
                             /\ runs[w] = [phase |-> runs[w].phase, id |-> runs[w].id,
                                           tries |-> runs[w].tries]
                             /\ runs[w].id \in Ids /\ runs[w].tries \in Tries
                             /\ runs[w].id \in DOMAIN deliveries
       /\ runs[w] = NoRun => runs[w].phase = "idle"

LEMMA Phases == TypeOK => Phased
<1> SUFFICES ASSUME TypeOK PROVE Phased
  OBVIOUS
<1>1. \A c \in Closers : closers[c] \in Closer
  BY DEF TypeOK
<1>2. \A w \in Workers : runs[w] \in Run
  BY DEF TypeOK
<1>3. \A w \in Workers : runs[w].phase # "idle" => runs[w].id \in DOMAIN deliveries
  BY DEF TypeOK
<1> QED BY <1>1, <1>2, <1>3 DEF Phased, Closer, NoClose, Closing, Run, NoRun

\* What a step on the rows or the broker by c leaves well typed.
LEMMA TypeOKRow ==
  ASSUME TypeOK, RowInv, Committed, NEW c \in Closers, RowStep(c) \/ DispatchStep(c)
  PROVE  TypeOK'
<1>0. Phased
  BY Phases
<1> USE DEF TypeOK
\* The rest of the state when c only goes to its next phase.
<1>1. ASSUME NEW x \in Closer, closers' = [closers EXCEPT ![c] = x],
             lock' \in Closers \cup {"nobody"}, closings' \in 0 .. MaxClosings, closings <= closings',
             UNCHANGED <<status, shown, deliveries, taskvars, heard, dropped, faults>>
      PROVE  TypeOK'
  BY <1>1 DEF taskvars, faults
<1>2. ASSUME NEW target \in Statuses, Close(c, target) PROVE TypeOK'
  <2>1. [phase |-> "locked", target |-> target] \in Closer
    BY DEF Closer
  <2>2. closings + 1 \in 0 .. MaxClosings
    BY <1>2, WebhookAssumption DEF Close
  <2>3. closings <= closings + 1
    BY WebhookAssumption
  <2> QED BY <1>1, <1>2, <2>1, <2>2, <2>3 DEF Close
<1>3. CASE QueueSessionEvent(c)
  <2>1. closers[c].target \in Statuses
    BY <1>3, <1>0 DEF Phased, QueueSessionEvent, Closing
  <2>2. [phase |-> "queued", target |-> closers[c].target,
         new |-> ~Existing(closers[c].target)] \in Closer
    BY <2>1 DEF Closer
  <2>3. closings <= closings
    BY WebhookAssumption
  <2>4. closers' = [closers EXCEPT ![c] = [phase |-> "queued", target |-> closers[c].target,
                                           new |-> ~Existing(closers[c].target)]]
    BY <1>3 DEF QueueSessionEvent
  <2> QED BY <1>1, <1>3, <2>2, <2>3, <2>4 DEF QueueSessionEvent
<1>4. CASE Commit(c)
  <2>1. closers[c].target \in Statuses
    BY <1>4, <1>0 DEF Phased, Commit, Closing
  <2>2. Len(deliveries) + 1 <= closings /\ Len(deliveries) + 1 \in Ids
    BY <1>4, WebhookAssumption DEF Commit, RowInv, Locking, Closing, Ids
  <2>3. NoClose \in Closer /\ [phase |-> "sending", id |-> Len(deliveries) + 1] \in Closer
    BY <2>2 DEF Closer
  <2>4. closers' \in [Closers -> Closer]
    BY <1>4, <2>3 DEF Commit
  <2>5. [event |-> closers[c].target, status |-> "PENDING"] \in Delivery
    BY <2>1 DEF Delivery
  <2>6. /\ deliveries' \in Seq(Delivery) /\ Len(deliveries') <= closings
        /\ DOMAIN deliveries \subseteq DOMAIN deliveries'
    <3>1. CASE deliveries' = deliveries
      BY <3>1
    <3>2. CASE deliveries' = Append(deliveries, [event |-> closers[c].target, status |-> "PENDING"])
      BY <2>2, <2>5, <3>2
    <3> QED BY <1>4, <3>1, <3>2 DEF Commit
  <2>7. /\ status' \in Statuses \cup {"OPEN"} /\ shown' \subseteq Statuses
        /\ lock' \in Closers \cup {"nobody"}
        /\ UNCHANGED <<queue, runs, heard, dropped, closings, outages, mishaps, collisions>>
    BY <1>4, <2>1 DEF Commit, Unlock, taskvars, faults
  <2> QED BY <2>4, <2>6, <2>7
<1>5. CASE Abort(c)
  <2>1. NoClose \in Closer /\ closings <= closings
    BY WebhookAssumption DEF Closer
  <2> QED BY <1>1, <1>5, <2>1 DEF Abort, Unlock
<1>6. CASE Dispatch(c)
  <2>1. closers[c].id \in Ids /\ <<closers[c].id, 0>> \in Ids \X Tries
    BY <1>6, <1>0, WebhookAssumption DEF Phased, Dispatch, Tries
  <2>2. queue' \in [Ids \X Tries -> Nat]
    BY <1>6, <2>1 DEF Dispatch, Send
  <2>3. closers' \in [Closers -> Closer]
    BY <1>6 DEF Dispatch, Closer
  <2> QED BY <1>6, <2>2, <2>3 DEF Dispatch, faults
<1>7. CASE DispatchLost(c)
  <2>1. closers[c].id \in Ids
    BY <1>7, <1>0 DEF Phased, DispatchLost
  <2>2. closers' \in [Closers -> Closer]
    BY <1>7 DEF DispatchLost, Closer
  <2>3. mishaps' \in 0 .. MaxMishaps
    BY <1>7, WebhookAssumption DEF DispatchLost
  <2> QED BY <1>7, <2>1, <2>2, <2>3 DEF DispatchLost, taskvars
<1> QED BY <1>2, <1>3, <1>4, <1>5, <1>6, <1>7 DEF RowStep, DispatchStep

LEMMA TypeOKTask ==
  ASSUME TypeOK, Committed, NEW w \in Workers, TaskStep(w) \/ RecordDelivered(w)
  PROVE  TypeOK'
<1>0. Phased
  BY Phases
<1> USE DEF TypeOK
<1>1. /\ UNCHANGED <<status, shown, lock, closers, closings>>
      /\ Len(deliveries') = Len(deliveries) /\ DOMAIN deliveries' = DOMAIN deliveries
      /\ deliveries' \in Seq(Delivery)
  <2>1. CASE TaskStep(w)
    BY <2>1 DEF TaskStep, StartRun, NothingToDo, PostAccepted, PostUnanswered, PostRefused, Retry, GiveUp,
              Collide, LoseRun, Redeliver, rowvars
  <2>2. CASE RecordDelivered(w)
    <3>1. runs[w].id \in DOMAIN deliveries
      BY <2>2, <1>0 DEF Phased, RecordDelivered
    <3>2. deliveries[runs[w].id] \in Delivery
      BY <3>1
    <3>3. [deliveries[runs[w].id] EXCEPT !.status = "DELIVERED"] \in Delivery
      BY <3>2 DEF Delivery
    <3> QED BY <2>2, <3>1, <3>3 DEF RecordDelivered
  <2> QED BY <2>1, <2>2
<1>2. /\ outages' \in 0 .. MaxOutages /\ mishaps' \in 0 .. MaxMishaps /\ collisions' \in 0 .. MaxCollisions
  BY WebhookAssumption DEF TaskStep, StartRun, NothingToDo, PostAccepted, PostUnanswered, PostRefused, Retry,
       GiveUp, Collide, LoseRun, Redeliver, RecordDelivered, faults
<1>3. heard' \in [Ids -> Nat] /\ dropped' \subseteq Ids
  BY <1>0 DEF Phased, TaskStep, StartRun, NothingToDo, PostAccepted, PostUnanswered, PostRefused, Retry,
       GiveUp, Collide, LoseRun, Redeliver, RecordDelivered
<1>4. queue' \in [Ids \X Tries -> Nat]
  <2>1. ASSUME NEW d \in Ids, NEW k \in Tries, Take(d, k) PROVE queue' \in [Ids \X Tries -> Nat]
    BY <2>1 DEF Take
  <2>2. ASSUME NEW m \in Ids \X Tries, queue' = [queue EXCEPT ![m] = @ + 1]
        PROVE  queue' \in [Ids \X Tries -> Nat]
    BY <2>2
  <2>3. CASE Retry(w)
    <3>1. <<runs[w].id, runs[w].tries + 1>> \in Ids \X Tries
      BY <2>3, <1>0, WebhookAssumption DEF Phased, Retry, Retriable, Tries
    <3> QED BY <2>2, <2>3, <3>1 DEF Retry
  <2>4. CASE Redeliver(w)
    <3>1. <<runs[w].id, runs[w].tries>> \in Ids \X Tries
      BY <2>4, <1>0 DEF Phased, Redeliver, NoRun
    <3> QED BY <2>2, <2>4, <3>1 DEF Redeliver
  <2> QED
    BY <2>1, <2>3, <2>4 DEF TaskStep, StartRun, NothingToDo, PostAccepted, PostUnanswered, PostRefused,
         GiveUp, Collide, LoseRun, RecordDelivered
<1> DEFINE RunsOK == /\ runs' \in [Workers -> Run]
                     /\ \A v \in Workers : runs'[v].phase # "idle" => runs'[v].id \in DOMAIN deliveries
<1>5. RunsOK
  <2>1. ASSUME NEW x \in Run, x.phase # "idle" => x.id \in DOMAIN deliveries,
               runs' = [runs EXCEPT ![w] = x]
        PROVE  RunsOK
    BY <2>1
  <2>2. CASE runs' = runs
    BY <2>2
  <2>3. CASE EndRun(w)
    BY <2>1, <2>3 DEF EndRun, Run, NoRun
  <2>4. ASSUME NEW d \in Ids, NEW k \in Tries, StartRun(w, d, k) PROVE RunsOK
    <3>1. [phase |-> "posting", id |-> d, tries |-> k] \in Run
      BY DEF Run
    <3> QED BY <2>1, <2>4, <3>1 DEF StartRun, Deliverable
  <2>5. ASSUME NEW p \in {"accepted", "refused"}, runs[w].phase = "posting",
               runs' = [runs EXCEPT ![w].phase = p]
        PROVE  RunsOK
    <3>1. [runs[w] EXCEPT !.phase = p] = [phase |-> p, id |-> runs[w].id, tries |-> runs[w].tries]
      BY <2>5, <1>0 DEF Phased
    <3>2. [phase |-> p, id |-> runs[w].id, tries |-> runs[w].tries] \in Run
      BY <2>5, <1>0 DEF Phased, Run
    <3>3. runs' = [runs EXCEPT ![w] = [phase |-> p, id |-> runs[w].id, tries |-> runs[w].tries]]
      BY <2>5, <3>1
    <3> QED BY <2>1, <2>5, <3>2, <3>3, <1>0 DEF Phased
  <2> QED
    BY <2>2, <2>3, <2>4, <2>5 DEF TaskStep, NothingToDo, PostAccepted, PostUnanswered, PostRefused,
         Retry, GiveUp, Collide, LoseRun, Redeliver, RecordDelivered
<1> QED BY <1>1, <1>2, <1>3, <1>4, <1>5

-----------------------------------------------------------------------------
(***************************************************************************)
(* The rows.                                                               *)
(***************************************************************************)
\* A message or a run never adds a delivery or renames its event, and leaves
\* the closing transactions alone.
LEMMA RowsKept ==
  ASSUME TypeOK, NEW w \in Workers, TaskStep(w) \/ RecordDelivered(w)
  PROVE  /\ UNCHANGED <<status, lock, closers, closings>>
         /\ DOMAIN deliveries' = DOMAIN deliveries /\ Len(deliveries') = Len(deliveries)
         /\ \A i \in DOMAIN deliveries : deliveries'[i].event = deliveries[i].event
         /\ \A e : Existing(e)' <=> Existing(e)
<1>0. Phased
  BY Phases
<1>1. /\ UNCHANGED <<status, lock, closers, closings>>
      /\ DOMAIN deliveries' = DOMAIN deliveries /\ Len(deliveries') = Len(deliveries)
      /\ \A i \in DOMAIN deliveries : /\ deliveries'[i].event = deliveries[i].event
                                      /\ deliveries'[i].status \in {"PENDING", "DELIVERED"}
  <2>1. \A i \in DOMAIN deliveries : deliveries[i] \in Delivery
    BY DEF TypeOK
  <2>2. CASE TaskStep(w)
    BY <2>1, <2>2 DEF TaskStep, StartRun, NothingToDo, PostAccepted, PostUnanswered, PostRefused, Retry,
              GiveUp, Collide, LoseRun, Redeliver, rowvars, Delivery
  <2>3. CASE RecordDelivered(w)
    BY <2>1, <2>3, <1>0 DEF Phased, RecordDelivered, NoRun, TypeOK, Delivery
  <2> QED BY <2>2, <2>3
<1>2. \A i \in DOMAIN deliveries : deliveries[i].status \in {"PENDING", "DELIVERED"}
  <2>1. \A i \in DOMAIN deliveries : deliveries[i] \in Delivery
    BY DEF TypeOK
  <2> QED BY <2>1 DEF Delivery
<1>3. \A e : Existing(e)' <=> Existing(e)
  BY <1>1, <1>2 DEF Existing
<1> QED BY <1>1, <1>3

LEMMA RowInvTask ==
  ASSUME TypeOK, RowInv, NEW w \in Workers, TaskStep(w) \/ RecordDelivered(w)
  PROVE  RowInv'
BY RowsKept DEF RowInv, Locking, Closing, NewIsNew, OneDeliveryPerEvent

LEMMA RowInvDispatch ==
  ASSUME TypeOK, RowInv, NEW c \in Closers, DispatchStep(c)
  PROVE  RowInv'
<1>1. /\ UNCHANGED <<lock, deliveries, closings>>
      /\ closers' = [closers EXCEPT ![c] = NoClose] /\ closers[c].phase = "sending"
  BY DEF DispatchStep, Dispatch, DispatchLost
<1>2. \A b \in Closers : closers'[b] = IF b = c THEN NoClose ELSE closers[b]
  BY <1>1 DEF TypeOK
<1> QED BY <1>1, <1>2 DEF RowInv, Locking, Closing, NewIsNew, OneDeliveryPerEvent, NoClose, Existing

\* Only the transaction that has the lock searches and inserts.
LEMMA RowInvRow ==
  ASSUME TypeOK, RowInv, NEW c \in Closers, RowStep(c)
  PROVE  RowInv'
<1>0. Phased /\ "nobody" \notin Closers
  BY Phases, WebhookAssumption
\* The closers after a step that makes x of c.
<1>1. ASSUME NEW x, closers' = [closers EXCEPT ![c] = x]
      PROVE  closers'[c] = x /\ \A b \in Closers \ {c} : closers'[b] = closers[b]
  BY <1>1 DEF TypeOK
<1>2. ASSUME NEW target \in Statuses, Close(c, target) PROVE RowInv'
  <2>1. /\ closers'[c] = [phase |-> "locked", target |-> target]
        /\ \A b \in Closers \ {c} : closers'[b] = closers[b]
    BY <1>1, <1>2 DEF Close
  <2>2. Len(deliveries) <= closings /\ closings \in Nat /\ Len(deliveries) \in Nat
    BY WebhookAssumption DEF TypeOK
  <2>3. Locking'
    <3>1. lock = "nobody" /\ lock' = c /\ closings' = closings + 1 /\ deliveries' = deliveries
      BY <1>2 DEF Close
    <3>2. \A b \in Closers \ {c} : ~Closing(b)'
      BY <1>0, <2>1, <3>1 DEF RowInv, Locking, Closing
    <3>3. Closing(c)'
      BY <2>1 DEF Closing
    <3> QED BY <2>2, <3>1, <3>2, <3>3 DEF Locking
  <2>4. NewIsNew' /\ OneDeliveryPerEvent'
    BY <1>2, <2>1 DEF Close, RowInv, NewIsNew, OneDeliveryPerEvent, Existing
  <2> QED BY <2>3, <2>4 DEF RowInv
<1>3. CASE QueueSessionEvent(c)
  <2>1. /\ closers'[c] = [phase |-> "queued", target |-> closers[c].target,
                          new |-> ~Existing(closers[c].target)]
        /\ \A b \in Closers \ {c} : closers'[b] = closers[b]
        /\ UNCHANGED <<lock, deliveries, closings>> /\ closers[c].phase = "locked"
    BY <1>1, <1>3 DEF QueueSessionEvent
  <2>2. Locking'
    BY <2>1 DEF RowInv, Locking, Closing
  <2>3. \A e : Existing(e)' <=> Existing(e)
    BY <2>1 DEF Existing
  <2>4. NewIsNew'
    <3>1. \A b \in Closers \ {c} :
            closers'[b].phase = "queued" /\ closers'[b].new => ~Existing(closers[b].target)'
      BY <2>1, <2>3 DEF RowInv, NewIsNew
    <3>2. closers'[c].new = ~Existing(closers[c].target) /\ closers'[c].target = closers[c].target
      BY <2>1
    <3>3. closers'[c].new => ~Existing(closers[c].target)'
      BY <2>3, <3>2, Zenon
    <3> QED BY <3>1, <3>3 DEF NewIsNew
  <2> QED BY <2>1, <2>2, <2>4 DEF RowInv, OneDeliveryPerEvent
<1>4. CASE Commit(c) \/ Abort(c)
  <2>1. /\ Closing(c) /\ lock = c /\ lock' = "nobody"
        /\ \A b \in Closers \ {c} : closers'[b] = closers[b] /\ ~Closing(b)
        /\ closers'[c].phase \in {"idle", "sending"}
    BY <1>4 DEF Commit, Abort, Unlock, RowInv, Locking, Closing, TypeOK, NoClose
  <2>2. Locking' /\ NewIsNew'
    BY <1>0, <2>1 DEF Locking, NewIsNew, Closing
  <2>3. OneDeliveryPerEvent'
    <3>1. CASE deliveries' = deliveries
      BY <3>1 DEF RowInv, OneDeliveryPerEvent
    <3>2. CASE deliveries' # deliveries
      <4>1. /\ closers[c].phase = "queued" /\ closers[c].new
            /\ deliveries' = Append(deliveries, [event |-> closers[c].target, status |-> "PENDING"])
        BY <1>4, <3>2 DEF Commit, Abort
      <4>2. ~Existing(closers[c].target)
        BY <4>1 DEF RowInv, NewIsNew
      <4>3. \A i \in DOMAIN deliveries : deliveries[i] \in Delivery
        BY DEF TypeOK
      <4>4. \A i \in DOMAIN deliveries : deliveries[i].event # closers[c].target
        BY <4>2, <4>3 DEF Existing, Delivery
      <4>5. /\ DOMAIN deliveries' = DOMAIN deliveries \cup {Len(deliveries) + 1}
            /\ deliveries'[Len(deliveries) + 1].event = closers[c].target
            /\ \A i \in DOMAIN deliveries : deliveries'[i] = deliveries[i]
        BY <4>1 DEF TypeOK
      <4> QED BY <4>4, <4>5 DEF RowInv, OneDeliveryPerEvent
    <3> QED BY <3>1, <3>2
  <2> QED BY <2>2, <2>3 DEF RowInv
<1> QED BY <1>2, <1>3, <1>4 DEF RowStep

-----------------------------------------------------------------------------
(***************************************************************************)
(* What exists only after the commit that made it.                         *)
(***************************************************************************)
LEMMA CommittedRow ==
  ASSUME TypeOK, Committed, NEW c \in Closers, RowStep(c)
  PROVE  Committed'
<1>1. UNCHANGED <<queue, heard>>
  BY DEF RowStep, Close, QueueSessionEvent, Commit, Abort, taskvars
<1>2. CASE ~Commit(c)
  <2>1. UNCHANGED <<deliveries, shown>>
    BY <1>2 DEF RowStep, Close, QueueSessionEvent, Abort
  <2>2. \A b \in Closers : closers'[b].phase = "sending" => closers'[b] = closers[b]
    BY <1>2 DEF RowStep, Close, QueueSessionEvent, Abort, NoClose, TypeOK
  <2> QED BY <1>1, <2>1, <2>2 DEF Committed
<1>3. CASE Commit(c)
  <2>1. /\ \A b \in Closers \ {c} : closers'[b] = closers[b]
        /\ shown' = shown \cup {closers[c].target}
    BY <1>3 DEF Commit, TypeOK
  <2>2. CASE ~closers[c].new
    <3>1. UNCHANGED deliveries /\ closers'[c].phase = "idle"
      BY <1>3, <2>2 DEF Commit, NoClose, TypeOK
    <3> QED BY <1>1, <2>1, <3>1 DEF Committed
  <2>3. CASE closers[c].new
    <3>1. /\ deliveries' = Append(deliveries, [event |-> closers[c].target, status |-> "PENDING"])
          /\ closers'[c].id = Len(deliveries) + 1
      BY <1>3, <2>3 DEF Commit, TypeOK
    <3>2. /\ DOMAIN deliveries' = DOMAIN deliveries \cup {Len(deliveries) + 1}
          /\ deliveries'[Len(deliveries) + 1].event = closers[c].target
          /\ \A i \in DOMAIN deliveries : deliveries'[i] = deliveries[i]
      BY <3>1 DEF TypeOK
    <3>3. \A i \in DOMAIN deliveries' : deliveries'[i].event \in shown'
      BY <2>1, <3>2 DEF Committed
    <3>4. \A b \in Closers : closers'[b].phase = "sending" => closers'[b].id \in DOMAIN deliveries'
      BY <2>1, <3>1, <3>2 DEF Committed
    <3> QED BY <1>1, <3>2, <3>3, <3>4 DEF Committed
  <2> QED BY <2>2, <2>3
<1> QED BY <1>2, <1>3

LEMMA CommittedDispatch ==
  ASSUME TypeOK, Committed, NEW c \in Closers, DispatchStep(c)
  PROVE  Committed'
<1>0. Phased
  BY Phases
<1>1. /\ UNCHANGED <<shown, deliveries, heard>>
      /\ closers' = [closers EXCEPT ![c] = NoClose]
      /\ closers[c].phase = "sending" /\ closers[c].id \in Ids /\ closers[c].id \in DOMAIN deliveries
      /\ queue' = [queue EXCEPT ![<<closers[c].id, 0>>] = @ + 1] \/ queue' = queue
  BY <1>0 DEF Phased, DispatchStep, Dispatch, DispatchLost, Send, taskvars, Committed
<1>2. \A b \in Closers : closers'[b].phase = "sending" => closers'[b] = closers[b]
  BY <1>1 DEF TypeOK, NoClose
<1>3. ASSUME NEW d \in Ids, NEW k \in Tries, queue'[<<d, k>>] > 0
      PROVE  d \in DOMAIN deliveries
  <2>1. queue'[<<d, k>>] = queue[<<d, k>>] \/ d = closers[c].id
    BY <1>1 DEF TypeOK
  <2> QED BY <1>1, <1>3, <2>1 DEF Committed
<1> QED BY <1>1, <1>2, <1>3 DEF Committed

\* What a run does to the broker's messages and the tenant's notifications.
LEMMA Delivering ==
  ASSUME TypeOK, NEW w \in Workers, TaskStep(w) \/ RecordDelivered(w)
  PROVE  /\ \A d \in Ids, k \in Tries :
              \/ queue'[<<d, k>>] <= queue[<<d, k>>]
              \/ d = runs[w].id /\ runs[w] # NoRun
         /\ \A d \in Ids :
              heard'[d] = heard[d] \/ (d = runs[w].id /\ runs[w] # NoRun /\ heard'[d] = heard[d] + 1)
<1> USE DEF TypeOK
<1>1. \A d \in Ids, k \in Tries : queue[<<d, k>>] \in Nat
  OBVIOUS
<1>2. ASSUME NEW e \in Ids, NEW l \in Tries, Take(e, l), NEW d \in Ids, NEW k \in Tries
      PROVE  queue'[<<d, k>>] <= queue[<<d, k>>]
  <2>1. queue'[<<d, k>>] = IF <<d, k>> = <<e, l>> THEN queue[<<d, k>>] - 1 ELSE queue[<<d, k>>]
    BY <1>2 DEF Take
  <2> QED BY <1>1, <2>1
<1>3. ASSUME NEW d \in Ids, NEW k \in Tries
      PROVE  queue'[<<d, k>>] <= queue[<<d, k>>] \/ (d = runs[w].id /\ runs[w] # NoRun)
  <2>1. CASE queue' = queue
    BY <1>1, <2>1
  <2>2. CASE Retry(w) \/ Redeliver(w)
    <3>1. \E l : queue' = [queue EXCEPT ![<<runs[w].id, l>>] = @ + 1]
      BY <2>2 DEF Retry, Redeliver
    <3>2. runs[w] # NoRun
      BY <2>2 DEF Retry, Redeliver, NoRun
    <3>3. d # runs[w].id => queue'[<<d, k>>] = queue[<<d, k>>]
      BY <3>1
    <3> QED BY <1>1, <3>2, <3>3
  <2> QED
    BY <1>2, <2>1, <2>2 DEF TaskStep, StartRun, NothingToDo, PostAccepted, PostUnanswered, PostRefused,
         GiveUp, Collide, LoseRun, RecordDelivered
<1>4. ASSUME NEW d \in Ids
      PROVE  heard'[d] = heard[d] \/ (d = runs[w].id /\ runs[w] # NoRun /\ heard'[d] = heard[d] + 1)
  BY DEF TaskStep, StartRun, NothingToDo, PostAccepted, PostUnanswered, PostRefused, Retry,
         GiveUp, Collide, LoseRun, Redeliver, RecordDelivered, NoRun
<1> QED BY <1>3, <1>4

LEMMA CommittedTask ==
  ASSUME TypeOK, Committed, NEW w \in Workers, TaskStep(w) \/ RecordDelivered(w)
  PROVE  Committed'
<1>0. Phased
  BY Phases
<1>1. /\ UNCHANGED <<shown, closers>> /\ DOMAIN deliveries' = DOMAIN deliveries
      /\ \A i \in DOMAIN deliveries : deliveries'[i].event = deliveries[i].event
  <2>1. \A i \in DOMAIN deliveries : deliveries[i] \in Delivery
    BY DEF TypeOK
  <2>2. CASE TaskStep(w)
    BY <2>2 DEF TaskStep, StartRun, NothingToDo, PostAccepted, PostUnanswered, PostRefused, Retry,
              GiveUp, Collide, LoseRun, Redeliver, rowvars
  <2>3. CASE RecordDelivered(w)
    BY <2>1, <2>3 DEF RecordDelivered, TypeOK, Delivery
  <2> QED BY <2>2, <2>3
<1>2. runs[w] # NoRun => runs[w].id \in DOMAIN deliveries
  BY <1>0 DEF Phased
<1>3. ASSUME NEW d \in Ids, NEW k \in Tries, queue'[<<d, k>>] > 0 PROVE d \in DOMAIN deliveries
  <2>1. queue[<<d, k>>] \in Nat /\ queue'[<<d, k>>] \in Nat
    BY TypeOKTask DEF TypeOK
  <2> QED BY <1>2, <1>3, <2>1, Delivering DEF Committed
<1>4. ASSUME NEW d \in Ids, heard'[d] > 0 PROVE d \in DOMAIN deliveries
  BY <1>2, <1>4, Delivering DEF Committed
<1> QED BY <1>1, <1>3, <1>4 DEF Committed

-----------------------------------------------------------------------------
(***************************************************************************)
(* Why a delivery was dropped.                                             *)
(***************************************************************************)
LEMMA CausesRow ==
  ASSUME TypeOK, RetriesWereRefused, UnheardHasCause, NEW c \in Closers, RowStep(c)
  PROVE  RetriesWereRefused' /\ UnheardHasCause'
<1>1. UNCHANGED <<queue, runs, heard, dropped, outages, mishaps, collisions>>
  BY DEF RowStep, Close, QueueSessionEvent, Commit, Abort, taskvars, faults
<1> QED BY <1>1 DEF RetriesWereRefused, UnheardHasCause

LEMMA CausesDispatch ==
  ASSUME TypeOK, RetriesWereRefused, UnheardHasCause, NEW c \in Closers, DispatchStep(c)
  PROVE  RetriesWereRefused' /\ UnheardHasCause'
<1>1. mishaps \in Nat /\ outages \in Nat
  BY WebhookAssumption DEF TypeOK
<1>2. CASE Dispatch(c)
  <2>1. UNCHANGED <<runs, heard, dropped, outages, mishaps, collisions>>
    BY <1>2 DEF Dispatch, faults
  <2>2. ASSUME NEW d \in Ids, NEW k \in Tries PROVE queue'[<<d, k>>] = queue[<<d, k>>] \/ k = 0
    BY <1>2 DEF Dispatch, Send, TypeOK
  <2> QED BY <1>1, <2>1, <2>2 DEF RetriesWereRefused, UnheardHasCause
<1>3. CASE DispatchLost(c)
  <2>1. mishaps' = mishaps + 1
    BY <1>3 DEF DispatchLost
  <2> QED BY <1>1, <2>1 DEF RetriesWereRefused, UnheardHasCause
<1> QED BY <1>2, <1>3 DEF DispatchStep

\* With no answer and no run lost so far, each retry follows a refusal.
LEMMA CausesTask ==
  ASSUME TypeOK, RetriesWereRefused, UnheardHasCause, NEW w \in Workers, TaskStep(w) \/ RecordDelivered(w)
  PROVE  RetriesWereRefused' /\ UnheardHasCause'
<1>0. Phased
  BY Phases
<1>1. /\ mishaps \in Nat /\ outages \in Nat /\ collisions \in Nat /\ MaxRetries \in Nat
      /\ \A d \in Ids : heard[d] \in Nat
      /\ \A d \in Ids, k \in Tries : queue[<<d, k>>] \in Nat
  BY WebhookAssumption DEF TypeOK
<1>2. \A v \in Workers :
         runs[v].phase # "idle" => runs[v].tries \in Nat /\ runs[v].tries <= MaxRetries
  <2>1. \A v \in Workers : runs[v].phase # "idle" => runs[v].tries \in Tries
    BY <1>0 DEF Phased
  <2> QED BY <1>1, <2>1 DEF Tries
<1>3. CASE PostUnanswered(w) \/ LoseRun(w) \/ Redeliver(w)
  <2>1. mishaps' = mishaps + 1
    BY <1>3 DEF PostUnanswered, LoseRun, Redeliver
  <2> QED BY <1>1, <2>1 DEF RetriesWereRefused, UnheardHasCause
\* The other runs go on as they were.
<1>4. \A v \in Workers \ {w} : runs'[v] = runs[v]
  BY DEF TaskStep, StartRun, NothingToDo, PostAccepted, PostUnanswered, PostRefused, Retry,
         GiveUp, Collide, LoseRun, Redeliver, RecordDelivered, EndRun, TypeOK
<1>5. ASSUME NEW d \in Ids, NEW k \in Tries, StartRun(w, d, k) \/ NothingToDo(w, d, k)
      PROVE  RetriesWereRefused' /\ UnheardHasCause'
  <2>1. UNCHANGED <<heard, dropped, outages, mishaps, collisions>> /\ queue[<<d, k>>] > 0
    BY <1>5 DEF StartRun, NothingToDo, Take, faults
  <2>2. ASSUME NEW e \in Ids, NEW l \in Tries, queue'[<<e, l>>] > 0 PROVE queue[<<e, l>>] > 0
    <3>1. queue'[<<e, l>>] = IF <<e, l>> = <<d, k>> THEN queue[<<e, l>>] - 1 ELSE queue[<<e, l>>]
      BY <1>5 DEF StartRun, NothingToDo, Take, TypeOK
    <3> QED BY <1>1, <2>2, <3>1
  <2>3. runs'[w] = runs[w] \/ (runs'[w].phase = "posting" /\ runs'[w].tries = k)
    BY <1>5 DEF StartRun, NothingToDo, TypeOK
  <2> QED BY <1>1, <1>4, <2>1, <2>2, <2>3 DEF RetriesWereRefused, UnheardHasCause
<1>6. CASE PostAccepted(w)
  <2>1. /\ UNCHANGED <<queue, dropped, outages, mishaps, collisions>>
        /\ runs[w].phase = "posting" /\ runs'[w].phase = "accepted" /\ runs'[w].tries = runs[w].tries
    BY <1>6, <1>0 DEF Phased, PostAccepted, faults, TypeOK
  <2>2. \A d \in Ids : heard[d] > 0 => heard'[d] > 0
    BY <1>1, <1>6 DEF PostAccepted, TypeOK
  <2> QED BY <1>1, <1>4, <2>1, <2>2 DEF RetriesWereRefused, UnheardHasCause, TypeOK
<1>7. CASE PostRefused(w)
  <2>1. /\ UNCHANGED <<queue, heard, dropped, mishaps, collisions>> /\ outages' = outages + 1
        /\ runs[w].phase = "posting" /\ runs'[w].tries = runs[w].tries
    BY <1>7, <1>0 DEF Phased, PostRefused, faults, TypeOK
  <2>2. runs[w].tries \in Nat
    BY <1>2, <2>1
  <2> QED BY <1>1, <1>4, <1>2, <2>1, <2>2 DEF RetriesWereRefused, UnheardHasCause, Tries
<1>8. CASE RecordDelivered(w)
  <2>1. UNCHANGED <<queue, heard, dropped, outages, mishaps, collisions>> /\ runs'[w].phase = "idle"
    BY <1>8 DEF RecordDelivered, EndRun, faults, NoRun, TypeOK
  <2> QED BY <1>1, <1>4, <2>1 DEF RetriesWereRefused, UnheardHasCause
<1>9. CASE Retry(w)
  <2>1. UNCHANGED <<heard, dropped, outages, mishaps, collisions>> /\ runs'[w].phase = "idle"
    BY <1>9 DEF Retry, EndRun, faults, NoRun, TypeOK
  <2>2. \A d \in Ids, k \in Tries : queue'[<<d, k>>] = queue[<<d, k>>] \/ k = runs[w].tries + 1
    BY <1>9 DEF Retry, TypeOK
  <2>3. mishaps = 0 => runs[w].tries + 1 <= outages
    BY <1>1, <1>9, <1>2 DEF Retry, RetriesWereRefused
  <2> QED BY <1>1, <1>4, <2>1, <2>2, <2>3 DEF RetriesWereRefused, UnheardHasCause
<1>10. CASE GiveUp(w)
  <2>1. /\ UNCHANGED <<queue, heard, outages, mishaps, collisions>> /\ runs'[w].phase = "idle"
        /\ dropped' = dropped \cup {runs[w].id}
    BY <1>10 DEF GiveUp, EndRun, faults, NoRun, TypeOK
  <2>2. outages > MaxRetries \/ mishaps > 0
    BY <1>1, <1>10, <1>2 DEF GiveUp, Retriable, RetriesWereRefused
  <2> QED BY <1>1, <1>4, <2>1, <2>2 DEF RetriesWereRefused, UnheardHasCause
<1>11. CASE Collide(w)
  <2>1. /\ UNCHANGED <<queue, heard, outages, mishaps>> /\ runs'[w].phase = "idle"
        /\ collisions' = collisions + 1
    BY <1>11 DEF Collide, EndRun, NoRun, TypeOK
  <2> QED BY <1>1, <1>4, <2>1 DEF RetriesWereRefused, UnheardHasCause
<1> QED
  BY <1>3, <1>5, <1>6, <1>7, <1>8, <1>9, <1>10, <1>11 DEF TaskStep

-----------------------------------------------------------------------------
(***************************************************************************)
(* How often a delivery can be heard.                                      *)
(***************************************************************************)
\* A run's POST was taken before its outcome is written, and DELIVERED is the
\* outcome of such a run.
Honest ==
  /\ \A w \in Workers : runs[w].phase = "accepted" => heard[runs[w].id] > 0
  /\ \A d \in Ids : d \in DOMAIN deliveries /\ deliveries[d].status = "DELIVERED" => heard[d] > 0

\* What may still have the tenant hear of d: a hook that is to send it, a
\* message in the broker, a run that has not been answered well.
Hook(c)       == <<"hook", c, 0>>
Message(k, n) == <<"message", k, n>>
Running(w)    == <<"run", w, 0>>

Sends(c, d) == closers[c].phase = "sending" /\ closers[c].id = d
Posts(w, d) == runs[w].phase \in {"posting", "refused"} /\ runs[w].id = d

Chances(d) ==
  {Hook(c) : c \in {c \in Closers : Sends(c, d)}}
  \cup {x \in {"message"} \X Tries \X Nat : x[3] < queue[<<d, x[2]>>]}
  \cup {Running(w) : w \in {w \in Workers : Posts(w, d)}}

Budget ==
  \A d \in Ids : /\ IsFiniteSet(Chances(d))
                 /\ heard[d] + Cardinality(Chances(d)) <= 1 + mishaps

LEMMA MessageCases ==
  ASSUME NEW q, NEW d, NEW x
  PROVE  x \in {y \in {"message"} \X Tries \X Nat : y[3] < q[<<d, y[2]>>]}
           <=> \E k \in Tries, n \in Nat : x = Message(k, n) /\ n < q[<<d, k>>]
<1> DEFINE M == {y \in {"message"} \X Tries \X Nat : y[3] < q[<<d, y[2]>>]}
<1>1. ASSUME x \in M
      PROVE  \E k \in Tries, n \in Nat : x = Message(k, n) /\ n < q[<<d, k>>]
  <2>1. x \in {"message"} \X Tries \X Nat /\ x[3] < q[<<d, x[2]>>]
    BY <1>1
  <2>2. x[2] \in Tries /\ x[3] \in Nat /\ x = <<"message", x[2], x[3]>>
    BY <2>1
  <2> QED BY <2>1, <2>2 DEF Message
<1>2. ASSUME NEW k \in Tries, NEW n \in Nat, n < q[<<d, k>>]
      PROVE  Message(k, n) \in M
  BY <1>2 DEF Message
<1> QED BY <1>1, <1>2

LEMMA ChanceCases ==
  ASSUME NEW CONSTANT d, NEW CONSTANT x
  PROVE  /\ x \in Chances(d) <=>
              \/ \E c \in Closers : x = Hook(c) /\ Sends(c, d)
              \/ \E k \in Tries, n \in Nat : x = Message(k, n) /\ n < queue[<<d, k>>]
              \/ \E w \in Workers : x = Running(w) /\ Posts(w, d)
         /\ x \in Chances(d)' <=>
              \/ \E c \in Closers : x = Hook(c) /\ Sends(c, d)'
              \/ \E k \in Tries, n \in Nat : x = Message(k, n) /\ n < queue'[<<d, k>>]
              \/ \E w \in Workers : x = Running(w) /\ Posts(w, d)'
<1> DEFINE M(q) == {y \in {"message"} \X Tries \X Nat : y[3] < q[<<d, y[2]>>]}
<1>1. /\ x \in Chances(d) <=>
           \/ \E c \in Closers : x = Hook(c) /\ Sends(c, d)
           \/ x \in M(queue)
           \/ \E w \in Workers : x = Running(w) /\ Posts(w, d)
      /\ x \in Chances(d)' <=>
           \/ \E c \in Closers : x = Hook(c) /\ Sends(c, d)'
           \/ x \in M(queue')
           \/ \E w \in Workers : x = Running(w) /\ Posts(w, d)'
  BY DEF Chances, Hook, Running
<1>2. \A q : x \in M(q) <=> \E k \in Tries, n \in Nat : x = Message(k, n) /\ n < q[<<d, k>>]
  BY MessageCases
<1> HIDE DEF M
<1> QED BY <1>1, <1>2

\* What is left of S when x is used up and y put in its place, at most.
LEMMA Fewer ==
  ASSUME NEW S, IsFiniteSet(S), NEW T
  PROVE  /\ T \subseteq S => IsFiniteSet(T) /\ Cardinality(T) <= Cardinality(S)
         /\ \A y : T \subseteq S \cup {y} =>
              IsFiniteSet(T) /\ Cardinality(T) <= Cardinality(S) + 1
         /\ \A x \in S : T \subseteq S \ {x} =>
              IsFiniteSet(T) /\ Cardinality(T) + 1 <= Cardinality(S)
         /\ \A x \in S : \A y : T \subseteq (S \ {x}) \cup {y} =>
              IsFiniteSet(T) /\ Cardinality(T) <= Cardinality(S)
<1>0. Cardinality(S) \in Nat
  BY FS_CardinalityType
<1>1. ASSUME NEW R, IsFiniteSet(R), T \subseteq R
      PROVE  IsFiniteSet(T) /\ Cardinality(T) <= Cardinality(R) /\ Cardinality(T) \in Nat
  BY <1>1, FS_Subset, FS_CardinalityType
<1>2. \A y : /\ IsFiniteSet(S \cup {y})
             /\ Cardinality(S \cup {y}) <= Cardinality(S) + 1
             /\ Cardinality(S \cup {y}) \in Nat
  BY <1>0, FS_AddElement, FS_CardinalityType
<1>3. \A x \in S : /\ IsFiniteSet(S \ {x})
                   /\ Cardinality(S \ {x}) = Cardinality(S) - 1
                   /\ Cardinality(S \ {x}) \in Nat
  BY FS_RemoveElement, FS_CardinalityType
<1>4. \A x \in S : \A y : /\ IsFiniteSet((S \ {x}) \cup {y})
                          /\ Cardinality((S \ {x}) \cup {y}) <= Cardinality(S)
                          /\ Cardinality((S \ {x}) \cup {y}) \in Nat
  <2> SUFFICES ASSUME NEW x \in S, NEW y
               PROVE  /\ IsFiniteSet((S \ {x}) \cup {y})
                      /\ Cardinality((S \ {x}) \cup {y}) <= Cardinality(S)
                      /\ Cardinality((S \ {x}) \cup {y}) \in Nat
    OBVIOUS
  <2> DEFINE R == S \ {x}
  <2>1. IsFiniteSet(R) /\ Cardinality(R) = Cardinality(S) - 1 /\ Cardinality(R) \in Nat
    BY <1>3
  <2> HIDE DEF R
  <2>2. /\ IsFiniteSet(R \cup {y})
        /\ Cardinality(R \cup {y}) = IF y \in R THEN Cardinality(R) ELSE Cardinality(R) + 1
    BY <2>1, FS_AddElement
  <2>3. Cardinality(R \cup {y}) \in Nat
    BY <2>2, FS_CardinalityType
  <2> QED BY <1>0, <2>1, <2>2, <2>3 DEF R
<1>5. T \subseteq S => IsFiniteSet(T) /\ Cardinality(T) <= Cardinality(S)
  BY <1>1
<1>6. ASSUME NEW y, T \subseteq S \cup {y}
      PROVE  IsFiniteSet(T) /\ Cardinality(T) <= Cardinality(S) + 1
  <2> DEFINE R == S \cup {y}
  <2>1. IsFiniteSet(R) /\ Cardinality(R) <= Cardinality(S) + 1 /\ Cardinality(R) \in Nat /\ T \subseteq R
    BY <1>2, <1>6
  <2> HIDE DEF R
  <2> QED BY <1>0, <1>1, <2>1
<1>7. ASSUME NEW x \in S, T \subseteq S \ {x}
      PROVE  IsFiniteSet(T) /\ Cardinality(T) + 1 <= Cardinality(S)
  <2> DEFINE R == S \ {x}
  <2>1. IsFiniteSet(R) /\ Cardinality(R) = Cardinality(S) - 1 /\ Cardinality(R) \in Nat /\ T \subseteq R
    BY <1>3, <1>7
  <2> HIDE DEF R
  <2> QED BY <1>0, <1>1, <2>1
<1>8. ASSUME NEW x \in S, NEW y, T \subseteq (S \ {x}) \cup {y}
      PROVE  IsFiniteSet(T) /\ Cardinality(T) <= Cardinality(S)
  <2> DEFINE R == (S \ {x}) \cup {y}
  <2>1. IsFiniteSet(R) /\ Cardinality(R) <= Cardinality(S) /\ Cardinality(R) \in Nat /\ T \subseteq R
    BY <1>4, <1>8
  <2> HIDE DEF R
  <2> QED BY <1>0, <1>1, <2>1
<1> QED BY <1>5, <1>6, <1>7, <1>8

\* Budget holds after a step for d when the step leaves so many chances.
LEMMA StillWithin ==
  ASSUME TypeOK, Budget, NEW d \in Ids, heard'[d] \in Nat, mishaps' \in Nat,
         \/ /\ Chances(d)' \subseteq Chances(d)
            /\ heard'[d] = heard[d] \/ (heard'[d] = heard[d] + 1 /\ mishaps' = mishaps + 1)
            /\ mishaps' >= mishaps
         \/ /\ \E x \in Chances(d) : \E y : Chances(d)' \subseteq (Chances(d) \ {x}) \cup {y}
            /\ heard'[d] = heard[d] /\ mishaps' = mishaps
         \/ /\ \E x \in Chances(d) : Chances(d)' \subseteq Chances(d) \ {x}
            /\ heard'[d] = heard[d] + 1 /\ mishaps' = mishaps
         \/ /\ \E y : Chances(d)' \subseteq Chances(d) \cup {y}
            /\ heard'[d] = heard[d] /\ mishaps' = mishaps + 1
  PROVE  IsFiniteSet(Chances(d)') /\ heard'[d] + Cardinality(Chances(d)') <= 1 + mishaps'
<1> DEFINE S == Chances(d)
           T == Chances(d)'
<1>1. IsFiniteSet(S) /\ heard[d] + Cardinality(S) <= 1 + mishaps
  BY DEF Budget
<1>2. Cardinality(S) \in Nat /\ heard[d] \in Nat /\ mishaps \in Nat
  BY <1>1, FS_CardinalityType, WebhookAssumption DEF TypeOK
<1>3. IsFiniteSet(T) => Cardinality(T) \in Nat
  BY FS_CardinalityType
<1> HIDE DEF S, T
<1>4. CASE /\ T \subseteq S
           /\ heard'[d] = heard[d] \/ (heard'[d] = heard[d] + 1 /\ mishaps' = mishaps + 1)
           /\ mishaps' >= mishaps
  <2>1. IsFiniteSet(T) /\ Cardinality(T) <= Cardinality(S)
    BY <1>1, <1>4, Fewer
  <2> QED BY <1>1, <1>2, <1>3, <1>4, <2>1 DEF T
<1>5. ASSUME NEW x \in S, NEW y, T \subseteq (S \ {x}) \cup {y},
             heard'[d] = heard[d], mishaps' = mishaps
      PROVE  IsFiniteSet(T) /\ heard'[d] + Cardinality(T) <= 1 + mishaps'
  <2>1. IsFiniteSet(T) /\ Cardinality(T) <= Cardinality(S)
    BY <1>1, <1>5, Fewer
  <2> QED BY <1>1, <1>2, <1>3, <1>5, <2>1
<1>6. ASSUME NEW x \in S, T \subseteq S \ {x}, heard'[d] = heard[d] + 1, mishaps' = mishaps
      PROVE  IsFiniteSet(T) /\ heard'[d] + Cardinality(T) <= 1 + mishaps'
  <2>1. IsFiniteSet(T) /\ Cardinality(T) + 1 <= Cardinality(S)
    BY <1>1, <1>6, Fewer
  <2> QED BY <1>1, <1>2, <1>3, <1>6, <2>1
<1>7. ASSUME NEW y, T \subseteq S \cup {y}, heard'[d] = heard[d], mishaps' = mishaps + 1
      PROVE  IsFiniteSet(T) /\ heard'[d] + Cardinality(T) <= 1 + mishaps'
  <2>1. IsFiniteSet(T) /\ Cardinality(T) <= Cardinality(S) + 1
    BY <1>1, <1>7, Fewer
  <2> QED BY <1>1, <1>2, <1>3, <1>7, <2>1
<1> QED BY <1>4, <1>5, <1>6, <1>7 DEF S, T

\* A transaction's first steps add no chance, except the commit that makes the
\* delivery: nobody has heard of that one, or knows its number.
LEMMA BudgetRow ==
  ASSUME TypeOK, TypeOK', RowInv, Committed, Budget, NEW c \in Closers, RowStep(c)
  PROVE  Budget'
<1>1. UNCHANGED <<queue, runs, heard, mishaps>>
  BY DEF RowStep, Close, QueueSessionEvent, Commit, Abort, taskvars, faults
<1>2. /\ \A d \in Ids : heard'[d] \in Nat /\ heard'[d] = heard[d]
      /\ mishaps \in Nat /\ mishaps' \in Nat /\ mishaps' >= mishaps
  BY <1>1, WebhookAssumption DEF TypeOK
<1>3. ASSUME NEW d \in Ids, \A b \in Closers : Sends(b, d)' => Sends(b, d)
      PROVE  Chances(d)' \subseteq Chances(d)
  <2>1. \A w \in Workers : Posts(w, d)' <=> Posts(w, d)
    BY <1>1 DEF Posts
  <2> QED BY <1>1, <1>3, <2>1, ChanceCases
<1>4. SUFFICES ASSUME NEW d \in Ids
               PROVE  IsFiniteSet(Chances(d)') /\ heard'[d] + Cardinality(Chances(d)') <= 1 + mishaps'
  BY DEF Budget
<1>5. CASE \A b \in Closers : Sends(b, d)' => Sends(b, d)
  BY <1>2, <1>3, <1>5, StillWithin
<1>6. CASE \E b \in Closers : Sends(b, d)' /\ ~Sends(b, d)
  <2>1. PICK b \in Closers : Sends(b, d)' /\ ~Sends(b, d)
    BY <1>6
  <2>2. b = c /\ Commit(c) /\ closers[c].new
    BY <2>1 DEF Sends, RowStep, Close, QueueSessionEvent, Commit, Abort, NoClose, TypeOK
  <2>3. \A a \in Closers \ {c} : closers'[a] = closers[a]
    BY <2>2 DEF Commit, TypeOK
  <2>4. d = Len(deliveries) + 1
    BY <2>1, <2>2 DEF Commit, Sends, TypeOK
  <2>5. d \notin DOMAIN deliveries
    <3>1. DOMAIN deliveries = 1 .. Len(deliveries) /\ Len(deliveries) \in Nat
      BY DEF TypeOK
    <3> QED BY <2>4, <3>1
  <2>6. heard[d] = 0
    BY <1>2, <2>5, <1>1 DEF Committed
  <2>7. Chances(d) = {}
    <3>1. \A a \in Closers : ~Sends(a, d)
      BY <2>5 DEF Sends, Committed
    <3>2. \A k \in Tries : queue[<<d, k>>] \in Nat /\ ~(queue[<<d, k>>] > 0)
      BY <2>5 DEF Committed, TypeOK
    <3>3. \A k \in Tries, n \in Nat : ~(n < queue[<<d, k>>])
      BY <3>2
    <3>4. \A w \in Workers : ~Posts(w, d)
      BY <2>5 DEF Posts, TypeOK
    <3> QED BY <3>1, <3>3, <3>4, ChanceCases
  <2>8. Chances(d)' \subseteq Chances(d) \cup {Hook(c)}
    <3>1. \A a \in Closers : Sends(a, d)' => a = c \/ Sends(a, d)
      BY <2>3 DEF Sends
    <3>2. \A w \in Workers : Posts(w, d)' <=> Posts(w, d)
      BY <1>1 DEF Posts
    <3> QED BY <1>1, <3>1, <3>2, ChanceCases
  <2>9. IsFiniteSet(Chances(d)) /\ Cardinality(Chances(d)) = 0
    BY <2>7, FS_EmptySet
  <2>10. IsFiniteSet(Chances(d)') /\ Cardinality(Chances(d)') <= Cardinality(Chances(d)) + 1
    BY <2>8, <2>9, Fewer
  <2>11. Cardinality(Chances(d)') \in Nat
    BY <2>10, FS_CardinalityType
  <2> QED BY <1>2, <2>6, <2>9, <2>10, <2>11
<1> QED BY <1>5, <1>6

\* A message put in the broker for e, and one taken from it.
LEMMA Puts ==
  ASSUME TypeOK, NEW e \in Ids, NEW k \in Tries, queue' = [queue EXCEPT ![<<e, k>>] = @ + 1],
         NEW d \in Ids, NEW l \in Tries, NEW n \in Nat, n < queue'[<<d, l>>]
  PROVE  n < queue[<<d, l>>] \/ (d = e /\ Message(l, n) = Message(k, queue[<<e, k>>]))
<1>1. queue[<<d, l>>] \in Nat
  BY DEF TypeOK
<1>2. queue'[<<d, l>>] = IF <<d, l>> = <<e, k>> THEN queue[<<d, l>>] + 1 ELSE queue[<<d, l>>]
  BY DEF TypeOK
<1> QED BY <1>1, <1>2 DEF Message

LEMMA Takes ==
  ASSUME TypeOK, NEW e \in Ids, NEW k \in Tries, Take(e, k)
  PROVE  /\ \A d \in Ids, l \in Tries, n \in Nat :
              n < queue'[<<d, l>>] =>
                n < queue[<<d, l>>] /\ (d = e => Message(l, n) # Message(k, queue[<<e, k>>] - 1))
         /\ queue[<<e, k>>] - 1 \in Nat /\ queue[<<e, k>>] - 1 < queue[<<e, k>>]
<1>1. queue[<<e, k>>] \in Nat /\ queue[<<e, k>>] > 0
  BY DEF TypeOK, Take
<1>2. ASSUME NEW d \in Ids, NEW l \in Tries, NEW n \in Nat, n < queue'[<<d, l>>]
      PROVE  n < queue[<<d, l>>] /\ (d = e => Message(l, n) # Message(k, queue[<<e, k>>] - 1))
  <2>1. queue[<<d, l>>] \in Nat
    BY DEF TypeOK
  <2>2. queue'[<<d, l>>] = IF <<d, l>> = <<e, k>> THEN queue[<<d, l>>] - 1 ELSE queue[<<d, l>>]
    BY DEF TypeOK, Take
  <2> QED BY <1>1, <1>2, <2>1, <2>2 DEF Message
<1> QED BY <1>1, <1>2

\* A step that uses up the chance out of d, and puts the chance in, at most.
LEMMA Moves ==
  ASSUME NEW CONSTANT d, NEW out, NEW in,
         \A c \in Closers :
           Sends(c, d)' => (Sends(c, d) /\ Hook(c) # out) \/ Hook(c) = in,
         \A k \in Tries, n \in Nat :
           n < queue'[<<d, k>>] =>
             (n < queue[<<d, k>>] /\ Message(k, n) # out) \/ Message(k, n) = in,
         \A w \in Workers :
           Posts(w, d)' => (Posts(w, d) /\ Running(w) # out) \/ Running(w) = in
  PROVE  Chances(d)' \subseteq (Chances(d) \ {out}) \cup {in}
<1> SUFFICES ASSUME NEW CONSTANT x, x \in Chances(d)', x # in
             PROVE  x \in Chances(d) /\ x # out
  OBVIOUS
<1>1. CASE \E c \in Closers : x = Hook(c) /\ Sends(c, d)'
  BY <1>1, ChanceCases
<1>2. CASE \E k \in Tries, n \in Nat : x = Message(k, n) /\ n < queue'[<<d, k>>]
  BY <1>2, ChanceCases
<1>3. CASE \E w \in Workers : x = Running(w) /\ Posts(w, d)'
  BY <1>3, ChanceCases
<1> QED BY <1>1, <1>2, <1>3, ChanceCases

LEMMA BudgetDispatch ==
  ASSUME TypeOK, TypeOK', Budget, NEW c \in Closers, DispatchStep(c)
  PROVE  Budget'
<1>0. Phased
  BY Phases
<1>1. /\ UNCHANGED <<runs, heard>> /\ closers' = [closers EXCEPT ![c] = NoClose]
      /\ closers[c].phase = "sending" /\ closers[c].id \in Ids
  BY <1>0 DEF Phased, DispatchStep, Dispatch, DispatchLost, taskvars
<1>2. /\ \A d \in Ids : heard'[d] \in Nat /\ heard'[d] = heard[d]
      /\ mishaps \in Nat /\ mishaps' \in Nat
  BY <1>1, WebhookAssumption DEF TypeOK
<1>3. \A d \in Ids, b \in Closers : Sends(b, d)' => Sends(b, d) /\ b # c
  BY <1>1 DEF Sends, NoClose, TypeOK
<1>4. \A d \in Ids, w \in Workers : Posts(w, d)' <=> Posts(w, d)
  BY <1>1 DEF Posts
<1>5. SUFFICES ASSUME NEW d \in Ids
               PROVE  IsFiniteSet(Chances(d)') /\ heard'[d] + Cardinality(Chances(d)') <= 1 + mishaps'
  BY DEF Budget
<1>6. CASE DispatchLost(c)
  <2>1. queue' = queue /\ mishaps' = mishaps + 1
    BY <1>6 DEF DispatchLost, taskvars
  <2>2. Chances(d)' \subseteq Chances(d)
    BY <1>3, <1>4, <2>1, ChanceCases
  <2> QED BY <1>2, <2>1, <2>2, StillWithin
<1>7. CASE Dispatch(c)
  <2> DEFINE e == closers[c].id
             y == Message(0, queue[<<e, 0>>])
  <2>1. /\ queue' = [queue EXCEPT ![<<e, 0>>] = @ + 1] /\ mishaps' = mishaps
        /\ e \in Ids /\ 0 \in Tries
    BY <1>1, <1>7, WebhookAssumption DEF Dispatch, Send, faults, Tries
  <2>4. d = e => Hook(c) \in Chances(d)
    BY <1>1, ChanceCases DEF Sends
  <2> HIDE DEF e
  <2>2. \A l \in Tries, n \in Nat :
          n < queue'[<<d, l>>] => n < queue[<<d, l>>] \/ (d = e /\ Message(l, n) = y)
    BY <2>1, Puts
  <2>5. \A b \in Closers : b # c => Hook(b) # Hook(c)
    BY DEF Hook
  <2>6. /\ \A l, n : Message(l, n) # Hook(c)
        /\ \A w : Running(w) # Hook(c)
    BY DEF Hook, Message, Running
  <2> HIDE DEF y
  <2>7. CASE d # e
    <3>1. Chances(d)' \subseteq Chances(d)
      BY <1>3, <1>4, <2>2, <2>7, ChanceCases
    <3> QED BY <1>2, <2>1, <3>1, StillWithin
  <2>8. CASE d = e
    <3>1. Chances(d)' \subseteq (Chances(d) \ {Hook(c)}) \cup {y}
      <4>1. \A b \in Closers :
              Sends(b, d)' => (Sends(b, d) /\ Hook(b) # Hook(c)) \/ Hook(b) = y
        BY <1>3, <2>5
      <4>2. \A l \in Tries, n \in Nat :
              n < queue'[<<d, l>>] =>
                (n < queue[<<d, l>>] /\ Message(l, n) # Hook(c)) \/ Message(l, n) = y
        BY <2>2, <2>6
      <4>3. \A v \in Workers :
              Posts(v, d)' => (Posts(v, d) /\ Running(v) # Hook(c)) \/ Running(v) = y
        BY <1>4, <2>6
      <4> QED BY <4>1, <4>2, <4>3, Moves
    <3> QED BY <1>2, <2>1, <2>4, <2>8, <3>1, StillWithin
  <2> QED BY <2>7, <2>8
<1> QED BY <1>6, <1>7 DEF DispatchStep

\* A run passes its chance on, or uses it up; without a mishap it makes none.
LEMMA BudgetTask ==
  ASSUME TypeOK, TypeOK', Budget, NEW w \in Workers, TaskStep(w) \/ RecordDelivered(w)
  PROVE  Budget'
<1>0. Phased
  BY Phases
<1>1. /\ \A d \in Ids : heard'[d] \in Nat /\ heard[d] \in Nat
      /\ mishaps \in Nat /\ mishaps' \in Nat
  BY WebhookAssumption DEF TypeOK
<1>2. closers' = closers
  BY DEF TaskStep, StartRun, NothingToDo, PostAccepted, PostUnanswered, PostRefused, Retry, GiveUp,
         Collide, LoseRun, Redeliver, RecordDelivered, rowvars
<1>3. \A v \in Workers \ {w} : runs'[v] = runs[v]
  BY DEF TaskStep, StartRun, NothingToDo, PostAccepted, PostUnanswered, PostRefused, Retry,
       GiveUp, Collide, LoseRun, Redeliver, RecordDelivered, EndRun, TypeOK
<1>4. SUFFICES ASSUME NEW d \in Ids
               PROVE  IsFiniteSet(Chances(d)') /\ heard'[d] + Cardinality(Chances(d)') <= 1 + mishaps'
  BY DEF Budget
<1>5. /\ \A c \in Closers : Sends(c, d)' <=> Sends(c, d)
      /\ \A v \in Workers : v # w => (Posts(v, d)' <=> Posts(v, d))
  BY <1>2, <1>3 DEF Sends, Posts
<1>6. /\ \A v \in Workers : v # w => Running(v) # Running(w)
      /\ \A k, n : Message(k, n) # Running(w)
      /\ \A c : Hook(c) # Running(w)
      /\ \A c, k, n : Hook(c) # Message(k, n)
      /\ \A v, k, n : Running(v) # Message(k, n)
  BY DEF Running, Message, Hook
\* The broker as it is, and w no more of a chance than before.
<1>7. ASSUME queue' = queue, Posts(w, d)' => Posts(w, d)
      PROVE  Chances(d)' \subseteq Chances(d)
  BY <1>5, <1>7, ChanceCases
<1>8. ASSUME EndRun(w) PROVE ~Posts(w, d)'
  BY <1>8 DEF EndRun, Posts, NoRun, TypeOK
<1>9. ASSUME NEW e \in Ids, NEW k \in Tries, StartRun(w, e, k)
      PROVE  IsFiniteSet(Chances(d)') /\ heard'[d] + Cardinality(Chances(d)') <= 1 + mishaps'
  <2> DEFINE x == Message(k, queue[<<e, k>>] - 1)
  <2>1. heard' = heard /\ mishaps' = mishaps /\ Take(e, k)
    BY <1>9 DEF StartRun, faults
  <2>2. /\ \A l \in Tries, n \in Nat :
             n < queue'[<<d, l>>] => n < queue[<<d, l>>] /\ (d = e => Message(l, n) # x)
        /\ queue[<<e, k>>] - 1 \in Nat /\ queue[<<e, k>>] - 1 < queue[<<e, k>>]
    BY <2>1, Takes
  <2>3. d # e => ~Posts(w, d)'
    BY <1>9 DEF StartRun, Posts, TypeOK
  <2>4. d = e => x \in Chances(d)
    BY <2>2, ChanceCases
  <2>5. ~Posts(w, d)
    BY <1>9 DEF StartRun, Posts, NoRun
  <2>6. \A v : Running(v) # x /\ \A c : Hook(c) # x
    BY <1>6
  <2> HIDE DEF x
  <2>7. CASE d # e
    <3>1. Chances(d)' \subseteq Chances(d)
      BY <1>5, <2>2, <2>3, <2>7, ChanceCases
    <3> QED BY <1>1, <2>1, <3>1, StillWithin
  <2>8. CASE d = e
    <3>1. Chances(d)' \subseteq (Chances(d) \ {x}) \cup {Running(w)}
      <4>1. \A b \in Closers :
              Sends(b, d)' => (Sends(b, d) /\ Hook(b) # x) \/ Hook(b) = Running(w)
        BY <1>5, <2>6
      <4>2. \A l \in Tries, n \in Nat :
              n < queue'[<<d, l>>] =>
                (n < queue[<<d, l>>] /\ Message(l, n) # x) \/ Message(l, n) = Running(w)
        BY <2>2, <2>8
      <4>3. \A v \in Workers :
              Posts(v, d)' => (Posts(v, d) /\ Running(v) # x) \/ Running(v) = Running(w)
        BY <1>5, <2>5, <2>6
      <4> QED BY <4>1, <4>2, <4>3, Moves
    <3> QED BY <1>1, <2>1, <2>4, <2>8, <3>1, StillWithin
  <2> QED BY <2>7, <2>8
<1>10. ASSUME NEW e \in Ids, NEW k \in Tries, NothingToDo(w, e, k)
       PROVE  IsFiniteSet(Chances(d)') /\ heard'[d] + Cardinality(Chances(d)') <= 1 + mishaps'
  <2>1. heard' = heard /\ mishaps' = mishaps /\ runs' = runs /\ Take(e, k)
    BY <1>10 DEF NothingToDo, faults
  <2>2. \A l \in Tries, n \in Nat : n < queue'[<<d, l>>] => n < queue[<<d, l>>]
    BY <2>1, Takes
  <2>3. Posts(w, d)' <=> Posts(w, d)
    BY <2>1 DEF Posts
  <2>4. Chances(d)' \subseteq Chances(d)
    BY <1>5, <2>2, <2>3, ChanceCases
  <2> QED BY <1>1, <2>1, <2>4, StillWithin
<1>11. CASE PostAccepted(w)
  <2>1. /\ queue' = queue /\ mishaps' = mishaps
        /\ heard' = [heard EXCEPT ![runs[w].id] = @ + 1] /\ ~Posts(w, d)'
    BY <1>11, <1>0 DEF PostAccepted, faults, Posts, TypeOK, Phased
  <2>2. CASE runs[w].id # d
    <3>1. heard'[d] = heard[d]
      BY <2>1, <2>2 DEF TypeOK
    <3> QED BY <1>1, <1>7, <2>1, <3>1, StillWithin
  <2>3. CASE runs[w].id = d
    <3>1. heard'[d] = heard[d] + 1
      BY <2>1, <2>3 DEF TypeOK
    <3>2. Running(w) \in Chances(d)
      BY <1>11, <2>3, ChanceCases DEF PostAccepted, Posts
    <3>3. Running(w) \notin Chances(d)'
      <4>1. Running(w) \in Chances(d)' <=>
              \/ \E c \in Closers : Running(w) = Hook(c) /\ Sends(c, d)'
              \/ \E k \in Tries, n \in Nat : Running(w) = Message(k, n) /\ n < queue'[<<d, k>>]
              \/ \E v \in Workers : Running(w) = Running(v) /\ Posts(v, d)'
        BY ChanceCases
      <4> QED BY <1>6, <2>1, <4>1
    <3>4. Chances(d)' \subseteq Chances(d) \ {Running(w)}
      BY <1>7, <2>1, <3>3
    <3> QED BY <1>1, <2>1, <3>1, <3>2, <3>4, StillWithin
  <2> QED BY <2>2, <2>3
<1>12. CASE PostUnanswered(w) \/ PostRefused(w)
  <2>1. queue' = queue /\ (Posts(w, d)' => Posts(w, d))
    BY <1>12, <1>0 DEF PostUnanswered, PostRefused, Posts, TypeOK, Phased
  <2>2. /\ heard'[d] = heard[d] \/ (heard'[d] = heard[d] + 1 /\ mishaps' = mishaps + 1)
        /\ mishaps' >= mishaps
    BY <1>12, <1>1 DEF PostUnanswered, PostRefused, TypeOK
  <2> QED BY <1>1, <1>7, <2>1, <2>2, StillWithin
<1>13. CASE RecordDelivered(w) \/ GiveUp(w) \/ Collide(w) \/ LoseRun(w)
  <2>1. queue' = queue /\ heard' = heard /\ EndRun(w) /\ mishaps' >= mishaps
    BY <1>1, <1>13 DEF RecordDelivered, GiveUp, Collide, LoseRun, faults
  <2> QED BY <1>1, <1>7, <1>8, <2>1, StillWithin
<1>14. CASE Retry(w)
  <2> DEFINE e == runs[w].id
             k == runs[w].tries + 1
             y == Message(k, queue[<<e, k>>])
  <2>1. heard' = heard /\ mishaps' = mishaps /\ ~Posts(w, d)'
    BY <1>8, <1>14 DEF Retry, faults
  <2>2. /\ e \in Ids /\ k \in Tries
        /\ queue' = [queue EXCEPT ![<<e, k>>] = @ + 1]
    <3>1. runs[w].id \in Ids /\ runs[w].tries \in Tries /\ runs[w].tries < MaxRetries
      BY <1>0, <1>14 DEF Retry, Retriable, Phased, NoRun
    <3>2. k \in Tries
      BY <3>1, WebhookAssumption DEF Tries
    <3> QED BY <1>14, <3>1, <3>2 DEF Retry
  <2>3. d = e => Running(w) \in Chances(d)
    BY <1>14, ChanceCases DEF Retry, Posts
  <2> HIDE DEF e, k
  <2>4. \A l \in Tries, n \in Nat :
          n < queue'[<<d, l>>] => n < queue[<<d, l>>] \/ (d = e /\ Message(l, n) = y)
    BY <2>2, Puts
  <2> HIDE DEF y
  <2>5. CASE d # e
    <3>1. Chances(d)' \subseteq Chances(d)
      BY <1>5, <2>1, <2>4, <2>5, ChanceCases
    <3> QED BY <1>1, <2>1, <3>1, StillWithin
  <2>6. CASE d = e
    <3>1. Chances(d)' \subseteq (Chances(d) \ {Running(w)}) \cup {y}
      <4>1. \A b \in Closers :
              Sends(b, d)' => (Sends(b, d) /\ Hook(b) # Running(w)) \/ Hook(b) = y
        BY <1>5, <1>6
      <4>2. \A l \in Tries, n \in Nat :
              n < queue'[<<d, l>>] =>
                (n < queue[<<d, l>>] /\ Message(l, n) # Running(w)) \/ Message(l, n) = y
        BY <1>6, <2>4
      <4>3. \A v \in Workers :
              Posts(v, d)' => (Posts(v, d) /\ Running(v) # Running(w)) \/ Running(v) = y
        BY <1>5, <1>6, <2>1
      <4> QED BY <4>1, <4>2, <4>3, Moves
    <3> QED BY <1>1, <2>1, <2>3, <2>6, <3>1, StillWithin
  <2> QED BY <2>5, <2>6
<1>15. CASE Redeliver(w)
  <2> DEFINE e == runs[w].id
             k == runs[w].tries
             y == Message(k, queue[<<e, k>>])
  <2>1. heard' = heard /\ mishaps' = mishaps + 1 /\ (Posts(w, d)' => Posts(w, d))
    BY <1>8, <1>15 DEF Redeliver, Posts
  <2>2. /\ e \in Ids /\ k \in Tries
        /\ queue' = [queue EXCEPT ![<<e, k>>] = @ + 1]
    BY <1>0, <1>15 DEF Redeliver, Phased
  <2> HIDE DEF e, k
  <2>3. \A l \in Tries, n \in Nat :
          n < queue'[<<d, l>>] => n < queue[<<d, l>>] \/ (d = e /\ Message(l, n) = y)
    BY <2>2, Puts
  <2> HIDE DEF y
  <2>4. Chances(d)' \subseteq Chances(d) \cup {y}
    BY <1>5, <2>1, <2>3, ChanceCases
  <2> QED BY <1>1, <2>1, <2>4, StillWithin
<1> QED
  BY <1>9, <1>10, <1>11, <1>12, <1>13, <1>14, <1>15 DEF TaskStep

\* The outcomes that are recorded.
LEMMA HonestNext ==
  ASSUME TypeOK, Committed, Honest,
         \/ \E c \in Closers : RowStep(c) \/ DispatchStep(c)
         \/ \E w \in Workers : TaskStep(w) \/ RecordDelivered(w)
  PROVE  Honest'
<1>0. Phased
  BY Phases
<1>1. \A d \in Ids : heard[d] \in Nat
  BY DEF TypeOK
<1>2. ASSUME NEW c \in Closers, RowStep(c) \/ DispatchStep(c) PROVE Honest'
  <2>1. UNCHANGED <<runs, heard>>
    BY <1>2 DEF RowStep, DispatchStep, Close, QueueSessionEvent, Commit, Abort, Dispatch,
                DispatchLost, taskvars
  <2>2. CASE deliveries' = deliveries
    BY <2>1, <2>2 DEF Honest
  <2>3. CASE deliveries' # deliveries
    <3>1. \E e : deliveries' = Append(deliveries, [event |-> e, status |-> "PENDING"])
      BY <1>2, <2>3 DEF RowStep, DispatchStep, Close, QueueSessionEvent, Commit, Abort, Dispatch,
                        DispatchLost
    <3>2. \A i \in DOMAIN deliveries' :
            \/ i \in DOMAIN deliveries /\ deliveries'[i] = deliveries[i]
            \/ deliveries'[i].status = "PENDING"
      BY <3>1 DEF TypeOK
    <3> QED BY <2>1, <3>2 DEF Honest
  <2> QED BY <2>2, <2>3
<1>3. ASSUME NEW w \in Workers, TaskStep(w) \/ RecordDelivered(w) PROVE Honest'
  <2>1. \A d \in Ids : heard[d] > 0 => heard'[d] > 0
    BY <1>1, <1>3, Delivering
  <2>2. \A v \in Workers \ {w} : runs'[v] = runs[v]
    BY <1>3 DEF TaskStep, StartRun, NothingToDo, PostAccepted, PostUnanswered, PostRefused, Retry,
         GiveUp, Collide, LoseRun, Redeliver, RecordDelivered, EndRun, TypeOK
  <2>3. \A v \in Workers : runs[v].phase = "accepted" => runs[v].id \in Ids
    BY <1>0 DEF Phased, NoRun
  <2>4. runs'[w].phase = "accepted" => heard'[runs'[w].id] > 0
    <3>1. CASE PostAccepted(w)
      <4>1. runs[w].id \in Ids /\ runs'[w].id = runs[w].id
        BY <3>1, <1>0 DEF PostAccepted, Phased, NoRun, TypeOK
      <4>2. heard'[runs[w].id] = heard[runs[w].id] + 1
        BY <3>1, <4>1 DEF PostAccepted, TypeOK
      <4> QED BY <1>1, <4>1, <4>2
    <3>2. CASE runs'[w] = runs[w]
      BY <2>1, <2>3, <3>2 DEF Honest
    <3>3. CASE ~PostAccepted(w) /\ runs'[w] # runs[w]
      BY <1>0, <1>3, <3>3 DEF TaskStep, StartRun, NothingToDo, PostUnanswered, PostRefused, Retry,
           GiveUp, Collide, LoseRun, Redeliver, RecordDelivered, EndRun, NoRun, Phased, TypeOK
    <3> QED BY <3>1, <3>2, <3>3
  <2>5. \A d \in Ids : d \in DOMAIN deliveries' /\ deliveries'[d].status = "DELIVERED" => heard'[d] > 0
    <3>1. CASE RecordDelivered(w)
      <4>1. runs[w].phase = "accepted" /\ runs[w].id \in Ids /\ heard[runs[w].id] > 0
        BY <2>3, <3>1 DEF RecordDelivered, Honest
      <4>2. /\ DOMAIN deliveries' = DOMAIN deliveries
            /\ \A d \in DOMAIN deliveries : d # runs[w].id => deliveries'[d] = deliveries[d]
        BY <3>1 DEF RecordDelivered
      <4> QED BY <2>1, <4>1, <4>2 DEF Honest
    <3>2. CASE TaskStep(w)
      <4>1. deliveries' = deliveries
        BY <3>2 DEF TaskStep, StartRun, NothingToDo, PostAccepted, PostUnanswered, PostRefused, Retry,
             GiveUp, Collide, LoseRun, Redeliver, rowvars
      <4> QED BY <2>1, <4>1 DEF Honest
    <3> QED BY <1>3, <3>1, <3>2
  <2> QED BY <2>1, <2>2, <2>3, <2>4, <2>5 DEF Honest
<1> QED BY <1>2, <1>3

-----------------------------------------------------------------------------
(***************************************************************************)
(* The notices (TenantNotices).                                            *)
(***************************************************************************)
\* A closing transaction changes the status, and the event of one that queues
\* nothing is queued already.
Announcing ==
  \A c \in Closers :
    /\ Closing(c) => closers[c].target # status
    /\ closers[c].phase = "queued" /\ ~closers[c].new => Existing(closers[c].target)

\* Only the transaction that has the lock sets the status or adds a row.
LEMMA AnnouncingRow ==
  ASSUME TypeOK, RowInv, Announcing, NEW c \in Closers, RowStep(c)
  PROVE  Announcing'
<1>0. "nobody" \notin Closers /\ \A b \in Closers : Closing(b) <=> lock = b
  BY WebhookAssumption DEF RowInv, Locking
<1>1. ASSUME NEW x, closers' = [closers EXCEPT ![c] = x]
      PROVE  closers'[c] = x /\ \A b \in Closers \ {c} : closers'[b] = closers[b]
  BY <1>1 DEF TypeOK
<1>2. ASSUME NEW target \in Statuses, Close(c, target) PROVE Announcing'
  <2>1. /\ closers'[c] = [phase |-> "locked", target |-> target]
        /\ \A b \in Closers \ {c} : closers'[b] = closers[b] /\ ~Closing(b)
        /\ status' = status /\ status # target
    BY <1>0, <1>1, <1>2 DEF Close
  <2> QED BY <2>1 DEF Announcing, Closing
<1>3. CASE QueueSessionEvent(c)
  <2>1. /\ closers'[c] = [phase |-> "queued", target |-> closers[c].target,
                          new |-> ~Existing(closers[c].target)]
        /\ \A b \in Closers \ {c} : closers'[b] = closers[b]
        /\ UNCHANGED <<status, deliveries>> /\ closers[c].phase = "locked"
    BY <1>1, <1>3 DEF QueueSessionEvent
  <2>2. \A e : Existing(e)' <=> Existing(e)
    BY <2>1 DEF Existing
  <2>3. closers'[c].new = ~Existing(closers[c].target) /\ closers'[c].target = closers[c].target
    BY <2>1
  <2>4. ~closers'[c].new => Existing(closers[c].target)'
    BY <2>2, <2>3, Zenon
  <2> QED BY <2>1, <2>2, <2>3, <2>4 DEF Announcing, Closing
<1>4. CASE Commit(c) \/ Abort(c)
  <2>1. /\ \A b \in Closers \ {c} : closers'[b] = closers[b] /\ ~Closing(b)
        /\ closers'[c].phase \in {"idle", "sending"}
    BY <1>0, <1>4 DEF Commit, Abort, Closing, TypeOK, NoClose
  <2> QED BY <2>1 DEF Announcing, Closing
<1> QED BY <1>2, <1>3, <1>4 DEF RowStep

LEMMA AnnouncingNext == Inv /\ Announcing /\ [Next]_vars => Announcing'
<1> SUFFICES ASSUME Inv, Announcing, [Next]_vars PROVE Announcing'
  OBVIOUS
<1>0. TypeOK /\ RowInv
  BY DEF Inv
<1>1. CASE UNCHANGED vars
  BY <1>1 DEF vars, rowvars, Announcing, Closing, Existing
<1>2. ASSUME NEW c \in Closers, DispatchStep(c) PROVE Announcing'
  <2>1. /\ UNCHANGED <<status, deliveries>>
        /\ \A b \in Closers : closers'[b] = IF b = c THEN NoClose ELSE closers[b]
    BY <1>0, <1>2 DEF DispatchStep, Dispatch, DispatchLost, TypeOK
  <2> QED BY <2>1 DEF Announcing, Closing, Existing, NoClose
<1>3. ASSUME NEW w \in Workers, TaskStep(w) \/ RecordDelivered(w) PROVE Announcing'
  BY <1>0, <1>3, RowsKept DEF Announcing, Closing
<1> QED BY <1>0, <1>1, <1>2, <1>3, NextCases, AnnouncingRow

\* An event is queued just when its status is among the notices.
LEMMA NoticedIsExisting ==
  ASSUME TypeOK, NEW e
  PROVE  /\ Existing(e) <=> e \in Notices!Noticed
         /\ Notices!Noticed = {deliveries[d].event : d \in DOMAIN deliveries}
<1>1. \A d \in DOMAIN deliveries : deliveries[d].status \in {"PENDING", "DELIVERED"}
  <2>1. \A d \in DOMAIN deliveries : deliveries[d] \in Delivery
    BY DEF TypeOK
  <2> QED BY <2>1 DEF Delivery
<1>2. Notices!Noticed = {deliveries[d].event : d \in DOMAIN deliveries}
  BY DEF Notices!Noticed, Queued
<1> QED BY <1>1, <1>2 DEF Existing

\* The commit of a status that has no row yet adds its notice, unheard.
LEMMA NoticesAppend ==
  ASSUME TypeOK, Committed, NEW s \in Statuses, Len(deliveries) + 1 \in Ids, UNCHANGED heard,
         deliveries' = Append(deliveries, [event |-> s, status |-> "PENDING"])
  PROVE  Queued' = Append(Queued, s) /\ UNCHANGED <<Heard, Delivered>>
<1> DEFINE n == Len(deliveries) + 1
<1>1. /\ DOMAIN deliveries = 1 .. Len(deliveries) /\ Len(deliveries) \in Nat
      /\ DOMAIN deliveries' = DOMAIN deliveries \cup {n} /\ n \notin DOMAIN deliveries
      /\ DOMAIN deliveries' = 1 .. n
      /\ deliveries'[n] = [event |-> s, status |-> "PENDING"]
      /\ \A d \in DOMAIN deliveries : deliveries'[d] = deliveries[d]
  BY DEF TypeOK
<1>2. Queued' = Append(Queued, s)
  <2>1. Queued \in Seq(Statuses) /\ Len(Queued) = Len(deliveries)
    <3>1. \A d \in DOMAIN deliveries : deliveries[d].event \in Statuses
      <4>1. \A d \in DOMAIN deliveries : deliveries[d] \in Delivery
        BY DEF TypeOK
      <4> QED BY <4>1 DEF Delivery
    <3> QED BY <1>1, <3>1 DEF Queued
  <2>2. /\ Append(Queued, s) \in Seq(Statuses)
        /\ DOMAIN Append(Queued, s) = 1 .. n
        /\ Append(Queued, s)[n] = s
        /\ \A d \in DOMAIN deliveries : Append(Queued, s)[d] = Queued[d]
    BY <1>1, <2>1
  <2>3. \A d \in 1 .. n : Queued'[d] = Append(Queued, s)[d]
    BY <1>1, <2>2 DEF Queued
  <2>4. Queued' \in Seq(Statuses) /\ Len(Queued') = n
    <3>1. \A d \in 1 .. n : Queued'[d] \in Statuses
      BY <1>1, <2>1, <2>2, <2>3, ElementOfSeq
    <3>2. Queued' = [d \in 1 .. n |-> Queued'[d]] /\ n \in Nat
      BY <1>1 DEF Queued
    <3> QED BY <3>1, <3>2
  <2>5. Len(Append(Queued, s)) = n
    BY <1>1, <2>1
  <2> HIDE DEF n
  <2>6. \A i \in 1 .. Len(Queued') : Queued'[i] = Append(Queued, s)[i]
    BY <2>3, <2>4
  <2>7. Append(Queued, s) \in Seq(Statuses)
    BY <2>2
  <2> QED BY <2>4, <2>5, <2>6, <2>7, SeqEqual
<1>3. ~(heard[n] > 0)
  BY <1>1 DEF Committed
<1>4. Heard' = Heard
  BY <1>1, <1>3 DEF Heard, Events
<1>5. Delivered' = Delivered
  BY <1>1 DEF Delivered, Events
<1> QED BY <1>2, <1>4, <1>5

LEMMA NoticesRow ==
  ASSUME Inv, Announcing, NEW c \in Closers, RowStep(c) \/ DispatchStep(c)
  PROVE  [Notices!Next]_(Notices!vars)
<1>0. TypeOK /\ RowInv /\ Committed /\ Phased
  BY Phases DEF Inv
<1>1. CASE ~Commit(c)
  <2>1. UNCHANGED <<status, deliveries, heard>>
    BY <1>1 DEF RowStep, DispatchStep, Close, QueueSessionEvent, Abort, Dispatch, DispatchLost, taskvars
  <2> QED BY <2>1 DEF Notices!vars, Queued, Heard, Delivered, Events
<1>2. CASE Commit(c)
  <2> DEFINE s == closers[c].target
  <2>1. /\ Closing(c) /\ closers[c].phase = "queued"
        /\ status' = s /\ UNCHANGED heard
        /\ deliveries' = IF closers[c].new
                         THEN Append(deliveries, [event |-> s, status |-> "PENDING"])
                         ELSE deliveries
    BY <1>2 DEF Commit, Closing
  <2>2. s \in Statuses /\ status # s
    BY <1>0, <2>1 DEF Phased, Announcing
  <2>3. closers[c].new <=> s \notin Notices!Noticed
    BY <1>0, <2>1, NoticedIsExisting DEF RowInv, NewIsNew, Announcing
  <2>4. Queued' = (IF s \in Notices!Noticed THEN Queued ELSE Append(Queued, s))
        /\ UNCHANGED <<Heard, Delivered>>
    <3>1. CASE closers[c].new
      <4>1. Len(deliveries) + 1 \in Ids
        BY <1>0, <2>1, WebhookAssumption DEF RowInv, Locking, TypeOK, Ids
      <4> QED BY <1>0, <2>1, <2>2, <2>3, <3>1, <4>1, NoticesAppend
    <3>2. CASE ~closers[c].new
      BY <2>1, <2>3, <3>2 DEF Queued, Heard, Delivered, Events
    <3> QED BY <3>1, <3>2
  <2>5. Notices!Change(s)
    BY <2>1, <2>2, <2>4 DEF Notices!Change
  <2> QED BY <2>2, <2>5 DEF Notices!Next
<1> QED BY <1>1, <1>2

\* A run that is taken has its notice heard, and one that is recorded has it
\* ticked off.
LEMMA NoticesTask ==
  ASSUME Inv, Honest, NEW w \in Workers, TaskStep(w) \/ RecordDelivered(w)
  PROVE  [Notices!Next]_(Notices!vars)
<1> DEFINE d == runs[w].id
           e == deliveries[d].event
<1>0. TypeOK /\ Phased
  BY Phases DEF Inv
<1>1. /\ status' = status /\ DOMAIN deliveries' = DOMAIN deliveries
      /\ \A i \in DOMAIN deliveries : deliveries'[i].event = deliveries[i].event
  BY <1>0, RowsKept
<1>2. Queued' = Queued
  BY <1>1 DEF Queued
<1>3. runs[w] # NoRun => d \in DOMAIN deliveries /\ d \in Ids /\ e \in Statuses
  <2>1. \A i \in DOMAIN deliveries : deliveries[i] \in Delivery
    BY <1>0 DEF TypeOK
  <2>2. \A i \in DOMAIN deliveries : deliveries[i].event \in Statuses
    BY <2>1 DEF Delivery
  <2> QED BY <1>0, <2>2 DEF Phased
<1>4. \A i \in Ids : heard[i] \in Nat
  BY <1>0 DEF TypeOK
<1>5. DOMAIN deliveries \subseteq Ids
  BY <1>0, WebhookAssumption DEF TypeOK, Ids
<1>6. CASE PostAccepted(w) \/ PostUnanswered(w)
  <2>1. /\ runs[w] # NoRun /\ deliveries' = deliveries
        /\ heard' = [heard EXCEPT ![d] = @ + 1]
    BY <1>6 DEF PostAccepted, PostUnanswered, rowvars, NoRun
  <2>2. \A i \in DOMAIN deliveries : heard'[i] > 0 <=> (heard[i] > 0 \/ i = d)
    BY <1>0, <1>3, <1>4, <1>5, <2>1 DEF TypeOK
  <2>3. Heard' = Heard \cup {e}
    BY <1>3, <2>1, <2>2 DEF Heard, Events
  <2>4. Delivered' = Delivered
    BY <2>1 DEF Delivered, Events
  <2>5. e \in Notices!Noticed
    BY <1>0, <1>3, <2>1, NoticedIsExisting
  <2>6. Notices!Hear(e)
    BY <1>1, <1>2, <2>3, <2>4, <2>5 DEF Notices!Hear
  <2> QED BY <1>3, <2>1, <2>6 DEF Notices!Next
<1>7. CASE RecordDelivered(w)
  <2>1. /\ runs[w] # NoRun /\ runs[w].phase = "accepted" /\ UNCHANGED heard
        /\ deliveries' = [deliveries EXCEPT ![d].status = "DELIVERED"]
    BY <1>7 DEF RecordDelivered, NoRun
  <2>2. Heard' = Heard
    BY <1>1, <2>1 DEF Heard, Events
  <2>3. /\ \A i \in DOMAIN deliveries : i # d => deliveries'[i] = deliveries[i]
        /\ deliveries'[d].status = "DELIVERED"
    <3>1. deliveries[d] \in Delivery
      BY <1>0, <1>3, <2>1 DEF TypeOK
    <3> QED BY <1>3, <2>1, <3>1 DEF Delivery
  <2>4. Delivered' = Delivered \cup {e}
    BY <1>1, <1>3, <2>1, <2>3 DEF Delivered, Events
  <2>5. e \in Heard
    BY <1>3, <2>1 DEF Honest, Heard, Events
  <2>6. Notices!TickOff(e)
    BY <1>1, <1>2, <2>2, <2>4, <2>5 DEF Notices!TickOff
  <2> QED BY <1>3, <2>1, <2>6 DEF Notices!Next
<1>8. CASE ~PostAccepted(w) /\ ~PostUnanswered(w) /\ ~RecordDelivered(w)
  <2>1. UNCHANGED <<deliveries, heard>>
    BY <1>8 DEF TaskStep, StartRun, NothingToDo, PostRefused, Retry, GiveUp, Collide, LoseRun,
         Redeliver, rowvars
  <2> QED BY <1>1, <1>2, <2>1 DEF Notices!vars, Heard, Delivered, Events
<1> QED BY <1>6, <1>7, <1>8

-----------------------------------------------------------------------------
(***************************************************************************)
(* The theorems.                                                           *)
(***************************************************************************)
LEMMA NextInv == Inv /\ [Next]_vars => Inv'
<1> SUFFICES ASSUME Inv, [Next]_vars PROVE Inv'
  OBVIOUS
<1>1. CASE UNCHANGED vars
  <2>1. UNCHANGED <<status, shown, lock, closers, deliveries, queue, runs, heard, dropped, closings,
                    outages, mishaps, collisions>>
    BY <1>1 DEF vars, rowvars, taskvars, faults
  <2> QED BY <2>1 DEF Inv, TypeOK, RowInv, Locking, Closing, NewIsNew, Existing, OneDeliveryPerEvent,
                      Committed, RetriesWereRefused, UnheardHasCause
<1>2. CASE Next
  BY <1>2, NextCases, TypeOKRow, TypeOKTask, RowInvRow, RowInvDispatch, RowInvTask,
     CommittedRow, CommittedDispatch, CommittedTask, CausesRow, CausesDispatch, CausesTask DEF Inv
<1> QED BY <1>1, <1>2

LEMMA AlwaysInv == Spec => []Inv
BY InitInv, NextInv, PTL DEF Spec

\* Every run delivers a committed row and there are never more rows than
\* closings; a stored row is PENDING or DELIVERED, never FAILED.
THEOREM WebhookTypeOK == Spec => []TypeOK
<1>1. Inv => TypeOK
  BY DEF Inv
<1> QED BY <1>1, AlwaysInv, PTL

\* However many transactions close and override the session at once, no event
\* is queued twice: queue_session_event() runs under the row lock.
THEOREM EventsAreQueuedOnce == Spec => []OneDeliveryPerEvent
<1>1. Inv => OneDeliveryPerEvent
  BY DEF Inv, RowInv
<1> QED BY <1>1, AlwaysInv, PTL

\* The tenant hears of committed statuses only: _dispatch_after_commit() sends
\* nothing for a transaction that rolls back.
THEOREM TenantHearsWhatWasShown == Spec => []ToldWhatWasShown
<1>1. Inv => ToldWhatWasShown
  BY DEF Inv, Committed, ToldWhatWasShown
<1> QED BY <1>1, AlwaysInv, PTL

\* A delivery is given up without having been heard only after more refused
\* POSTs than it has retries, a lost message or run, or a collision on the
\* audit chain.
THEOREM UnheardAlwaysHasCause == Spec => []UnheardHasCause
<1>1. Inv => UnheardHasCause
  BY DEF Inv
<1> QED BY <1>1, AlwaysInv, PTL

\* What the tenant hears twice has had its mishap, and DELIVERED is never a
\* guess: the chances of a delivery are handed on, not multiplied, by the hook,
\* the broker and the runs (deliver_webhook).
THEOREM HeardOnceOrAfterMishap == Spec => []HeardOnceOrMishap
<1> DEFINE Ledger == Honest /\ Budget
<1>1. Init => Ledger
  <2> SUFFICES ASSUME Init PROVE Honest /\ Budget
    OBVIOUS
  <2>1. Honest
    BY DEF Init, Honest, NoRun
  <2>2. ASSUME NEW d \in Ids
        PROVE  IsFiniteSet(Chances(d)) /\ heard[d] + Cardinality(Chances(d)) <= 1 + mishaps
    <3>1. Chances(d) = {}
      <4>1. \A c \in Closers : ~Sends(c, d)
        BY DEF Init, Sends, NoClose
      <4>2. \A w \in Workers : ~Posts(w, d)
        BY DEF Init, Posts, NoRun
      <4>3. \A k \in Tries, n \in Nat : ~(n < queue[<<d, k>>])
        BY DEF Init
      <4> QED BY <4>1, <4>2, <4>3, ChanceCases
    <3>2. heard[d] = 0 /\ mishaps = 0
      BY DEF Init
    <3> QED BY <3>1, <3>2, FS_EmptySet
  <2> QED BY <2>1, <2>2 DEF Budget
<1>2. Inv /\ Inv' /\ Ledger /\ [Next]_vars => Ledger'
  <2> SUFFICES ASSUME Inv, Inv', Honest, Budget, [Next]_vars PROVE Honest' /\ Budget'
    OBVIOUS
  <2>1. CASE UNCHANGED vars
    <3>1. UNCHANGED <<closers, deliveries, queue, runs, heard, mishaps>>
      BY <2>1 DEF vars, rowvars, taskvars, faults
    <3> QED BY <3>1 DEF Honest, Budget, Chances, Sends, Posts, Hook, Running
  <2>2. CASE Next
    <3>1. TypeOK /\ TypeOK' /\ RowInv /\ Committed
      BY DEF Inv
    <3> QED BY <2>2, <3>1, NextCases, HonestNext, BudgetRow, BudgetDispatch, BudgetTask
  <2> QED BY <2>1, <2>2
<1>3. Inv /\ Ledger => HeardOnceOrMishap
  <2> SUFFICES ASSUME Inv, Honest, Budget, NEW d \in Ids
               PROVE  /\ d \in DOMAIN deliveries /\ deliveries[d].status = "DELIVERED" => heard[d] > 0
                      /\ heard[d] <= 1 + mishaps
    BY DEF HeardOnceOrMishap
  <2>1. IsFiniteSet(Chances(d)) /\ heard[d] + Cardinality(Chances(d)) <= 1 + mishaps
    BY DEF Budget
  <2>2. Cardinality(Chances(d)) \in Nat /\ heard[d] \in Nat /\ mishaps \in Nat
    BY <2>1, FS_CardinalityType, WebhookAssumption DEF Inv, TypeOK
  <2> QED BY <2>1, <2>2 DEF Honest
<1> HIDE DEF Ledger
<1> QED BY <1>1, <1>2, <1>3, AlwaysInv, PTL DEF Spec

\* The webhooks implement the notices: no status is committed without its row,
\* by however many transactions that race, and what the brokers and the workers
\* lose or repeat never takes a notice back, tells another, or ticks one off
\* unheard.
THEOREM WebhooksKeepNotices == Spec => KeepsNotices
<1> DEFINE Telling == Honest /\ Announcing
<1>1. Init => Telling /\ Notices!Init
  <2> SUFFICES ASSUME Init PROVE Telling /\ Notices!Init
    OBVIOUS
  <2>1. Telling
    BY DEF Init, Honest, Announcing, Closing, NoRun, NoClose
  <2>2. Queued = <<>> /\ Heard = {} /\ Delivered = {}
    BY DEF Init, Queued, Heard, Delivered, Events
  <2> QED BY <2>1, <2>2 DEF Init, Notices!Init
<1>2. Inv /\ Telling /\ [Next]_vars => Telling'
  <2> SUFFICES ASSUME Inv, Honest, Announcing, [Next]_vars PROVE Honest' /\ Announcing'
    OBVIOUS
  <2>1. CASE UNCHANGED vars
    BY <2>1, AnnouncingNext DEF vars, rowvars, taskvars, Honest
  <2>2. CASE Next
    BY <2>2, NextCases, HonestNext, AnnouncingNext DEF Inv
  <2> QED BY <2>1, <2>2
<1>3. Inv /\ Telling /\ [Next]_vars => [Notices!Next]_(Notices!vars)
  <2> SUFFICES ASSUME Inv, Honest, Announcing, [Next]_vars
               PROVE  [Notices!Next]_(Notices!vars)
    OBVIOUS
  <2>1. CASE UNCHANGED vars
    BY <2>1 DEF vars, rowvars, Notices!vars, Queued, Heard, Delivered, Events
  <2>2. CASE Next
    BY <2>2, NextCases, NoticesRow, NoticesTask
  <2> QED BY <2>1, <2>2
<1> HIDE DEF Telling
<1> QED BY <1>1, <1>2, <1>3, AlwaysInv, PTL DEF Spec, KeepsNotices, Notices!Spec
=============================================================================
