----------------------------- MODULE KycVerdict -----------------------------
(***************************************************************************)
(* What a tenant may rely on, without workers, checks or locks: a session  *)
(* is open until the engine decides it or its time runs out, that happens  *)
(* once, and from then on only an operator's audited override changes the  *)
(* status.  Every verdict is in the audit trail, and the tenant is told of *)
(* every status the session took, once each.                               *)
(***************************************************************************)
EXTENDS Sequences, Naturals

CONSTANT Hooked   \* does the tenant have a webhook_url?

VARIABLES
  status,   \* the status the API answers
  trail,    \* the verdicts in the audit chain
  outbox    \* the statuses the tenant is told of

vars == <<status, trail, outbox>>

Engine   == {"VERIFIED", "REJECTED", "REVIEW"}
Closed   == Engine \cup {"EXPIRED"}
Verdicts == {trail[i].status : i \in DOMAIN trail}
Told     == {outbox[i] : i \in DOMAIN outbox}

Init ==
  /\ status = "CREATED"
  /\ trail = <<>>
  /\ outbox = <<>>

Tell(s) == outbox' = IF Hooked /\ s \notin Told THEN Append(outbox, s) ELSE outbox

\* A first result, or nothing that concerns the tenant.
Progress ==
  /\ status = "CREATED"
  /\ status' = "IN_PROGRESS"
  /\ UNCHANGED <<trail, outbox>>

Record(event, s) == trail' = Append(trail, [event |-> event, status |-> s])

Decide(s) ==
  /\ status \notin Closed
  /\ status' = s
  /\ Record("KYC_DECISION", s)
  /\ Tell(s)

Expire ==
  /\ status \notin Closed
  /\ status' = "EXPIRED"
  /\ Record("SESSION_EXPIRED", "EXPIRED")
  /\ Tell("EXPIRED")

Override(s) ==
  /\ status' = s
  /\ Record("DECISION_OVERRIDDEN", s)
  /\ Tell(s)

Next ==
  \/ Progress
  \/ \E s \in Engine : Decide(s)
  \/ Expire
  \/ \E s \in Closed : Override(s)

Spec == Init /\ [][Next]_vars
=============================================================================
