--------------------------- MODULE TenantNotices ---------------------------
(***************************************************************************)
(* What a tenant with a webhook_url may rely on, without transactions,     *)
(* locks, brokers or workers: a session never takes a new status without   *)
(* the notice of it, in the same step and once per status; the tenant      *)
(* hears of what was noticed and of nothing else; and a notice is ticked   *)
(* off only after the tenant has heard it, for good.                       *)
(***************************************************************************)
EXTENDS Naturals, Sequences

CONSTANT Statuses   \* the terminal statuses

VARIABLES
  status,   \* the status the API answers
  notices,  \* the statuses to tell the tenant, oldest first
  known,    \* those the tenant has heard of
  ticked    \* those that are never sent again

vars == <<status, notices, known, ticked>>

Noticed == {notices[i] : i \in DOMAIN notices}

Init ==
  /\ status = "OPEN"
  /\ notices = <<>>
  /\ known = {} /\ ticked = {}

\* The session closes, or an operator overrides the verdict.
Change(s) ==
  /\ status # s
  /\ status' = s
  /\ notices' = IF s \in Noticed THEN notices ELSE Append(notices, s)
  /\ UNCHANGED <<known, ticked>>

\* The tenant hears a notice, perhaps not for the first time.
Hear(s) ==
  /\ s \in Noticed
  /\ known' = known \cup {s}
  /\ UNCHANGED <<status, notices, ticked>>

TickOff(s) ==
  /\ s \in known
  /\ ticked' = ticked \cup {s}
  /\ UNCHANGED <<status, notices, known>>

Next == \E s \in Statuses : Change(s) \/ Hear(s) \/ TickOff(s)

Spec == Init /\ [][Next]_vars
=============================================================================
