--------------------------- MODULE AppendOnlyLog ---------------------------
(***************************************************************************)
(* What the audit engine promises of one session's chain: a log that grows *)
(* by whole transactions.  An entry, once readable, keeps its place and    *)
(* its content; there are no holes; each entry carries the hash of the one *)
(* before it; and the entries of one transaction appear together, next to  *)
(* one another, in one step.                                               *)
(***************************************************************************)
EXTENDS Naturals

CONSTANT NoHash     \* previous_event_hash of the first event

VARIABLE log        \* the readable entries, by sequence number

\* Entries without holes, each linked to the one before it.
Linked(entries) ==
  \A n \in DOMAIN entries :
    /\ n \in Nat \ {0}
    /\ n = 1 => entries[n].previous_event_hash = NoHash
    /\ n > 1 => /\ n - 1 \in DOMAIN entries
                /\ entries[n].previous_event_hash = entries[n - 1].event_hash

\* The first entry comes with the log.
Init == DOMAIN log = {1} /\ Linked(log)

Append ==
  /\ DOMAIN log \subseteq DOMAIN log'
  /\ \A n \in DOMAIN log : log'[n] = log[n]
  /\ \A n \in DOMAIN log' \ DOMAIN log :
       /\ \A m \in DOMAIN log : m < n /\ log[m].tx # log'[n].tx
       /\ \A m \in DOMAIN log' \ DOMAIN log : log'[m].tx = log'[n].tx
  /\ Linked(log')

Spec == Init /\ [][Append]_log
=============================================================================
