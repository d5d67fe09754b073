------------------------------- MODULE Custody -------------------------------
(***************************************************************************)
(* What becomes of a session's files: uploads, sealed documents and their  *)
(* timestamp tokens, until the retention purge.                            *)
(*                                                                         *)
(* A file is in two places: a blob in a vault, written at once, and a row  *)
(* of artifacts, visible when the transaction commits.  Nothing ties them  *)
(* together: a rollback leaves the blob, a purge deletes blobs before it   *)
(* commits, and blobs are found by a key made of the day, the kind and the *)
(* file name, so a second file of the same name replaces the first.        *)
(* One session, one vault, one day; hashes have no collisions; encryption  *)
(* is on (Seal, Open).                                                     *)
(***************************************************************************)
EXTENDS TrustServices, FiniteSets, FiniteSetsExt

CONSTANTS
  Requests,   \* API requests and task runs at once
  Files,      \* bound: the files end users and tenants send
  Configs,    \* the settings in play
  Asked,      \* the jurisdictions a session asks for
  MaxWork     \* bound: requests and runs, ever

ASSUME CustodyAssumption == MaxWork \in Nat /\ Files # {} /\ IsFiniteSet(Requests)

\* EKYC_TSAS_JSON is a finite list of named entries.
ASSUME ConfigsAssumption ==
  \A c \in Configs : c.tsas \in Seq([name : STRING, qualified : BOOLEAN])

VARIABLES
  cfg,        \* the settings
  profile,    \* the session's snapshot of what they say
  phase,      \* open, closed, due (closed and past its retention)
  purged,     \* session.purged_at is set
  personal,   \* identity and OCR fields are stored
  blobs,      \* the vault, by key
  artifacts,  \* the committed rows, oldest first
  signed,     \* the committed rows of signed_documents, oldest first
  listed,     \* audit: the rows each DATA_PURGED event lists
  reqs,       \* what each request or run is doing
  puts,       \* how often each key was written
  orphaned,   \* keys written by a transaction that was rolled back
  failed,     \* rows of which a purge could not delete the blob
  undone,     \* purges rolled back after they deleted blobs
  work

settings == <<cfg, profile>>
rows     == <<purged, personal, artifacts, signed, listed>>
vault    == <<blobs, puts>>
faults   == <<orphaned, failed, undone>>
vars     == <<settings, phase, rows, vault, reqs, faults, work>>

-----------------------------------------------------------------------------
(***************************************************************************)
(* Contents, keys, rows.                                                   *)
(***************************************************************************)
\* A certificate names its moment of issue and a token its issued_at, so no
\* two requests make the same; the sealed file embeds what both say.
Sent(file)                == [file |-> file]
Certificate(n)            == [certificate |-> n]
TokenOf(source, n, reply) == [token_of |-> source, n |-> n, reply |-> reply]
Sealed(source, n)         == [sealed |-> source, n |-> n]

Numbers  == 1 .. MaxWork
Sources  == {Sent(f) : f \in Files} \cup {Certificate(n) : n \in Numbers}
Replies  == Answers \cup {"signed"}
Contents == Sources \cup {TokenOf(c, n, a) : c \in Sources, n \in Numbers, a \in Replies}
                    \cup {Sealed(c, n) : c \in Sources, n \in Numbers}

\* What a key depends on: the kind and the file name.  A contract is named by
\* the tenant's reference, a token by the hash of its document.
Names == {"upload", "contract", "certificate", "signed_contract", "signed_certificate"}
Key(name)        == [name |-> name]
TokenKey(source) == [token_of |-> source]
SignedKey(reference) ==
  Key(IF reference = "contract" THEN "signed_contract" ELSE "signed_certificate")

Keys  == {Key(name) : name \in Names} \cup {TokenKey(c) : c \in Sources}

\* vault.seal() and vault.open(), under the tenant's key.
Seal(content) == [ciphertext |-> content]
Open(blob)    == blob.ciphertext

NoBlob == [missing |-> TRUE]

\* Slip: the hash of the payload, not of the plaintext.
RowOfPayload(key, content) == [key |-> key, sha256 |-> Seal(content), purged |-> FALSE]

Row(key, content) == [key |-> key, sha256 |-> content, purged |-> FALSE]

Artifact == [key : Keys, sha256 : Contents, purged : BOOLEAN]

\* read_artifact(): the content, or nothing where it raises.
Read(key) == IF blobs[key] = NoBlob THEN NoBlob ELSE Open(blobs[key])

Idle == [step |-> "idle"]
Steps == {"put_source", "timestamp", "put_token", "put_signed", "commit", "read", "apply", "list", "delete"}

TypeOK ==
  /\ cfg \in Configs
  /\ profile.name \in DOMAIN Jurisdictions(cfg)
  /\ ResolvePolicy(cfg, profile.tsa_policy) # Unknown
  /\ phase \in {"open", "closed", "due"}
  /\ purged \in BOOLEAN /\ personal \in BOOLEAN
  /\ blobs \in [Keys -> {NoBlob} \cup {Seal(c) : c \in Contents}]
  /\ artifacts \in Seq(Artifact)
  /\ \A s \in ToSet(signed) :
       /\ {s.source, s.token_row, s.row} \subseteq DOMAIN artifacts
       /\ s.reference \in {"contract", "certificate"}
  /\ \A l \in ToSet(listed) : l \subseteq DOMAIN artifacts
  /\ \A r \in Requests : reqs[r] # Idle => reqs[r].step \in Steps /\ reqs[r].n \in 1 .. work
  /\ puts \in [Keys -> Nat]
  /\ orphaned \subseteq Keys /\ failed \subseteq DOMAIN artifacts
  /\ undone \in Nat /\ work \in 0 .. MaxWork

\* create_session(): a session whose services are not deployed is refused.
Init ==
  /\ cfg \in Configs
  /\ \E asked \in Asked : profile = Resolve(cfg, asked, None)
  /\ Deployable(cfg, profile)
  /\ phase = "open"
  /\ purged = FALSE /\ personal = FALSE
  /\ blobs = [k \in Keys |-> NoBlob]
  /\ artifacts = <<>> /\ signed = <<>> /\ listed = <<>>
  /\ reqs = [r \in Requests |-> Idle]
  /\ puts = [k \in Keys |-> 0]
  /\ orphaned = {} /\ failed = {}
  /\ undone = 0 /\ work = 0

At(r, step)   == reqs[r].step = step
Goto(r, step) == reqs' = [reqs EXCEPT ![r].step = step]
EndRequest(r) == reqs' = [reqs EXCEPT ![r] = Idle]

Begin(r, req) ==
  /\ reqs[r] = Idle
  /\ work < MaxWork
  /\ work' = work + 1
  /\ reqs' = [reqs EXCEPT ![r] = req]
  /\ UNCHANGED <<settings, phase, rows, vault, faults>>

\* storage.put(): the blob is there at once.
Put(key, content) ==
  /\ blobs' = [blobs EXCEPT ![key] = Seal(content)]
  /\ puts' = [puts EXCEPT ![key] = @ + 1]

\* The session closes, and its retention period ends.
Close  == phase = "open" /\ phase' = "closed" /\ UNCHANGED <<settings, rows, vault, reqs, faults, work>>
Elapse == phase = "closed" /\ phase' = "due" /\ UNCHANGED <<settings, rows, vault, reqs, faults, work>>

-----------------------------------------------------------------------------
(***************************************************************************)
(* Uploads, and sealing a document.                                        *)
(***************************************************************************)
\* require_open() is looked at once, here.
StartUpload(r, file) ==
  /\ phase = "open"
  /\ Begin(r, [step |-> "put_source", n |-> work + 1, reference |-> "upload", content |-> Sent(file)])

\* seal_contract(): the tenant's file, at any status.
StartContract(r, file) ==
  Begin(r, [step |-> "put_source", n |-> work + 1, reference |-> "contract", content |-> Sent(file)])

\* Slip: looked for under the reference of contracts.
NoContractYet == ~\E s \in ToSet(signed) : s.reference = "contract"

NoCertificateYet == ~\E s \in ToSet(signed) : s.reference = "certificate"

\* kyc_certificate() when there is none yet.
StartCertificate(r) ==
  /\ NoCertificateYet
  /\ Begin(r, [step |-> "put_source", n |-> work + 1, reference |-> "certificate",
               content |-> Certificate(work + 1)])

\* The first blob; an upload has only this one.
PutSource(r) ==
  /\ At(r, "put_source")
  /\ Put(Key(reqs[r].reference), reqs[r].content)
  /\ Goto(r, IF reqs[r].reference = "upload" THEN "commit" ELSE "timestamp")
  /\ UNCHANGED <<settings, phase, rows, faults, work>>

\* seal_document()'s qualified_timestamp: the certificate forces the policy,
\* which then never names an authority.
Policy(reference) ==
  IF reference # "certificate" THEN profile.tsa_policy
  ELSE IF cfg.qualified_certificates \/ profile.tsa_policy = "qualified"
       THEN "qualified" ELSE "internal"

GetTimestamp(r, answer) ==
  /\ At(r, "timestamp")
  /\ reqs' = [reqs EXCEPT ![r] =
       [step |-> "put_token", n |-> @.n, reference |-> @.reference, content |-> @.content,
        token |-> Timestamp(cfg, Policy(@.reference), answer)]]
  /\ UNCHANGED <<settings, phase, rows, vault, faults, work>>

PutToken(r) ==
  /\ At(r, "put_token")
  /\ Put(TokenKey(reqs[r].content), TokenOf(reqs[r].content, reqs[r].n, reqs[r].token.reply))
  /\ Goto(r, "put_signed")
  /\ UNCHANGED <<settings, phase, rows, faults, work>>

PutSigned(r) ==
  /\ At(r, "put_signed")
  /\ Put(SignedKey(reqs[r].reference), Sealed(reqs[r].content, reqs[r].n))
  /\ Goto(r, "commit")
  /\ UNCHANGED <<settings, phase, rows, faults, work>>

\* The rows of the transaction become visible together.
CommitFiles(r) ==
  LET q == reqs[r]
      source == Row(Key(q.reference), q.content)
      token  == Row(TokenKey(q.content), TokenOf(q.content, q.n, q.token.reply))
      file   == Row(SignedKey(q.reference), Sealed(q.content, q.n))
      before == Len(artifacts) IN
  /\ At(r, "commit")
  /\ IF q.reference = "upload"
     THEN /\ artifacts' = Append(artifacts, source)
          /\ UNCHANGED signed
     ELSE /\ artifacts' = artifacts \o <<source, token, file>>
          /\ signed' = Append(signed, [reference |-> q.reference, n |-> q.n, token |-> q.token,
                                       source |-> before + 1, token_row |-> before + 2,
                                       row |-> before + 3])
  /\ EndRequest(r)
  /\ UNCHANGED <<settings, phase, purged, personal, listed, vault, faults, work>>

\* The keys a request has written so far.
Written(q) ==
  CASE q.step \in {"timestamp", "put_token"} -> {Key(q.reference)}
    [] q.step = "put_signed" -> {Key(q.reference), TokenKey(q.content)}
    [] q.step = "commit" ->
         {Key(q.reference)} \cup
         (IF q.reference = "upload" THEN {} ELSE {TokenKey(q.content), SignedKey(q.reference)})
    [] OTHER -> {}

-----------------------------------------------------------------------------
(***************************************************************************)
(* The document task.                                                      *)
(***************************************************************************)
StartTask(r, i) ==
  /\ i \in DOMAIN artifacts
  /\ artifacts[i].key = Key("upload")
  /\ Begin(r, [step |-> "read", n |-> work + 1, row |-> i])

\* Slip: the image comes with the message.
ReadMessage(r) ==
  /\ At(r, "read")
  /\ reqs' = [reqs EXCEPT ![r] = [step |-> "apply", n |-> @.n, row |-> @.row, purges |-> Len(listed)]]
  /\ UNCHANGED <<settings, phase, rows, vault, faults, work>>

\* A missing blob is an error, and ends the run.
ReadImage(r) ==
  /\ At(r, "read")
  /\ IF Read(artifacts[reqs[r].row].key) = NoBlob THEN EndRequest(r)
     ELSE reqs' = [reqs EXCEPT ![r] = [step |-> "apply", n |-> @.n, row |-> @.row, purges |-> Len(listed)]]
  /\ UNCHANGED <<settings, phase, rows, vault, faults, work>>

\* The OCR fields and the identity, whatever happened during the inference.
Apply(r) ==
  /\ At(r, "apply")
  /\ personal' = TRUE
  /\ EndRequest(r)
  /\ UNCHANGED <<settings, phase, purged, artifacts, signed, listed, vault, faults, work>>

-----------------------------------------------------------------------------
(***************************************************************************)
(* The purge, nightly or from the admin route.                             *)
(***************************************************************************)
StartPurge(r) ==
  /\ phase = "due" /\ ~purged
  /\ Begin(r, [step |-> "list", n |-> work + 1])

\* The event with every row of the session comes first; the rows that were
\* not purged are to be deleted.
List(r) ==
  LET todo == {i \in DOMAIN artifacts : ~artifacts[i].purged} IN
  /\ At(r, "list")
  /\ reqs' = [reqs EXCEPT ![r] =
       [step |-> "delete", n |-> @.n, list |-> DOMAIN artifacts, todo |-> todo,
        gone |-> {}, failed |-> {}]]
  /\ UNCHANGED <<settings, phase, rows, vault, faults, work>>

Deleting(r) == At(r, "delete") /\ reqs[r].todo # {}
Current(r)  == Min(reqs[r].todo)

\* Deleted, or already gone: marked in either case.
Delete(r) ==
  LET i == Current(r) IN
  /\ Deleting(r)
  /\ blobs' = [blobs EXCEPT ![artifacts[i].key] = NoBlob]
  /\ reqs' = [reqs EXCEPT ![r].todo = @ \ {i}, ![r].gone = @ \cup {i}]
  /\ UNCHANGED <<settings, phase, rows, puts, faults, work>>

\* Slip: a blob that could not be deleted counts as missing.
DeleteFailsQuietly(r) ==
  /\ Deleting(r)
  /\ reqs' = [reqs EXCEPT ![r].todo = @ \ {Current(r)}, ![r].gone = @ \cup {Current(r)}]
  /\ UNCHANGED <<settings, phase, rows, vault, faults, work>>

DeleteFails(r) ==
  /\ Deleting(r)
  /\ reqs' = [reqs EXCEPT ![r].todo = @ \ {Current(r)}, ![r].failed = @ \cup {Current(r)}]
  /\ UNCHANGED <<settings, phase, rows, vault, faults, work>>

\* Slip: listed after the deletions, what is left.
ListOfLeft(q) == q.list \ q.gone

\* The rows of the DATA_PURGED event.
ListOf(q) == q.list

\* Slip: the rows keep no trace of it.
UnmarkedRows(q) == artifacts

MarkedRows(q) == [i \in DOMAIN artifacts |->
  IF i \in q.gone THEN [artifacts[i] EXCEPT !.purged = TRUE] ELSE artifacts[i]]

\* The rest is wiped, and the session marked, whatever failed.
CommitPurge(r) ==
  /\ At(r, "delete") /\ reqs[r].todo = {}
  /\ listed' = Append(listed, ListOf(reqs[r]))
  /\ artifacts' = MarkedRows(reqs[r])
  /\ failed' = failed \cup reqs[r].failed
  /\ personal' = FALSE
  /\ purged' = TRUE
  /\ EndRequest(r)
  /\ UNCHANGED <<settings, phase, signed, vault, orphaned, undone, work>>

-----------------------------------------------------------------------------
\* An exception, a transaction the database refuses, a process gone: the
\* rows are rolled back, and the blobs are as they are.
Abort(r) ==
  /\ reqs[r] # Idle
  /\ orphaned' = orphaned \cup Written(reqs[r])
  /\ undone' = IF At(r, "delete") /\ reqs[r].gone # {} THEN undone + 1 ELSE undone
  /\ EndRequest(r)
  /\ UNCHANGED <<settings, phase, rows, vault, failed, work>>

Next ==
  \/ Close \/ Elapse
  \/ \E r \in Requests :
       \/ \E f \in Files : StartUpload(r, f) \/ StartContract(r, f)
       \/ StartCertificate(r)
       \/ PutSource(r) \/ PutToken(r) \/ PutSigned(r) \/ CommitFiles(r)
       \/ \E answer \in Answers : GetTimestamp(r, answer)
       \/ \E i \in DOMAIN artifacts : StartTask(r, i)
       \/ ReadImage(r) \/ Apply(r)
       \/ StartPurge(r) \/ List(r) \/ Delete(r) \/ DeleteFails(r) \/ CommitPurge(r)
       \/ Abort(r)

Spec == Init /\ [][Next]_vars

-----------------------------------------------------------------------------
(***************************************************************************)
(* What the archive must keep, and the purge must not.                     *)
(***************************************************************************)

BeingDeleted(i) == \E r \in Requests : At(r, "delete") /\ i \in reqs[r].gone

\* The row of a file that was not purged describes its blob, unless another
\* file was put under the same key, or a purge deleted it that was rolled back
\* or goes on (store_artifact, build_key).
RegistryDescribesBlobs ==
  \A i \in DOMAIN artifacts :
    LET a == artifacts[i] IN
    ~a.purged => Read(a.key) = a.sha256 \/ puts[a.key] > 1 \/ undone > 0 \/ BeingDeleted(i)

Unlisted(i) == \A l \in ToSet(listed) : i \notin l

\* Whatever the purges and failures, a row marked purged is in a DATA_PURGED
\* event: the chain documents what was removed (_purge_session).
PurgeProved == \A i \in DOMAIN artifacts : artifacts[i].purged => ~Unlisted(i)

\* A blob that is still there after the purge is one it could not delete, or
\* was never told of: committed after it listed the rows, or put by a
\* transaction that was rolled back or goes on (purge_expired_sessions).
LeftoversHaveCause ==
  purged =>
    \A k \in Keys : blobs[k] # NoBlob =>
      \/ k \in orphaned
      \/ \E r \in Requests : reqs[r] # Idle /\ k \in Written(reqs[r])
      \/ \E i \in DOMAIN artifacts : /\ artifacts[i].key = k
                                     /\ ~artifacts[i].purged
                                     /\ i \in failed \/ Unlisted(i)

\* Once wiped, personal data comes back only from a run that read its image
\* before a purge was committed, or an image the purge left
\* (identity.process_document).
WipedStaysWiped ==
  [][purged /\ ~personal /\ personal' =>
       \E r \in Requests :
         /\ At(r, "apply")
         /\ LET i == reqs[r].row IN
            reqs[r].purges < Len(listed) \/ i \in failed \/ Unlisted(i) \/ puts[artifacts[i].key] > 1]_vars

\* Two requests at once may both find no certificate and seal one each, but
\* never more than are handled at once: the next one finds theirs
\* (kyc_certificate).
CertificatesBounded ==
  Cardinality({j \in DOMAIN signed : signed[j].reference = "certificate"}) <= Cardinality(Requests)

\* The timestamp part of verify_document().
VerifyDocument(s) ==
  LET row  == artifacts[s.token_row]
      blob == Read(row.key)
      mine == TokenOf(artifacts[s.source].sha256, s.n, s.token.reply) IN
  CASE row.purged -> "purged"
    [] ~row.purged /\ blob = NoBlob -> "error"
    [] OTHER -> IF VerifyToken(blob.reply, blob = mine) THEN "sound" ELSE "unsound"

\* A record names a provider of the registry, and one that says qualified
\* has the answer of an authority the settings call qualified, never a
\* fallback's token.
Honest(token) ==
  \E p \in Range(Providers(cfg)) :
    /\ p.name = token.provider
    /\ token.qualified =>
         /\ p.mode = "external" /\ p.qualified
         /\ token.reply \in Answers \ {"failed"}

\* The proof outlives the data: a sealed document is honest about its
\* timestamp, and still verifies, with the token purged or not, unless the
\* authority had not granted it, the same document was sealed again over it,
\* or a purge was rolled back or goes on (timestamp, verify_document).
ProofOutlivesData ==
  \A s \in ToSet(signed) :
    /\ Honest(s.token)
    /\ \/ VerifyDocument(s) \in {"sound", "purged"}
       \/ s.token.reply \in {"rejected", "garbled"}
       \/ puts[artifacts[s.token_row].key] > 1
       \/ undone > 0
       \/ BeingDeleted(s.token_row)

\* admin.py says of a purge's blob failures that they "stay eligible for the
\* next run": a row whose blob could not be deleted is in a session that will
\* be purged again (_eligible).
FailuresStayEligible == \A i \in failed : ~artifacts[i].purged => ~purged
=============================================================================
