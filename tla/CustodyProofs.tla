---------------------------- MODULE CustodyProofs ----------------------------
(***************************************************************************)
(* Theorems about Custody, for any number of requests at once and in all,  *)
(* any files, settings and jurisdictions.                                  *)
(*                                                                         *)
(* The argument.  A key was written at least as often as there are rows,   *)
(* requests and rolled back transactions that wrote it, so a key written   *)
(* once has one of them at most (OneHolder); a request that was the only   *)
(* one to write a key finds there what it wrote (Holds), hence so does the *)
(* row it commits, until a purge deletes it.  A purge knows of every row   *)
(* that was there when it listed them (Purging), so a blob that is left is *)
(* accounted for at every moment (Accounted), and a run that reads an image *)
(* after the purge reads one of those (Late).  A row's digest is written    *)
(* once, with the row (Records): so a document verifies as long as its     *)
(* token's key holds what its row was committed with, and an authority's   *)
(* name in it is that of an entry of the registry (Registered).            *)
(***************************************************************************)
EXTENDS Custody, FiniteSetTheorems, SequenceTheorems, WellFoundedInduction, TLAPS

-----------------------------------------------------------------------------
(***************************************************************************)
(* The inductive invariant.                                                *)
(***************************************************************************)
\* What GetTimestamp can return.
Tokens == {Timestamp(cfg, Policy(reference), answer) :
             reference \in {"contract", "certificate"}, answer \in Answers}

Documents == {"contract", "certificate"}

Job ==
  {Idle}
  \cup [step : {"put_source"}, n : Numbers, reference : {"upload"} \cup Documents, content : Sources]
  \cup [step : {"commit"}, n : Numbers, reference : {"upload"}, content : Sources]
  \cup [step : {"timestamp"}, n : Numbers, reference : Documents, content : Sources]
  \cup [step : {"put_token", "put_signed", "commit"}, n : Numbers, reference : Documents,
        content : Sources, token : Tokens]
  \cup [step : {"read"}, n : Numbers, row : Nat]
  \cup [step : {"apply"}, n : Numbers, row : Nat, purges : Nat]
  \cup [step : {"list"}, n : Numbers]
  \cup [step : {"delete"}, n : Numbers, list : SUBSET Nat, todo : SUBSET Nat,
        gone : SUBSET Nat, failed : SUBSET Nat]

Signature == [reference : Documents, n : Numbers, token : Tokens,
              source : Nat, token_row : Nat, row : Nat]

Shape ==
  /\ blobs \in [Keys -> {NoBlob} \cup {Seal(c) : c \in Contents}]
  /\ puts \in [Keys -> Nat]
  /\ artifacts \in Seq(Artifact)
  /\ signed \in Seq(Signature)
  /\ listed \in Seq(SUBSET Nat)
  /\ reqs \in [Requests -> Job]
  /\ \A r \in Requests : reqs[r] # Idle => reqs[r].n <= work
  /\ purged \in BOOLEAN /\ personal \in BOOLEAN
  /\ undone \in Nat /\ work \in 0 .. MaxWork
  /\ orphaned \subseteq Keys /\ failed \subseteq DOMAIN artifacts
  /\ \A j \in DOMAIN listed : listed[j] \subseteq DOMAIN artifacts
  /\ \A j \in DOMAIN signed :
       {signed[j].source, signed[j].token_row, signed[j].row} \subseteq DOMAIN artifacts
  /\ purged <=> Len(listed) > 0

\* A run works on the row of an upload, a purge on rows it found, all of
\* them but those that had been purged before.
Knows(q) ==
  /\ q.step \in {"read", "apply"} => q.row \in DOMAIN artifacts
  /\ q.step = "apply" => q.purges <= Len(listed)
  /\ q.step = "delete" =>
       /\ q.list \subseteq DOMAIN artifacts
       /\ q.todo \subseteq q.list /\ q.gone \subseteq q.list /\ q.failed \subseteq q.list
       /\ \A i \in q.list : i \in q.todo \cup q.gone \cup q.failed \/ artifacts[i].purged

Purging == \A r \in Requests : Knows(reqs[r])

Writes(r, k) == k \in Written(reqs[r])
Holder(i, k) == artifacts[i].key = k

OneHolder ==
  \A k \in Keys :
    /\ puts[k] <= 1 =>
         /\ \A i, j \in DOMAIN artifacts : Holder(i, k) /\ Holder(j, k) => i = j
         /\ \A r, t \in Requests : Writes(r, k) /\ Writes(t, k) => r = t
         /\ \A i \in DOMAIN artifacts, r \in Requests : ~(Holder(i, k) /\ Writes(r, k))
         /\ k \in orphaned => /\ \A i \in DOMAIN artifacts : ~Holder(i, k)
                              /\ \A r \in Requests : ~Writes(r, k)
    /\ puts[k] = 0 => /\ \A i \in DOMAIN artifacts : ~Holder(i, k)
                      /\ \A r \in Requests : ~Writes(r, k)
                      /\ k \notin orphaned

ContentAt(q, k) ==
  IF k = Key(q.reference) THEN q.content
  ELSE IF k = TokenKey(q.content) THEN TokenOf(q.content, q.n, q.token.reply)
  ELSE Sealed(q.content, q.n)

Holds ==
  \A k \in Keys, r \in Requests :
    puts[k] = 1 /\ Writes(r, k) => blobs[k] = Seal(ContentAt(reqs[r], k))

Left(i, k) ==
  Holder(i, k) /\ ~artifacts[i].purged /\ (i \in failed \/ Unlisted(i)) /\ ~BeingDeleted(i)

Accounted ==
  \A k \in Keys :
    blobs[k] # NoBlob => k \in orphaned \/ (\E r \in Requests : Writes(r, k)) \/ (\E i \in DOMAIN artifacts : Left(i, k))

Late ==
  \A r \in Requests :
    purged /\ At(r, "apply") =>
      LET i == reqs[r].row IN
      reqs[r].purges < Len(listed) \/ i \in failed \/ Unlisted(i) \/ puts[artifacts[i].key] > 1

\* The certificates that are sealed, and those that may yet be.
Certificates == {j \in DOMAIN signed : signed[j].reference = "certificate"}
Certifies(q) ==
  /\ q.step \in {"put_source", "timestamp", "put_token", "put_signed", "commit"}
  /\ q.reference = "certificate"
Certifying == {r \in Requests : Certifies(reqs[r])}

FewCertificates ==
  /\ IsFiniteSet(Certificates)
  /\ Cardinality(Certificates) + Cardinality(Certifying) <= Cardinality(Requests)

Inv ==
  /\ Shape /\ Purging /\ OneHolder /\ Holds /\ RegistryDescribesBlobs
  /\ PurgeProved /\ Accounted /\ Late /\ FewCertificates

-----------------------------------------------------------------------------
(***************************************************************************)
(* Facts about the model's operators.                                      *)
(***************************************************************************)
LEMMA TokenReplies == \A t \in Tokens : t.reply \in Replies
<1> SUFFICES ASSUME NEW reference, NEW answer \in Answers
             PROVE  Timestamp(cfg, Policy(reference), answer).reply \in Replies
  BY DEF Tokens
<1> DEFINE provider == ResolvePolicy(cfg, Policy(reference))
<1>1. Timestamp(cfg, Policy(reference), answer)
        \in {InternalToken, [provider |-> provider.name, qualified |-> provider.qualified, reply |-> answer]}
  BY DEF Timestamp, Fallback
<1>2. InternalToken.reply \in Replies
  BY DEF InternalToken, Replies
<1> HIDE DEF provider
<1> QED BY <1>1, <1>2 DEF Replies

\* The keys of one sealed document are three different ones.
LEMMA KeysDiffer ==
  ASSUME NEW reference \in Documents, NEW content \in Sources
  PROVE  /\ Key(reference) \in Keys /\ TokenKey(content) \in Keys /\ SignedKey(reference) \in Keys
         /\ Key(reference) # TokenKey(content) /\ Key(reference) # SignedKey(reference)
         /\ TokenKey(content) # SignedKey(reference)
<1>1. Key(reference) \in Keys /\ SignedKey(reference) \in Keys
  BY DEF Documents, Keys, Names, SignedKey
<1>2. TokenKey(content) \in Keys
  BY DEF Keys
<1>3. \A name : Key(name) # TokenKey(content)
  BY DEF Key, TokenKey
<1>4. \A name, other : Key(name) = Key(other) => name = other
  BY DEF Key
<1> QED BY <1>1, <1>2, <1>3, <1>4 DEF SignedKey, Documents

\* What a request has written, by its step.
LEMMA WrittenAt ==
  ASSUME NEW q
  PROVE  /\ q.step \in {"timestamp", "put_token"} => Written(q) = {Key(q.reference)}
         /\ q.step = "put_signed" => Written(q) = {Key(q.reference), TokenKey(q.content)}
         /\ q.step = "commit" /\ q.reference = "upload" => Written(q) = {Key(q.reference)}
         /\ q.step = "commit" /\ q.reference # "upload" =>
              Written(q) = {Key(q.reference), TokenKey(q.content), SignedKey(q.reference)}
         /\ q.step \notin {"timestamp", "put_token", "put_signed", "commit"} => Written(q) = {}
BY DEF Written

\* A set of row numbers has a least one, and a greatest.
LEMMA MinOf ==
  ASSUME NEW n \in Nat, NEW S \in SUBSET (1 .. n), S # {}
  PROVE  Min(S) \in S /\ \A j \in S : Min(S) <= j
<1> SUFFICES \E i \in S : \A j \in S : i <= j
  BY DEF Min
<1> DEFINE T == {1 .. i : i \in S}
           X == 1 .. n
           R == StrictSubsetOrdering(X)
<1>1. IsFiniteSet(X)
  BY FS_Interval
<1>2. T \subseteq SUBSET X /\ T # {}
  <2>1. \A i \in S : 1 .. i \subseteq 1 .. n
    OBVIOUS
  <2>2. PICK i \in S : TRUE
    OBVIOUS
  <2>3. 1 .. i \in T
    OBVIOUS
  <2> QED BY <2>1, <2>3
<1>3. IsWellFoundedOn(R, SUBSET X)
  BY <1>1, FS_StrictSubsetOrderingWellFounded, FS_FiniteSubsetsOfFinite
<1>4. PICK x \in T : \A y \in T : <<y, x>> \notin R
  <2> HIDE DEF R, T, X
  <2> QED BY <1>2, <1>3, WFMin
<1>5. PICK i \in S : x = 1 .. i
  BY <1>4
<1>6. ASSUME NEW j \in S, ~(i <= j) PROVE FALSE
  <2>1. (1 .. j) \subseteq (1 .. i) /\ (1 .. j) # (1 .. i) /\ (1 .. j) \in T
    BY <1>6
  <2> QED BY <1>2, <1>4, <1>5, <2>1 DEF StrictSubsetOrdering
<1> QED BY <1>6

LEMMA MaxOf ==
  ASSUME NEW n \in Nat, NEW S \in SUBSET (1 .. n), S # {}
  PROVE  Max(S) \in S
<1> DEFINE T == {n + 1 - i : i \in S}
<1>1. T \in SUBSET (1 .. n) /\ T # {}
  <2>1. \A i \in S : i \in 1 .. n /\ n + 1 - i \in 1 .. n
    OBVIOUS
  <2> QED BY <2>1
<1>2. Min(T) \in T /\ \A j \in T : Min(T) <= j
  <2> HIDE DEF T
  <2> QED BY <1>1, MinOf
<1>3. PICK i \in S : Min(T) = n + 1 - i
  BY <1>2
<1>4. \A j \in S : n + 1 - j \in T
  OBVIOUS
<1> HIDE DEF T
<1>5. \A j \in S : i >= j
  <2> SUFFICES ASSUME NEW j \in S PROVE i >= j
    OBVIOUS
  <2>1. n + 1 - i <= n + 1 - j
    BY <1>2, <1>3, <1>4
  <2>2. i \in Nat /\ j \in Nat
    OBVIOUS
  <2> QED BY <2>1, <2>2
<1> QED BY <1>5 DEF Max

\* The registry: each of its providers is an entry, known by its name, and
\* internal is one of the names (providers).
LEMMA Registered ==
  ASSUME NEW c \in Configs
  PROVE  /\ \A i \in DOMAIN Providers(c) : \E j \in DOMAIN Entries(c) :
              Providers(c)[i] = Entries(c)[j]
         /\ \E i \in DOMAIN Providers(c) : Providers(c)[i].name = "internal"
         /\ DOMAIN Providers(c) \subseteq DOMAIN Entries(c)
         /\ \E n \in Nat : DOMAIN Entries(c) = 1 .. n
         /\ \A j \in DOMAIN Entries(c) :
              Entries(c)[j] = Internal \/ Entries(c)[j].mode = "external"
<1> DEFINE first  == IF c.tsa_url THEN <<External("external", TRUE)>> ELSE <<>>
           given  == [i \in DOMAIN c.tsas |-> External(c.tsas[i].name, c.tsas[i].qualified)]
           E      == Entries(c)
           Name   == STRING \cup {"external"}
           Entry  == {Internal} \cup [name : Name, mode : {"external"}, qualified : BOOLEAN]
<1>1. c.tsas \in Seq([name : STRING, qualified : BOOLEAN])
  BY ConfigsAssumption
<1>2. Internal \in Entry
  OBVIOUS
<1>3. \A name \in Name, qualified \in BOOLEAN : External(name, qualified) \in Entry
  BY DEF External
<1>4. given \in Seq(Entry)
  <2>1. DOMAIN c.tsas = 1 .. Len(c.tsas) /\ Len(c.tsas) \in Nat
    BY <1>1
  <2>2. \A i \in DOMAIN c.tsas : c.tsas[i].name \in STRING /\ c.tsas[i].qualified \in BOOLEAN
    <3>1. \A i \in 1 .. Len(c.tsas) : c.tsas[i] \in [name : STRING, qualified : BOOLEAN]
      BY <1>1, ElementOfSeq
    <3> QED BY <2>1, <3>1
  <2>3. \A i \in DOMAIN c.tsas : given[i] \in Entry
    <3> HIDE DEF Entry
    <3> QED BY <1>3, <2>2
  <2> HIDE DEF Entry
  <2>4. given \in [1 .. Len(c.tsas) -> Entry]
    BY <2>1, <2>3
  <2> HIDE DEF given
  <2> QED BY <2>1, <2>4, SeqDef
<1>5. first \in Seq(Entry)
  <2>1. External("external", TRUE) \in Entry
    <3>1. "external" \in Name
      OBVIOUS
    <3> HIDE DEF Entry, Name
    <3> QED BY <1>3, <3>1
  <2> HIDE DEF Entry
  <2>2. \A x \in Entry : <<x>> \in Seq(Entry)
    OBVIOUS
  <2>3. <<>> \in Seq(Entry)
    OBVIOUS
  <2>4. CASE c.tsa_url
    <3>1. first = <<External("external", TRUE)>>
      BY <2>4
    <3> HIDE DEF first
    <3> QED BY <2>1, <2>2, <3>1
  <2>5. CASE ~c.tsa_url
    <3>1. first = <<>>
      BY <2>5
    <3> HIDE DEF first
    <3> QED BY <2>3, <3>1
  <2> QED BY <2>4, <2>5
<1>6. E = <<Internal>> \o first \o given
  BY DEF Entries
<1> HIDE DEF first, given, Entry, Name, E
<1>7. <<Internal>> \o first \in Seq(Entry)
  BY <1>2, <1>5
<1>8. E \in Seq(Entry) /\ Len(E) >= 1 /\ E[1] = Internal
  BY <1>2, <1>4, <1>5, <1>6, <1>7
<1>9. DOMAIN E = 1 .. Len(E) /\ Len(E) \in Nat /\ 1 \in DOMAIN E
  BY <1>8
<1>10. \A j \in DOMAIN E : E[j] \in Entry
  BY <1>8
<1>11. ASSUME NEW i \in DOMAIN E
       PROVE  /\ Min(Named(E, E[i].name)) \in DOMAIN E
              /\ E[Min(Named(E, E[i].name))].name = E[i].name
              /\ Max(Named(E, E[i].name)) \in DOMAIN E
              /\ E[Max(Named(E, E[i].name))].name = E[i].name
  <2> DEFINE N == Named(E, E[i].name)
  <2>1. i \in N /\ \A j \in N : j \in DOMAIN E /\ E[j].name = E[i].name
    BY DEF Named, E
  <2> HIDE DEF N
  <2>2. N \in SUBSET (1 .. Len(E)) /\ N # {}
    BY <1>9, <2>1
  <2>3. Min(N) \in N /\ Max(N) \in N
    BY <1>9, <2>2, MinOf, MaxOf
  <2> QED BY <2>1, <2>3 DEF N
<1> DEFINE P == Providers(c)
<1>12. P = [i \in {Min(Named(E, name)) : name \in {E[i].name : i \in DOMAIN E}} |->
              E[Max(Named(E, E[i].name))]]
  BY DEF Providers, E
<1>13. /\ \A i \in DOMAIN P : i \in DOMAIN E /\ P[i] = E[Max(Named(E, E[i].name))]
       /\ \A i \in DOMAIN E : Min(Named(E, E[i].name)) \in DOMAIN P
  BY <1>11, <1>12
<1> HIDE DEF P
<1>14. \A i \in DOMAIN P : \E j \in DOMAIN E : P[i] = E[j]
  BY <1>11, <1>13
<1>15. \E i \in DOMAIN P : P[i].name = "internal"
  <2> DEFINE i == Min(Named(E, E[1].name))
  <2>1. E[1].name = "internal"
    BY <1>8 DEF Internal
  <2>2. i \in DOMAIN P /\ i \in DOMAIN E /\ E[i].name = E[1].name
    BY <1>9, <1>11, <1>13
  <2>3. P[i].name = E[i].name
    <3> HIDE DEF i
    <3> QED BY <1>11, <1>13, <2>2
  <2> QED BY <2>1, <2>2, <2>3
<1>16. \A j \in DOMAIN E : E[j] = Internal \/ E[j].mode = "external"
  BY <1>10 DEF Entry
<1>17. DOMAIN P \subseteq DOMAIN E
  BY <1>13
<1>18. \E n \in Nat : DOMAIN E = 1 .. n
  <2> DEFINE n == Len(E)
  <2>1. n \in Nat /\ DOMAIN E = 1 .. n
    BY <1>9
  <2> HIDE DEF n
  <2> QED BY <2>1, Zenon
<1> QED BY <1>14, <1>15, <1>16, <1>17, <1>18 DEF E, P

\* A policy is resolved to the platform itself or to a provider of the
\* registry, or not at all (resolve_policy).
LEMMA Resolved ==
  ASSUME NEW c \in Configs, NEW p
  PROVE  \/ ResolvePolicy(c, p) = Unknown /\ p \notin {"internal", "qualified"}
         \/ ResolvePolicy(c, p) = Internal
         \/ \E i \in DOMAIN Providers(c) : ResolvePolicy(c, p) = Providers(c)[i]
<1> DEFINE P         == Providers(c)
           qualified == {i \in DOMAIN P : P[i].mode = "external" /\ P[i].qualified}
           named     == {i \in DOMAIN P : P[i].name = p}
           d         == ResolvePolicy(c, p)
<1>1. d = CASE p = "internal"  -> Internal
            [] p = "qualified" -> IF qualified # {} THEN P[Min(qualified)] ELSE Internal
            [] OTHER           -> IF named # {} THEN P[Min(named)] ELSE Unknown
  BY DEF ResolvePolicy
<1>2. PICK n \in Nat : DOMAIN P \subseteq 1 .. n
  BY Registered
<1>3. qualified \in SUBSET (1 .. n) /\ named \in SUBSET (1 .. n)
  BY <1>2
<1>4. /\ qualified # {} => Min(qualified) \in DOMAIN P
      /\ named # {} => Min(named) \in DOMAIN P
  <2>1. qualified \subseteq DOMAIN P /\ named \subseteq DOMAIN P
    OBVIOUS
  <2> HIDE DEF qualified, named
  <2> QED BY <1>3, <2>1, MinOf
<1>5. \/ d = Unknown /\ p \notin {"internal", "qualified"}
      \/ d = Internal
      \/ \E i \in DOMAIN P : d = P[i]
  <2> HIDE DEF qualified, named, P, d
  <2> QED BY <1>1, <1>4
<1> QED BY <1>5

-----------------------------------------------------------------------------
(***************************************************************************)
(* Shapes.                                                                 *)
(***************************************************************************)
\* The settings and the profile do not change.
LEMMA SameJobs == UNCHANGED settings => Job' = Job /\ Signature' = Signature
<1>1. UNCHANGED settings => Tokens' = Tokens
  BY DEF settings, Tokens, Policy
<1> QED BY <1>1 DEF Job, Signature

\* What a job is, by its step.
LEMMA JobAt ==
  ASSUME NEW q \in Job
  PROVE  /\ q # Idle => q.n \in Numbers
         /\ q.step = "put_source" =>
              /\ q.reference \in {"upload"} \cup Documents /\ q.content \in Sources
              /\ [q EXCEPT !.step = IF q.reference = "upload" THEN "commit" ELSE "timestamp"] \in Job
         /\ q.step = "timestamp" => q.reference \in Documents /\ q.content \in Sources
         /\ q.step \in {"put_token", "put_signed"} =>
              q.reference \in Documents /\ q.content \in Sources /\ q.token \in Tokens
         /\ q.step = "commit" => q.reference \in {"upload"} \cup Documents /\ q.content \in Sources
         /\ q.step = "commit" /\ q.reference # "upload" => q.token \in Tokens
         /\ q.step = "put_token" => [q EXCEPT !.step = "put_signed"] \in Job
         /\ q.step = "put_signed" => [q EXCEPT !.step = "commit"] \in Job
         /\ q.step = "read" => q.row \in Nat
         /\ q.step = "apply" => q.row \in Nat /\ q.purges \in Nat
         /\ q.step = "delete" => /\ q.list \in SUBSET Nat /\ q.todo \in SUBSET Nat
                                 /\ q.gone \in SUBSET Nat /\ q.failed \in SUBSET Nat
<1> USE DEF Job, Idle
<1>1. q # Idle => q.n \in Numbers
  OBVIOUS
<1>2. q.step = "put_source" =>
        /\ q.reference \in {"upload"} \cup Documents /\ q.content \in Sources
        /\ [q EXCEPT !.step = IF q.reference = "upload" THEN "commit" ELSE "timestamp"] \in Job
  BY DEF Documents
<1>3. q.step = "timestamp" => q.reference \in Documents /\ q.content \in Sources
  OBVIOUS
<1>4. q.step \in {"put_token", "put_signed"} =>
        q.reference \in Documents /\ q.content \in Sources /\ q.token \in Tokens
  OBVIOUS
<1>5. q.step = "commit" => q.reference \in {"upload"} \cup Documents /\ q.content \in Sources
  OBVIOUS
<1>6. q.step = "commit" /\ q.reference # "upload" => q.token \in Tokens
  OBVIOUS
<1>7. q.step = "put_token" => [q EXCEPT !.step = "put_signed"] \in Job
  OBVIOUS
<1>8. q.step = "put_signed" => [q EXCEPT !.step = "commit"] \in Job
  OBVIOUS
<1>9. q.step = "read" => q.row \in Nat
  OBVIOUS
<1>10. q.step = "apply" => q.row \in Nat /\ q.purges \in Nat
  OBVIOUS
<1>11. q.step = "delete" => /\ q.list \in SUBSET Nat /\ q.todo \in SUBSET Nat
                            /\ q.gone \in SUBSET Nat /\ q.failed \in SUBSET Nat
  OBVIOUS
<1> QED BY <1>1, <1>2, <1>3, <1>4, <1>5, <1>6, <1>7, <1>8, <1>9, <1>10, <1>11

-----------------------------------------------------------------------------
(***************************************************************************)
(* The steps by what they touch.                                           *)
(***************************************************************************)
Moves(r, q) == reqs' = [reqs EXCEPT ![r] = q]

Gone(q) == IF q.step = "delete" THEN q.gone ELSE {}

\* A step that changes no file and no row of a file.
Keeps(r, q) ==
  /\ Moves(r, q)
  /\ UNCHANGED <<settings, purged, artifacts, signed, listed, vault, faults>>
  /\ personal' \in BOOLEAN
  /\ work' \in 0 .. MaxWork /\ work <= work'
  /\ q # Idle => q.n <= work'
  /\ Written(q) = Written(reqs[r])
  /\ \A k \in Written(q) : ContentAt(q, k) = ContentAt(reqs[r], k)
  /\ Gone(q) = Gone(reqs[r])
  /\ Knows(q)
  /\ Certifies(q) => Certifies(reqs[r]) \/ Certificates = {}
  /\ q.step = "apply" =>
       /\ q.row \in DOMAIN artifacts /\ q.purges = Len(listed)
       /\ blobs[artifacts[q.row].key] # NoBlob

\* A step that writes one blob, and does nothing else.
Puts(r, q, k) ==
  /\ Moves(r, q)
  /\ UNCHANGED <<settings, rows, faults, work>>
  /\ Put(k, ContentAt(q, k)) /\ k \in Keys /\ ContentAt(q, k) \in Contents
  /\ Written(q) = Written(reqs[r]) \cup {k} /\ k \notin Written(reqs[r])
  /\ \A j \in Written(reqs[r]) : ContentAt(q, j) = ContentAt(reqs[r], j)
  /\ reqs[r] # Idle /\ q.n = reqs[r].n
  /\ Gone(q) = {} /\ Gone(reqs[r]) = {}
  /\ q.step \in {"timestamp", "put_signed", "commit"}
  /\ Certifies(q) => Certifies(reqs[r])

LEMMA PutCases ==
  ASSUME Shape, NEW r \in Requests, PutSource(r) \/ PutToken(r) \/ PutSigned(r)
  PROVE  \E q \in Job, k \in Keys : Puts(r, q, k)
<1> DEFINE p == reqs[r]
<1>1. p \in Job
  BY DEF Shape
<1>2. p # Idle
  BY DEF PutSource, PutToken, PutSigned, At, Idle
<1>3. CASE PutSource(r)
  <2> DEFINE q == [p EXCEPT !.step = IF p.reference = "upload" THEN "commit" ELSE "timestamp"]
             k == Key(p.reference)
  <2>1. p.step = "put_source" /\ Moves(r, q) /\ Put(k, p.content)
    BY <1>3 DEF PutSource, At, Goto, Moves
  <2>2. p.reference \in {"upload"} \cup Documents /\ p.content \in Sources /\ q \in Job
    BY <1>1, <2>1, JobAt
  <2>3. /\ q.reference = p.reference /\ q.content = p.content /\ q.n = p.n
        /\ q.step = IF p.reference = "upload" THEN "commit" ELSE "timestamp"
    BY <1>1, <2>1 DEF Job, Idle
  <2>4. Written(p) = {} /\ Written(q) = {k}
    <3> HIDE DEF q
    <3>1. Written(p) = {}
      BY <2>1, WrittenAt
    <3>2. Written(q) = {Key(q.reference)}
      BY <2>3, WrittenAt
    <3> QED BY <2>3, <3>1, <3>2
  <2>5. ContentAt(q, k) = p.content /\ p.content \in Contents /\ k \in Keys
    BY <2>2, <2>3 DEF ContentAt, Contents, Keys, Names, Documents
  <2>6. Puts(r, q, k)
    <3> HIDE DEF q, k
    <3> QED BY <1>2, <1>3, <2>1, <2>3, <2>4, <2>5 DEF Puts, PutSource, Certifies, Gone
  <2> QED BY <2>2, <2>5, <2>6
<1>4. CASE PutToken(r)
  <2> DEFINE q == [p EXCEPT !.step = "put_signed"]
             k == TokenKey(p.content)
  <2>1. p.step = "put_token" /\ Moves(r, q) /\ Put(k, TokenOf(p.content, p.n, p.token.reply))
    BY <1>4 DEF PutToken, At, Goto, Moves
  <2>2. /\ p.reference \in Documents /\ p.content \in Sources /\ p.token.reply \in Replies
        /\ p.n \in Numbers /\ q \in Job
    BY <1>1, <1>2, <2>1, JobAt, TokenReplies
  <2>3. /\ q.reference = p.reference /\ q.content = p.content /\ q.n = p.n /\ q.token = p.token
        /\ q.step = "put_signed"
    BY <1>1, <2>1 DEF Job, Idle
  <2>4. Written(p) = {Key(p.reference)} /\ Written(q) = {Key(p.reference), k}
    BY <2>1, <2>3, WrittenAt
  <2>5. k \in Keys /\ k # Key(p.reference)
    BY <2>2, KeysDiffer
  <2>6. ContentAt(q, k) = TokenOf(p.content, p.n, p.token.reply)
    BY <2>3, <2>5 DEF ContentAt
  <2>7. ContentAt(q, k) \in Contents
    BY <2>2, <2>6 DEF Contents
  <2>8. ContentAt(q, Key(p.reference)) = ContentAt(p, Key(p.reference))
    BY <2>3 DEF ContentAt
  <2>9. Puts(r, q, k)
    <3> HIDE DEF q, k
    <3> QED BY <1>2, <1>4, <2>1, <2>3, <2>4, <2>5, <2>6, <2>7, <2>8 DEF Puts, PutToken, Certifies, Gone
  <2> QED BY <2>2, <2>5, <2>9
<1>5. CASE PutSigned(r)
  <2> DEFINE q == [p EXCEPT !.step = "commit"]
             k == SignedKey(p.reference)
  <2>1. p.step = "put_signed" /\ Moves(r, q) /\ Put(k, Sealed(p.content, p.n))
    BY <1>5 DEF PutSigned, At, Goto, Moves
  <2>2. /\ p.reference \in Documents /\ p.content \in Sources
        /\ p.n \in Numbers /\ q \in Job
    BY <1>1, <1>2, <2>1, JobAt
  <2>3. /\ q.reference = p.reference /\ q.content = p.content /\ q.n = p.n /\ q.token = p.token
        /\ q.step = "commit"
    BY <1>1, <2>1 DEF Job, Idle
  <2>4. /\ Written(p) = {Key(p.reference), TokenKey(p.content)}
        /\ Written(q) = {Key(p.reference), TokenKey(p.content), k}
    <3> HIDE DEF q
    <3>1. Written(p) = {Key(p.reference), TokenKey(p.content)}
      BY <2>1, WrittenAt
    <3>2. p.reference # "upload"
      BY <2>2 DEF Documents
    <3>3. Written(q) = {Key(q.reference), TokenKey(q.content), SignedKey(q.reference)}
      BY <2>3, <3>2, WrittenAt
    <3> QED BY <2>3, <3>1, <3>3
  <2>5. k \in Keys /\ k # Key(p.reference) /\ k # TokenKey(p.content)
    BY <2>2, KeysDiffer
  <2>6. ContentAt(q, k) = Sealed(p.content, p.n)
    BY <2>3, <2>5 DEF ContentAt
  <2>7. ContentAt(q, k) \in Contents
    BY <2>2, <2>6 DEF Contents
  <2>8. \A j \in Written(p) : ContentAt(q, j) = ContentAt(p, j)
    BY <2>3 DEF ContentAt
  <2>9. Puts(r, q, k)
    <3> HIDE DEF q, k
    <3> QED BY <1>2, <1>5, <2>1, <2>3, <2>4, <2>5, <2>6, <2>7, <2>8 DEF Puts, PutSigned, Certifies, Gone
  <2> QED BY <2>2, <2>5, <2>9
<1> QED BY <1>3, <1>4, <1>5

\* A request that begins.
LEMMA BeginKeeps ==
  ASSUME Shape, NEW r \in Requests, NEW q \in Job, Begin(r, q), q.n = work + 1,
         q.step \in {"put_source", "read", "list"}, Knows(q),
         Certifies(q) => Certificates = {}
  PROVE  Keeps(r, q)
<1>1. Written(q) = {} /\ Written(reqs[r]) = {}
  BY WrittenAt DEF Begin, Idle
<1>2. Gone(q) = {} /\ Gone(reqs[r]) = {}
  BY DEF Gone, Begin, Idle
<1>3. work + 1 \in 0 .. MaxWork /\ work <= work + 1
  BY CustodyAssumption DEF Begin, Shape
<1> QED BY <1>1, <1>2, <1>3 DEF Begin, Keeps, Moves, rows, Shape

\* The row a purge deletes next is one that is left.
LEMMA CurrentOf ==
  ASSUME Shape, Purging, NEW r \in Requests, Deleting(r)
  PROVE  Current(r) \in reqs[r].todo
<1>1. reqs[r].step = "delete" /\ reqs[r].todo # {} /\ Knows(reqs[r])
  BY DEF Deleting, At, Purging
<1>2. Len(artifacts) \in Nat /\ DOMAIN artifacts = 1 .. Len(artifacts)
  BY DEF Shape
<1>3. reqs[r].todo \in SUBSET (1 .. Len(artifacts))
  BY <1>1, <1>2 DEF Knows
<1> QED BY <1>1, <1>2, <1>3, MinOf DEF Current

LEMMA KeepCases ==
  ASSUME Shape, Purging, NEW r \in Requests,
         \/ \E f \in Files : StartUpload(r, f) \/ StartContract(r, f)
         \/ StartCertificate(r)
         \/ \E answer \in Answers : GetTimestamp(r, answer)
         \/ \E i \in DOMAIN artifacts : StartTask(r, i)
         \/ ReadImage(r) \/ Apply(r) \/ StartPurge(r) \/ List(r) \/ DeleteFails(r)
  PROVE  \E q \in Job : Keeps(r, q)
<1> DEFINE p == reqs[r]
<1>1. p \in Job /\ Knows(p)
  BY DEF Shape, Purging
<1>2. work < MaxWork => work + 1 \in Numbers
  BY CustodyAssumption DEF Shape, Numbers
<1>3. /\ work \in 0 .. MaxWork /\ work <= work /\ personal \in BOOLEAN
      /\ p # Idle => p.n \in Numbers /\ p.n <= work
  <2>1. work \in Nat /\ work \in 0 .. MaxWork /\ personal \in BOOLEAN
    BY CustodyAssumption DEF Shape
  <2>2. p # Idle => p.n <= work
    BY DEF Shape
  <2>3. p # Idle => p.n \in Numbers
    BY <1>1, JobAt
  <2> QED BY <2>1, <2>2, <2>3
<1> HIDE DEF p
<1>4. ASSUME NEW f \in Files, StartUpload(r, f) \/ StartContract(r, f) PROVE \E q \in Job : Keeps(r, q)
  <2> DEFINE Q(reference) ==
        [step |-> "put_source", n |-> work + 1, reference |-> reference, content |-> Sent(f)]
  <2>1. PICK reference \in {"upload", "contract"} : Begin(r, Q(reference))
    BY <1>4 DEF StartUpload, StartContract
  <2>2. Q(reference) \in Job
    BY <1>2, <2>1 DEF Job, Sources, Documents, Begin
  <2>3. Knows(Q(reference)) /\ ~Certifies(Q(reference))
    BY DEF Knows, Certifies
  <2> QED BY <2>1, <2>2, <2>3, BeginKeeps
<1>5. CASE StartCertificate(r)
  <2> DEFINE q == [step |-> "put_source", n |-> work + 1, reference |-> "certificate",
                   content |-> Certificate(work + 1)]
  <2>1. Begin(r, q) /\ NoCertificateYet
    BY <1>5 DEF StartCertificate
  <2>2. q \in Job
    BY <1>2, <2>1 DEF Job, Sources, Documents, Begin
  <2>3. Knows(q)
    BY DEF Knows
  <2>4. Certificates = {}
    BY <2>1 DEF NoCertificateYet, Certificates, ToSet
  <2> QED BY <2>1, <2>2, <2>3, <2>4, BeginKeeps
<1>6. ASSUME NEW answer \in Answers, GetTimestamp(r, answer) PROVE \E q \in Job : Keeps(r, q)
  <2> DEFINE token == Timestamp(cfg, Policy(p.reference), answer)
             q == [step |-> "put_token", n |-> p.n, reference |-> p.reference,
                   content |-> p.content, token |-> token]
  <2>1. p.step = "timestamp" /\ Moves(r, q)
    BY <1>6 DEF GetTimestamp, At, Moves, p
  <2>2. p.reference \in Documents /\ p.content \in Sources /\ p # Idle /\ p.n \in Numbers
    <3>1. p # Idle
      BY <2>1 DEF Idle
    <3> QED BY <1>3, <1>1, <2>1, <3>1, JobAt
  <2>3. token \in Tokens
    BY <1>6, <2>2 DEF Tokens, Documents
  <2>4. q \in Job
    <3> HIDE DEF token
    <3> QED BY <2>2, <2>3 DEF Job
  <2>5. Written(p) = {Key(p.reference)} /\ Written(q) = {Key(p.reference)}
    <3> HIDE DEF token
    <3>1. q.step = "put_token" /\ q.reference = p.reference
      OBVIOUS
    <3> HIDE DEF q
    <3>2. Written(q) = {Key(q.reference)} /\ Written(p) = {Key(p.reference)}
      BY <2>1, <3>1, WrittenAt
    <3> QED BY <3>1, <3>2
  <2>6. ContentAt(q, Key(p.reference)) = ContentAt(p, Key(p.reference))
    BY DEF ContentAt
  <2>7. Knows(q) /\ Gone(q) = {} /\ Gone(p) = {} /\ (Certifies(q) => Certifies(p))
    BY <2>1 DEF Knows, Gone, Certifies
  <2>8. p.n <= work
    BY <1>3, <2>2
  <2>9. q.n = p.n /\ q.step = "put_token"
    OBVIOUS
  <2> HIDE DEF q
  <2>10. UNCHANGED <<settings, phase, rows, vault, faults, work>>
    BY <1>6 DEF GetTimestamp
  <2> QED BY <1>3, <2>1, <2>4, <2>5, <2>6, <2>7, <2>8, <2>9, <2>10 DEF Keeps, rows, p
<1>7. ASSUME NEW i \in DOMAIN artifacts, StartTask(r, i) PROVE \E q \in Job : Keeps(r, q)
  <2> DEFINE q == [step |-> "read", n |-> work + 1, row |-> i]
  <2>1. Begin(r, q)
    BY <1>7 DEF StartTask
  <2>2. i \in Nat
    BY DEF Shape
  <2>3. q \in Job
    BY <1>2, <2>1, <2>2 DEF Job, Begin
  <2>4. Knows(q) /\ ~Certifies(q)
    BY DEF Knows, Certifies
  <2> QED BY <2>1, <2>3, <2>4, BeginKeeps
<1>8. CASE ReadImage(r)
  <2>1. p.step = "read" /\ p # Idle /\ p.row \in DOMAIN artifacts /\ p.n \in Numbers /\ p.n <= work
    <3>1. p.step = "read"
      BY <1>8 DEF ReadImage, At, p
    <3>2. p # Idle
      BY <3>1 DEF Idle
    <3> QED BY <1>3, <1>1, <3>1, <3>2 DEF Knows
  <2>4. UNCHANGED <<settings, phase, rows, vault, faults, work>>
    BY <1>8 DEF ReadImage
  <2>2. CASE Moves(r, Idle)
    <3>1. Knows(Idle) /\ Gone(Idle) = {} /\ Gone(p) = {} /\ ~Certifies(Idle) /\ Idle \in Job
      BY <2>1 DEF Knows, Gone, Certifies, Idle, Job
    <3>2. Written(Idle) = {} /\ Written(p) = {}
      BY <2>1, WrittenAt DEF Idle
    <3>3. Idle.step = "idle"
      BY DEF Idle
    <3> QED BY <1>3, <2>2, <2>4, <3>1, <3>2, <3>3 DEF Keeps, rows, p
  <2>3. CASE ~Moves(r, Idle)
    <3> DEFINE q == [step |-> "apply", n |-> p.n, row |-> p.row, purges |-> Len(listed)]
    <3>1. Moves(r, q) /\ blobs[artifacts[p.row].key] # NoBlob
      BY <1>8, <2>3 DEF ReadImage, EndRequest, Moves, Read, p
    <3>2. Len(listed) \in Nat
      BY DEF Shape
    <3>3. q \in Job
      BY <2>1, <3>2 DEF Job, Shape
    <3>4. Knows(q) /\ Gone(q) = {} /\ Gone(p) = {} /\ ~Certifies(q)
      BY <2>1, <3>2 DEF Knows, Gone, Certifies
    <3>5. Written(q) = {} /\ Written(p) = {}
      BY <2>1, WrittenAt
    <3>6. q.n = p.n /\ q.step = "apply" /\ q.row = p.row /\ q.purges = Len(listed)
      OBVIOUS
    <3> HIDE DEF q
    <3> QED BY <1>3, <2>1, <2>4, <3>1, <3>3, <3>4, <3>5, <3>6 DEF Keeps, rows, p
  <2> QED BY <2>2, <2>3
<1>9. CASE Apply(r)
  <2>1. p.step = "apply" /\ Moves(r, Idle)
    BY <1>9 DEF Apply, At, EndRequest, Moves, p
  <2>2. Knows(Idle) /\ Gone(Idle) = {} /\ Gone(p) = {} /\ ~Certifies(Idle) /\ Idle \in Job
    BY <2>1 DEF Knows, Gone, Certifies, Idle, Job
  <2>3. Written(Idle) = {} /\ Written(p) = {}
    BY <2>1, WrittenAt DEF Idle
  <2>4. Idle.step = "idle"
    BY DEF Idle
  <2>5. UNCHANGED <<settings, purged, artifacts, signed, listed, vault, faults, work>> /\ personal' = TRUE
    BY <1>9 DEF Apply
  <2> QED BY <1>3, <2>1, <2>2, <2>3, <2>4, <2>5 DEF Keeps, p
<1>10. CASE StartPurge(r)
  <2> DEFINE q == [step |-> "list", n |-> work + 1]
  <2>1. Begin(r, q)
    BY <1>10 DEF StartPurge
  <2>2. q \in Job
    BY <1>2, <2>1 DEF Job, Begin
  <2>3. Knows(q) /\ ~Certifies(q)
    BY DEF Knows, Certifies
  <2> QED BY <2>1, <2>2, <2>3, BeginKeeps
<1>11. CASE List(r)
  <2> DEFINE todo == {i \in DOMAIN artifacts : ~artifacts[i].purged}
             q == [step |-> "delete", n |-> p.n, list |-> DOMAIN artifacts, todo |-> todo,
                   gone |-> {}, failed |-> {}]
  <2>1. p.step = "list" /\ p # Idle /\ Moves(r, q) /\ p.n \in Numbers /\ p.n <= work
    <3>1. p.step = "list" /\ Moves(r, q)
      BY <1>11 DEF List, At, Moves, p
    <3>2. p # Idle
      BY <3>1 DEF Idle
    <3> QED BY <1>3, <3>1, <3>2
  <2>2. DOMAIN artifacts \subseteq Nat
    BY DEF Shape
  <2>3. q \in Job
    BY <2>1, <2>2 DEF Job
  <2>4. Knows(q) /\ Gone(q) = {} /\ Gone(p) = {} /\ ~Certifies(q)
    BY <2>1 DEF Knows, Gone, Certifies
  <2>5. Written(q) = {} /\ Written(p) = {}
    BY <2>1, WrittenAt
  <2>6. q.n = p.n /\ q.step = "delete"
    OBVIOUS
  <2> HIDE DEF q
  <2>7. UNCHANGED <<settings, phase, rows, vault, faults, work>>
    BY <1>11 DEF List
  <2> QED BY <1>3, <2>1, <2>3, <2>4, <2>5, <2>6, <2>7 DEF Keeps, rows, p
<1>12. CASE DeleteFails(r)
  <2> DEFINE q == [p EXCEPT !.todo = @ \ {Current(r)}, !.failed = @ \cup {Current(r)}]
  <2>1. p.step = "delete" /\ p # Idle /\ Moves(r, q) /\ p.n \in Numbers /\ p.n <= work
    <3>1. p.step = "delete" /\ Moves(r, q)
      BY <1>12 DEF DeleteFails, Deleting, At, Moves, p
    <3>2. p # Idle
      BY <3>1 DEF Idle
    <3> QED BY <1>3, <3>1, <3>2
  <2>2. Current(r) \in p.todo
    BY <1>12, CurrentOf DEF DeleteFails, p
  <2>3. q \in Job
    BY <1>1, <2>1, <2>2 DEF Job, Idle
  <2>4. /\ q.step = "delete" /\ q.n = p.n /\ q.list = p.list /\ q.gone = p.gone
        /\ q.todo = p.todo \ {Current(r)} /\ q.failed = p.failed \cup {Current(r)}
    BY <1>1, <2>1 DEF Job, Idle
  <2> HIDE DEF q
  <2>5. Knows(q) /\ Gone(q) = Gone(p) /\ ~Certifies(q)
    BY <1>1, <2>1, <2>2, <2>4 DEF Knows, Gone, Certifies
  <2>6. Written(q) = {} /\ Written(p) = {}
    BY <2>1, <2>4, WrittenAt
  <2>7. UNCHANGED <<settings, phase, rows, vault, faults, work>>
    BY <1>12 DEF DeleteFails
  <2> QED BY <1>3, <2>1, <2>3, <2>4, <2>5, <2>6, <2>7 DEF Keeps, rows, p
<1> QED BY <1>4, <1>5, <1>6, <1>7, <1>8, <1>9, <1>10, <1>11, <1>12

\* A request that commits has a row for each key it wrote, with what it wrote.
Registers(r) ==
  LET q == reqs[r]
      New == DOMAIN artifacts' \ DOMAIN artifacts IN
  /\ Moves(r, Idle)
  /\ UNCHANGED <<settings, purged, personal, listed, vault, faults, work>>
  /\ artifacts' \in Seq(Artifact) /\ DOMAIN artifacts \subseteq DOMAIN artifacts'
  /\ \A i \in DOMAIN artifacts : artifacts'[i] = artifacts[i]
  /\ \A i \in New : /\ artifacts'[i].key \in Written(q) /\ ~artifacts'[i].purged
                     /\ artifacts'[i].sha256 = ContentAt(q, artifacts'[i].key)
  /\ \A k \in Written(q) : \E i \in New : artifacts'[i].key = k
  /\ \A i, j \in New : artifacts'[i].key = artifacts'[j].key => i = j
  /\ q.step = "commit"
  /\ \/ q.reference = "upload" /\ UNCHANGED signed
     \/ \E s \in Signature :
          /\ signed' = Append(signed, s) /\ s.reference = q.reference
          /\ {s.source, s.token_row, s.row} \subseteq DOMAIN artifacts'
          /\ artifacts'[s.token_row].sha256 =
               TokenOf(artifacts'[s.source].sha256, s.n, s.token.reply)

LEMMA RowType ==
  ASSUME NEW key \in Keys, NEW content \in Contents
  PROVE  /\ Row(key, content) \in Artifact
         /\ Row(key, content).key = key /\ Row(key, content).sha256 = content
         /\ ~Row(key, content).purged
BY DEF Row, Artifact

LEMMA CommitRegisters ==
  ASSUME Shape, NEW r \in Requests, CommitFiles(r)
  PROVE  Registers(r)
<1> DEFINE q == reqs[r]
           n == Len(artifacts)
           New == DOMAIN artifacts' \ DOMAIN artifacts
<1>1. /\ q.step = "commit" /\ q \in Job /\ q.reference \in {"upload"} \cup Documents
      /\ q.content \in Sources /\ q.content \in Contents /\ q.n \in Numbers
  <2>1. q.step = "commit" /\ q \in Job
    BY DEF CommitFiles, At, Shape
  <2>2. q # Idle
    BY <2>1 DEF Idle
  <2>3. q.reference \in {"upload"} \cup Documents /\ q.content \in Sources /\ q.n \in Numbers
    BY <2>1, <2>2, JobAt
  <2> QED BY <2>1, <2>3 DEF Contents
<1>2. n \in Nat /\ artifacts \in Seq(Artifact) /\ DOMAIN artifacts = 1 .. n
  BY DEF Shape
<1>3. Moves(r, Idle) /\ UNCHANGED <<settings, purged, personal, listed, vault, faults, work>>
  BY <1>1 DEF CommitFiles, EndRequest, Moves
<1> DEFINE source == Row(Key(q.reference), q.content)
<1>4. CASE q.reference = "upload"
  <2>1. Written(q) = {Key("upload")} /\ Key("upload") \in Keys
    <3>1. Written(q) = {Key("upload")}
      BY <1>1, <1>4, WrittenAt
    <3> QED BY <3>1 DEF Keys, Names
  <2>2. /\ source \in Artifact /\ source.key = Key("upload") /\ source.sha256 = q.content /\ ~source.purged
    BY <1>1, <1>4, <2>1, RowType
  <2>3. artifacts' = Append(artifacts, source)
    BY <1>4 DEF CommitFiles
  <2>4. ContentAt(q, Key("upload")) = q.content
    BY <1>4 DEF ContentAt
  <2>5. /\ artifacts' \in Seq(Artifact) /\ DOMAIN artifacts' = 1 .. (n + 1)
        /\ \A i \in 1 .. n : artifacts'[i] = artifacts[i]
        /\ artifacts'[n + 1] = source
    <3> HIDE DEF source
    <3> QED BY <1>2, <2>2, <2>3
  <2>6. New = {n + 1}
    BY <1>2, <2>5
  <2>7. UNCHANGED signed
    BY <1>4 DEF CommitFiles
  <2> HIDE DEF source, New
  <2> QED BY <1>1, <1>2, <1>3, <1>4, <2>1, <2>2, <2>4, <2>5, <2>6, <2>7 DEF Registers, New
<1>5. CASE q.reference # "upload"
  <2> DEFINE token == Row(TokenKey(q.content), TokenOf(q.content, q.n, q.token.reply))
             file == Row(SignedKey(q.reference), Sealed(q.content, q.n))
  <2>1. q.reference \in Documents /\ q.token.reply \in Replies
    BY <1>1, <1>5, JobAt, TokenReplies
  <2>2. Written(q) = {Key(q.reference), TokenKey(q.content), SignedKey(q.reference)}
    BY <1>1, <1>5, WrittenAt
  <2>3. /\ Key(q.reference) \in Keys /\ TokenKey(q.content) \in Keys /\ SignedKey(q.reference) \in Keys
        /\ Key(q.reference) # TokenKey(q.content) /\ Key(q.reference) # SignedKey(q.reference)
        /\ TokenKey(q.content) # SignedKey(q.reference)
    BY <1>1, <2>1, KeysDiffer
  <2>4. TokenOf(q.content, q.n, q.token.reply) \in Contents /\ Sealed(q.content, q.n) \in Contents
    BY <1>1, <2>1 DEF Contents
  <2>5. /\ source \in Artifact /\ source.key = Key(q.reference) /\ source.sha256 = q.content /\ ~source.purged
        /\ token \in Artifact /\ token.key = TokenKey(q.content) /\ ~token.purged
        /\ token.sha256 = TokenOf(q.content, q.n, q.token.reply)
        /\ file \in Artifact /\ file.key = SignedKey(q.reference) /\ ~file.purged
        /\ file.sha256 = Sealed(q.content, q.n)
    BY <1>1, <2>3, <2>4, RowType
  <2>6. /\ ContentAt(q, Key(q.reference)) = q.content
        /\ ContentAt(q, TokenKey(q.content)) = TokenOf(q.content, q.n, q.token.reply)
        /\ ContentAt(q, SignedKey(q.reference)) = Sealed(q.content, q.n)
    BY <2>3 DEF ContentAt
  <2>7. artifacts' = artifacts \o <<source, token, file>>
    BY <1>5 DEF CommitFiles
  <2>8. /\ artifacts' \in Seq(Artifact) /\ DOMAIN artifacts' = 1 .. (n + 3)
        /\ \A i \in 1 .. n : artifacts'[i] = artifacts[i]
        /\ artifacts'[n + 1] = source /\ artifacts'[n + 2] = token /\ artifacts'[n + 3] = file
    <3> HIDE DEF source, token, file
    <3> QED BY <1>2, <2>5, <2>7
  <2>9. New = {n + 1, n + 2, n + 3}
    BY <1>2, <2>8
  <2> HIDE DEF source, token, file
  <2>10. /\ artifacts'[n + 1].key = Key(q.reference) /\ artifacts'[n + 2].key = TokenKey(q.content)
         /\ artifacts'[n + 3].key = SignedKey(q.reference)
    BY <2>5, <2>8
  <2>11. \A i \in New : /\ artifacts'[i].key \in Written(q) /\ ~artifacts'[i].purged
                        /\ artifacts'[i].sha256 = ContentAt(q, artifacts'[i].key)
    <3> HIDE DEF New
    <3> QED BY <2>2, <2>5, <2>6, <2>8, <2>9, <2>10
  <2>12. \A k \in Written(q) : \E i \in New : artifacts'[i].key = k
    <3> HIDE DEF New
    <3> QED BY <2>2, <2>9, <2>10
  <2>13. \A i, j \in New : artifacts'[i].key = artifacts'[j].key => i = j
    <3> HIDE DEF New
    <3> QED BY <2>3, <2>9, <2>10
  <2>14. DOMAIN artifacts \subseteq DOMAIN artifacts' /\ \A i \in DOMAIN artifacts : artifacts'[i] = artifacts[i]
    BY <1>2, <2>8
  <2>15. \E s \in Signature : /\ signed' = Append(signed, s) /\ s.reference = q.reference
                             /\ {s.source, s.token_row, s.row} \subseteq DOMAIN artifacts'
                             /\ artifacts'[s.token_row].sha256 =
                                  TokenOf(artifacts'[s.source].sha256, s.n, s.token.reply)
    <3> DEFINE s == [reference |-> q.reference, n |-> q.n, token |-> q.token,
                     source |-> n + 1, token_row |-> n + 2, row |-> n + 3]
    <3>1. signed' = Append(signed, s)
      BY <1>5 DEF CommitFiles
    <3>2. q.token \in Tokens
      BY <1>1, <1>5, JobAt
    <3>3. s \in Signature
      BY <1>1, <1>2, <2>1, <3>2 DEF Signature
    <3>4. s.reference = q.reference /\ {s.source, s.token_row, s.row} \subseteq DOMAIN artifacts'
      BY <1>2, <2>8
    <3>5. artifacts'[s.token_row].sha256 = TokenOf(artifacts'[s.source].sha256, s.n, s.token.reply)
      BY <2>5, <2>8
    <3> HIDE DEF s
    <3> QED BY <3>1, <3>3, <3>4, <3>5
  <2> QED BY <1>1, <1>3, <2>8, <2>11, <2>12, <2>13, <2>14, <2>15 DEF Registers
<1> QED BY <1>4, <1>5

\* A purge that commits has marked the rows it knows to be gone.
Marks(r) ==
  LET q == reqs[r] IN
  /\ Moves(r, Idle) /\ q.step = "delete" /\ q.todo = {}
  /\ UNCHANGED <<settings, signed, vault, orphaned, undone, work>>
  /\ purged' = TRUE /\ personal' = FALSE
  /\ listed' = Append(listed, q.list)
  /\ failed' = failed \cup q.failed
  /\ artifacts' \in Seq(Artifact) /\ DOMAIN artifacts' = DOMAIN artifacts
  /\ \A i \in DOMAIN artifacts :
       /\ artifacts'[i].key = artifacts[i].key /\ artifacts'[i].sha256 = artifacts[i].sha256
       /\ artifacts'[i].purged <=> artifacts[i].purged \/ i \in q.gone

LEMMA CommitMarks ==
  ASSUME Shape, NEW r \in Requests, CommitPurge(r)
  PROVE  Marks(r)
<1> DEFINE q == reqs[r]
           n == Len(artifacts)
<1>1. n \in Nat /\ artifacts \in Seq(Artifact) /\ DOMAIN artifacts = 1 .. n
  BY DEF Shape
<1>2. \A i \in 1 .. n : artifacts[i] \in Artifact
  BY <1>1
<1>3. artifacts' = MarkedRows(q)
  BY DEF CommitPurge
<1> HIDE DEF q
<1>4. DOMAIN artifacts' = 1 .. n
  BY <1>1, <1>3 DEF MarkedRows
<1>5. ASSUME NEW i \in 1 .. n
      PROVE  /\ artifacts'[i] \in Artifact
             /\ artifacts'[i].key = artifacts[i].key /\ artifacts'[i].sha256 = artifacts[i].sha256
             /\ artifacts'[i].purged <=> artifacts[i].purged \/ i \in q.gone
  <2>1. artifacts'[i] = IF i \in q.gone THEN [artifacts[i] EXCEPT !.purged = TRUE] ELSE artifacts[i]
    BY <1>1, <1>3 DEF MarkedRows
  <2> QED BY <1>2, <2>1 DEF Artifact
<1>6. artifacts' \in Seq(Artifact)
  <2>1. artifacts' = [i \in 1 .. n |-> artifacts'[i]]
    BY <1>1, <1>3 DEF MarkedRows
  <2> QED BY <1>1, <1>5, <2>1, SeqDef
<1> QED BY <1>1, <1>4, <1>5, <1>6 DEF CommitPurge, Marks, At, EndRequest, Moves, ListOf, q

\* A purge that deletes a blob.
Deletes(r, q, i) ==
  LET p == reqs[r] IN
  /\ Moves(r, q) /\ p.step = "delete" /\ i \in p.todo
  /\ blobs' = [blobs EXCEPT ![artifacts[i].key] = NoBlob]
  /\ UNCHANGED <<settings, rows, puts, faults, work>>
  /\ q.step = "delete" /\ q.n = p.n /\ q.list = p.list /\ q.failed = p.failed
  /\ q.todo = p.todo \ {i} /\ q.gone = p.gone \cup {i}

LEMMA DeleteCase ==
  ASSUME Shape, Purging, NEW r \in Requests, Delete(r)
  PROVE  \E q \in Job, i \in DOMAIN artifacts : Deletes(r, q, i)
<1> DEFINE p == reqs[r]
           i == Current(r)
           q == [p EXCEPT !.todo = @ \ {i}, !.gone = @ \cup {i}]
<1>1. p \in Job /\ Knows(p) /\ p.step = "delete" /\ Moves(r, q)
  BY DEF Shape, Purging, Delete, Deleting, At, Moves
<1>2. i \in p.todo
  BY CurrentOf DEF Delete
<1>3. i \in DOMAIN artifacts /\ i \in Nat
  <2>1. i \in DOMAIN artifacts
    BY <1>1, <1>2 DEF Knows
  <2>2. DOMAIN artifacts = 1 .. Len(artifacts)
    BY DEF Shape
  <2> HIDE DEF i
  <2> QED BY <2>1, <2>2
<1> HIDE DEF i
<1>4. q \in Job
  BY <1>1, <1>3 DEF Job, Idle
<1>5. /\ q.step = "delete" /\ q.n = p.n /\ q.list = p.list /\ q.failed = p.failed
      /\ q.todo = p.todo \ {i} /\ q.gone = p.gone \cup {i}
  BY <1>1 DEF Job, Idle
<1>6. /\ blobs' = [blobs EXCEPT ![artifacts[i].key] = NoBlob]
      /\ UNCHANGED <<settings, rows, puts, faults, work>>
  BY DEF Delete, i
<1> HIDE DEF q
<1>7. Deletes(r, q, i)
  BY <1>1, <1>2, <1>5, <1>6 DEF Deletes
<1> QED BY <1>3, <1>4, <1>7

\* A transaction that is rolled back.
Aborts(r) ==
  /\ Moves(r, Idle)
  /\ UNCHANGED <<settings, rows, vault, failed, work>>
  /\ orphaned' = orphaned \cup Written(reqs[r])
  /\ undone' = IF Gone(reqs[r]) # {} THEN undone + 1 ELSE undone

LEMMA AbortCase ==
  ASSUME NEW r \in Requests, Abort(r)
  PROVE  Aborts(r)
BY DEF Abort, Aborts, Moves, EndRequest, Gone, At

\* Every step, by what it touches.
LEMMA NextCases ==
  ASSUME Shape, Purging, Next
  PROVE  \/ UNCHANGED <<settings, rows, vault, reqs, faults, work>>
         \/ \E r \in Requests :
              \/ \E q \in Job : Keeps(r, q) \/ \E k \in Keys : Puts(r, q, k)
              \/ Registers(r) \/ Marks(r) \/ Aborts(r)
              \/ \E q \in Job, i \in DOMAIN artifacts : Deletes(r, q, i)
<1>1. CASE Close \/ Elapse
  BY <1>1 DEF Close, Elapse
<1>2. ASSUME NEW r \in Requests,
             \/ \E f \in Files : StartUpload(r, f) \/ StartContract(r, f)
             \/ StartCertificate(r)
             \/ \E answer \in Answers : GetTimestamp(r, answer)
             \/ \E i \in DOMAIN artifacts : StartTask(r, i)
             \/ ReadImage(r) \/ Apply(r) \/ StartPurge(r) \/ List(r) \/ DeleteFails(r)
      PROVE  \E q \in Job : Keeps(r, q)
  BY <1>2, KeepCases
<1>3. ASSUME NEW r \in Requests, PutSource(r) \/ PutToken(r) \/ PutSigned(r)
      PROVE  \E q \in Job, k \in Keys : Puts(r, q, k)
  BY <1>3, PutCases
<1>4. ASSUME NEW r \in Requests, CommitFiles(r) PROVE Registers(r)
  BY <1>4, CommitRegisters
<1>5. ASSUME NEW r \in Requests, CommitPurge(r) PROVE Marks(r)
  BY <1>5, CommitMarks
<1>6. ASSUME NEW r \in Requests, Delete(r)
      PROVE  \E q \in Job, i \in DOMAIN artifacts : Deletes(r, q, i)
  BY <1>6, DeleteCase
<1>7. ASSUME NEW r \in Requests, Abort(r) PROVE Aborts(r)
  BY <1>7, AbortCase
<1> QED BY <1>1, <1>2, <1>3, <1>4, <1>5, <1>6, <1>7 DEF Next
-----------------------------------------------------------------------------
(***************************************************************************)
(* Every step preserves the shapes.                                        *)
(***************************************************************************)
LEMMA IdleJob ==
  /\ Idle \in Job /\ Written(Idle) = {} /\ Gone(Idle) = {} /\ Idle.step = "idle"
  /\ ~Certifies(Idle)
<1>1. Idle \in Job /\ Gone(Idle) = {} /\ Idle.step = "idle" /\ ~Certifies(Idle)
  BY DEF Job, Idle, Gone, Certifies
<1> QED BY <1>1, WrittenAt

LEMMA Moved ==
  ASSUME Shape, NEW r \in Requests, NEW q \in Job, Moves(r, q)
  PROVE  /\ reqs' \in [Requests -> Job] /\ reqs'[r] = q
         /\ \A t \in Requests : t # r => reqs'[t] = reqs[t]
BY DEF Shape, Moves

LEMMA SameShape ==
  ASSUME Shape, UNCHANGED <<settings, rows, vault, reqs, faults, work>>
  PROVE  Shape'
<1>1. Job' = Job /\ Signature' = Signature
  BY SameJobs
<1> QED BY <1>1 DEF Shape, rows, vault, faults

LEMMA KeepsShape ==
  ASSUME Shape, NEW r \in Requests, NEW q \in Job, Keeps(r, q)
  PROVE  Shape'
<1>1. Job' = Job /\ Signature' = Signature
  BY SameJobs DEF Keeps
<1>2. /\ reqs' \in [Requests -> Job] /\ reqs'[r] = q
      /\ \A t \in Requests : t # r => reqs'[t] = reqs[t]
  BY Moved DEF Keeps
<1>3. ASSUME NEW t \in Requests, reqs'[t] # Idle PROVE reqs'[t].n <= work'
  <2>1. CASE t = r
    BY <1>2, <1>3, <2>1 DEF Keeps
  <2>2. CASE t # r
    <3>1. reqs[t] \in Job /\ reqs[t] # Idle /\ reqs[t].n <= work
      BY <1>2, <1>3, <2>2 DEF Shape
    <3>2. reqs[t].n \in Numbers
      BY <3>1, JobAt
    <3>3. reqs[t].n \in Nat /\ work \in Nat /\ work' \in Nat
      BY <3>2, CustodyAssumption DEF Shape, Keeps, Numbers
    <3> QED BY <1>2, <2>2, <3>1, <3>3 DEF Keeps
  <2> QED BY <2>1, <2>2
<1> QED BY <1>1, <1>2, <1>3 DEF Shape, Keeps, vault, faults

LEMMA PutsShape ==
  ASSUME Shape, NEW r \in Requests, NEW q \in Job, NEW k \in Keys, Puts(r, q, k)
  PROVE  Shape'
<1>1. Job' = Job /\ Signature' = Signature
  BY SameJobs DEF Puts
<1>2. /\ reqs' \in [Requests -> Job] /\ reqs'[r] = q
      /\ \A t \in Requests : t # r => reqs'[t] = reqs[t]
  BY Moved DEF Puts
<1>3. blobs' \in [Keys -> {NoBlob} \cup {Seal(c) : c \in Contents}] /\ puts' \in [Keys -> Nat]
  BY DEF Puts, Put, Shape
<1>4. \A t \in Requests : reqs'[t] # Idle => reqs'[t].n <= work'
  BY <1>2 DEF Puts, Shape
<1> QED BY <1>1, <1>2, <1>3, <1>4 DEF Shape, Puts, rows, faults

LEMMA RegistersShape ==
  ASSUME Shape, NEW r \in Requests, Registers(r)
  PROVE  Shape'
<1>1. Job' = Job /\ Signature' = Signature
  BY SameJobs DEF Registers
<1>2. /\ reqs' \in [Requests -> Job] /\ reqs'[r] = Idle
      /\ \A t \in Requests : t # r => reqs'[t] = reqs[t]
  BY Moved, IdleJob DEF Registers
<1>3. DOMAIN artifacts \subseteq DOMAIN artifacts' /\ artifacts' \in Seq(Artifact)
  BY DEF Registers
<1>4. \A t \in Requests : reqs'[t] # Idle => reqs'[t].n <= work'
  BY <1>2 DEF Registers, Shape
<1>5. /\ signed' \in Seq(Signature)
      /\ \A j \in DOMAIN signed' :
           {signed'[j].source, signed'[j].token_row, signed'[j].row} \subseteq DOMAIN artifacts'
  <2>1. CASE UNCHANGED signed
    BY <1>3, <2>1 DEF Shape
  <2>2. ASSUME NEW s \in Signature, signed' = Append(signed, s),
               {s.source, s.token_row, s.row} \subseteq DOMAIN artifacts'
        PROVE  /\ signed' \in Seq(Signature)
               /\ \A j \in DOMAIN signed' :
                    {signed'[j].source, signed'[j].token_row, signed'[j].row} \subseteq DOMAIN artifacts'
    <3>1. signed \in Seq(Signature)
      BY DEF Shape
    <3>2. signed' \in Seq(Signature)
      BY <2>2, <3>1
    <3>3. ASSUME NEW j \in DOMAIN signed' PROVE signed'[j] = s \/ (j \in DOMAIN signed /\ signed'[j] = signed[j])
      BY <2>2, <3>1, <3>3
    <3>4. \A j \in DOMAIN signed :
            {signed[j].source, signed[j].token_row, signed[j].row} \subseteq DOMAIN artifacts'
      BY <1>3 DEF Shape
    <3> QED BY <2>2, <3>2, <3>3, <3>4
  <2> QED BY <2>1, <2>2 DEF Registers
<1> QED BY <1>1, <1>2, <1>3, <1>4, <1>5 DEF Shape, Registers, vault, faults

LEMMA MarksShape ==
  ASSUME Shape, Purging, NEW r \in Requests, Marks(r)
  PROVE  Shape'
<1>1. Job' = Job /\ Signature' = Signature
  BY SameJobs DEF Marks
<1>2. /\ reqs' \in [Requests -> Job] /\ reqs'[r] = Idle
      /\ \A t \in Requests : t # r => reqs'[t] = reqs[t]
  BY Moved, IdleJob DEF Marks
<1>3. reqs[r].list \subseteq DOMAIN artifacts /\ reqs[r].failed \subseteq DOMAIN artifacts
  BY DEF Marks, Purging, Knows
<1>4. \A t \in Requests : reqs'[t] # Idle => reqs'[t].n <= work'
  BY <1>2 DEF Marks, Shape
<1>5. reqs[r].list \in SUBSET Nat
  BY JobAt DEF Marks, Shape
<1> DEFINE list == reqs[r].list
<1>6. listed' = Append(listed, list) /\ listed \in Seq(SUBSET Nat)
  BY DEF Marks, Shape
<1> HIDE DEF list
<1>7. /\ listed' \in Seq(SUBSET Nat) /\ Len(listed') = Len(listed) + 1
      /\ \A j \in DOMAIN listed' : listed'[j] = list \/ (j \in DOMAIN listed /\ listed'[j] = listed[j])
  BY <1>5, <1>6 DEF list
<1>8. \A j \in DOMAIN listed' : listed'[j] \subseteq DOMAIN artifacts'
  BY <1>3, <1>7 DEF Shape, Marks, list
<1>9. purged' <=> Len(listed') > 0
  BY <1>6, <1>7 DEF Marks
<1>10. failed' \subseteq DOMAIN artifacts'
  BY <1>3 DEF Shape, Marks
<1>11. \A j \in DOMAIN signed' :
         {signed'[j].source, signed'[j].token_row, signed'[j].row} \subseteq DOMAIN artifacts'
  BY DEF Shape, Marks
<1>12. /\ UNCHANGED <<blobs, puts, signed, orphaned, undone, work>>
       /\ purged' \in BOOLEAN /\ personal' \in BOOLEAN /\ artifacts' \in Seq(Artifact)
  BY DEF Marks, vault
<1> QED BY <1>1, <1>2, <1>4, <1>7, <1>8, <1>9, <1>10, <1>11, <1>12 DEF Shape

LEMMA DeletesShape ==
  ASSUME Shape, NEW r \in Requests, NEW q \in Job, NEW i \in DOMAIN artifacts, Deletes(r, q, i)
  PROVE  Shape'
<1>1. Job' = Job /\ Signature' = Signature
  BY SameJobs DEF Deletes
<1>2. /\ reqs' \in [Requests -> Job] /\ reqs'[r] = q
      /\ \A t \in Requests : t # r => reqs'[t] = reqs[t]
  BY Moved DEF Deletes
<1>3. blobs' \in [Keys -> {NoBlob} \cup {Seal(c) : c \in Contents}]
  BY DEF Deletes, Shape
<1>4. reqs[r] # Idle
  BY DEF Deletes, Idle
<1>5. \A t \in Requests : reqs'[t] # Idle => reqs'[t].n <= work'
  BY <1>2, <1>4 DEF Deletes, Shape
<1> QED BY <1>1, <1>2, <1>3, <1>5 DEF Shape, Deletes, rows, faults

LEMMA AbortsShape ==
  ASSUME Shape, NEW r \in Requests, Aborts(r)
  PROVE  Shape'
<1>1. Job' = Job /\ Signature' = Signature
  BY SameJobs DEF Aborts
<1>2. /\ reqs' \in [Requests -> Job] /\ reqs'[r] = Idle
      /\ \A t \in Requests : t # r => reqs'[t] = reqs[t]
  BY Moved, IdleJob DEF Aborts
<1>3. \A t \in Requests : reqs'[t] # Idle => reqs'[t].n <= work'
  BY <1>2 DEF Aborts, Shape
<1>4. Written(reqs[r]) \subseteq Keys
  <2> DEFINE p == reqs[r]
  <2>1. p \in Job
    BY DEF Shape
  <2> HIDE DEF p
  <2>2. Key("upload") \in Keys
    BY DEF Keys, Names
  <2>3. p.step = "commit" /\ p.reference = "upload" => Written(p) = {Key("upload")}
    BY WrittenAt
  <2>4. p.step \in {"timestamp", "put_token", "put_signed"} \/ (p.step = "commit" /\ p.reference # "upload") =>
          /\ Key(p.reference) \in Keys /\ TokenKey(p.content) \in Keys /\ SignedKey(p.reference) \in Keys
    BY <2>1, JobAt, KeysDiffer
  <2>5. Written(p) \subseteq Keys
    BY <2>2, <2>3, <2>4, WrittenAt
  <2> QED BY <2>5 DEF p
<1>5. undone' \in Nat
  BY DEF Aborts, Shape
<1> QED BY <1>1, <1>2, <1>3, <1>4, <1>5 DEF Shape, Aborts, rows, vault
-----------------------------------------------------------------------------
(***************************************************************************)
(* What the requests know, and who holds a key.                            *)
(***************************************************************************)
LEMMA ListedThen ==
  ASSUME Shape, NEW r \in Requests, Marks(r)
  PROVE  /\ Len(listed) \in Nat /\ Len(listed') = Len(listed) + 1
         /\ \A i : Unlisted(i)' <=> Unlisted(i) /\ i \notin reqs[r].list
<1> DEFINE list == reqs[r].list
           n == Len(listed)
<1>1. listed' = Append(listed, list) /\ listed \in Seq(SUBSET Nat) /\ list \in SUBSET Nat
  BY JobAt DEF Marks, Shape
<1> HIDE DEF list
<1>2. n \in Nat /\ Len(listed') = n + 1 /\ DOMAIN listed = 1 .. n /\ DOMAIN listed' = 1 .. (n + 1)
  BY <1>1
<1>3. (\A j \in 1 .. n : listed'[j] = listed[j]) /\ listed'[n + 1] = list
  BY <1>1
<1>4. ToSet(listed') = ToSet(listed) \cup {list}
  BY <1>2, <1>3 DEF ToSet
<1> QED BY <1>2, <1>4 DEF Unlisted, list

\* A step after which a request still knows what it knew.
Grows ==
  /\ DOMAIN artifacts \subseteq DOMAIN artifacts'
  /\ \A i \in DOMAIN artifacts : artifacts[i].purged => artifacts'[i].purged
  /\ Len(listed) \in Nat /\ Len(listed') \in Nat /\ Len(listed) <= Len(listed')

LEMMA KnowsStill ==
  ASSUME Shape, Purging, Grows, NEW t \in Requests, reqs'[t] = reqs[t]
  PROVE  Knows(reqs[t])'
<1>1. Knows(reqs[t]) /\ reqs[t] \in Job
  BY DEF Purging, Shape
<1>2. reqs[t].step = "apply" => reqs[t].purges \in Nat
  BY <1>1, JobAt
<1> QED BY <1>1, <1>2 DEF Knows, Grows

LEMMA PurgingNext ==
  ASSUME Shape, Purging, Next
  PROVE  Purging'
<1>0. Len(listed) \in Nat
  BY DEF Shape
<1>1. CASE UNCHANGED <<settings, rows, vault, reqs, faults, work>>
  BY <1>1 DEF Purging, Knows, rows
<1>2. ASSUME NEW r \in Requests, NEW q \in Job, Keeps(r, q) PROVE Purging'
  <2>1. Grows
    BY <1>0, <1>2 DEF Keeps, Grows
  <2>2. reqs'[r] = q /\ \A t \in Requests : t # r => reqs'[t] = reqs[t]
    BY <1>2, Moved DEF Keeps
  <2>3. Knows(reqs[r])'
    BY <1>2, <2>2 DEF Keeps, Knows
  <2> QED BY <2>1, <2>2, <2>3, KnowsStill DEF Purging
<1>3. ASSUME NEW r \in Requests, NEW q \in Job, NEW k \in Keys, Puts(r, q, k) PROVE Purging'
  <2>1. Grows
    BY <1>0, <1>3 DEF Puts, Grows, rows
  <2>2. reqs'[r] = q /\ \A t \in Requests : t # r => reqs'[t] = reqs[t]
    BY <1>3, Moved DEF Puts
  <2>3. Knows(reqs[r])'
    BY <1>3, <2>2 DEF Puts, Knows
  <2> QED BY <2>1, <2>2, <2>3, KnowsStill DEF Purging
<1>4. ASSUME NEW r \in Requests, Registers(r) PROVE Purging'
  <2>1. Grows
    BY <1>0, <1>4 DEF Registers, Grows
  <2>2. reqs'[r] = Idle /\ \A t \in Requests : t # r => reqs'[t] = reqs[t]
    BY <1>4, IdleJob, Moved DEF Registers
  <2>3. Knows(reqs[r])'
    BY <2>2, IdleJob DEF Knows
  <2> QED BY <2>1, <2>2, <2>3, KnowsStill DEF Purging
<1>5. ASSUME NEW r \in Requests, Marks(r) PROVE Purging'
  <2>1. Grows
    BY <1>5, ListedThen DEF Marks, Grows
  <2>2. reqs'[r] = Idle /\ \A t \in Requests : t # r => reqs'[t] = reqs[t]
    BY <1>5, IdleJob, Moved DEF Marks
  <2>3. Knows(reqs[r])'
    BY <2>2, IdleJob DEF Knows
  <2> QED BY <2>1, <2>2, <2>3, KnowsStill DEF Purging
<1>6. ASSUME NEW r \in Requests, NEW q \in Job, NEW i \in DOMAIN artifacts, Deletes(r, q, i) PROVE Purging'
  <2>1. Grows
    BY <1>0, <1>6 DEF Deletes, Grows, rows
  <2>2. reqs'[r] = q /\ \A t \in Requests : t # r => reqs'[t] = reqs[t]
    BY <1>6, Moved DEF Deletes
  <2>3. Knows(reqs[r])
    BY DEF Purging
  <2>4. Knows(reqs[r])'
    BY <1>6, <2>2, <2>3 DEF Deletes, Knows, rows
  <2> QED BY <2>1, <2>2, <2>4, KnowsStill DEF Purging
<1>7. ASSUME NEW r \in Requests, Aborts(r) PROVE Purging'
  <2>1. Grows
    BY <1>0, <1>7 DEF Aborts, Grows, rows
  <2>2. reqs'[r] = Idle /\ \A t \in Requests : t # r => reqs'[t] = reqs[t]
    BY <1>7, IdleJob, Moved DEF Aborts
  <2>3. Knows(reqs[r])'
    BY <2>2, IdleJob DEF Knows
  <2> QED BY <2>1, <2>2, <2>3, KnowsStill DEF Purging
<1> QED BY <1>1, <1>2, <1>3, <1>4, <1>5, <1>6, <1>7, NextCases

LEMMA ShapeNext ==
  ASSUME Shape, Purging, Next
  PROVE  Shape'
BY NextCases, SameShape, KeepsShape, PutsShape, RegistersShape, MarksShape, DeletesShape, AbortsShape

\* A request that goes on to q writes what q has written.
LEMMA WritesThen ==
  ASSUME Shape, NEW r \in Requests, NEW q \in Job, Moves(r, q)
  PROVE  \A t \in Requests, k \in Keys :
           /\ t = r  => (Writes(t, k)' <=> k \in Written(q))
           /\ t # r  => (Writes(t, k)' <=> Writes(t, k))
BY Moved DEF Writes

LEMMA OneHolderNext ==
  ASSUME Shape, Purging, OneHolder, Next
  PROVE  OneHolder'
<1>0. puts \in [Keys -> Nat]
  BY DEF Shape
<1>1. CASE UNCHANGED <<settings, rows, vault, reqs, faults, work>>
  BY <1>1 DEF OneHolder, Holder, Writes, rows, vault, faults
<1>2. ASSUME NEW r \in Requests, NEW q \in Job, Keeps(r, q) PROVE OneHolder'
  <2>1. \A t \in Requests, k \in Keys : Writes(t, k)' <=> Writes(t, k)
    BY <1>2, WritesThen DEF Keeps, Writes
  <2> QED BY <1>2, <2>1 DEF OneHolder, Holder, Keeps, vault, faults
<1>3. ASSUME NEW r \in Requests, NEW q \in Job, NEW k0 \in Keys, Puts(r, q, k0) PROVE OneHolder'
  <2>1. \A t \in Requests, k \in Keys : Writes(t, k)' <=> Writes(t, k) \/ (t = r /\ k = k0)
    BY <1>3, WritesThen DEF Puts, Writes
  <2>2. puts'[k0] = puts[k0] + 1 /\ \A k \in Keys : k # k0 => puts'[k] = puts[k]
    BY <1>0, <1>3 DEF Puts, Put
  <2>3. UNCHANGED <<artifacts, orphaned>>
    BY <1>3 DEF Puts, rows, faults
  <2>4. puts'[k0] # 0 /\ (puts'[k0] <= 1 => puts[k0] = 0)
    BY <1>0, <2>2
  <2> QED BY <2>1, <2>2, <2>3, <2>4 DEF OneHolder, Holder
<1>4. ASSUME NEW r \in Requests, Registers(r) PROVE OneHolder'
  <2>1. \A t \in Requests, k \in Keys :
          Writes(t, k)' <=> Writes(t, k) /\ t # r
    BY <1>4, IdleJob, WritesThen DEF Registers
  <2>2. UNCHANGED <<puts, orphaned>>
    BY <1>4 DEF Registers, vault, faults
  <2>3. \A i \in DOMAIN artifacts' :
          \/ i \in DOMAIN artifacts /\ artifacts'[i].key = artifacts[i].key
          \/ i \notin DOMAIN artifacts /\ Writes(r, artifacts'[i].key)
    BY <1>4 DEF Registers, Writes
  <2>4. \A i, j \in DOMAIN artifacts' :
          i \notin DOMAIN artifacts /\ j \notin DOMAIN artifacts
          /\ artifacts'[i].key = artifacts'[j].key => i = j
    BY <1>4 DEF Registers
  <2> QED BY <2>1, <2>2, <2>3, <2>4 DEF OneHolder, Holder
<1>5. ASSUME NEW r \in Requests, Marks(r) PROVE OneHolder'
  <2>1. \A t \in Requests, k \in Keys : Writes(t, k)' <=> Writes(t, k)
    BY <1>5, IdleJob, WritesThen, WrittenAt DEF Marks, Writes
  <2> QED BY <1>5, <2>1 DEF OneHolder, Holder, Marks, vault
<1>6. ASSUME NEW r \in Requests, NEW q \in Job, NEW i \in DOMAIN artifacts, Deletes(r, q, i) PROVE OneHolder'
  <2>1. \A t \in Requests, k \in Keys : Writes(t, k)' <=> Writes(t, k)
    BY <1>6, WritesThen, WrittenAt DEF Deletes, Writes
  <2> QED BY <1>6, <2>1 DEF OneHolder, Holder, Deletes, rows, faults
<1>7. ASSUME NEW r \in Requests, Aborts(r) PROVE OneHolder'
  <2>1. \A t \in Requests, k \in Keys : Writes(t, k)' <=> Writes(t, k) /\ t # r
    BY <1>7, IdleJob, WritesThen DEF Aborts
  <2>2. \A k : k \in orphaned' <=> k \in orphaned \/ Writes(r, k)
    BY <1>7 DEF Aborts, Writes
  <2> QED BY <1>7, <2>1, <2>2 DEF OneHolder, Holder, Aborts, rows, vault
<1> QED BY <1>1, <1>2, <1>3, <1>4, <1>5, <1>6, <1>7, NextCases
-----------------------------------------------------------------------------
(***************************************************************************)
(* What is found under a key.                                              *)
(***************************************************************************)
LEMMA SealOpens == \A c : Open(Seal(c)) = c /\ Seal(c) # NoBlob
BY DEF Open, Seal, NoBlob

LEMMA KeyTypes ==
  ASSUME NEW rowsOf \in Seq(Artifact)
  PROVE  \A i \in DOMAIN rowsOf : rowsOf[i].key \in Keys
<1>1. \A i \in DOMAIN rowsOf : rowsOf[i] \in Artifact
  OBVIOUS
<1> QED BY <1>1 DEF Artifact

LEMMA HoldsNext ==
  ASSUME Shape, Purging, OneHolder, Holds, Next
  PROVE  Holds'
<1>0. puts \in [Keys -> Nat] /\ DOMAIN blobs = Keys
  BY DEF Shape
<1>1. CASE UNCHANGED <<settings, rows, vault, reqs, faults, work>>
  BY <1>1 DEF Holds, Writes, vault
<1>2. ASSUME NEW r \in Requests, NEW q \in Job, Keeps(r, q) PROVE Holds'
  <2>1. reqs'[r] = q /\ \A t \in Requests : t # r => reqs'[t] = reqs[t]
    BY <1>2, Moved DEF Keeps
  <2>2. \A t \in Requests, k \in Keys : Writes(t, k)' => Writes(t, k) /\ ContentAt(reqs'[t], k) = ContentAt(reqs[t], k)
    BY <1>2, <2>1 DEF Keeps, Writes
  <2> QED BY <1>2, <2>2 DEF Holds, Keeps, vault
<1>3. ASSUME NEW r \in Requests, NEW q \in Job, NEW k0 \in Keys, Puts(r, q, k0) PROVE Holds'
  <2>1. reqs'[r] = q /\ \A t \in Requests : t # r => reqs'[t] = reqs[t]
    BY <1>3, Moved DEF Puts
  <2>2. \A t \in Requests, k \in Keys : Writes(t, k)' /\ (t # r \/ k # k0) =>
          Writes(t, k) /\ ContentAt(reqs'[t], k) = ContentAt(reqs[t], k)
    BY <1>3, <2>1 DEF Puts, Writes
  <2>3. /\ puts'[k0] = puts[k0] + 1 /\ blobs'[k0] = Seal(ContentAt(q, k0))
        /\ \A k \in Keys : k # k0 => puts'[k] = puts[k] /\ blobs'[k] = blobs[k]
    BY <1>0, <1>3 DEF Puts, Put
  <2>4. puts'[k0] = 1 => puts[k0] = 0
    BY <1>0, <2>3
  <2>5. ASSUME NEW t \in Requests, puts'[k0] = 1, Writes(t, k0)' PROVE t = r
    <3>1. ~Writes(t, k0)
      BY <2>4, <2>5 DEF OneHolder
    <3> QED BY <2>2, <2>5, <3>1
  <2> QED BY <2>1, <2>2, <2>3, <2>5 DEF Holds
<1>4. ASSUME NEW r \in Requests, Moves(r, Idle), UNCHANGED vault PROVE Holds'
  <2>1. reqs'[r] = Idle /\ \A t \in Requests : t # r => reqs'[t] = reqs[t]
    BY <1>4, IdleJob, Moved
  <2>2. \A t \in Requests, k \in Keys : Writes(t, k)' => Writes(t, k) /\ reqs'[t] = reqs[t]
    BY <2>1, IdleJob DEF Writes
  <2> QED BY <1>4, <2>2 DEF Holds, vault
<1>5. ASSUME NEW r \in Requests, NEW q \in Job, NEW i \in DOMAIN artifacts, Deletes(r, q, i) PROVE Holds'
  <2>1. reqs'[r] = q /\ \A t \in Requests : t # r => reqs'[t] = reqs[t]
    BY <1>5, Moved DEF Deletes
  <2>2. \A t \in Requests, k \in Keys : Writes(t, k)' => Writes(t, k) /\ reqs'[t] = reqs[t]
    BY <1>5, <2>1, WrittenAt DEF Deletes, Writes
  <2>3. \A k \in Keys : Holder(i, k) \/ blobs'[k] = blobs[k]
    BY <1>0, <1>5 DEF Deletes, Holder
  <2>4. \A t \in Requests, k \in Keys : puts[k] = 1 /\ Writes(t, k) => ~Holder(i, k)
    BY DEF OneHolder
  <2>5. UNCHANGED puts
    BY <1>5 DEF Deletes
  <2> QED BY <2>2, <2>3, <2>4, <2>5 DEF Holds
<1> QED BY <1>1, <1>2, <1>3, <1>4, <1>5, NextCases DEF Registers, Marks, Aborts

\* Which rows' blobs are being deleted after a step.
LEMMA DeletedThen ==
  ASSUME Shape, NEW r \in Requests, NEW q \in Job, Moves(r, q)
  PROVE  /\ \A i : BeingDeleted(i) <=> \E t \in Requests : i \in Gone(reqs[t])
         /\ \A i : BeingDeleted(i)' <=> i \in Gone(q) \/ \E t \in Requests \ {r} : i \in Gone(reqs[t])
<1>1. reqs'[r] = q /\ \A t \in Requests : t # r => reqs'[t] = reqs[t]
  BY Moved
<1>2. \A i : BeingDeleted(i)' <=> \E t \in Requests : i \in Gone(reqs'[t])
  BY DEF BeingDeleted, Gone, At
<1> QED BY <1>1, <1>2 DEF BeingDeleted, Gone, At

LEMMA RegistryNext ==
  ASSUME Shape, Purging, OneHolder, Holds, RegistryDescribesBlobs, Next
  PROVE  RegistryDescribesBlobs'
<1> USE DEF RegistryDescribesBlobs, Read
<1>0. puts \in [Keys -> Nat] /\ DOMAIN blobs = Keys /\ undone \in Nat
      /\ \A i \in DOMAIN artifacts : artifacts[i].key \in Keys
  BY KeyTypes DEF Shape
<1>1. CASE UNCHANGED <<settings, rows, vault, reqs, faults, work>>
  BY <1>1 DEF rows, vault, faults, BeingDeleted, At
<1>2. ASSUME NEW r \in Requests, NEW q \in Job, Keeps(r, q) PROVE RegistryDescribesBlobs'
  <2>1. \A i : BeingDeleted(i)' <=> BeingDeleted(i)
    BY <1>2, DeletedThen DEF Keeps
  <2> QED BY <1>2, <2>1 DEF Keeps, vault, faults
<1>3. ASSUME NEW r \in Requests, NEW q \in Job, NEW k0 \in Keys, Puts(r, q, k0)
      PROVE  RegistryDescribesBlobs'
  <2>1. \A i : BeingDeleted(i)' <=> BeingDeleted(i)
    BY <1>3, DeletedThen DEF Puts
  <2>2. /\ puts'[k0] = puts[k0] + 1
        /\ \A k \in Keys : k # k0 => puts'[k] = puts[k] /\ blobs'[k] = blobs[k]
    BY <1>0, <1>3 DEF Puts, Put
  <2>3. \A i \in DOMAIN artifacts : artifacts[i].key = k0 => puts'[k0] > 1
    <3>1. \A i \in DOMAIN artifacts : artifacts[i].key = k0 => puts[k0] # 0
      BY DEF OneHolder, Holder
    <3> QED BY <1>0, <2>2, <3>1
  <2>4. UNCHANGED <<artifacts, undone>>
    BY <1>3 DEF Puts, rows, faults
  <2> QED BY <1>0, <2>1, <2>2, <2>3, <2>4
<1>4. ASSUME NEW r \in Requests, Registers(r) PROVE RegistryDescribesBlobs'
  <2>1. \A i : BeingDeleted(i)' <=> BeingDeleted(i)
    BY <1>4, IdleJob, DeletedThen DEF Registers, Gone
  <2>2. UNCHANGED <<blobs, puts, undone>>
    BY <1>4 DEF Registers, vault, faults
  <2>3. ASSUME NEW i \in DOMAIN artifacts', i \notin DOMAIN artifacts
        PROVE  LET a == artifacts'[i] IN Read(a.key) = a.sha256 \/ puts[a.key] > 1
    <3> DEFINE k == artifacts'[i].key
    <3>1. k \in Written(reqs[r]) /\ artifacts'[i].sha256 = ContentAt(reqs[r], k) /\ k \in Keys
      BY <1>4, <2>3, KeyTypes DEF Registers
    <3> HIDE DEF k
    <3>2. puts[k] \in Nat /\ puts[k] # 0
      BY <1>0, <3>1 DEF OneHolder, Writes
    <3>3. CASE puts[k] = 1
      BY <3>1, <3>3, SealOpens DEF Holds, Writes, k
    <3>4. CASE puts[k] # 1
      BY <3>2, <3>4 DEF k
    <3> QED BY <3>3, <3>4
  <2>4. \A i \in DOMAIN artifacts : artifacts'[i] = artifacts[i]
    BY <1>4 DEF Registers
  <2> QED BY <2>1, <2>2, <2>3, <2>4
<1>5. ASSUME NEW r \in Requests, Marks(r) PROVE RegistryDescribesBlobs'
  <2>1. \A i : BeingDeleted(i) => BeingDeleted(i)' \/ i \in reqs[r].gone
    BY <1>5, IdleJob, DeletedThen DEF Marks, Gone
  <2> QED BY <1>5, <2>1 DEF Marks, vault
<1>6. ASSUME NEW r \in Requests, NEW q \in Job, NEW j \in DOMAIN artifacts, Deletes(r, q, j)
      PROVE  RegistryDescribesBlobs'
  <2>1. \A i : BeingDeleted(i)' <=> BeingDeleted(i) \/ i = j
    BY <1>6, DeletedThen DEF Deletes, Gone
  <2>2. \A k \in Keys : Holder(j, k) \/ blobs'[k] = blobs[k]
    BY <1>0, <1>6 DEF Deletes, Holder
  <2>3. \A i \in DOMAIN artifacts : Holder(j, artifacts[i].key) => i = j \/ puts[artifacts[i].key] > 1
    <3>1. \A i \in DOMAIN artifacts : Holder(j, artifacts[i].key) /\ puts[artifacts[i].key] <= 1 => i = j
      BY <1>0 DEF OneHolder, Holder
    <3> QED BY <1>0, <3>1
  <2>4. UNCHANGED <<artifacts, puts, undone>>
    BY <1>6 DEF Deletes, rows, faults
  <2> QED BY <1>0, <2>1, <2>2, <2>3, <2>4
<1>7. ASSUME NEW r \in Requests, Aborts(r) PROVE RegistryDescribesBlobs'
  <2>1. \A i : BeingDeleted(i) => BeingDeleted(i)' \/ i \in Gone(reqs[r])
    BY <1>7, IdleJob, DeletedThen DEF Aborts
  <2>2. undone' >= undone /\ (Gone(reqs[r]) # {} => undone' > 0)
    BY <1>0, <1>7 DEF Aborts
  <2>3. undone > 0 => undone' > 0
    BY <1>0, <1>7 DEF Aborts
  <2> QED BY <1>7, <2>1, <2>2, <2>3 DEF Aborts, rows, vault
<1> QED BY <1>1, <1>2, <1>3, <1>4, <1>5, <1>6, <1>7, NextCases

-----------------------------------------------------------------------------
(***************************************************************************)
(* What the purge proves, and what it leaves.                              *)
(***************************************************************************)
LEMMA PurgeProvedNext ==
  ASSUME Shape, Purging, PurgeProved, Next
  PROVE  PurgeProved'
<1> USE DEF PurgeProved
<1>1. CASE UNCHANGED <<artifacts, listed>>
  BY <1>1 DEF Unlisted
<1>2. ASSUME NEW r \in Requests, Registers(r) PROVE PurgeProved'
  BY <1>2 DEF Registers, Unlisted
<1>3. ASSUME NEW r \in Requests, Marks(r) PROVE PurgeProved'
  <2>1. reqs[r].gone \subseteq reqs[r].list
    BY <1>3 DEF Marks, Purging, Knows
  <2> QED BY <1>3, <2>1, ListedThen DEF Marks
<1> QED BY <1>1, <1>2, <1>3, NextCases DEF Keeps, Puts, Deletes, Aborts, rows

LEMMA AccountedNext ==
  ASSUME Shape, Purging, OneHolder, Accounted, Next
  PROVE  Accounted'
<1> USE DEF Accounted, Left, Holder
<1>0. DOMAIN blobs = Keys /\ \A i \in DOMAIN artifacts : artifacts[i].key \in Keys
  BY KeyTypes DEF Shape
<1>1. CASE UNCHANGED <<settings, rows, vault, reqs, faults, work>>
  BY <1>1 DEF rows, vault, faults, BeingDeleted, At, Unlisted, Writes
<1>2. ASSUME NEW r \in Requests, NEW q \in Job, Keeps(r, q) PROVE Accounted'
  <2>1. \A i : BeingDeleted(i)' <=> BeingDeleted(i)
    BY <1>2, DeletedThen DEF Keeps
  <2>2. \A t \in Requests, k \in Keys : Writes(t, k)' <=> Writes(t, k)
    BY <1>2, WritesThen DEF Keeps, Writes
  <2> QED BY <1>2, <2>1, <2>2 DEF Keeps, vault, faults, Unlisted
<1>3. ASSUME NEW r \in Requests, NEW q \in Job, NEW k0 \in Keys, Puts(r, q, k0) PROVE Accounted'
  <2>1. \A i : BeingDeleted(i)' <=> BeingDeleted(i)
    BY <1>3, DeletedThen DEF Puts
  <2>2. \A t \in Requests, k \in Keys : Writes(t, k)' <=> Writes(t, k) \/ (t = r /\ k = k0)
    BY <1>3, WritesThen DEF Puts, Writes
  <2>3. \A k \in Keys : k # k0 => blobs'[k] = blobs[k]
    BY <1>0, <1>3 DEF Puts, Put
  <2>4. UNCHANGED <<artifacts, listed, failed, orphaned>>
    BY <1>3 DEF Puts, rows, faults
  <2> QED BY <2>1, <2>2, <2>3, <2>4 DEF Unlisted
<1>4. ASSUME NEW r \in Requests, Registers(r) PROVE Accounted'
  <2>1. \A i : BeingDeleted(i)' => BeingDeleted(i)
    BY <1>4, IdleJob, DeletedThen DEF Registers
  <2>2. \A t \in Requests, k \in Keys : Writes(t, k)' <=> Writes(t, k) /\ t # r
    BY <1>4, IdleJob, WritesThen DEF Registers
  <2>3. UNCHANGED <<blobs, listed, failed, orphaned>>
    BY <1>4 DEF Registers, vault, faults
  <2>4. \A i : i \notin DOMAIN artifacts => Unlisted(i) /\ ~BeingDeleted(i)
    <3>1. ASSUME NEW i, i \notin DOMAIN artifacts PROVE Unlisted(i)
      BY <3>1 DEF Shape, Unlisted, ToSet
    <3>2. ASSUME NEW i, i \notin DOMAIN artifacts PROVE ~BeingDeleted(i)
      BY <3>2 DEF Purging, Knows, BeingDeleted, At
    <3> QED BY <3>1, <3>2
  <2>5. \A k \in Keys : Writes(r, k) =>
          \E i \in DOMAIN artifacts' : i \notin DOMAIN artifacts /\ artifacts'[i].key = k /\ ~artifacts'[i].purged
    BY <1>4 DEF Registers, Writes
  <2>6. DOMAIN artifacts \subseteq DOMAIN artifacts' /\ \A i \in DOMAIN artifacts : artifacts'[i] = artifacts[i]
    BY <1>4 DEF Registers
  <2> QED BY <2>1, <2>2, <2>3, <2>4, <2>5, <2>6 DEF Unlisted
<1>5. ASSUME NEW r \in Requests, Marks(r) PROVE Accounted'
  <2>1. \A i : /\ BeingDeleted(i)' => BeingDeleted(i)
               /\ i \in reqs[r].gone => BeingDeleted(i)
    BY <1>5, IdleJob, DeletedThen DEF Marks, Gone
  <2>2. \A t \in Requests, k \in Keys : Writes(t, k)' <=> Writes(t, k)
    BY <1>5, IdleJob, WritesThen, WrittenAt DEF Marks, Writes
  <2>3. \A i \in DOMAIN artifacts : Unlisted(i) =>
          Unlisted(i)' \/ i \in reqs[r].gone \/ i \in reqs[r].failed \/ artifacts[i].purged
    BY <1>5, ListedThen DEF Marks, Purging, Knows
  <2>4. UNCHANGED <<blobs, orphaned>> /\ failed' = failed \cup reqs[r].failed
    BY <1>5 DEF Marks, vault
  <2>5. /\ DOMAIN artifacts' = DOMAIN artifacts
        /\ \A i \in DOMAIN artifacts :
             /\ artifacts'[i].key = artifacts[i].key
             /\ artifacts'[i].purged <=> artifacts[i].purged \/ i \in reqs[r].gone
    BY <1>5 DEF Marks
  <2> QED BY <2>1, <2>2, <2>3, <2>4, <2>5
<1>6. ASSUME NEW r \in Requests, NEW q \in Job, NEW j \in DOMAIN artifacts, Deletes(r, q, j)
      PROVE  Accounted'
  <2>1. \A i : BeingDeleted(i)' <=> BeingDeleted(i) \/ i = j
    BY <1>6, DeletedThen DEF Deletes, Gone
  <2>2. \A t \in Requests, k \in Keys : Writes(t, k)' <=> Writes(t, k)
    BY <1>6, WritesThen, WrittenAt DEF Deletes, Writes
  <2>3. \A k \in Keys : blobs'[k] # NoBlob => blobs'[k] = blobs[k] /\ k # artifacts[j].key
    BY <1>0, <1>6 DEF Deletes
  <2>4. UNCHANGED <<artifacts, listed, failed, orphaned>>
    BY <1>6 DEF Deletes, rows, faults
  <2> QED BY <2>1, <2>2, <2>3, <2>4 DEF Unlisted
<1>7. ASSUME NEW r \in Requests, Aborts(r) PROVE Accounted'
  <2>1. \A i : BeingDeleted(i)' => BeingDeleted(i)
    BY <1>7, IdleJob, DeletedThen DEF Aborts
  <2>2. \A t \in Requests, k \in Keys : Writes(t, k)' <=> Writes(t, k) /\ t # r
    BY <1>7, IdleJob, WritesThen DEF Aborts
  <2>3. \A k : k \in orphaned' <=> k \in orphaned \/ Writes(r, k)
    BY <1>7 DEF Aborts, Writes
  <2>4. UNCHANGED <<artifacts, listed, blobs, failed>>
    BY <1>7 DEF Aborts, rows, vault
  <2> QED BY <2>1, <2>2, <2>3, <2>4 DEF Unlisted
<1> QED BY <1>1, <1>2, <1>3, <1>4, <1>5, <1>6, <1>7, NextCases
\* A row of a key that was written once is left, when its blob is.
LEMMA LeftRow ==
  ASSUME Shape, OneHolder, Accounted, NEW i \in DOMAIN artifacts, blobs[artifacts[i].key] # NoBlob
  PROVE  i \in failed \/ Unlisted(i) \/ puts[artifacts[i].key] > 1
<1> DEFINE k == artifacts[i].key
<1>1. k \in Keys /\ puts[k] \in Nat /\ Holder(i, k)
  BY KeyTypes DEF Shape, Holder
<1>2. k \in orphaned \/ (\E r \in Requests : Writes(r, k)) \/ (\E j \in DOMAIN artifacts : Left(j, k))
  BY <1>1 DEF Accounted
<1> HIDE DEF k
<1>3. puts[k] <= 1 => \E j \in DOMAIN artifacts : Left(j, k)
  BY <1>1, <1>2 DEF OneHolder
<1>4. puts[k] <= 1 => \A j \in DOMAIN artifacts : Holder(j, k) => i = j
  BY <1>1 DEF OneHolder
<1>5. puts[k] <= 1 => i \in failed \/ Unlisted(i)
  BY <1>3, <1>4 DEF Left
<1> QED BY <1>1, <1>5 DEF k

LEMMA LateNext ==
  ASSUME Shape, Purging, OneHolder, Accounted, Late, Next
  PROVE  Late'
<1> USE DEF Late, At
<1>0. /\ puts \in [Keys -> Nat] /\ Len(listed) \in Nat
      /\ \A i \in DOMAIN artifacts : artifacts[i].key \in Keys
  BY KeyTypes DEF Shape
<1>1. CASE UNCHANGED <<settings, rows, vault, reqs, faults, work>>
  BY <1>1 DEF rows, vault, faults, Unlisted
<1>2. ASSUME NEW r \in Requests, NEW q \in Job, Keeps(r, q) PROVE Late'
  <2>1. reqs'[r] = q /\ \A t \in Requests : t # r => reqs'[t] = reqs[t]
    BY <1>2, Moved DEF Keeps
  <2>2. q.step = "apply" =>
          q.row \in failed \/ Unlisted(q.row) \/ puts[artifacts[q.row].key] > 1
    BY <1>2, LeftRow DEF Keeps
  <2>3. UNCHANGED <<purged, artifacts, listed, failed, puts>>
    BY <1>2 DEF Keeps, vault, faults
  <2>4. \A i : Unlisted(i)' <=> Unlisted(i)
    BY <2>3 DEF Unlisted
  <2> QED BY <2>1, <2>2, <2>3, <2>4
<1>3. ASSUME NEW r \in Requests, NEW q \in Job, NEW k0 \in Keys, Puts(r, q, k0) PROVE Late'
  <2>1. reqs'[r] = q /\ q.step # "apply" /\ \A t \in Requests : t # r => reqs'[t] = reqs[t]
    BY <1>3, Moved DEF Puts
  <2>2. \A k \in Keys : puts[k] > 1 => puts'[k] > 1
    BY <1>0, <1>3 DEF Puts, Put
  <2>3. UNCHANGED <<purged, artifacts, listed, failed>>
    BY <1>3 DEF Puts, rows, faults
  <2>4. \A i : Unlisted(i)' <=> Unlisted(i)
    BY <2>3 DEF Unlisted
  <2>5. \A t \in Requests : reqs[t].step = "apply" => reqs[t].row \in DOMAIN artifacts
    BY DEF Purging, Knows
  <2> QED BY <1>0, <2>1, <2>2, <2>3, <2>4, <2>5
<1>4. ASSUME NEW r \in Requests, Registers(r) PROVE Late'
  <2>1. reqs'[r] = Idle /\ \A t \in Requests : t # r => reqs'[t] = reqs[t]
    BY <1>4, IdleJob, Moved DEF Registers
  <2>2. \A t \in Requests : reqs[t].step = "apply" => artifacts'[reqs[t].row] = artifacts[reqs[t].row]
    BY <1>4 DEF Purging, Knows, Registers
  <2>3. UNCHANGED <<purged, listed, failed, puts>>
    BY <1>4 DEF Registers, vault, faults
  <2>4. \A i : Unlisted(i)' <=> Unlisted(i)
    BY <2>3 DEF Unlisted
  <2> QED BY <2>1, <2>2, <2>3, <2>4, IdleJob
<1>5. ASSUME NEW r \in Requests, Marks(r) PROVE Late'
  <2>1. reqs'[r] = Idle /\ \A t \in Requests : t # r => reqs'[t] = reqs[t]
    BY <1>5, IdleJob, Moved DEF Marks
  <2>2. Len(listed') = Len(listed) + 1
    BY <1>5, ListedThen
  <2>3. \A t \in Requests : reqs[t].step = "apply" => reqs[t].purges \in Nat /\ reqs[t].purges <= Len(listed)
    BY JobAt DEF Purging, Knows, Shape
  <2> QED BY <1>0, <2>1, <2>2, <2>3, IdleJob
<1>6. ASSUME NEW r \in Requests, NEW q \in Job, NEW i \in DOMAIN artifacts, Deletes(r, q, i) PROVE Late'
  <2>1. reqs'[r] = q /\ q.step = "delete" /\ \A t \in Requests : t # r => reqs'[t] = reqs[t]
    BY <1>6, Moved DEF Deletes
  <2>2. UNCHANGED <<purged, artifacts, listed, failed, puts>>
    BY <1>6 DEF Deletes, rows, faults
  <2>3. \A j : Unlisted(j)' <=> Unlisted(j)
    BY <2>2 DEF Unlisted
  <2> QED BY <2>1, <2>2, <2>3
<1>7. ASSUME NEW r \in Requests, Aborts(r) PROVE Late'
  <2>1. reqs'[r] = Idle /\ \A t \in Requests : t # r => reqs'[t] = reqs[t]
    BY <1>7, IdleJob, Moved DEF Aborts
  <2>2. UNCHANGED <<purged, artifacts, listed, failed, puts>>
    BY <1>7 DEF Aborts, rows, vault
  <2>3. \A j : Unlisted(j)' <=> Unlisted(j)
    BY <2>2 DEF Unlisted
  <2> QED BY <2>1, <2>2, <2>3, IdleJob
<1> QED BY <1>1, <1>2, <1>3, <1>4, <1>5, <1>6, <1>7, NextCases

-----------------------------------------------------------------------------
(***************************************************************************)
(* How many certificates are sealed.                                       *)
(***************************************************************************)
LEMMA CertifyingFinite == IsFiniteSet(Certifying) /\ Cardinality(Certifying) \in Nat
                          /\ Cardinality(Certifying) <= Cardinality(Requests)
                          /\ Cardinality(Requests) \in Nat
<1>1. Certifying \subseteq Requests
  BY DEF Certifying
<1> QED BY <1>1, CustodyAssumption, FS_Subset, FS_CardinalityType

LEMMA CertifyingAfter ==
  /\ IsFiniteSet(Certifying') /\ Cardinality(Certifying') \in Nat
  /\ Cardinality(Certifying') <= Cardinality(Requests)
<1>1. Certifying' \subseteq Requests
  BY DEF Certifying
<1> QED BY <1>1, CustodyAssumption, FS_Subset, FS_CardinalityType

LEMMA FewCertificatesNext ==
  ASSUME Shape, Purging, FewCertificates, Next
  PROVE  FewCertificates'
<1>0. Cardinality(Certificates) \in Nat
  BY FS_CardinalityType DEF FewCertificates
<1>1. ASSUME UNCHANGED signed, Certifying' \subseteq Certifying \/ Certificates = {}
      PROVE  FewCertificates'
  <2>1. Certificates' = Certificates
    BY <1>1 DEF Certificates
  <2>2. CASE Certifying' \subseteq Certifying
    <3>1. Cardinality(Certifying') <= Cardinality(Certifying)
      BY <2>2, CertifyingFinite, FS_Subset
    <3> QED BY <1>0, <2>1, <3>1, CertifyingFinite, CertifyingAfter DEF FewCertificates
  <2>3. CASE Certificates = {}
    <3>1. Cardinality(Certificates) = 0
      BY <2>3, FS_EmptySet
    <3> QED BY <2>1, <3>1, CertifyingFinite, CertifyingAfter DEF FewCertificates
  <2> QED BY <1>1, <2>2, <2>3
<1>2. CASE UNCHANGED <<settings, rows, vault, reqs, faults, work>>
  <2>1. Certifying' = Certifying /\ UNCHANGED signed
    BY <1>2 DEF Certifying, rows
  <2> QED BY <1>1, <2>1
<1>3. ASSUME NEW r \in Requests, NEW q \in Job, Moves(r, q), UNCHANGED signed,
             Certifies(q) => Certifies(reqs[r]) \/ Certificates = {}
      PROVE  FewCertificates'
  <2>1. reqs'[r] = q /\ \A t \in Requests : t # r => reqs'[t] = reqs[t]
    BY <1>3, Moved
  <2>2. Certifying' \subseteq Certifying \/ Certificates = {}
    BY <1>3, <2>1 DEF Certifying
  <2> QED BY <1>1, <1>3, <2>2
<1>4. ASSUME NEW r \in Requests, Registers(r) PROVE FewCertificates'
  <2>1. Moves(r, Idle)
    BY <1>4 DEF Registers
  <2>2. CASE UNCHANGED signed
    BY <1>3, <2>1, <2>2, IdleJob
  <2>3. ASSUME NEW s \in Signature, signed' = Append(signed, s), s.reference = reqs[r].reference
        PROVE  FewCertificates'
    <3> DEFINE n == Len(signed)
    <3>1. signed \in Seq(Signature)
      BY DEF Shape
    <3>2. /\ n \in Nat /\ DOMAIN signed = 1 .. n /\ DOMAIN signed' = 1 .. (n + 1)
          /\ \A j \in 1 .. n : signed'[j] = signed[j]
          /\ signed'[n + 1] = s
      BY <2>3, <3>1
    <3> HIDE DEF n
    <3>3. n + 1 \notin Certificates
      BY <3>2 DEF Certificates
    <3>4. reqs'[r] = Idle /\ \A t \in Requests : t # r => reqs'[t] = reqs[t]
      BY <2>1, IdleJob, Moved
    <3>5. Certifying' = Certifying \ {r}
      BY <3>4, IdleJob DEF Certifying
    <3>6. CASE s.reference # "certificate"
      <4>1. Certificates' = Certificates
        BY <3>2, <3>6 DEF Certificates
      <4>2. Cardinality(Certifying') <= Cardinality(Certifying)
        BY <3>5, CertifyingFinite, FS_Subset
      <4> QED BY <1>0, <4>1, <4>2, CertifyingFinite, CertifyingAfter DEF FewCertificates
    <3>7. CASE s.reference = "certificate"
      <4>1. Certificates' = Certificates \cup {n + 1}
        BY <3>2, <3>7 DEF Certificates
      <4>2. IsFiniteSet(Certificates') /\ Cardinality(Certificates') = Cardinality(Certificates) + 1
        BY <3>3, <4>1, FS_AddElement DEF FewCertificates
      <4>3. r \in Certifying
        BY <1>4, <2>3, <3>7 DEF Registers, Certifying, Certifies
      <4>4. Cardinality(Certifying') = Cardinality(Certifying) - 1
        BY <3>5, <4>3, CertifyingFinite, FS_RemoveElement
      <4> QED BY <1>0, <4>2, <4>4, CertifyingFinite, CertifyingAfter DEF FewCertificates
    <3> QED BY <3>6, <3>7
  <2> QED BY <1>4, <2>2, <2>3 DEF Registers
<1>5. ASSUME NEW r \in Requests, NEW q \in Job, Keeps(r, q) PROVE FewCertificates'
  BY <1>3, <1>5 DEF Keeps
<1>6. ASSUME NEW r \in Requests, NEW q \in Job, NEW k \in Keys, Puts(r, q, k) PROVE FewCertificates'
  BY <1>3, <1>6 DEF Puts, rows
<1>7. ASSUME NEW r \in Requests, Marks(r) \/ Aborts(r) PROVE FewCertificates'
  BY <1>3, <1>7, IdleJob DEF Marks, Aborts, rows
<1>8. ASSUME NEW r \in Requests, NEW q \in Job, NEW i \in DOMAIN artifacts, Deletes(r, q, i)
      PROVE  FewCertificates'
  BY <1>3, <1>8 DEF Deletes, rows, Certifies
<1> QED BY <1>2, <1>4, <1>5, <1>6, <1>7, <1>8, NextCases

-----------------------------------------------------------------------------
(***************************************************************************)
(* The invariant.                                                          *)
(***************************************************************************)
LEMMA InvInit == Init => Inv
<1> SUFFICES ASSUME Init PROVE Inv
  OBVIOUS
<1>1. \A r \in Requests : reqs[r] = Idle
  BY DEF Init
<1>2. Shape
  <2>1. reqs \in [Requests -> Job] /\ puts \in [Keys -> Nat]
    BY IdleJob DEF Init
  <2>2. blobs \in [Keys -> {NoBlob} \cup {Seal(c) : c \in Contents}]
    BY DEF Init
  <2>3. artifacts \in Seq(Artifact) /\ signed \in Seq(Signature) /\ listed \in Seq(SUBSET Nat)
    BY DEF Init
  <2>4. DOMAIN signed = {} /\ DOMAIN listed = {} /\ ~(Len(listed) > 0)
    BY DEF Init
  <2>5. work \in 0 .. MaxWork
    BY CustodyAssumption DEF Init
  <2> QED BY <1>1, <2>1, <2>2, <2>3, <2>4, <2>5 DEF Init, Shape
<1>3. DOMAIN artifacts = {} /\ DOMAIN signed = {}
  BY DEF Init
<1>4. Purging
  BY <1>1, IdleJob DEF Purging, Knows
<1>5. \A r \in Requests, k \in Keys : ~Writes(r, k)
  BY <1>1, IdleJob DEF Writes
<1>6. OneHolder
  BY <1>3, <1>5 DEF OneHolder, Init
<1>7. Holds /\ Accounted
  BY <1>5 DEF Holds, Accounted, Init
<1>8. RegistryDescribesBlobs /\ PurgeProved
  BY <1>3 DEF RegistryDescribesBlobs, PurgeProved
<1>9. Late
  BY DEF Late, Init
<1>10. FewCertificates
  <2>1. Certificates = {}
    BY <1>3 DEF Certificates
  <2>2. Certifying = {}
    BY <1>1, IdleJob DEF Certifying
  <2>3. IsFiniteSet({}) /\ Cardinality({}) = 0
    BY FS_EmptySet
  <2> QED BY <2>1, <2>2, <2>3, CertifyingFinite DEF FewCertificates
<1> QED BY <1>2, <1>4, <1>6, <1>7, <1>8, <1>9, <1>10 DEF Inv

LEMMA InvNext == Inv /\ [Next]_vars => Inv'
<1> SUFFICES ASSUME Inv, [Next]_vars PROVE Inv'
  OBVIOUS
<1>1. CASE Next
  BY <1>1, ShapeNext, PurgingNext, OneHolderNext, HoldsNext, RegistryNext, PurgeProvedNext,
     AccountedNext, LateNext, FewCertificatesNext DEF Inv
<1>2. CASE UNCHANGED vars
  <2>1. UNCHANGED <<settings, rows, vault, reqs, faults, work>>
    BY <1>2 DEF vars
  <2>2. Shape'
    BY <2>1, SameShape DEF Inv
  <2>3. Purging' /\ OneHolder' /\ Holds'
    BY <2>1 DEF Inv, Purging, Knows, OneHolder, Holder, Holds, Writes, rows, vault, faults
  <2>4. RegistryDescribesBlobs' /\ PurgeProved' /\ Accounted' /\ Late'
    BY <2>1 DEF Inv, RegistryDescribesBlobs, PurgeProved, Accounted, Late, Left, Holder, Writes, Read,
       At, BeingDeleted, Unlisted, rows, vault, faults
  <2>5. FewCertificates'
    BY <2>1 DEF Inv, FewCertificates, Certificates, Certifying, rows
  <2> QED BY <2>2, <2>3, <2>4, <2>5 DEF Inv
<1> QED BY <1>1, <1>2

LEMMA InvAlways == Spec => []Inv
BY InvInit, InvNext, PTL DEF Spec

\* The settings and the profile never change, and a session goes from open
\* to closed to due.
Settled ==
  /\ cfg \in Configs
  /\ profile.name \in DOMAIN Jurisdictions(cfg)
  /\ ResolvePolicy(cfg, profile.tsa_policy) # Unknown
  /\ phase \in {"open", "closed", "due"}

LEMMA SettledAlways == Spec => []Settled
<1>1. ASSUME Init PROVE Settled
  <2>1. PICK asked \in Asked : profile = Resolve(cfg, asked, None)
    BY <1>1 DEF Init
  <2>2. profile # Unknown /\ ResolvePolicy(cfg, profile.tsa_policy) # Unknown
    BY <1>1 DEF Init, Deployable
  <2>3. profile.name \in DOMAIN Jurisdictions(cfg)
    BY <2>1, <2>2 DEF Resolve
  <2> QED BY <1>1, <2>2, <2>3 DEF Init, Settled
<1>2. ASSUME Next
      PROVE  UNCHANGED settings /\ (UNCHANGED phase \/ phase' \in {"closed", "due"})
  BY <1>2 DEF Next, Close, Elapse, StartUpload, StartContract, StartCertificate, Begin, PutSource,
     PutToken, PutSigned, CommitFiles, GetTimestamp, StartTask, ReadImage, Apply, StartPurge, List,
     Delete, DeleteFails, CommitPurge, Abort
<1>3. Settled /\ [Next]_vars => Settled'
  BY <1>2 DEF Settled, vars, settings
<1> QED BY <1>1, <1>3, PTL DEF Spec

-----------------------------------------------------------------------------
(***************************************************************************)
(* The proof of a sealed document.                                         *)
(***************************************************************************)
\* The token row of a record describes the token made of its source.
Records ==
  \A j \in DOMAIN signed :
    LET s == signed[j] IN
    artifacts[s.token_row].sha256 = TokenOf(artifacts[s.source].sha256, s.n, s.token.reply)

LEMMA RecordsNext == Shape /\ Purging /\ Records /\ Next => Records'
<1> SUFFICES ASSUME Shape, Purging, Records, Next PROVE Records'
  OBVIOUS
<1>0. /\ signed \in Seq(Signature)
      /\ \A j \in DOMAIN signed : {signed[j].source, signed[j].token_row} \subseteq DOMAIN artifacts
  BY DEF Shape
<1>1. CASE UNCHANGED <<artifacts, signed>>
  BY <1>1 DEF Records
<1>2. ASSUME NEW r \in Requests, Registers(r) PROVE Records'
  <2>1. \A i \in DOMAIN artifacts : artifacts'[i] = artifacts[i]
    BY <1>2 DEF Registers
  <2>2. CASE UNCHANGED signed
    BY <1>0, <2>1, <2>2 DEF Records
  <2>3. ASSUME NEW s \in Signature, signed' = Append(signed, s),
               artifacts'[s.token_row].sha256 =
                 TokenOf(artifacts'[s.source].sha256, s.n, s.token.reply)
        PROVE  Records'
    <3>1. ASSUME NEW j \in DOMAIN signed'
          PROVE  signed'[j] = s \/ (j \in DOMAIN signed /\ signed'[j] = signed[j])
      BY <1>0, <2>3
    <3> QED BY <1>0, <2>1, <2>3, <3>1 DEF Records
  <2> QED BY <1>2, <2>2, <2>3 DEF Registers
<1>3. ASSUME NEW r \in Requests, Marks(r) PROVE Records'
  <2>1. signed' = signed /\ \A i \in DOMAIN artifacts : artifacts'[i].sha256 = artifacts[i].sha256
    BY <1>3 DEF Marks
  <2> QED BY <1>0, <2>1 DEF Records
<1> QED BY <1>1, <1>2, <1>3, NextCases DEF Keeps, Puts, Deletes, Aborts, rows

LEMMA RecordsAlways == Spec => []Records
<1>1. Init => Records
  BY DEF Init, Records
<1>2. Inv /\ Records /\ [Next]_vars => Records'
  <2>1. ASSUME Records, UNCHANGED vars PROVE Records'
    BY <2>1 DEF Records, vars, rows
  <2> QED BY <2>1, RecordsNext DEF Inv
<1> QED BY <1>1, <1>2, InvAlways, PTL DEF Spec

\* A token's reply is never that of an authority that failed, and it names
\* the provider it came from (timestamp).
LEMMA TokensHonest ==
  ASSUME Settled, NEW token \in Tokens
  PROVE  token.reply \in {"signed", "granted", "rejected", "garbled"} /\ Honest(token)
<1>1. PICK reference \in {"contract", "certificate"}, answer \in Answers :
        token = Timestamp(cfg, Policy(reference), answer)
  BY DEF Tokens
<1> DEFINE policy   == Policy(reference)
           provider == ResolvePolicy(cfg, policy)
           P        == Providers(cfg)
<1>2. cfg \in Configs /\ ResolvePolicy(cfg, profile.tsa_policy) # Unknown
  BY DEF Settled
<1>3. provider = Internal \/ \E i \in DOMAIN P : provider = P[i]
  <2>1. policy \in {"internal", "qualified", profile.tsa_policy}
    BY DEF Policy
  <2> QED BY <1>2, <2>1, Resolved
<1>4. CASE token = InternalToken
  <2>1. PICK i \in DOMAIN P : P[i].name = "internal"
    BY <1>2, Registered
  <2>2. P[i] \in Range(P)
    BY DEF Range
  <2> QED BY <1>4, <2>1, <2>2 DEF InternalToken, Honest
<1>5. CASE token # InternalToken
  <2>1. /\ provider.mode # "internal" /\ answer # "failed"
        /\ token = [provider |-> provider.name, qualified |-> provider.qualified, reply |-> answer]
    <3>1. token = CASE provider.mode = "internal" -> InternalToken
                    [] answer = "failed" -> InternalToken
                    [] OTHER -> [provider |-> provider.name, qualified |-> provider.qualified,
                                 reply |-> answer]
      BY <1>1 DEF Timestamp, Fallback
    <3> HIDE DEF provider
    <3> QED BY <1>5, <3>1
  <2>2. PICK i \in DOMAIN P : provider = P[i]
    BY <1>3, <2>1 DEF Internal
  <2>3. P[i].mode = "external"
    <3>1. P[i] = Internal \/ P[i].mode = "external"
      BY <1>2, Registered
    <3> QED BY <2>1, <2>2, <3>1 DEF Internal
  <2>4. P[i] \in Range(P)
    BY DEF Range
  <2>5. /\ token.provider = P[i].name /\ token.qualified = P[i].qualified
        /\ token.reply = answer /\ answer \in Answers \ {"failed"}
    BY <2>1, <2>2
  <2> HIDE DEF P
  <2>6. Honest(token)
    BY <2>3, <2>4, <2>5 DEF Honest, P
  <2> QED BY <2>5, <2>6 DEF Answers
<1> QED BY <1>4, <1>5

-----------------------------------------------------------------------------
(***************************************************************************)
(* The theorems.                                                           *)
(***************************************************************************)
\* Every variable has its type (models.py).
THEOREM CustodyTypeCorrect == Spec => []TypeOK
<1>1. ASSUME Shape, Settled PROVE TypeOK
  <2>1. ASSUME NEW r \in Requests, reqs[r] # Idle PROVE reqs[r].step \in Steps /\ reqs[r].n \in 1 .. work
    <3>1. reqs[r] \in Job /\ reqs[r].n <= work
      BY <1>1, <2>1 DEF Shape
    <3>2. reqs[r].step \in Steps
      BY <2>1, <3>1 DEF Job, Steps
    <3>3. reqs[r].n \in Numbers
      BY <2>1, <3>1, JobAt
    <3>4. work \in Nat
      BY <1>1, CustodyAssumption DEF Shape
    <3> QED BY <3>1, <3>2, <3>3, <3>4, CustodyAssumption DEF Numbers
  <2>2. ASSUME NEW s \in ToSet(signed)
        PROVE  {s.source, s.token_row, s.row} \subseteq DOMAIN artifacts /\ s.reference \in Documents
    <3>1. signed \in Seq(Signature)
      BY <1>1 DEF Shape
    <3>2. PICK j \in DOMAIN signed : s = signed[j]
      BY DEF ToSet
    <3>3. signed[j] \in Signature
      BY <3>1
    <3> QED BY <1>1, <3>2, <3>3 DEF Shape, Signature
  <2>3. \A l \in ToSet(listed) : l \subseteq DOMAIN artifacts
    BY <1>1 DEF Shape, ToSet
  <2> QED BY <1>1, <2>1, <2>2, <2>3 DEF TypeOK, Shape, Settled, Documents
<1> QED BY <1>1, InvAlways, SettledAlways, PTL DEF Inv

\* Whatever requests, tasks and purges run at once, fail and are rolled back,
\* the row of a file describes its blob, unless the file was replaced, or is
\* deleted by a purge that goes on or was rolled back (store_artifact).
THEOREM RegistryAlwaysDescribes == Spec => []RegistryDescribesBlobs
BY InvAlways, PTL DEF Inv

\* A row marked purged is in a DATA_PURGED event (_purge_session).
THEOREM PurgeAlwaysProved == Spec => []PurgeProved
BY InvAlways, PTL DEF Inv

\* A blob that is there after the purge is one it failed to delete, or was
\* never told of (purge_expired_sessions).
THEOREM LeftoversAlwaysHaveCause == Spec => []LeftoversHaveCause
<1>1. ASSUME Accounted PROVE LeftoversHaveCause
  <2>1. ASSUME NEW k \in Keys, NEW r \in Requests, Writes(r, k) PROVE reqs[r] # Idle
    BY <2>1, IdleJob DEF Writes
  <2>2. ASSUME NEW k \in Keys, NEW i \in DOMAIN artifacts, Left(i, k)
        PROVE  artifacts[i].key = k /\ ~artifacts[i].purged /\ (i \in failed \/ Unlisted(i))
    BY <2>2 DEF Left, Holder
  <2> QED BY <1>1, <2>1, <2>2 DEF Accounted, LeftoversHaveCause, Writes
<1> QED BY <1>1, InvAlways, PTL DEF Inv

\* Wiped data comes back only from a run that read its image before a purge
\* was committed, or an image the purge left (identity.process_document).
THEOREM WipedAlwaysStaysWiped == Spec => WipedStaysWiped
<1> DEFINE Cause ==
      \E r \in Requests :
        /\ At(r, "apply")
        /\ LET i == reqs[r].row IN
           reqs[r].purges < Len(listed) \/ i \in failed \/ Unlisted(i) \/ puts[artifacts[i].key] > 1
<1>1. ASSUME Next, ~personal, personal' PROVE \E r \in Requests : At(r, "apply")
  BY <1>1 DEF Next, Close, Elapse, StartUpload, StartContract, StartCertificate, Begin, PutSource,
     PutToken, PutSigned, CommitFiles, GetTimestamp, StartTask, ReadImage, Apply, StartPurge, List,
     Delete, DeleteFails, CommitPurge, Abort, rows
<1>2. Late /\ [Next]_vars => [purged /\ ~personal /\ personal' => Cause]_vars
  BY <1>1 DEF Late, vars
<1>3. Spec => []Late
  BY InvAlways, PTL DEF Inv
<1> QED BY <1>2, <1>3, PTL DEF Spec, WipedStaysWiped

\* No more certificates are sealed than requests are handled at once
\* (kyc_certificate).
THEOREM CertificatesAlwaysBounded == Spec => []CertificatesBounded
<1>1. ASSUME FewCertificates PROVE CertificatesBounded
  <2>1. Cardinality(Certificates) \in Nat
    BY <1>1, FS_CardinalityType DEF FewCertificates
  <2> QED BY <1>1, <2>1, CertifyingFinite DEF FewCertificates, CertificatesBounded, Certificates
<1> QED BY <1>1, InvAlways, PTL DEF Inv

\* A sealed document says honestly who timestamped it, and its proof still
\* verifies, with the token purged or not, unless the authority had not
\* granted it, the document was sealed again, or a purge of the token was
\* rolled back or goes on (timestamp, verify_document).
THEOREM ProofAlwaysOutlivesData == Spec => []ProofOutlivesData
<1>1. ASSUME Inv, Settled, Records PROVE ProofOutlivesData
  <2> SUFFICES ASSUME NEW s \in ToSet(signed)
               PROVE  /\ Honest(s.token)
                      /\ \/ VerifyDocument(s) \in {"sound", "purged"}
                         \/ s.token.reply \in {"rejected", "garbled"}
                         \/ puts[artifacts[s.token_row].key] > 1
                         \/ undone > 0
                         \/ BeingDeleted(s.token_row)
    BY DEF ProofOutlivesData
  <2>1. PICK j \in DOMAIN signed : s = signed[j]
    BY DEF ToSet
  <2>2. s.token \in Tokens /\ s.token_row \in DOMAIN artifacts
    <3>1. signed \in Seq(Signature)
      BY <1>1 DEF Inv, Shape
    <3>2. s \in Signature
      BY <2>1, <3>1
    <3> QED BY <1>1, <2>1, <3>2 DEF Inv, Shape, Signature
  <2>3. s.token.reply \in {"signed", "granted", "rejected", "garbled"} /\ Honest(s.token)
    BY <1>1, <2>2, TokensHonest
  <2> DEFINE a    == artifacts[s.token_row]
             mine == TokenOf(artifacts[s.source].sha256, s.n, s.token.reply)
  <2>4. a.sha256 = mine /\ mine # NoBlob /\ mine.reply = s.token.reply
    BY <1>1, <2>1 DEF Records, TokenOf, NoBlob
  <2>5. ~a.purged => Read(a.key) = a.sha256 \/ puts[a.key] > 1 \/ undone > 0 \/ BeingDeleted(s.token_row)
    BY <1>1, <2>2 DEF Inv, RegistryDescribesBlobs
  <2>6. CASE a.purged
    BY <2>3, <2>6 DEF VerifyDocument
  <2>7. CASE ~a.purged /\ Read(a.key) = mine
    <3>1. VerifyDocument(s) = IF VerifyToken(mine.reply, TRUE) THEN "sound" ELSE "unsound"
      BY <2>4, <2>7 DEF VerifyDocument
    <3> QED BY <2>3, <2>4, <3>1 DEF VerifyToken
  <2> QED BY <2>3, <2>4, <2>5, <2>6, <2>7
<1> QED BY <1>1, InvAlways, SettledAlways, RecordsAlways, PTL
=============================================================================
