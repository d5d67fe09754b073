---------------------------- MODULE TrustServices ----------------------------
(***************************************************************************)
(* Which jurisdiction a session falls under, which vault, timestamp        *)
(* authority and signer that means, what a timestamp request returns and   *)
(* what a stored token proves.  Pure functions of the settings.            *)
(*                                                                         *)
(* cfg stands for the settings:                                            *)
(*   rules     EKYC_JURISDICTIONS_JSON, rules by code, with any fields     *)
(*   fallback  EKYC_DEFAULT_JURISDICTION                                   *)
(*   vaults    the names in EKYC_VAULTS_JSON                               *)
(*   tsa_url   whether EKYC_TSA_URL is set                                 *)
(*   tsas      EKYC_TSAS_JSON, [name, qualified] in order                  *)
(*   qualified_certificates  EKYC_TSA_QUALIFIED_CERTIFICATES               *)
(***************************************************************************)
EXTENDS Naturals, Sequences, SequencesExt

\* None for an absent value; Unknown for what the code raises an error on.
None    == "none"
Unknown == [name |-> "unknown"]

-----------------------------------------------------------------------------
(***************************************************************************)
(* The regulatory orchestrator.                                            *)
(***************************************************************************)
Rules ==
  LET rule(tsa) == [vault_profile |-> "default", tsa_policy |-> tsa, signature_level |-> "platform"] IN
  [GLOBAL |-> rule("internal"), EU |-> rule("qualified"), FR |-> rule("qualified")]

\* The code's rules overlaid by the settings', rule by rule.
Jurisdictions(cfg) == cfg.rules @@ Rules

Field(rule, name, default) == IF name \in DOMAIN rule THEN rule[name] ELSE default

Jurisdiction(cfg, requested, ofTenant) ==
  IF requested # None THEN requested
  ELSE IF ofTenant # None THEN ofTenant ELSE cfg.fallback

\* resolve(): the profile snapshotted on the session.
Resolve(cfg, requested, ofTenant) ==
  LET code == Jurisdiction(cfg, requested, ofTenant)
      rule == Jurisdictions(cfg)[code] IN
  IF code \notin DOMAIN Jurisdictions(cfg) THEN Unknown
  ELSE [name            |-> code,
        vault_profile   |-> Field(rule, "vault_profile", "default"),
        tsa_policy      |-> Field(rule, "tsa_policy", "internal"),
        signature_level |-> Field(rule, "signature_level", "platform")]

VaultKnown(cfg, name) == name = "default" \/ name \in cfg.vaults

SignerKnown(level) == level \in {"platform", "local", "internal"}

-----------------------------------------------------------------------------
(***************************************************************************)
(* The TSA manager.                                                        *)
(***************************************************************************)
Internal == [name |-> "internal", mode |-> "internal", qualified |-> FALSE]

External(name, qualified) == [name |-> name, mode |-> "external", qualified |-> qualified]

\* What goes into the registry, in order.
Entries(cfg) ==
  <<Internal>> \o (IF cfg.tsa_url THEN <<External("external", TRUE)>> ELSE <<>>)
    \o [i \in DOMAIN cfg.tsas |-> External(cfg.tsas[i].name, cfg.tsas[i].qualified)]

Named(entries, name) == {i \in DOMAIN entries : entries[i].name = name}

\* The registry is a dict: a name stays where it first came, with the entry
\* that came last.
Providers(cfg) ==
  LET entries == Entries(cfg)
      names   == {entries[i].name : i \in DOMAIN entries}
  IN  [i \in {Min(Named(entries, name)) : name \in names} |->
         entries[Max(Named(entries, entries[i].name))]]

\* resolve_policy().
ResolvePolicy(cfg, policy) ==
  LET registry  == Providers(cfg)
      qualified == {i \in DOMAIN registry : registry[i].mode = "external" /\ registry[i].qualified}
      named     == {i \in DOMAIN registry : registry[i].name = policy}
  IN  CASE policy = "internal"  -> Internal
        [] policy = "qualified" -> IF qualified # {} THEN registry[Min(qualified)] ELSE Internal
        [] OTHER                -> IF named # {} THEN registry[Min(named)] ELSE Unknown

\* Slip: the timestamp authority is left for the first seal.
DeployableSoFar(cfg, profile) ==
  /\ profile # Unknown
  /\ VaultKnown(cfg, profile.vault_profile)
  /\ SignerKnown(profile.signature_level)

\* What create_session checks before it commits.
Deployable(cfg, profile) ==
  /\ profile # Unknown
  /\ VaultKnown(cfg, profile.vault_profile)
  /\ ResolvePolicy(cfg, profile.tsa_policy) # Unknown
  /\ SignerKnown(profile.signature_level)

\* What an authority can answer: a reply whose status is granted or not, a
\* reply that does not parse, or no reply with a success status.
Answers == {"granted", "rejected", "garbled", "failed"}

InternalToken == [provider |-> "internal", qualified |-> FALSE, reply |-> "signed"]

\* A failing authority must not drop the evidence: the internal token.
Fallback(provider) == InternalToken

\* timestamp(): the reply is verified, and kept whatever the outcome.
Timestamp(cfg, policy, answer) ==
  LET provider == ResolvePolicy(cfg, policy) IN
  CASE provider.mode = "internal" -> InternalToken
    [] answer = "failed"          -> Fallback(provider)
    [] OTHER -> [provider |-> provider.name, qualified |-> provider.qualified, reply |-> answer]

\* verify_token(): an internal token is checked with the platform's key and
\* the issued_at of the record that names it; a reply for its structure, its
\* status and its imprint.  mine: the token is the one the record was made of.
VerifyToken(reply, mine) ==
  \/ reply = "signed" /\ mine
  \/ reply = "granted"
=============================================================================
