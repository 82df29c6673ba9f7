----------------------------- MODULE Certificate ------------------------------
(***************************************************************************)
(* The manifest of a frozen campaign, its hash, the release credential and *)
(* its verification (src/internal/certificate).                            *)
(*                                                                         *)
(* SHA-256 is taken to be collision free: the hash of a manifest is the    *)
(* manifest itself, the digest of a credential is what it binds.           *)
(***************************************************************************)
EXTENDS Monitoring

\* canonical: inspection batches and derived views are not part of the manifest;
\* its revision is the version of the campaign it was computed from.
Manifest(c) ==
    [campaign |-> c.id, plannedDate |-> c.plannedDate, revision |-> c.version,
     points |-> c.points, instruments |-> c.instruments, rounds |-> c.rounds,
     findings |-> c.findings]

Hash(c) == Manifest(c)

Digest(k) == <<k.campaign, k.frozenVersion, k.manifestHash, k.issuedBy>>

CanIssue(c) ==
    /\ c.status = "Frozen"
    /\ c.manifestHash # {}
    /\ c.frozenVersion >= 1

\* The credentials Issue can produce: one, the campaign has one manifest hash.
Issue(c, issuedBy) ==
    {[campaign |-> c.id, frozenVersion |-> c.frozenVersion, manifestHash |-> h,
      issuedBy |-> issuedBy, digest |-> <<c.id, c.frozenVersion, h, issuedBy>>]
        : h \in c.manifestHash}

\* The frozen manifest is recomputed at the version before the freeze.
RecalculatedHash(c) == Hash([c EXCEPT !.version = c.frozenVersion - 1])

ManifestPassed(c, evidenceMismatch) ==
    {RecalculatedHash(c)} = c.manifestHash /\ ~evidenceMismatch

VerifyDetailed_EitherFlag(c, evidenceMismatch, credentialMismatch) ==
    IF ~IsFrozen(c.status) THEN {"not_frozen"}
    ELSE (IF ManifestPassed(c, evidenceMismatch \/ credentialMismatch) THEN {} ELSE {"manifest_hash_mismatch"})
         \cup (IF c.credential = {} THEN {"credential_not_issued"}
               ELSE IF credentialMismatch THEN {"credential_digest_mismatch"} ELSE {})

\* The reason codes of the checks that fail, and the report's own where there is no
\* credential to check; {} is the report "valid".
VerifyDetailed(c, evidenceMismatch, credentialMismatch) ==
    IF ~IsFrozen(c.status) THEN {"not_frozen"}
    ELSE IF c.credential = {}
      THEN {"credential_not_issued"} \cup
           {code \in {"manifest_hash_mismatch"} : ~ManifestPassed(c, evidenceMismatch)}
    ELSE LET failed(k) ==
               [campaign_binding_mismatch |-> k.campaign # c.id,
                frozen_version_mismatch |-> k.frozenVersion # c.frozenVersion,
                manifest_hash_binding_mismatch |-> {k.manifestHash} # c.manifestHash,
                manifest_hash_mismatch |-> ~ManifestPassed(c, evidenceMismatch),
                credential_digest_mismatch |-> Digest(k) # k.digest \/ credentialMismatch]
         IN UNION {{code \in DOMAIN failed(k) : failed(k)[code]} : k \in c.credential}
===============================================================================
