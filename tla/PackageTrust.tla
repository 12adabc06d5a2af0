----------------------------- MODULE PackageTrust -----------------------------
(***************************************************************************)
(* The Trust Store of a repository and the verification that stands in     *)
(* front of an install (platform/installer: TrustStore and                 *)
(* verify_package_trust; FoundationRuntime::install_package up to the      *)
(* opening of its transaction; the oep_trust_* calls of the C API).        *)
(*                                                                         *)
(* A certificate is one file, written to the side and renamed; the policy  *)
(* is one file, truncated and rewritten in place, so a crash may come      *)
(* between.  Neither write looks at the stream: a short write is reported  *)
(* as a success.  What is signed, and with what key, is data: an archive   *)
(* is what the verifier would find when it looks at each of its parts.     *)
(*                                                                         *)
(* The publisher whose certificate file would be policy.json is left out.  *)
(***************************************************************************)
EXTENDS Naturals, Sequences

CONSTANTS
    Publishers,     \* publisher ids
    Keys,           \* public keys (a fingerprint is a function of the key)
    Packages,       \* package ids
    Absent,         \* no file, no publisher, no key
    Torn,           \* a file that cannot be parsed
    WriteOutcomes,  \* what a file write may do: "ok", "failed", "torn"
    Crashes,        \* may the process die?
    MaxTime         \* bound: the clock; a certificate that expires then never does

Certificates == [key : Keys, expires : 0..MaxTime, revoked : BOOLEAN]

TrustAssumption ==
    /\ Absent # Torn
    /\ {Absent, Torn} \cap Certificates = {}
    /\ WriteOutcomes \subseteq {"ok", "failed", "torn"}
    /\ Crashes \in BOOLEAN
    /\ MaxTime \in Nat

VARIABLES
    certs,      \* publisher -> certificate, Absent or Torn
    policy,     \* policy.json: "required", "optional", or Absent or Torn
    installed,  \* package -> the trust outcome in its registry entry, or Absent
    now,        \* the clock
    setting     \* the value set_policy is writing; "none" between calls

tvars == <<certs, policy, installed, now, setting>>

(* What the verifier finds in an archive: whether it can be opened and has a *)
(* signature block that can be read and is well formed; what comparing the   *)
(* entries with the hashes of the block comes to - the first entry that is   *)
(* not covered, does not match or is missing (changed), or that cannot be    *)
(* read decides; whose block it is, with which key, and whether the          *)
(* signature decodes and holds.  Without a block there is nothing to compare *)
(* the entries with and no signature to hold.                                *)
Archives ==
    {a \in [block : {"unopened", "none", "unreadable", "malformed", "ok"},
            content : {"intact", "changed", "unreadable"},
            publisher : Publishers, key : Keys, holds : BOOLEAN] :
        a.block # "ok" => a.content = "intact" /\ ~a.holds}

Outcomes == [state : {"Unsigned"}, publisher : {Absent}, key : {Absent}]
                \cup [state : {"Trusted"}, publisher : Publishers, key : Keys]

TrustInit ==
    /\ certs = [p \in Publishers |-> Absent]
    /\ policy = Absent
    /\ installed = [p \in Packages |-> Absent]
    /\ now = 0
    /\ setting = "none"

AtRest == setting = "none"
CertLoads(p) == certs[p] \in Certificates
Written(v, out) == IF out = "torn" THEN Torn ELSE v

-----------------------------------------------------------------------------
(* verify_package_trust: the first check that fails decides. *)

\* What each check finds wrong, in the order of the code.
Verdicts ==
    <<"error", "Unsigned", "error", "InvalidSignature", "error", "Tampered",
      "error", "UnknownPublisher", "RevokedCertificate", "ExpiredCertificate",
      "InvalidSignature", "InvalidSignature", "Trusted">>

\* Faulty variant: an archive is looked at after its certificate was found.
FailedLate(a) ==
    LET c == certs[a.publisher]
        loads == c \notin {Absent, Torn}
    IN  <<a.block = "unopened", a.block = "none", a.block = "unreadable",
          a.block = "malformed",
          loads /\ a.content = "unreadable", loads /\ a.content = "changed",
          c = Torn, c = Absent,
          loads /\ c.revoked, loads /\ c.expires < now, loads /\ c.key # a.key, ~a.holds,
          TRUE>>

\* Which of the checks fail.
Failed(a) ==
    LET c == certs[a.publisher]
        loads == c \notin {Absent, Torn}
    IN  <<a.block = "unopened", a.block = "none", a.block = "unreadable",
          a.block = "malformed", a.content = "unreadable", a.content = "changed",
          c = Torn, c = Absent,
          loads /\ c.revoked, loads /\ c.expires < now, loads /\ c.key # a.key, ~a.holds,
          TRUE>>

Verdict(a) ==
    LET failed == Failed(a)
    IN  Verdicts[CHOOSE i \in DOMAIN failed : failed[i] /\ \A j \in 1..(i - 1) : ~failed[j]]

-----------------------------------------------------------------------------
(* TrustStore. *)

\* add_certificate: no publisher ever gets a second certificate.
AddCertificate(p, k, t, out) ==
    /\ AtRest
    /\ out # "failed"
    /\ certs[p] = Absent
    /\ certs' = [certs EXCEPT ![p] = Written([key |-> k, expires |-> t, revoked |-> FALSE], out)]
    /\ UNCHANGED <<policy, installed, now, setting>>

\* Faulty variant: revoking a certificate twice restores it.
RevokeToggles(p, out) ==
    /\ AtRest
    /\ CertLoads(p)
    /\ out # "failed"
    /\ certs' = [certs EXCEPT ![p] = Written([certs[p] EXCEPT !.revoked = ~@], out)]
    /\ UNCHANGED <<policy, installed, now, setting>>

RevokeCertificate(p, out) ==
    /\ AtRest
    /\ CertLoads(p)
    /\ ~certs[p].revoked
    /\ out # "failed"
    /\ certs' = [certs EXCEPT ![p] = Written([certs[p] EXCEPT !.revoked = TRUE], out)]
    /\ UNCHANGED <<policy, installed, now, setting>>

\* Calls that are turned down - an existing certificate, an unreadable or already
\* revoked one, a write that cannot be started - change nothing.  What each answers:
\* oep_trust_get_certificate
GetCode(p) ==
    CASE certs[p] = Absent -> "NOT_FOUND"
      [] certs[p] = Torn   -> "OPERATION_FAILED"
      [] OTHER             -> "NONE"

\* oep_trust_revoke_certificate looks the certificate up first.
RevokeCode(p) ==
    IF GetCode(p) = "NONE" /\ certs[p].revoked THEN "OPERATION_FAILED" ELSE GetCode(p)

\* list_certificates passes over what it cannot read.
ListCertificates == {p \in Publishers : CertLoads(p)}

\* get_policy
Required == policy = "required"

\* set_policy truncates the file ...
StartSetPolicy(v) ==
    /\ AtRest
    /\ setting' = v
    /\ policy' = Torn
    /\ UNCHANGED <<certs, installed, now>>

\* ... and writes it again; how the write went is not looked at.
FinishSetPolicy(out) ==
    /\ ~AtRest
    /\ policy' = Written(setting, out)
    /\ setting' = "none"
    /\ UNCHANGED <<certs, installed, now>>

-----------------------------------------------------------------------------
(* install_package *)

\* A policy that cannot be read counts as one that does not require signatures.
LetsIn(a) ==
    \/ Verdict(a) = "Trusted"
    \/ Verdict(a) = "Unsigned" /\ ~Required

(* The install goes on and records the outcome with the fingerprint of the  *)
(* certificate.  What else it does is the subject of PackageInstall.        *)
Install(p, a) ==
    /\ AtRest
    /\ installed[p] = Absent
    /\ LetsIn(a)
    /\ installed' = [installed EXCEPT ![p] =
          IF a.block = "none"
          THEN [state |-> "Unsigned", publisher |-> Absent, key |-> Absent]
          ELSE [state |-> "Trusted", publisher |-> a.publisher, key |-> a.key]]
    /\ UNCHANGED <<certs, policy, now, setting>>

-----------------------------------------------------------------------------
Tick ==
    /\ now < MaxTime
    /\ now' = now + 1
    /\ UNCHANGED <<certs, policy, installed, setting>>

(* The process dies; only set_policy can be caught half way. *)
CrashInSetPolicy ==
    /\ Crashes
    /\ ~AtRest
    /\ setting' = "none"
    /\ UNCHANGED <<certs, policy, installed, now>>

TrustNext ==
    \/ \E p \in Publishers, out \in WriteOutcomes :
          \/ \E k \in Keys, t \in 0..MaxTime : AddCertificate(p, k, t, out)
          \/ RevokeCertificate(p, out)
    \/ \E v \in {"required", "optional"} : StartSetPolicy(v)
    \/ \E out \in WriteOutcomes \ {"failed"} : FinishSetPolicy(out)
    \/ \E p \in Packages, a \in Archives : Install(p, a)
    \/ Tick
    \/ CrashInSetPolicy

TrustSpec == TrustInit /\ [][TrustNext]_tvars
-----------------------------------------------------------------------------
(* Properties. *)

\* A package recorded as trusted was signed with the one key its publisher ever had
\* in this repository: whatever was added, revoked or expired since, the certificate
\* still on file is the one it was verified against.
TrustedKeepsKey ==
    \A p \in Packages :
        installed[p] # Absent /\ installed[p].state = "Trusted" =>
            LET c == certs[installed[p].publisher]
            IN  c = Torn \/ (c # Absent /\ c.key = installed[p].key)

\* Only adding a certificate can make an archive trusted that was not: no revocation,
\* passing of time, torn file, policy or install does, in any order.
TrustsOnlyAdded ==
    \A a \in Archives :
        Verdict(a) # "Trusted" /\ Verdict(a)' = "Trusted" =>
            /\ certs[a.publisher] = Absent
            /\ certs'[a.publisher].key = a.key

\* What the archive itself shows is judged before the Trust Store is asked, whatever
\* certificates are there: changed content is Tampered, which nothing else is, and an
\* entry that cannot be read is an error.
TamperedIsFinal ==
    \A a \in Archives :
        /\ a.block = "ok" /\ a.content = "changed" <=> Verdict(a) = "Tampered"
        /\ a.block = "ok" /\ a.content = "unreadable" => Verdict(a) = "error"

\* What the Trust Store answers about a publisher and what the verifier concludes of
\* its packages agree: unknown to one means unknown to the other, an unreadable file
\* is reported by both, and only a certificate that can be revoked is ever trusted.
AnswersAgree ==
    \A p \in Publishers, a \in Archives :
        a.publisher = p /\ a.block = "ok" /\ a.content = "intact" =>
            /\ GetCode(p) = "NOT_FOUND" <=> Verdict(a) = "UnknownPublisher"
            /\ GetCode(p) = "OPERATION_FAILED" <=> Verdict(a) = "error"
            /\ Verdict(a) = "Trusted" => RevokeCode(p) = "NONE" /\ p \in ListCertificates

\* The three together.
TrustIsRight == TrustedKeepsKey /\ TamperedIsFinal /\ AnswersAgree
=============================================================================
