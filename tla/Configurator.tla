---------------------------- MODULE Configurator ----------------------------
(***************************************************************************)
(* configure-authority.py, run by one administrator beside the sessions of *)
(* HostCli: it takes the machine identity and an approved phone from their *)
(* state directory and installs them, file by file, as the protected       *)
(* authority; or it switches the installed authority off.  It takes no     *)
(* lock and may be killed between any two of its files.                    *)
(***************************************************************************)
EXTENDS HostCli

VARIABLES
  adm,        \* the administrator's run: where it is, and what it was told
  rootKey,    \* /var/lib/navi-auth/machine-key.pem: which machine key
  rootCert,   \* /var/lib/navi-auth/machine-cert.pem
  conf        \* /etc/navi-auth/config.json

rootVars == <<rootKey, rootCert, conf>>

NoConf == [enabled |-> FALSE, machine |-> NoFile, phone |-> 0]
Confs == [enabled : BOOLEAN, machine : 1..MaxIds, phone : Keys]
NoRun == [at |-> "none", machine |-> NoFile, phone |-> 0]
Runs == [at : {"read", "approval", "compare", "key", "certificate", "config", "check", "revoke"},
         machine : 1..MaxIds, phone : Keys]

ConfTypeOK ==
  /\ adm \in Runs \cup {NoRun}
  /\ rootKey \in 0..MaxIds /\ rootCert \in 0..MaxIds
  /\ conf \in Confs \cup {NoConf}

ConfInit == adm = NoRun /\ rootKey = NoFile /\ rootCert = NoFile /\ conf = NoConf

-----------------------------------------------------------------------------
AdmAt(place) == adm.at = place
AdmGoes(place) == adm' = [adm EXCEPT !.at = place]

\* The administrator names the machine and the phone that were reviewed.
Install ==
  /\ adm = NoRun
  /\ \E m \in 1..ids, k \in Keys : adm' = [at |-> "read", machine |-> m, phone |-> k]
  /\ UNCHANGED rootVars

\* The certificate and the private key are those of the reviewed machine.
ReadIdentity ==
  /\ AdmAt("read")
  /\ keyFile = adm.machine /\ certFile = adm.machine /\ AdmGoes("approval")
  /\ UNCHANGED rootVars

\* The reviewed phone is approved.
ReadApproval ==
  /\ AdmAt("approval")
  /\ approved[adm.phone] # NoFile /\ AdmGoes("compare")
  /\ UNCHANGED rootVars

\* Mutant: an authority may be replaced by another.
CompareNothing ==
  /\ AdmAt("compare") /\ AdmGoes("key")
  /\ UNCHANGED rootVars

\* "Existing authority differs; refusing silent replacement"
Compare ==
  /\ AdmAt("compare")
  /\ conf \in {NoConf, [enabled |-> TRUE, machine |-> adm.machine, phone |-> adm.phone],
               [enabled |-> FALSE, machine |-> adm.machine, phone |-> adm.phone]}
  /\ AdmGoes("key")
  /\ UNCHANGED rootVars

WriteKey ==
  /\ AdmAt("key") /\ AdmGoes("certificate")
  /\ rootKey' = adm.machine /\ UNCHANGED <<rootCert, conf>>

WriteCertificate ==
  /\ AdmAt("certificate") /\ AdmGoes("config")
  /\ rootCert' = adm.machine /\ UNCHANGED <<rootKey, conf>>

WriteConfig ==
  /\ AdmAt("config") /\ AdmGoes("check")
  /\ conf' = [enabled |-> TRUE, machine |-> adm.machine, phone |-> adm.phone]
  /\ UNCHANGED <<rootKey, rootCert>>

\* rootauth.py --check, whose verdict changes no file.
Check == AdmAt("check") /\ adm' = NoRun /\ UNCHANGED rootVars

\* Mutant: an absent configuration is switched off.
ReadAbsent ==
  /\ adm = NoRun
  /\ adm' = [at |-> "revoke", machine |-> conf.machine, phone |-> conf.phone]
  /\ UNCHANGED rootVars

\* --revoke reads the configuration and writes it back switched off.
ReadConfig ==
  /\ adm = NoRun /\ conf # NoConf
  /\ adm' = [at |-> "revoke", machine |-> conf.machine, phone |-> conf.phone]
  /\ UNCHANGED rootVars

WriteRevoked ==
  /\ AdmAt("revoke") /\ adm' = NoRun
  /\ conf' = [enabled |-> FALSE, machine |-> adm.machine, phone |-> adm.phone]
  /\ UNCHANGED <<rootKey, rootCert>>

\* Refused, interrupted or killed: what was renamed into place stays.
Stop == adm # NoRun /\ adm' = NoRun /\ UNCHANGED rootVars

ConfStep ==
  \/ Install \/ ReadIdentity \/ ReadApproval \/ Compare
  \/ WriteKey \/ WriteCertificate \/ WriteConfig \/ Check
  \/ ReadConfig \/ WriteRevoked \/ Stop

-----------------------------------------------------------------------------
vars == <<cliVars, adm, rootVars>>

\* Sessions, files and the run of the administrator are well typed.
TypeOK == CliTypeOK /\ ConfTypeOK

Init == CliInit /\ ConfInit

Next ==
  \/ CliNext /\ UNCHANGED <<adm, rootVars>>
  \/ ConfStep /\ UNCHANGED cliVars

Spec == Init /\ [][Next]_vars /\ CliFairness

\* The configuration that is in force, or was before it was revoked, always finds
\* the key and the certificate of its machine, although they are replaced one by
\* one and any run may be cut short (main() of configure-authority.py).
ConfigMatchesKeys == conf # NoConf => rootKey = conf.machine /\ rootCert = conf.machine

\* A phone key is approved, and installed for the protected authority, only if
\* its fingerprint once signed an enrollment that was out at the time, whatever
\* was killed, revoked or lost since (approve()'s transaction, ReadApproval).
ApprovedWasEnrolled ==
  \A k \in Keys :
    approved[k] # NoFile \/ conf.phone = k =>
      \E s \in Sessions : /\ does[s] = [command |-> "enroll", key |-> k]
                          /\ row[s] = "consumed" /\ s \in signed
=============================================================================
