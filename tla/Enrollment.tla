------------------------------ MODULE Enrollment ------------------------------
(***************************************************************************)
(* The start of the agent (cmd/agent/main.go) with the files it keeps: its *)
(* configuration (config.go), its private key and its certificate          *)
(* (internal/pki).  The service manager starts it again whenever it has    *)
(* ended, with -panel (scripts/install.sh:227), and it may die anywhere.   *)
(* Every file but the renewed pair is emptied first and then written.      *)
(*                                                                         *)
(* A key is the number of its generation; a certificate names the key that *)
(* it was issued for and lasts for some ticks.  The renewal checker        *)
(* (renew.go) runs beside the agent; nothing in this commit starts it, so  *)
(* Renews says whether it is part of the instance.                         *)
(***************************************************************************)
EXTENDS Naturals

CONSTANTS
  MaxKeys,    \* bound: keys that are ever generated
  Lifetime,   \* ticks that a certificate is valid for
  Threshold,  \* renewalThreshold: ticks before the end at which it is renewed
  MaxTime,    \* bound: the clock's last value
  Renews      \* is the renewal checker started?

ASSUME EnrollmentAssumption ==
  /\ MaxKeys \in Nat /\ MaxTime \in Nat /\ Renews \in BOOLEAN
  /\ Lifetime \in Nat \ {0} /\ Threshold \in 0 .. Lifetime

VARIABLES
  enKey,    \* agent.key: 0 none, Cut, or the key
  enCert,   \* agent.crt: its key, and when it ends
  enConf,   \* agent.yaml: does it hold the agent's id and token
  enStart,  \* where the agent's start is
  enMine,   \* the key that the start has generated
  enIdentity, \* the identity that the agent has loaded
  enRenew,  \* where the renewal is
  enNext,   \* the key that it has generated
  enKeys,   \* how many keys there have been
  enTime,
  enHalf    \* history: a renewal stopped between its two renames

enFiles == <<enKey, enCert, enConf>>
enRenewal == <<enRenew, enNext>>
enVars == <<enFiles, enStart, enMine, enIdentity, enRenewal, enKeys, enTime, enHalf>>

Cut == MaxKeys + 1
Cert(key, ends) == [key |-> key, ends |-> ends]
NoCert == Cert(0, 0)
CutCert == Cert(Cut, 0)

EnInit ==
  /\ enKey = 0 /\ enCert = NoCert /\ enConf = "good"
  /\ enStart = "load" /\ enMine = 0 /\ enIdentity = "none"
  /\ enRenew = "off" /\ enNext = 0
  /\ enKeys = 0 /\ enTime = 0 /\ enHalf = FALSE

(* The key file is there, whatever it holds; the certificate parses and    *)
(* has not ended.                                                          *)
CertificateExists == enKey # 0 /\ enCert.key \in 1 .. MaxKeys /\ enCert.ends >= enTime

(* LoadOrCreate: a configuration that is cut short does not parse, or      *)
(* parses as one without an identity.                                      *)
LoadConfig ==
  /\ enStart = "load"
  /\ IF enConf = "good" THEN enIdentity' = "own" /\ enStart' = "panel"
     ELSE \/ enIdentity' = "none" /\ enStart' = "ended"
          \/ enIdentity' = "new" /\ enStart' = "panel"
  /\ UNCHANGED <<enFiles, enMine, enRenewal, enKeys, enTime, enHalf>>

(* GetAgentConfig and the check for a certificate; the panel may ask for   *)
(* the tunnel's TLS, which needs none.                                     *)
FetchConfig(mode) ==
  /\ enStart = "panel"
  /\ enStart' = IF mode = "mtls" /\ ~CertificateExists THEN "keygen" ELSE "save"
  /\ UNCHANGED <<enFiles, enMine, enIdentity, enRenewal, enKeys, enTime, enHalf>>

(* GenerateKeyPair, and SavePrivateKey opens the file.                     *)
OpenKey ==
  /\ enStart = "keygen" /\ enKeys < MaxKeys
  /\ enKeys' = enKeys + 1 /\ enMine' = enKeys + 1
  /\ enKey' = Cut /\ enStart' = "key"
  /\ UNCHANGED <<enCert, enConf, enIdentity, enRenewal, enTime, enHalf>>

(* Mutant: an error of writing the key is not looked at. *)
SaveKeyUnchecked ==
  /\ enStart = "key"
  /\ enKey' \in {enMine, Cut} /\ enStart' = "register"
  /\ UNCHANGED <<enCert, enConf, enMine, enIdentity, enRenewal, enKeys, enTime, enHalf>>

SaveKey ==
  /\ enStart = "key"
  /\ enKey' = enMine /\ enStart' = "register"
  /\ UNCHANGED <<enCert, enConf, enMine, enIdentity, enRenewal, enKeys, enTime, enHalf>>

(* RegisterCertificate; the panel signs for an agent that it knows, and    *)
(* SaveCertificate opens the file.                                         *)
Register ==
  /\ enStart = "register" /\ enIdentity = "own"
  /\ enCert' = CutCert /\ enStart' = "cert"
  /\ UNCHANGED <<enKey, enConf, enMine, enIdentity, enRenewal, enKeys, enTime, enHalf>>

SaveCert ==
  /\ enStart = "cert"
  /\ enCert' = Cert(enMine, enTime + Lifetime) /\ enStart' = "save"
  /\ UNCHANGED <<enKey, enConf, enMine, enIdentity, enRenewal, enKeys, enTime, enHalf>>

(* Save: -panel always modifies the configuration.                         *)
OpenConf ==
  /\ enStart = "save"
  /\ enConf' = "cut" /\ enStart' = "conf"
  /\ UNCHANGED <<enKey, enCert, enMine, enIdentity, enRenewal, enKeys, enTime, enHalf>>

WriteConf ==
  /\ enStart = "conf"
  /\ enConf' = (IF enIdentity = "own" THEN "good" ELSE "stranger")
  /\ enStart' = "running" /\ enMine' = 0
  /\ UNCHANGED <<enKey, enCert, enIdentity, enRenewal, enKeys, enTime, enHalf>>

(* A failed call ends the start, except Save: the agent runs all the same. *)
StartFails ==
  /\ enStart \in {"panel", "keygen", "key", "register", "cert", "save", "conf"}
  /\ enStart' = (IF enStart \in {"save", "conf"} THEN "running" ELSE "ended")
  /\ enMine' = 0
  /\ UNCHANGED <<enFiles, enIdentity, enRenewal, enKeys, enTime, enHalf>>

(* The agent dies, and with it a renewal; the service manager starts it.   *)
Die ==
  /\ enStart # "load"
  /\ enStart' = "load" /\ enMine' = 0 /\ enIdentity' = "none"
  /\ enRenew' = "off" /\ enNext' = 0 /\ enHalf' = (enHalf \/ enRenew = "swapCert")
  /\ UNCHANGED <<enFiles, enKeys, enTime>>

(* checkAndRenew: the new pair goes into files of its own.                 *)
Renew ==
  /\ Renews /\ enStart = "running" /\ enRenew = "off"
  /\ enCert.key \in 1 .. MaxKeys /\ enCert.ends <= enTime + Threshold
  /\ enKeys < MaxKeys
  /\ enKeys' = enKeys + 1
  /\ enRenew' = "swapKey" /\ enNext' = enKeys + 1
  /\ UNCHANGED <<enFiles, enStart, enMine, enIdentity, enTime, enHalf>>

SwapKey ==
  /\ enRenew = "swapKey"
  /\ enKey' = enNext /\ enRenew' = "swapCert"
  /\ UNCHANGED <<enNext, enCert, enConf, enStart, enMine, enIdentity, enKeys, enTime, enHalf>>

SwapCert ==
  /\ enRenew = "swapCert"
  /\ enCert' = Cert(enNext, enTime + Lifetime) /\ enRenew' = "off" /\ enNext' = 0
  /\ UNCHANGED <<enKey, enConf, enStart, enMine, enIdentity, enKeys, enTime, enHalf>>

RenewFails ==
  /\ enRenew # "off"
  /\ enHalf' = (enHalf \/ enRenew = "swapCert") /\ enRenew' = "off" /\ enNext' = 0
  /\ UNCHANGED <<enFiles, enStart, enMine, enIdentity, enKeys, enTime>>

EnTick ==
  /\ enTime < MaxTime /\ enTime' = enTime + 1
  /\ UNCHANGED <<enFiles, enStart, enMine, enIdentity, enRenewal, enKeys, enHalf>>

EnNext ==
  \/ LoadConfig \/ \E mode \in {"mtls", "system"} : FetchConfig(mode)
  \/ OpenKey \/ SaveKey \/ Register \/ SaveCert \/ OpenConf \/ WriteConf
  \/ StartFails \/ Die \/ Renew \/ SwapKey \/ SwapCert \/ RenewFails \/ EnTick

EnSpec == EnInit /\ [][EnNext]_enVars

-----------------------------------------------------------------------------
EnTypeOK ==
  /\ enKey \in 0 .. Cut
  /\ enCert \in [key : 0 .. Cut, ends : 0 .. MaxTime + Lifetime]
  /\ enConf \in {"good", "cut", "stranger"}
  /\ enStart \in {"load", "panel", "keygen", "key", "register", "cert", "save", "conf",
                  "running", "ended"}
  /\ enMine \in 0 .. MaxKeys /\ enKeys \in 0 .. MaxKeys /\ enTime \in 0 .. MaxTime
  /\ enIdentity \in {"none", "own", "new"}
  /\ enRenew \in {"off", "swapKey", "swapCert"} /\ enNext \in 0 .. MaxKeys
  /\ enHalf \in BOOLEAN

(* Wherever a start has died or failed, the next one never takes a         *)
(* certificate for its own that was issued for another key than the one    *)
(* in agent.key: the agent could not load the pair (agent.go:1061) and     *)
(* would not ask for another before the certificate ends.  Only a renewal  *)
(* that stops between its two renames leaves such a pair.                  *)
PairMatches ==
  /\ enKey # 0 /\ enCert.key \in 1 .. MaxKeys /\ enCert.ends >= enTime
  /\ ~enHalf /\ enRenew # "swapCert"
  => enCert.key = enKey
=============================================================================
