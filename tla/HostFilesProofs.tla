--------------------------- MODULE HostFilesProofs ----------------------------
(***************************************************************************)
(* Files that the agent keeps on its host: the key of the vault, for any   *)
(* number of agents, crashes and failed calls; the agent's own key and     *)
(* certificate, for any lifetime and starts that fail or die anywhere; the *)
(* authorized_keys of its users, for any commands, failures and restarts;  *)
(* the configuration of sshd, for any files, requests and overlapping      *)
(* updates; and the collector that probes the host, for any number of      *)
(* failures.                                                               *)
(***************************************************************************)
EXTENDS VaultKey, Enrollment, AuthorizedKeys, SSHDConfig, Collector, TLAPS,
        WellFoundedInduction

-----------------------------------------------------------------------------
(* VaultKey *)

(* Whoever is about to write the key created the file, and is alone. *)
OneWriter ==
  \A p \in Procs : pc[p] = "write" =>
    /\ keyFile = Empty
    /\ \A q \in Procs : pc[q] = "write" => q = p

KeyInv == TypeOK /\ OneWriter /\ OpenVaultUsable

LEMMA KeyInvInit == Init => KeyInv
BY VaultKeyAssumption DEF Init, KeyInv, TypeOK, OneWriter, OpenVaultUsable

LEMMA KeyInvNext == KeyInv /\ [Next]_vars => KeyInv'
<1> SUFFICES ASSUME KeyInv, [Next]_vars PROVE KeyInv'
  OBVIOUS
<1> USE VaultKeyAssumption
    DEF KeyInv, TypeOK, OneWriter, OpenVaultUsable, IsKey, Goto
<1>1. ASSUME NEW p \in Procs, StatKey(p) PROVE KeyInv'
  BY <1>1 DEF StatKey
<1>2. ASSUME NEW p \in Procs, CreateKey(p) PROVE KeyInv'
  BY <1>2 DEF CreateKey
<1>3. ASSUME NEW p \in Procs, WriteKey(p) PROVE KeyInv'
  BY <1>3 DEF WriteKey
<1>4. ASSUME NEW p \in Procs, WriteKeyFails(p) PROVE KeyInv'
  BY <1>4 DEF WriteKeyFails
<1>5. ASSUME NEW p \in Procs, LoadKey(p) PROVE KeyInv'
  BY <1>5 DEF LoadKey
<1>6. ASSUME NEW p \in Procs, Put(p) PROVE KeyInv'
  BY <1>6 DEF Put
<1>7. ASSUME NEW p \in Procs, Crash(p) PROVE KeyInv'
  BY <1>7 DEF Crash
<1>8. ASSUME UNCHANGED vars PROVE KeyInv'
  BY <1>8 DEF vars
<1> QED BY <1>1, <1>2, <1>3, <1>4, <1>5, <1>6, <1>7, <1>8 DEF Next

(* The variables of the key file and of the agents keep their types.      *)
THEOREM KeyTypes == Spec => []TypeOK
<1>1. KeyInv => TypeOK
  BY DEF KeyInv
<1> QED BY <1>1, KeyInvInit, KeyInvNext, PTL DEF Spec

(* An opened vault has its key on disk and can read what was written.      *)
THEOREM OpenVaultAlwaysUsable == Spec => []OpenVaultUsable
<1>1. KeyInv => OpenVaultUsable
  BY DEF KeyInv
<1> QED BY <1>1, KeyInvInit, KeyInvNext, PTL DEF Spec

(* A complete key file is never replaced or removed (O_EXCL, and a cleanup *)
(* that only its creator runs, before the file is complete).               *)
THEOREM KeyIsNeverReplaced == Spec => KeyNeverReplaced
<1>1. KeyInv /\ [Next]_vars => [IsKey(keyFile) => keyFile' = keyFile]_vars
  BY VaultKeyAssumption
  DEF KeyInv, TypeOK, OneWriter, IsKey, Next, StatKey, CreateKey, WriteKey,
      WriteKeyFails, LoadKey, Put, Crash, vars
<1> QED BY <1>1, KeyInvInit, KeyInvNext, PTL DEF Spec, KeyNeverReplaced

-----------------------------------------------------------------------------
(* Enrollment *)

(* The types that the argument needs. *)
EnTyped ==
  /\ enKeys \in Nat /\ enTime \in Nat
  /\ enCert \in [key : Nat, ends : Nat]
  /\ enKey \in Nat /\ enMine \in Nat /\ enNext \in Nat

(* What is true of the pair while a start makes a new one. *)
WhileStarting ==
  /\ enStart \in {"keygen", "key", "register"} => ~CertificateExists
  /\ enStart = "key" => enKey = Cut
  /\ enStart \in {"register", "cert"} => enKey = enMine
  /\ enStart \in {"key", "register", "cert"} => enMine # 0
  /\ enStart = "cert" => enCert = CutCert

(* A renewal runs in a running agent only. *)
WhileRenewing ==
  /\ enRenew # "off" => enStart = "running" /\ enNext # 0
  /\ enRenew = "swapCert" => enKey = enNext

(* A certificate is never there without a key file. *)
KeyComesFirst == enCert.key # 0 => enKey # 0

EnInv == EnTyped /\ WhileStarting /\ WhileRenewing /\ KeyComesFirst /\ PairMatches

LEMMA EnBounds == MaxKeys \in Nat /\ Lifetime \in Nat /\ Threshold \in Nat /\ MaxTime \in Nat
BY EnrollmentAssumption

LEMMA EnInvInit == EnInit => EnInv
BY EnBounds
DEF EnInit, EnInv, EnTyped, WhileStarting, WhileRenewing, KeyComesFirst, PairMatches,
    NoCert, Cert, Cut

LEMMA EnInvNext == EnInv /\ [EnNext]_enVars => EnInv'
<1> SUFFICES ASSUME EnInv, [EnNext]_enVars PROVE EnInv'
  OBVIOUS
<1> USE EnBounds
    DEF EnInv, EnTyped, WhileStarting, WhileRenewing, KeyComesFirst, PairMatches,
        CertificateExists, Cert, CutCert, Cut, enFiles, enRenewal
<1>1. CASE LoadConfig
  BY <1>1 DEF LoadConfig
<1>2. ASSUME NEW mode \in {"mtls", "system"}, FetchConfig(mode) PROVE EnInv'
  BY <1>2 DEF FetchConfig
<1>3. CASE OpenKey
  BY <1>3 DEF OpenKey
<1>4. CASE SaveKey
  BY <1>4 DEF SaveKey
<1>5. CASE Register
  BY <1>5 DEF Register
<1>6. CASE SaveCert
  BY <1>6 DEF SaveCert
<1>7. CASE OpenConf
  BY <1>7 DEF OpenConf
<1>16. CASE WriteConf
  BY <1>16 DEF WriteConf
<1>8. CASE StartFails
  BY <1>8 DEF StartFails
<1>9. CASE Die
  BY <1>9 DEF Die
<1>10. CASE Renew
  BY <1>10 DEF Renew
<1>11. CASE SwapKey
  BY <1>11 DEF SwapKey
<1>12. CASE SwapCert
  BY <1>12 DEF SwapCert
<1>13. CASE RenewFails
  BY <1>13 DEF RenewFails
<1>14. CASE EnTick
  BY <1>14 DEF EnTick
<1>15. CASE UNCHANGED enVars
  BY <1>15 DEF enVars
<1> QED BY <1>1, <1>2, <1>3, <1>4, <1>5, <1>6, <1>7, <1>8, <1>9, <1>10, <1>11, <1>12,
           <1>13, <1>14, <1>15, <1>16 DEF EnNext

(* However starts fail or die, with any renewals beside them: a            *)
(* certificate that the next start takes for its own was issued for the    *)
(* key in agent.key, unless a renewal stopped between its two renames.     *)
THEOREM PairAlwaysMatches == EnSpec => []PairMatches
<1>1. EnInv => PairMatches
  BY DEF EnInv
<1> QED BY <1>1, EnInvInit, EnInvNext, PTL DEF EnSpec

-----------------------------------------------------------------------------
(* AuthorizedKeys *)

(* A call has a user, no backup before it made one, and a file once open.  *)
Underway ==
  \A c \in AKCalls : /\ Running(c) => User(c) \in Users
                     /\ akCall[c].pc = "write" => akFile[User(c)] \in SUBSET Keys
                     /\ akCall[c].pc \in {"idle", "backup"} => akCall[c].saved = 0

(* A call that is alone is the only one that runs on its file.             *)
AloneIsAlone ==
  \A c, d \in AKCalls :
    Running(c) /\ akCall[c].alone /\ Running(d) /\ User(d) = User(c) => c = d

(* Until it opens the file, the file is what it was; then it is empty.     *)
FileOfAlone ==
  \A c \in AKCalls : Running(c) /\ akCall[c].alone =>
    /\ akCall[c].pc # "write" =>
         akWanted[User(c)] = Unknown \/ akFile[User(c)] = akWanted[User(c)]
    /\ akCall[c].pc = "write" => akFile[User(c)] = {}

Shared(c) == \E d \in AKCalls \ {c} : akCall[d].saved = akCall[c].saved

(* Its backup holds what it found. *)
BackupOfAlone ==
  \A c \in AKCalls : akCall[c].saved # 0 /\ akCall[c].alone /\ ~Shared(c) =>
    /\ akCall[c].pc = "open" => akBackup[akCall[c].saved] = akFile[User(c)]
    /\ akCall[c].pc \in {"write", "done"} => akBackup[akCall[c].saved] = akCall[c].before

KeysInv ==
  AKTypeOK /\ Underway /\ AloneIsAlone /\ FileOfAlone /\ BackupOfAlone /\ AloneExact

AKCallType ==
  [pc : {"idle", "backup", "open", "write", "done", "failed"},
   does : {"sync", "remove"}, user : Users \cup {NoFile}, new : SUBSET Keys,
   saved : 0 .. LastSecond, before : Contents, alone : BOOLEAN]

LEMMA IdleCallType ==
  /\ NoAKCall \in AKCallType
  /\ NoAKCall.pc = "idle" /\ NoAKCall.saved = 0 /\ NoAKCall.before = NoFile
BY AuthorizedKeysAssumption DEF NoAKCall, AKCallType, Contents

LEMMA KeysInvInit == AKInit => KeysInv
<1> USE DEF AKInit, NoAKCall
<1>1. AKInit => AKTypeOK
  <2> SUFFICES ASSUME AKInit PROVE AKTypeOK
    OBVIOUS
  <2>1. NoAKCall \in AKCallType
    BY IdleCallType
  <2> HIDE DEF NoAKCall
  <2>2. akFile \in [Users -> Contents] /\ akNow \in Seconds /\ akFaults \in 0 .. AKMaxFaults
    BY AuthorizedKeysAssumption DEF Contents, Seconds
  <2> QED BY <2>1, <2>2 DEF AKTypeOK, Contents, AKCallType
<1> QED BY <1>1 DEF KeysInv, Underway, AloneIsAlone, FileOfAlone, BackupOfAlone, AloneExact, Running, OnFile, User

(* A command that starts changes nothing of the others but that those on   *)
(* its file are no longer alone.                                           *)
LEMMA StartEffect ==
  ASSUME AKTypeOK, NEW c \in AKCalls, NEW does \in {"sync", "remove"}, NEW u \in Users,
         NEW new \in SUBSET Keys, NEW place \in {"backup", "open"},
         Start(c, does, u, new, place)
  PROVE  /\ akCall' \in [AKCalls -> AKCallType]
         /\ akCall'[c].pc = place /\ akCall'[c].user = u /\ akCall'[c].saved = 0
         /\ akCall'[c].alone <=> ~\E d \in AKCalls : Running(d) /\ User(d) = u
         /\ \A d \in AKCalls \ {c} :
              /\ akCall'[d].pc = akCall[d].pc /\ akCall'[d].user = akCall[d].user
              /\ akCall'[d].saved = akCall[d].saved /\ akCall'[d].before = akCall[d].before
              /\ akCall'[d].alone <=> akCall[d].alone /\ ~(Running(d) /\ User(d) = u)
<1> DEFINE mine == [NoAKCall EXCEPT !.pc = place, !.does = does, !.user = u, !.new = new,
                                    !.alone = OnFile(u) = {}]
           others == Overlap(u, akCall)
<1>1. akCall \in [AKCalls -> AKCallType]
  BY DEF AKTypeOK, AKCallType
<1>2. akCall' = [others EXCEPT ![c] = mine]
  BY DEF Start
<1>3. /\ mine \in AKCallType
      /\ mine.pc = place /\ mine.user = u /\ mine.saved = 0
      /\ mine.alone = (OnFile(u) = {})
  <2>1. ASSUME NEW b \in BOOLEAN,
               NEW m, m = [NoAKCall EXCEPT !.pc = place, !.does = does, !.user = u, !.new = new,
                                           !.alone = b]
        PROVE  m \in AKCallType /\ m.pc = place /\ m.user = u /\ m.saved = 0 /\ m.alone = b
    BY <2>1, IdleCallType DEF AKCallType
  <2>3. (OnFile(u) = {}) \in BOOLEAN
    BY Zenon
  <2> QED BY <2>1, <2>3, IdleCallType, Zenon
<1>4. others \in [AKCalls -> AKCallType]
  BY <1>1 DEF Overlap, AKCallType
<1>5. \A d \in AKCalls : d \in OnFile(u) => others[d] = [akCall[d] EXCEPT !.alone = FALSE]
  BY DEF Overlap
<1>6. \A d \in AKCalls : d \notin OnFile(u) => others[d] = akCall[d]
  BY DEF Overlap
<1>7. \A d \in AKCalls \ {c} : akCall'[d] = others[d]
  BY <1>2, <1>4
<1>8. akCall'[c] = mine /\ akCall' \in [AKCalls -> AKCallType]
  BY <1>2, <1>3, <1>4
<1>9. \A d \in AKCalls : d \in OnFile(u) <=> Running(d) /\ User(d) = u
  BY DEF OnFile, User
<1>10. akCall'[c].alone <=> ~\E d \in AKCalls : Running(d) /\ User(d) = u
  <2>1. (OnFile(u) = {}) <=> ~\E d \in AKCalls : Running(d) /\ User(d) = u
    BY DEF OnFile, User
  <2> QED BY <2>1, <1>3, <1>8
<1>11. ASSUME NEW d \in AKCalls \ {c}
       PROVE  /\ akCall'[d].pc = akCall[d].pc /\ akCall'[d].user = akCall[d].user
              /\ akCall'[d].saved = akCall[d].saved /\ akCall'[d].before = akCall[d].before
              /\ akCall'[d].alone <=> akCall[d].alone /\ ~(Running(d) /\ User(d) = u)
  <2> HIDE DEF others
  <2>1. CASE d \in OnFile(u)
    <3>1. akCall'[d] = [akCall[d] EXCEPT !.alone = FALSE] /\ akCall[d] \in AKCallType
      BY <2>1, <1>5, <1>7, <1>1
    <3>2. /\ akCall'[d].pc = akCall[d].pc /\ akCall'[d].user = akCall[d].user
          /\ akCall'[d].saved = akCall[d].saved /\ akCall'[d].before = akCall[d].before
          /\ akCall'[d].alone = FALSE
      BY <3>1 DEF AKCallType
    <3> QED BY <3>2, <2>1, <1>9
  <2>2. CASE d \notin OnFile(u)
    <3>1. akCall'[d] = akCall[d]
      BY <2>2, <1>6, <1>7
    <3> QED BY <3>1, <2>2, <1>9
  <2> QED BY <2>1, <2>2
<1> HIDE DEF mine, others
<1> QED BY <1>3, <1>8, <1>10, <1>11

LEMMA StartKeeps ==
  ASSUME KeysInv, NEW c \in AKCalls, NEW does \in {"sync", "remove"}, NEW u \in Users,
         NEW new \in SUBSET Keys, NEW place \in {"backup", "open"},
         Start(c, does, u, new, place)
  PROVE  KeysInv'
<1>1. /\ akCall' \in [AKCalls -> AKCallType]
      /\ akCall'[c].pc = place /\ akCall'[c].user = u /\ akCall'[c].saved = 0
      /\ akCall'[c].alone <=> ~\E d \in AKCalls : Running(d) /\ User(d) = u
      /\ \A d \in AKCalls \ {c} :
           /\ akCall'[d].pc = akCall[d].pc /\ akCall'[d].user = akCall[d].user
           /\ akCall'[d].saved = akCall[d].saved /\ akCall'[d].before = akCall[d].before
           /\ akCall'[d].alone <=> akCall[d].alone /\ ~(Running(d) /\ User(d) = u)
  BY StartEffect DEF KeysInv
<1>2. UNCHANGED <<akFile, akBackup, akNow, akWanted, akFaults>> /\ akCall[c].pc = "idle"
  BY DEF Start
<1> USE <1>1, <1>2 DEF KeysInv
<1>3. AKTypeOK'
  BY DEF AKTypeOK, AKCallType
<1> USE DEF Running, User, OnFile
<1>4. Underway'
  BY DEF Underway
<1>5. AloneIsAlone'
  BY DEF AloneIsAlone
<1>6. FileOfAlone'
  BY DEF FileOfAlone, AloneExact
<1>7. BackupOfAlone'
  <2>1. akCall[c].saved = 0
    BY DEF Underway
  <2>2. \A d \in AKCalls : akCall'[d].saved = akCall[d].saved
    BY <2>1
  <2>3. \A d \in AKCalls : Shared(d)' <=> Shared(d)
    BY <2>2 DEF Shared
  <2> QED BY <2>1, <2>2, <2>3 DEF BackupOfAlone
<1>8. AloneExact'
  BY DEF AloneExact
<1> QED BY <1>3, <1>4, <1>5, <1>6, <1>7, <1>8

(* A call that is over keeps nothing but the backup that it reports.       *)
LEMMA EndedFields ==
  ASSUME AKTypeOK, NEW c \in AKCalls, NEW how \in {"done", "failed"}
  PROVE  LET e == Ended(c, how) IN
         /\ e \in AKCallType /\ e.pc = how /\ e.saved = akCall[c].saved
         /\ akCall[c].saved # 0 => e.before = akCall[c].before
         /\ how = "done" /\ akCall[c].saved # 0 => (e.alone <=> akCall[c].alone)
<1> DEFINE saved == akCall[c].saved
           before == IF akCall[c].saved # 0 THEN akCall[c].before ELSE NoFile
           alone == akCall[c].alone \/ how # "done" \/ akCall[c].saved = 0
           e == [NoAKCall EXCEPT !.pc = how, !.saved = saved, !.before = before, !.alone = alone]
<1>1. akCall[c] \in AKCallType
  BY DEF AKTypeOK, AKCallType
<1>2. /\ saved \in 0 .. LastSecond /\ before \in Contents /\ alone \in BOOLEAN
      /\ akCall[c].saved # 0 => before = akCall[c].before
      /\ how = "done" /\ akCall[c].saved # 0 => (alone <=> akCall[c].alone)
  BY <1>1 DEF AKCallType, Contents
<1>3. Ended(c, how) = e
  BY Zenon DEF Ended
<1> HIDE DEF before, alone
<1>4. /\ e \in AKCallType /\ e.pc = how /\ e.saved = akCall[c].saved
      /\ e.before = before /\ e.alone = alone
  BY <1>2, IdleCallType DEF AKCallType
<1> HIDE DEF e
<1> QED BY <1>2, <1>3, <1>4

LEMMA CreateBackupKeeps ==
  ASSUME KeysInv, NEW c \in AKCalls, CreateBackup(c)
  PROVE  KeysInv'
<1>1. /\ akCall' \in [AKCalls -> AKCallType]
      /\ akCall'[c].pc = "open" /\ akCall'[c].user = akCall[c].user
      /\ akCall'[c].saved = akNow /\ akCall'[c].alone = akCall[c].alone
      /\ \A d \in AKCalls \ {c} : akCall'[d] = akCall[d]
      /\ akNow # 0
  <2>1. akCall \in [AKCalls -> AKCallType] /\ akNow \in 0 .. LastSecond /\ akNow # 0
    BY AuthorizedKeysAssumption DEF KeysInv, AKTypeOK, AKCallType, Seconds
  <2>2. akCall'[c] = [akCall[c] EXCEPT !.pc = "open", !.saved = akNow]
    BY <2>1 DEF CreateBackup
  <2>3. akCall' = [d \in AKCalls |-> akCall'[d]] /\ \A d \in AKCalls \ {c} : akCall'[d] = akCall[d]
    BY <2>1 DEF CreateBackup
  <2>4. ASSUME NEW r \in AKCallType, NEW q, q = [r EXCEPT !.pc = "open", !.saved = akNow]
        PROVE  /\ q \in AKCallType /\ q.pc = "open" /\ q.user = r.user
               /\ q.saved = akNow /\ q.alone = r.alone
    BY <2>4, <2>1 DEF AKCallType
  <2>5. akCall[c] \in AKCallType
    BY <2>1
  <2>6. LET q == akCall'[c]
            r == akCall[c] IN
               /\ q \in AKCallType /\ q.pc = "open" /\ q.user = r.user
               /\ q.saved = akNow /\ q.alone = r.alone
    BY <2>2, <2>4, <2>5, Zenon
  <2> QED BY <2>1, <2>3, <2>6
<1>2. /\ UNCHANGED <<akFile, akNow, akWanted, akFaults>> /\ akCall[c].pc = "backup"
      /\ akBackup' = [akBackup EXCEPT ![akNow] = akFile[User(c)]]
      /\ akFile \in [Users -> Contents] /\ akBackup \in [Seconds -> Contents]
      /\ akNow \in Seconds
      /\ akCall[c].saved = 0 /\ User(c) \in Users
  BY DEF CreateBackup, BackupName, KeysInv, AKTypeOK, Underway, Running
<1> USE <1>1, <1>2 DEF KeysInv
<1>3. AKTypeOK'
  BY DEF AKTypeOK, AKCallType
<1> USE DEF Running, User, OnFile
<1>4. Underway'
  BY DEF Underway
<1>5. AloneIsAlone'
  BY DEF AloneIsAlone
<1>6. FileOfAlone'
  <2>1. ASSUME NEW d \in AKCalls
        PROVE  /\ Running(d)' <=> Running(d)
               /\ User(d)' = User(d) /\ akCall'[d].alone = akCall[d].alone
               /\ (akCall'[d].pc = "write") <=> (akCall[d].pc = "write")
    BY DEF AKCallType
  <2> QED BY <2>1 DEF FileOfAlone
<1>7. BackupOfAlone'
  <2> SUFFICES ASSUME NEW d \in AKCalls, akCall'[d].saved # 0, akCall'[d].alone, ~Shared(d)'
               PROVE  /\ akCall'[d].pc = "open" => akBackup'[akCall'[d].saved] = akFile'[User(d)']
                      /\ akCall'[d].pc \in {"write", "done"} =>
                           akBackup'[akCall'[d].saved] = akCall'[d].before
    BY DEF BackupOfAlone
  <2>1. CASE d = c
    BY <2>1
  <2>2. CASE d # c
    <3>1. akCall'[d] = akCall[d] /\ akCall[d].saved # akNow
      BY <2>2 DEF Shared
    <3>2. ~Shared(d)
      BY <2>2, <3>1 DEF Shared
    <3>3. akCall[d].saved \in Seconds
      <4>1. akCall[d].saved \in 0 .. LastSecond /\ akCall[d].saved # 0
        BY <3>1 DEF AKTypeOK
      <4> QED BY <4>1, AuthorizedKeysAssumption DEF Seconds
    <3> QED BY <3>1, <3>2, <3>3 DEF BackupOfAlone
  <2> QED BY <2>1, <2>2
<1>8. AloneExact'
  BY DEF AloneExact
<1> QED BY <1>3, <1>4, <1>5, <1>6, <1>7, <1>8

LEMMA OpenFileKeeps ==
  ASSUME KeysInv, NEW c \in AKCalls, OpenFile(c)
  PROVE  KeysInv'
<1>1. /\ akCall' \in [AKCalls -> AKCallType]
      /\ akCall'[c].pc = "write" /\ akCall'[c].user = akCall[c].user
      /\ akCall'[c].saved = akCall[c].saved /\ akCall'[c].alone = akCall[c].alone
      /\ akCall'[c].before = akFile[User(c)]
      /\ \A d \in AKCalls \ {c} : akCall'[d] = akCall[d]
  <2>1. akCall \in [AKCalls -> AKCallType] /\ akFile[User(c)] \in Contents
    BY DEF KeysInv, AKTypeOK, AKCallType, OpenFile, Underway, Running
  <2>2. akCall'[c] = [akCall[c] EXCEPT !.pc = "write", !.before = akFile[User(c)]]
    BY <2>1 DEF OpenFile
  <2>3. akCall' = [d \in AKCalls |-> akCall'[d]] /\ \A d \in AKCalls \ {c} : akCall'[d] = akCall[d]
    BY <2>1 DEF OpenFile
  <2>4. ASSUME NEW r \in AKCallType, NEW q, q = [r EXCEPT !.pc = "write", !.before = akFile[User(c)]]
        PROVE  /\ q \in AKCallType /\ q.pc = "write" /\ q.user = r.user
               /\ q.saved = r.saved /\ q.alone = r.alone /\ q.before = akFile[User(c)]
    BY <2>4, <2>1 DEF AKCallType
  <2>5. akCall[c] \in AKCallType
    BY <2>1
  <2>6. LET q == akCall'[c]
            r == akCall[c] IN
               /\ q \in AKCallType /\ q.pc = "write" /\ q.user = r.user
               /\ q.saved = r.saved /\ q.alone = r.alone /\ q.before = akFile[User(c)]
    BY <2>2, <2>4, <2>5, Zenon
  <2> QED BY <2>1, <2>3, <2>6
<1>2. /\ UNCHANGED <<akBackup, akNow, akWanted, akFaults>> /\ akCall[c].pc = "open"
      /\ akFile \in [Users -> Contents] /\ akFile' = [akFile EXCEPT ![User(c)] = {}]
      /\ User(c) \in Users
  BY DEF OpenFile, KeysInv, AKTypeOK, Underway, Running
<1> USE <1>1, <1>2 DEF KeysInv
<1>3. AKTypeOK'
  BY DEF AKTypeOK, AKCallType, Contents
<1> USE DEF Running, User, OnFile
<1>4. Underway'
  BY DEF Underway
<1>5. AloneIsAlone'
  BY DEF AloneIsAlone
<1>6. FileOfAlone'
  BY DEF FileOfAlone, AloneIsAlone, Underway
<1>7. BackupOfAlone'
  <2>1. \A d \in AKCalls : Shared(d)' <=> Shared(d)
    BY DEF Shared
  <2> QED BY <2>1 DEF BackupOfAlone, AloneIsAlone, Underway
<1>8. AloneExact'
  BY DEF AloneExact
<1> QED BY <1>3, <1>4, <1>5, <1>6, <1>7, <1>8

(* A call that ends alone leaves in its file what it wrote, or an empty    *)
(* one had it been none; a call that was not alone leaves Unknown.         *)
LEMMA WriteFileKeeps ==
  ASSUME KeysInv, NEW c \in AKCalls, WriteFile(c)
  PROVE  KeysInv'
<1>1. /\ akCall' \in [AKCalls -> AKCallType]
      /\ akCall'[c].pc = "done" /\ akCall'[c].saved = akCall[c].saved
      /\ akCall[c].saved # 0 => akCall'[c].before = akCall[c].before
      /\ akCall[c].saved # 0 => (akCall'[c].alone <=> akCall[c].alone)
      /\ \A d \in AKCalls \ {c} : akCall'[d] = akCall[d]
  <2>1. akCall \in [AKCalls -> AKCallType]
    BY DEF KeysInv, AKTypeOK, AKCallType
  <2>2. akCall' = [akCall EXCEPT ![c] = Ended(c, "done")]
    BY DEF WriteFile
  <2>3. akCall'[c] = Ended(c, "done") /\ \A d \in AKCalls \ {c} : akCall'[d] = akCall[d]
    BY <2>1, <2>2
  <2>4. LET e == Ended(c, "done") IN
        /\ e \in AKCallType /\ e.pc = "done" /\ e.saved = akCall[c].saved
        /\ akCall[c].saved # 0 => e.before = akCall[c].before
        /\ akCall[c].saved # 0 => (e.alone <=> akCall[c].alone)
    BY EndedFields DEF KeysInv
  <2> QED BY <2>1, <2>2, <2>3, <2>4
<1>2. /\ UNCHANGED <<akBackup, akNow, akFaults>> /\ akCall[c].pc = "write"
      /\ User(c) \in Users /\ akCall[c].new \in SUBSET Keys
  BY DEF WriteFile, KeysInv, AKTypeOK, Underway, Running
<1>3. /\ akFile' \in [Users -> Contents]
      /\ \A u \in Users \ {User(c)} : akFile'[u] = akFile[u]
      /\ akCall[c].alone => akFile'[User(c)] = akCall[c].new
      /\ akFile'[User(c)] \in SUBSET Keys
  <2>1. PICK tail \in Tails(akFile[User(c)], akCall[c].new) :
          akFile' = [akFile EXCEPT ![User(c)] = akCall[c].new \cup tail]
    BY Zenon DEF WriteFile
  <2>2. akFile \in [Users -> Contents] /\ akFile[User(c)] \in Contents
    BY <1>2 DEF KeysInv, AKTypeOK
  <2>3. akCall[c].new \cup tail \in SUBSET Keys
    <3>1. akFile[User(c)] \in SUBSET Keys
      BY <1>2 DEF KeysInv, Underway
    <3>2. tail \in SUBSET Keys
      BY <2>1, <3>1 DEF Tails
    <3> QED BY <3>2, <1>2
  <2>4. akCall[c].alone => akCall[c].new \cup tail = akCall[c].new
    <3>1. akCall[c].alone => akFile[User(c)] = {}
      BY <1>2 DEF KeysInv, FileOfAlone, Running
    <3> QED BY <3>1 DEF Tails
  <2> QED BY <2>1, <2>2, <2>3, <2>4, <1>2 DEF Contents
<1>4. /\ akWanted' \in [Users -> {Unknown} \cup Contents]
      /\ \A u \in Users \ {User(c)} : akWanted'[u] = akWanted[u]
      /\ ~akCall[c].alone => akWanted'[User(c)] = Unknown
      /\ akCall[c].alone => akWanted'[User(c)] \in {Unknown, akCall[c].new}
  <2> DEFINE lost == ~akCall[c].alone \/ (akCall[c].does = "remove" /\ akWanted[User(c)] = Unknown)
             left == IF lost THEN Unknown ELSE akCall[c].new
  <2>1. akWanted' = [akWanted EXCEPT ![User(c)] = left]
    BY Zenon DEF WriteFile
  <2>2. /\ left \in {Unknown, akCall[c].new}
        /\ ~akCall[c].alone => left = Unknown
    BY Zenon
  <2>3. akWanted \in [Users -> {Unknown} \cup Contents] /\ akCall[c].new \in Contents
    BY <1>2 DEF KeysInv, AKTypeOK, Contents
  <2> HIDE DEF left
  <2> QED BY <2>1, <2>2, <2>3, <1>2
<1> USE <1>1, <1>2, <1>3, <1>4 DEF KeysInv
<1>5. AKTypeOK'
  BY DEF AKTypeOK, AKCallType
<1> USE DEF Running, User, OnFile
<1>6. Underway'
  BY DEF Underway
<1>7. AloneIsAlone'
  BY DEF AloneIsAlone
<1>8. FileOfAlone'
  BY DEF FileOfAlone, AloneIsAlone, Underway
<1>9. BackupOfAlone'
  <2>1. \A d \in AKCalls : akCall'[d].saved = akCall[d].saved
    OBVIOUS
  <2>2. \A d \in AKCalls : Shared(d)' <=> Shared(d)
    BY <2>1 DEF Shared
  <2> QED BY <2>1, <2>2 DEF BackupOfAlone, AloneIsAlone, Underway
<1>10. AloneExact'
  BY DEF AloneExact
<1> QED BY <1>5, <1>6, <1>7, <1>8, <1>9, <1>10

(* Calls that fail, or die with the agent: only what ran changes, and the  *)
(* files of those that were not alone or had theirs open are Unknown.      *)
LEMMA FailingKeeps ==
  ASSUME KeysInv, NEW dying \in SUBSET AKCalls, \A c \in dying : Running(c),
         akCall' = [c \in AKCalls |-> IF c \in dying THEN Ended(c, "failed") ELSE akCall[c]],
         akWanted' \in [Users -> {Unknown} \cup Contents],
         \A u \in Users :
           \/ akWanted'[u] = Unknown
           \/ /\ akWanted'[u] = akWanted[u]
              /\ \A c \in dying : User(c) = u => akCall[c].pc # "write" /\ akCall[c].alone,
         akFaults' \in 0 .. AKMaxFaults,
         UNCHANGED <<akFile, akBackup, akNow>>
  PROVE  KeysInv'
<1>1. /\ akCall' \in [AKCalls -> AKCallType]
      /\ \A c \in dying : akCall'[c].pc = "failed" /\ akCall'[c].saved = akCall[c].saved
      /\ \A c \in AKCalls \ dying : akCall'[c] = akCall[c]
  <2>1. akCall \in [AKCalls -> AKCallType]
    BY DEF KeysInv, AKTypeOK, AKCallType
  <2>2. ASSUME NEW c \in AKCalls
        PROVE  LET e == Ended(c, "failed") IN
               e \in AKCallType /\ e.pc = "failed" /\ e.saved = akCall[c].saved
    BY EndedFields DEF KeysInv
  <2> QED BY <2>1, <2>2
<1> USE <1>1 DEF KeysInv
<1>2. AKTypeOK'
  BY DEF AKTypeOK, AKCallType
<1> USE DEF Running, User, OnFile
<1>3. Underway'
  BY DEF Underway
<1>4. AloneIsAlone'
  BY DEF AloneIsAlone
<1>5. FileOfAlone'
  BY DEF FileOfAlone, AloneIsAlone, Underway
<1>6. BackupOfAlone'
  <2>1. \A d \in AKCalls : akCall'[d].saved = akCall[d].saved
    OBVIOUS
  <2>2. \A d \in AKCalls : Shared(d)' <=> Shared(d)
    BY <2>1 DEF Shared
  <2> QED BY <2>1, <2>2 DEF BackupOfAlone
<1>7. AloneExact'
  BY DEF AloneExact, FileOfAlone
<1> QED BY <1>2, <1>3, <1>4, <1>5, <1>6, <1>7

LEMMA KeysInvNext == KeysInv /\ [AKNext]_akVars => KeysInv'
<1> SUFFICES ASSUME KeysInv, [AKNext]_akVars PROVE KeysInv'
  OBVIOUS
<1> USE AuthorizedKeysAssumption
<1>1. ASSUME NEW c \in AKCalls, NEW u \in Users, NEW keys \in SUBSET Keys, SyncKeys(c, u, keys)
      PROVE  KeysInv'
  <2>1. Start(c, "sync", u, keys, "open") \/ Start(c, "sync", u, keys, "backup")
    BY <1>1, Zenon DEF SyncKeys
  <2> QED BY <2>1, StartKeeps
<1>2. ASSUME NEW c \in AKCalls, NEW u \in Users, NEW k \in Keys, RemoveKey(c, u, k)
      PROVE  KeysInv'
  <2>1. Start(c, "remove", u, Kept(akFile[u], k), "open") /\ Kept(akFile[u], k) \in SUBSET Keys
    BY <1>2 DEF RemoveKey, Kept, KeysInv, AKTypeOK, Contents
  <2> QED BY <2>1, StartKeeps
<1>3. ASSUME NEW c \in AKCalls, AKFail(c) PROVE KeysInv'
  <2>1. /\ Running(c) /\ akFaults' \in 0 .. AKMaxFaults
        /\ UNCHANGED <<akFile, akBackup, akNow>>
    BY <1>3 DEF AKFail, KeysInv, AKTypeOK
  <2>2. akCall' = [d \in AKCalls |-> IF d \in {c} THEN Ended(d, "failed") ELSE akCall[d]]
    <3>1. akCall' = [akCall EXCEPT ![c] = Ended(c, "failed")] /\ DOMAIN akCall = AKCalls
      BY <1>3 DEF AKFail, KeysInv, AKTypeOK
    <3> QED BY <3>1
  <2> DEFINE disturbed == akCall[c].pc = "write" \/ ~akCall[c].alone
             left == IF disturbed THEN Unknown ELSE akWanted[User(c)]
  <2>3. akWanted' = [akWanted EXCEPT ![User(c)] = left]
    BY <1>3, Zenon DEF AKFail
  <2>4. \/ left = Unknown
        \/ left = akWanted[User(c)] /\ akCall[c].pc # "write" /\ akCall[c].alone
    BY Zenon
  <2>5. akWanted \in [Users -> {Unknown} \cup Contents] /\ User(c) \in Users
    BY <2>1 DEF KeysInv, AKTypeOK, Underway
  <2> HIDE DEF left
  <2>6. /\ akWanted' \in [Users -> {Unknown} \cup Contents]
        /\ \A u \in Users \ {User(c)} : akWanted'[u] = akWanted[u]
        /\ akWanted'[User(c)] = left
    BY <2>3, <2>4, <2>5
  <2>7. \A u \in Users :
          \/ akWanted'[u] = Unknown
          \/ /\ akWanted'[u] = akWanted[u]
             /\ \A d \in {c} : User(d) = u => akCall[d].pc # "write" /\ akCall[d].alone
    BY <2>4, <2>6
  <2>8. {c} \in SUBSET AKCalls /\ \A d \in {c} : Running(d)
    BY <2>1
  <2> HIDE DEF disturbed
  <2> QED BY <2>1, <2>2, <2>6, <2>7, <2>8, FailingKeeps, Zenon
<1>4. ASSUME AKCrash PROVE KeysInv'
  <2> DEFINE dying == {c \in AKCalls : Running(c)}
  <2>1. /\ akFaults' \in 0 .. AKMaxFaults /\ UNCHANGED <<akFile, akBackup, akNow>>
        /\ akCall' = [c \in AKCalls |-> IF c \in dying THEN Ended(c, "failed") ELSE akCall[c]]
    BY <1>4 DEF AKCrash, KeysInv, AKTypeOK
  <2>2. akWanted' \in [Users -> {Unknown} \cup Contents]
    BY <1>4 DEF AKCrash, KeysInv, AKTypeOK
  <2>3. \A u \in Users :
          \/ akWanted'[u] = Unknown
          \/ /\ akWanted'[u] = akWanted[u]
             /\ \A c \in dying : User(c) = u => akCall[c].pc # "write" /\ akCall[c].alone
    BY <1>4 DEF AKCrash, OnFile, User
  <2> QED BY <2>1, <2>2, <2>3, FailingKeeps
<1>5. ASSUME AKTick PROVE KeysInv'
  <2> USE <1>5 DEF AKTick, KeysInv
  <2>1. AKTypeOK'
    BY DEF AKTypeOK, Seconds
  <2> QED BY <2>1 DEF Underway, AloneIsAlone, FileOfAlone, BackupOfAlone, Shared, AloneExact,
                      Running, User, OnFile
<1>6. ASSUME UNCHANGED akVars PROVE KeysInv'
  BY <1>6 DEF akVars, KeysInv, AKTypeOK, Underway, AloneIsAlone, FileOfAlone, BackupOfAlone,
              Shared, AloneExact, Running, User, OnFile
<1> QED BY <1>1, <1>2, <1>3, <1>4, <1>5, <1>6, CreateBackupKeeps, OpenFileKeeps, WriteFileKeeps
        DEF AKNext

(* Whatever crashes, failures and overlapping commands left in a user's    *)
(* authorized_keys, commands that run alone on it make it exactly what     *)
(* the panel asked for, and a backup that no other command of that second  *)
(* replaced holds the keys that its sync replaced: for any number of       *)
(* commands, users, keys and failures (authorized_keys.go).                *)
THEOREM KeysAreKept == AKSpec => []KeysKept
<1>1. KeysInv => KeysKept
  BY DEF KeysInv, KeysKept, BackupHoldsReplaced, BackupOfAlone, Shared
<1> QED BY <1>1, KeysInvInit, KeysInvNext, PTL DEF AKSpec

-----------------------------------------------------------------------------
(* Collector *)

(* How long after its base a collection may come to a list, but for what   *)
(* has no deadline: the lists before it take their bounds.                 *)
Lag == [processes |-> 0, services |-> 2, containers |-> 3, firewall |-> 4]

(* Each part of a collection ends within its bound or is counted as        *)
(* stalled, and the next one begins within a tick.                         *)
Begun == latest.at + 1 + stalled
InTime ==
  /\ since <= clock /\ ticked <= clock /\ stalled < clock
  /\ collector = "wait" => ticked <= latest.at /\ clock <= latest.at + 1
  /\ collector = "base" => clock <= Begun
  /\ collector \in Lists =>
       since <= Begun + Lag[collector] /\ clock <= since + Bound[collector]
  /\ collector = "connections" => clock <= Begun + 2
  /\ collector = "publish" => clock <= Begun + 7

(* A cache has what this collection was served, and is not behind what was *)
(* published.                                                              *)
NotBehind(l) ==
  /\ cache[l].at >= latest.lists[l].at
  /\ latest.lists[l].full /\ ~cache[l].full =>
       l = "firewall" /\ cache[l].at > latest.lists[l].at

CachesKept ==
  /\ \A l \in Lists : cache[l].at <= clock
  /\ \A l \in Shell : NotBehind(l)
  /\ \A l \in Served : parts[l] = cache[l]

CollectorInv == CollectorTypeOK /\ InTime /\ CachesKept /\ ListsFresh

LEMMA OrderOfLists ==
  /\ Lists = {"processes", "services", "containers", "firewall"}
  /\ Place("processes") = 1 /\ Place("services") = 2
  /\ Place("containers") = 3 /\ Place("firewall") = 4
  /\ After("processes") = "services" /\ After("services") = "containers"
  /\ After("containers") = "firewall" /\ After("firewall") = "publish"
<1>1. DOMAIN Order = 1..4 /\ Len(Order) = 4
  BY DEF Order
<1>2. /\ Order[1] = "processes" /\ Order[2] = "services"
      /\ Order[3] = "containers" /\ Order[4] = "firewall"
  BY DEF Order
<1>3. Lists = {"processes", "services", "containers", "firewall"}
  BY <1>1, <1>2 DEF Lists
<1>4. Place("processes") = 1 /\ Place("services") = 2
  BY <1>1, <1>2 DEF Place
<1>5. Place("containers") = 3 /\ Place("firewall") = 4
  BY <1>1, <1>2 DEF Place
<1> QED BY <1>1, <1>2, <1>3, <1>4, <1>5 DEF After

(* What has been served, by where the collection is. *)
LEMMA ServedIs ==
  /\ collector = "processes" => Served = {}
  /\ collector = "services" => Served = {"processes"}
  /\ collector = "containers" => Served = {"processes", "services"}
  /\ collector = "firewall" => Served = {"processes", "services", "containers"}
  /\ collector = "publish" => Served = Lists
  /\ collector \in {"wait", "base", "connections", "done"} => Served = {}
BY OrderOfLists DEF Served

LEMMA CollectorInvInit == CollectorInit => CollectorInv
<1> SUFFICES ASSUME CollectorInit PROVE CollectorInv
  OBVIOUS
<1>1. Nil \in Values /\ Nil.at = 0
  BY CollectorAssumption DEF Nil, Values
<1>2. CollectorTypeOK
  <2>1. 1 \in 1..LastTime /\ 0 \in 0..LastTime /\ 0 \in 0..MaxProbeFails
    BY CollectorAssumption
  <2>2. [l \in Lists |-> Nil] \in [Lists -> Values]
    BY <1>1
  <2>3. None \in [at : 0..LastTime, lists : [Lists -> Values]]
    BY <2>1, <2>2 DEF None
  <2> QED BY <2>1, <2>2, <2>3 DEF CollectorInit, CollectorTypeOK
<1>3. Served = {} /\ collector = "wait"
  BY ServedIs DEF CollectorInit
<1>4. InTime
  BY <1>3, OrderOfLists DEF CollectorInit, InTime, None, Begun
<1>5. CachesKept /\ ListsFresh
  BY <1>1, <1>3 DEF CollectorInit, CachesKept, NotBehind, ListsFresh, None, Nil, Shell
<1> QED BY <1>2, <1>4, <1>5 DEF CollectorInv

(* A list is served: by a value that is not older than the cached one,     *)
(* and young unless the probe failed.                                      *)
LEMMA ServeKeeps ==
  ASSUME CollectorInv, NEW l \in Lists, NEW v \in Values,
         collector = l \/ (l = "processes" /\ collector = "connections"),
         Serve(l, v, v), v.at <= clock,
         l \in Shell => v.at >= cache[l].at /\ (v.full \/ v = cache[l] \/
                           (l = "firewall" /\ v.at > cache[l].at)),
         failed' \subseteq Lists, failed \subseteq failed',
         l \notin failed' => v.at > ticked - TTL,
         probeFails' \in 0..MaxProbeFails, UNCHANGED over
  PROVE  CollectorInv'
<1> USE DEF CollectorInv
<1>1. /\ cache' = [cache EXCEPT ![l] = v] /\ parts' = [parts EXCEPT ![l] = v]
      /\ collector' = After(l) /\ since' = clock /\ clock' = clock
      /\ ticked' = ticked /\ latest' = latest /\ stalled' = stalled
  BY DEF Serve
<1>2. cache \in [Lists -> Values] /\ parts \in [Lists -> Values]
      /\ clock \in 1..LastTime /\ since \in 1..LastTime /\ ticked \in 0..LastTime
      /\ latest.at \in 0..LastTime /\ latest.lists \in [Lists -> Values]
      /\ stalled \in 0..LastTime
  BY DEF CollectorTypeOK
<1>3. /\ cache'[l] = v /\ parts'[l] = v
      /\ \A k \in Lists \ {l} : cache'[k] = cache[k] /\ parts'[k] = parts[k]
  BY <1>1, <1>2
<1>4. collector' \in {"publish"} \cup Lists
  BY <1>1, OrderOfLists
<1>5. CollectorTypeOK'
  BY <1>1, <1>2, <1>4 DEF CollectorTypeOK
<1>6. Served' = Served \cup {l} /\ Served \subseteq Lists
  <2>1. /\ collector' = "services" => Served' = {"processes"}
        /\ collector' = "containers" => Served' = {"processes", "services"}
        /\ collector' = "firewall" => Served' = {"processes", "services", "containers"}
        /\ collector' = "publish" => Served' = Lists
    BY OrderOfLists DEF Served
  <2> QED BY <1>1, <2>1, ServedIs, OrderOfLists
<1>7. InTime'
  <2>1. since <= clock /\ ticked <= clock
    BY DEF InTime
  <2>2. CASE l = "processes"
    <3>1. clock <= Begun + 2
      BY <1>2, <2>2, OrderOfLists, CollectorAssumption DEF InTime, Lag, Bound, Begun
    <3> QED BY <1>1, <1>2, <2>1, <2>2, <3>1, OrderOfLists, CollectorAssumption
            DEF InTime, Lag, Bound, Begun
  <2>3. CASE l = "services"
    BY <1>1, <1>2, <2>1, <2>3, OrderOfLists, CollectorAssumption DEF InTime, Lag, Bound, Begun
  <2>4. CASE l = "containers"
    BY <1>1, <1>2, <2>1, <2>4, OrderOfLists, CollectorAssumption DEF InTime, Lag, Bound, Begun
  <2>5. CASE l = "firewall"
    BY <1>1, <1>2, <2>1, <2>5, OrderOfLists, CollectorAssumption DEF InTime, Lag, Bound, Begun
  <2> QED BY <2>2, <2>3, <2>4, <2>5, OrderOfLists
<1>8. l \notin Served
  BY ServedIs, OrderOfLists
<1>9. CachesKept'
  <2>1. \A k \in Lists : cache'[k].at <= clock'
    BY <1>1, <1>3 DEF CachesKept
  <2>2. \A k \in Shell : NotBehind(k)'
    <3> SUFFICES ASSUME NEW k \in Shell
                 PROVE  /\ cache'[k].at >= latest.lists[k].at
                        /\ latest.lists[k].full /\ ~cache'[k].full =>
                             k = "firewall" /\ cache'[k].at > latest.lists[k].at
      BY <1>1 DEF NotBehind
    <3>1. /\ k \in Lists /\ cache[k].at >= latest.lists[k].at
          /\ latest.lists[k].full /\ ~cache[k].full =>
               k = "firewall" /\ cache[k].at > latest.lists[k].at
      BY DEF Shell, CachesKept, NotBehind
    <3>2. cache[k].at \in Int /\ latest.lists[k].at \in Int /\ v.at \in Int
      BY <1>2, <3>1 DEF Values
    <3>3. CASE k = l
      <4>1. cache'[k] = v /\ v.at >= cache[k].at /\ k \in Shell
        BY <1>3, <3>3
      <4>2. v.full \/ v = cache[k] \/ (k = "firewall" /\ v.at > cache[k].at)
        BY <3>3
      <4> QED BY <3>1, <3>2, <4>1, <4>2
    <3>4. CASE k # l
      BY <1>3, <3>1, <3>4
    <3> QED BY <3>3, <3>4
  <2>3. \A k \in Served' : parts'[k] = cache'[k]
    BY <1>3, <1>6, <1>8 DEF CachesKept
  <2> QED BY <2>1, <2>2, <2>3 DEF CachesKept
<1>10. ListsFresh'
  <2> SUFFICES ASSUME NEW k \in Served', k \notin failed' PROVE parts'[k].at > ticked - TTL
    BY <1>1 DEF ListsFresh
  <2>1. CASE k = l
    BY <1>3, <2>1
  <2>2. CASE k # l
    BY <1>3, <1>6, <2>2 DEF ListsFresh
  <2> QED BY <2>1, <2>2
<1> QED BY <1>5, <1>7, <1>9, <1>10

LEMMA TickKeeps == ASSUME CollectorInv, Tick, UNCHANGED over PROVE CollectorInv'
<1> USE DEF CollectorInv
<1>1. /\ clock' = clock + 1 /\ clock < LastTime /\ ~Due /\ UNCHANGED collectorVars
      /\ stalled' = IF collector \in Unbounded THEN stalled + 1 ELSE stalled
  BY DEF Tick
<1>2. clock \in 1..LastTime /\ since \in 1..LastTime /\ ticked \in 0..LastTime
      /\ latest.at \in 0..LastTime /\ cache \in [Lists -> Values]
      /\ stalled \in 0..LastTime /\ stalled < clock
  BY DEF CollectorTypeOK, InTime
<1>3. CollectorTypeOK'
  BY <1>1, <1>2, CollectorAssumption DEF CollectorTypeOK, collectorVars
<1>4. Served' = Served
  BY <1>1 DEF Served, collectorVars
<1>5. \A l \in Lists : Bound[l] \in Nat /\ Lag[l] \in Nat
  BY OrderOfLists DEF Bound, Lag
<1>6. InTime'
  <2>0. /\ collector' = collector /\ since' = since /\ ticked' = ticked /\ latest' = latest
    BY <1>1 DEF collectorVars
  <2>1. CASE collector = "wait"
    BY <1>1, <1>2, <2>0, <2>1, OrderOfLists, CollectorAssumption
       DEF InTime, Due, Unbounded, Begun
  <2>2. CASE collector \in Lists
    <3>1. collector \notin Unbounded /\ collector \notin {"wait", "publish"}
      BY <2>2, OrderOfLists DEF Unbounded
    <3> QED BY <1>1, <1>2, <1>5, <2>0, <2>2, <3>1, OrderOfLists, CollectorAssumption
            DEF InTime, Due, Begun
  <2>3. CASE collector \in Unbounded
    <3>1. collector \notin Lists /\ collector \notin {"wait", "publish", "done"}
      BY <2>3, OrderOfLists DEF Unbounded
    <3> QED BY <1>1, <1>2, <2>0, <2>3, <3>1, CollectorAssumption DEF InTime, Begun
  <2>4. CASE collector = "done"
    BY <1>1, <1>2, <2>0, <2>4, OrderOfLists, CollectorAssumption DEF InTime, Unbounded, Begun
  <2> QED BY <1>1, <2>1, <2>2, <2>3, <2>4 DEF CollectorTypeOK, Due
<1>7. CachesKept' /\ ListsFresh'
  <2>1. \A l \in Lists : cache[l].at <= clock + 1
    BY <1>2, CollectorAssumption DEF CachesKept, Values
  <2> QED BY <1>1, <1>4, <2>1 DEF CachesKept, NotBehind, ListsFresh, collectorVars
<1> QED BY <1>3, <1>6, <1>7

LEMMA TurnKeeps ==
  ASSUME CollectorInv, UNCHANGED over,
         StartCollect \/ CollectorReturns \/ CollectBase \/ ScanProcesses
  PROVE  CollectorInv'
<1> USE DEF CollectorInv
<1>1. clock \in 1..LastTime /\ since \in 1..LastTime /\ ticked \in 0..LastTime
      /\ latest.at \in 0..LastTime /\ stalled \in 0..LastTime
  BY DEF CollectorTypeOK
<1>2. Nil \in Values
  BY CollectorAssumption DEF Nil, Values
<1>3. /\ collector' \in {"base", "processes", "connections", "done"}
      /\ cache' = cache /\ latest' = latest /\ clock' = clock /\ stalled' = stalled
  BY DEF StartCollect, CollectorReturns, CollectBase, ScanProcesses, Proceed
<1>4. Served' = {}
  BY <1>3, OrderOfLists DEF Served
<1>5. CollectorTypeOK'
  <2>1. CASE StartCollect
    BY <1>1, <1>2, <2>1, OrderOfLists DEF StartCollect, CollectorTypeOK, Unbounded
  <2>2. CASE CollectorReturns
    BY <1>1, <2>2 DEF CollectorReturns, CollectorTypeOK
  <2>3. CASE CollectBase \/ ScanProcesses
    BY <1>1, <2>3, OrderOfLists DEF CollectBase, ScanProcesses, Proceed, CollectorTypeOK, Unbounded
  <2> QED BY <2>1, <2>2, <2>3
<1>6. InTime'
  <2>1. CASE StartCollect
    <3>1. collector' = "base" /\ since' = clock /\ ticked' = clock /\ clock <= latest.at + 1
      BY <2>1 DEF StartCollect, InTime
    <3> QED BY <1>1, <1>3, <3>1, OrderOfLists, CollectorAssumption DEF InTime, Begun
  <2>2. CASE CollectorReturns
    BY <1>1, <1>3, <2>2, OrderOfLists DEF CollectorReturns, InTime
  <2>3. CASE CollectBase
    <3>1. /\ collector' = "processes" /\ since' = clock /\ ticked' = ticked /\ clock <= Begun
      BY <2>3 DEF CollectBase, Proceed, InTime
    <3> QED BY <1>1, <1>3, <3>1, OrderOfLists, CollectorAssumption DEF InTime, Lag, Bound, Begun
  <2>4. CASE ScanProcesses
    <3>1. /\ collector' = "connections" /\ since' = clock /\ ticked' = ticked
          /\ clock <= Begun + 2
      BY <1>1, <2>4, OrderOfLists, CollectorAssumption
         DEF ScanProcesses, Proceed, InTime, Lag, Bound, Begun
    <3> QED BY <1>1, <1>3, <3>1, OrderOfLists, CollectorAssumption DEF InTime, Begun
  <2> QED BY <2>1, <2>2, <2>3, <2>4
<1>7. CachesKept' /\ ListsFresh'
  BY <1>3, <1>4 DEF CachesKept, NotBehind, ListsFresh
<1> QED BY <1>5, <1>6, <1>7

LEMMA PublishKeeps == ASSUME CollectorInv, Publish, UNCHANGED over PROVE CollectorInv'
<1> USE DEF CollectorInv
<1>1. /\ collector = "publish" /\ collector' = "wait" /\ since' = clock /\ clock' = clock
      /\ latest' = [at |-> clock, lists |-> parts]
      /\ cache' = cache /\ parts' = parts /\ ticked' = ticked
      /\ failed' = failed /\ probeFails' = probeFails /\ stalled' = 0
  BY DEF Publish
<1>2. clock \in 1..LastTime /\ ticked \in 0..LastTime /\ parts \in [Lists -> Values]
      /\ cache \in [Lists -> Values]
  BY DEF CollectorTypeOK
<1>3. CollectorTypeOK'
  BY <1>1, <1>2, CollectorAssumption DEF CollectorTypeOK
<1>4. Served' = {} /\ Served = Lists
  BY <1>1, OrderOfLists DEF Served
<1>5. InTime'
  BY <1>1, <1>2, OrderOfLists, CollectorAssumption DEF InTime
<1>6. \A l \in Shell : NotBehind(l)'
  <2> SUFFICES ASSUME NEW l \in Shell PROVE NotBehind(l)'
    OBVIOUS
  <2>1. l \in Lists /\ cache'[l] = latest'.lists[l] /\ cache[l].at \in Int
    BY <1>1, <1>2, <1>4 DEF CachesKept, Shell, Values
  <2> QED BY <1>1, <2>1 DEF NotBehind
<1>7. CachesKept' /\ ListsFresh'
  BY <1>1, <1>4, <1>6 DEF CachesKept, ListsFresh
<1> QED BY <1>3, <1>5, <1>7

LEMMA CollectorInvNext == CollectorInv /\ [CollectorNext]_meVars => CollectorInv'
<1> SUFFICES ASSUME CollectorInv, [CollectorNext]_meVars PROVE CollectorInv'
  OBVIOUS
<1>1. /\ clock \in 1..LastTime /\ ticked \in 0..LastTime /\ ticked <= clock
      /\ cache \in [Lists -> Values] /\ probeFails \in 0..MaxProbeFails /\ failed \subseteq Lists
      /\ \A l \in Lists : cache[l].at <= clock
  BY DEF CollectorInv, CollectorTypeOK, InTime, CachesKept
<1>2. \A l \in Lists : cache[l] \in Values /\ cache[l].at \in 0..LastTime
  BY <1>1 DEF Values
<1>3. Nil \in Values /\ Nil.at = 0
  BY CollectorAssumption DEF Nil, Values
<1>4. \A b \in BOOLEAN : [at |-> clock, full |-> b] \in Values
  BY <1>1, CollectorAssumption DEF Values
<1>5. CASE Tick /\ UNCHANGED over
  BY <1>5, TickKeeps
<1>6. CASE (StartCollect \/ CollectorReturns \/ CollectBase \/ ScanProcesses) /\ UNCHANGED over
  BY <1>6, TurnKeeps
<1>7. CASE Publish /\ UNCHANGED over
  BY <1>7, PublishKeeps
<1>8. ASSUME NEW l \in Lists, ServeCached(l), UNCHANGED over PROVE CollectorInv'
  <2>1. collector = l /\ clock - cache[l].at < TTL /\ Serve(l, cache[l], cache[l])
        /\ failed' = failed /\ probeFails' = probeFails
    BY <1>8 DEF ServeCached, Fresh
  <2>2. cache[l].at > ticked - TTL
    BY <1>1, <1>2, <2>1, CollectorAssumption DEF TTL
  <2>3. cache[l].at >= cache[l].at
    BY <1>2, CollectorAssumption
  <2> QED BY <1>1, <1>2, <1>8, <2>1, <2>2, <2>3, ServeKeeps
<1>9. ASSUME NEW l \in Lists, Probe(l), UNCHANGED over PROVE CollectorInv'
  <2> DEFINE v == [at |-> clock, full |-> TRUE]
  <2>1. /\ collector = l \/ (l = "processes" /\ collector = "connections")
        /\ Serve(l, v, v) /\ failed' = failed /\ probeFails' = probeFails
    BY <1>9 DEF Probe, Shell
  <2>2. v \in Values /\ v.at = clock /\ v.full
    BY <1>4
  <2>3. clock > ticked - TTL /\ clock <= clock /\ clock >= cache[l].at
    BY <1>1, <1>2, CollectorAssumption DEF TTL
  <2> HIDE DEF v
  <2> QED BY <1>1, <1>9, <2>1, <2>2, <2>3, ServeKeeps
<1>10. ASSUME NEW l \in Lists, ProbeFailing(l)
       PROVE  /\ collector = l /\ l \in failed' /\ failed \subseteq failed' /\ failed' \subseteq Lists
              /\ probeFails' \in 0..MaxProbeFails
  BY <1>1, <1>10, CollectorAssumption DEF ProbeFailing
<1>11. ASSUME NEW l \in Lists, TimesOut(l), UNCHANGED over PROVE CollectorInv'
  <2> DEFINE v == IF l \in Shell THEN cache[l] ELSE Nil
  <2>1. ProbeFailing(l) /\ Serve(l, v, v)
    BY <1>11 DEF TimesOut
  <2>2. v \in Values /\ v.at <= clock /\ (l \in Shell => v.at >= cache[l].at /\ v = cache[l])
    BY <1>1, <1>2, <1>3, CollectorAssumption
  <2> HIDE DEF v
  <2> QED BY <1>10, <1>11, <2>1, <2>2, ServeKeeps
<1>12. ASSUME NEW l \in Lists, Errs(l), UNCHANGED over PROVE CollectorInv'
  <2> DEFINE v == IF l \in {"services", "containers"} THEN cache[l]
                  ELSE [at |-> clock, full |-> FALSE]
  <2>1. ProbeFailing(l) /\ Serve(l, v, v)
    BY <1>12 DEF Errs
  <2>2. /\ v \in Values /\ v.at <= clock
        /\ l \in Shell => v.at >= cache[l].at /\ (v = cache[l] \/
                            (l = "firewall" /\ v.at > cache[l].at))
    <3>1. CASE l \in {"services", "containers"}
      BY <1>1, <1>2, <3>1, CollectorAssumption
    <3>2. CASE l \notin {"services", "containers"}
      <4>1. v = [at |-> clock, full |-> FALSE] /\ v \in Values /\ v.at = clock
        BY <1>4, <3>2
      <4>2. cache[l].at < clock /\ (l \in Shell => l = "firewall")
        <5>1. ~Fresh(l)
          BY <1>12 DEF Errs, ProbeFailing
        <5>2. cache[l] = Nil \/ clock - cache[l].at >= TTL
          BY <1>1, <1>2, <5>1, CollectorAssumption DEF Fresh, TTL
        <5>3. cache[l].at < clock
          BY <1>1, <1>2, <1>3, <5>2, CollectorAssumption DEF TTL
        <5>4. l \in Shell => l = "firewall"
          BY <3>2, OrderOfLists DEF Shell
        <5> QED BY <5>3, <5>4
      <4> HIDE DEF v
      <4> QED BY <1>1, <1>2, <4>1, <4>2, CollectorAssumption
    <3> QED BY <3>1, <3>2
  <2> HIDE DEF v
  <2> QED BY <1>10, <1>12, <2>1, <2>2, ServeKeeps
<1>13. CASE Stop \/ UNCHANGED meVars
  <2>1. UNCHANGED <<clock, stalled, collectorVars>> /\ over' \in BOOLEAN
    BY <1>13 DEF Stop, meVars, CollectorInv, CollectorTypeOK
  <2> QED BY <2>1 DEF CollectorInv, CollectorTypeOK, InTime, Begun, CachesKept, NotBehind,
                      ListsFresh, Served, collectorVars
<1> QED
  BY <1>5, <1>6, <1>7, <1>8, <1>9, <1>11, <1>12, <1>13 DEF CollectorNext, Collect

(* However long the base and the connections take and whatever the probes  *)
(* do, the probes delay a snapshot no longer than their bounds, and a good *)
(* list of a shell-out gives way to no earlier one, nor to an error but    *)
(* ufw's (Collect, GetServices, GetContainers, GetFirewall).               *)
THEOREM MetricsAlwaysSound == CollectorSpec => []MetricsSound
<1>1. CollectorInv => MetricsSound
  <2> SUFFICES ASSUME CollectorInv PROVE MetricsSound
    OBVIOUS
  <2> USE DEF CollectorInv
  <2>1. /\ clock \in 1..LastTime /\ since \in 1..LastTime /\ ticked \in 0..LastTime
        /\ latest.at \in 0..LastTime /\ stalled \in 0..LastTime
    BY DEF CollectorTypeOK
  <2>2. SnapshotsCurrent
    <3>1. CASE collector \in {"wait", "base", "connections", "publish"}
      BY <2>1, <3>1, CollectorAssumption DEF InTime, SnapshotsCurrent, Begun
    <3>2. CASE collector \in Lists
      <4>1. Lag[collector] + Bound[collector] <= 7
            /\ Lag[collector] \in Nat /\ Bound[collector] \in Nat
        BY <3>2, OrderOfLists DEF Lag, Bound
      <4> QED BY <2>1, <3>2, <4>1, CollectorAssumption DEF InTime, SnapshotsCurrent, Begun
    <3> QED BY <3>1, <3>2 DEF CollectorTypeOK, SnapshotsCurrent, Unbounded
  <2>3. LastGoodServed
    BY DEF CachesKept, NotBehind, LastGoodServed
  <2> QED BY <2>2, <2>3 DEF MetricsSound
<1> QED BY <1>1, CollectorInvInit, CollectorInvNext, PTL DEF CollectorSpec

-----------------------------------------------------------------------------
(* SSHDConfig: what an update makes of the lines of a file. *)

LEMMA LineIs ==
  ASSUME NEW key \in {"port", "pass"}, NEW v \in SDValues
  PROVE  /\ Line(key, v) \in SDLines /\ Line(key, v).key = key
         /\ Line(key, v).v = v /\ ~Line(key, v).off
BY DEF Line, SDLines

LEMMA SetAllIs ==
  ASSUME NEW lines \in Seq(SDLines), NEW key \in {"port", "pass"}, NEW v \in SDValues
  PROVE  /\ SetAll(lines, key, v) \in Seq(SDLines)
         /\ DOMAIN SetAll(lines, key, v) = DOMAIN lines
         /\ Len(SetAll(lines, key, v)) = Len(lines)
         /\ \A i \in DOMAIN lines : SetAll(lines, key, v)[i] =
              IF lines[i].key = key THEN Line(key, v) ELSE lines[i]
<1>1. Line(key, v) \in SDLines
  BY LineIs
<1>2. DOMAIN lines = 1 .. Len(lines) /\ Len(lines) \in Nat
  OBVIOUS
<1>3. \A i \in 1 .. Len(lines) : lines[i] \in SDLines
  OBVIOUS
<1> DEFINE all == [i \in 1 .. Len(lines) |-> IF lines[i].key = key THEN Line(key, v) ELSE lines[i]]
<1>4. all \in Seq(SDLines) /\ Len(all) = Len(lines)
  <2>1. \A i \in 1 .. Len(lines) : (IF lines[i].key = key THEN Line(key, v) ELSE lines[i]) \in SDLines
    BY <1>1, <1>3
  <2> QED BY <2>1, <1>2
<1>5. SetAll(lines, key, v) = all
  BY <1>2 DEF SetAll
<1> QED BY <1>4, <1>5, <1>2

(* Setting the lines of one key leaves every line's key as it is, and with *)
(* it what the other keys set; doing it again changes nothing.             *)
LEMMA SetAllKeeps ==
  ASSUME NEW lines \in Seq(SDLines), NEW key \in {"port", "pass"}, NEW v \in SDValues
  PROVE  /\ \A i \in DOMAIN lines : SetAll(lines, key, v)[i].key = lines[i].key
         /\ \A other \in {"port", "pass", "match", "include"} \ {key} :
              Active(SetAll(lines, key, v), other) = Active(lines, other)
         /\ Has(SetAll(lines, key, v), key) <=> Has(lines, key)
         /\ SetAll(SetAll(lines, key, v), key, v) = SetAll(lines, key, v)
         /\ ~Has(lines, key) => SetAll(lines, key, v) = lines
<1> DEFINE all == SetAll(lines, key, v)
<1>1. /\ all \in Seq(SDLines) /\ DOMAIN all = DOMAIN lines
      /\ \A i \in DOMAIN lines : all[i] = IF lines[i].key = key THEN Line(key, v) ELSE lines[i]
  BY SetAllIs
<1>2. /\ all = [i \in DOMAIN lines |-> IF lines[i].key = key THEN Line(key, v) ELSE lines[i]]
      /\ SetAll(all, key, v) = [i \in DOMAIN all |-> IF all[i].key = key THEN Line(key, v) ELSE all[i]]
  BY DEF SetAll
<1> HIDE DEF all
<1>3. \A i \in DOMAIN lines : all[i].key = lines[i].key
  BY <1>1, LineIs
<1>4. \A other \in {"port", "pass", "match", "include"} \ {key} :
         Active(all, other) = Active(lines, other)
  BY <1>1, <1>3 DEF Active
<1>5. Has(all, key) <=> Has(lines, key)
  BY <1>1, <1>3 DEF Has
<1>6. SetAll(all, key, v) = all
  BY <1>1, <1>2, <1>3
<1>7. ASSUME ~Has(lines, key) PROVE all = lines
  <2>1. \A i \in DOMAIN lines : lines[i].key # key
    BY <1>7 DEF Has
  <2>2. lines = [i \in DOMAIN lines |-> lines[i]]
    OBVIOUS
  <2> QED BY <2>1, <2>2, <1>2
<1> QED BY <1>3, <1>4, <1>5, <1>6, <1>7 DEF all

(* Updated, and with it NewMain: of a setting that is asked for every line *)
(* is what was asked for, and there is one; the rest stays.                *)
IsUpdated(new, lines, key, v) ==
  /\ new \in Seq(SDLines)
  /\ DOMAIN lines \subseteq DOMAIN new
  /\ \A i \in DOMAIN lines :
       new[i].key = lines[i].key /\ (lines[i].key # key => new[i] = lines[i])
  /\ \A i \in DOMAIN new \ DOMAIN lines : new[i].key = key
  /\ v # NotSet => /\ \A i \in DOMAIN new : new[i].key = key => new[i] = Line(key, v)
                   /\ \E i \in DOMAIN new : new[i].key = key

LEMMA UpdatedIs ==
  ASSUME NEW lines \in Seq(SDLines), NEW key \in {"port", "pass"},
         NEW v \in SDValues \cup {NotSet}
  PROVE  IsUpdated(Updated(lines, key, v), lines, key, v)
<1> DEFINE new == Updated(lines, key, v)
<1> SUFFICES IsUpdated(new, lines, key, v)
  OBVIOUS
<1> USE DEF IsUpdated
<1>1. CASE v = NotSet
  BY <1>1 DEF Updated
<1>2. CASE v # NotSet /\ Has(lines, key)
  <2>1. v \in SDValues /\ new = SetAll(lines, key, v)
    BY <1>2 DEF Updated
  <2> HIDE DEF new
  <2>2. /\ new \in Seq(SDLines) /\ DOMAIN new = DOMAIN lines
        /\ \A i \in DOMAIN lines : new[i] = IF lines[i].key = key THEN Line(key, v) ELSE lines[i]
    BY <2>1, SetAllIs
  <2>3. Line(key, v).key = key
    BY <2>1, LineIs
  <2>4. \E i \in DOMAIN lines : lines[i].key = key
    BY <1>2 DEF Has
  <2> QED BY <2>2, <2>3, <2>4, <1>2 DEF new
<1>3. CASE v # NotSet /\ ~Has(lines, key)
  <2>1. v \in SDValues /\ new = Append(lines, Line(key, v))
    BY <1>3 DEF Updated
  <2>2. Line(key, v) \in SDLines /\ Line(key, v).key = key
    BY <2>1, LineIs
  <2> HIDE DEF new
  <2>3. /\ new \in Seq(SDLines) /\ Len(new) = Len(lines) + 1
        /\ \A i \in 1 .. Len(lines) : new[i] = lines[i]
        /\ new[Len(lines) + 1] = Line(key, v)
    BY <2>1, <2>2
  <2>4. /\ DOMAIN lines = 1 .. Len(lines) /\ DOMAIN new = 1 .. Len(lines) + 1
        /\ Len(lines) \in Nat
    BY <2>3
  <2>5. \A i \in DOMAIN lines : lines[i].key # key
    BY <1>3 DEF Has
  <2>6. \A i \in DOMAIN new \ DOMAIN lines : i = Len(lines) + 1
    BY <2>4
  <2>7. \A i \in DOMAIN new : i \in DOMAIN lines \/ i = Len(lines) + 1
    BY <2>4
  <2>8. Len(lines) + 1 \in DOMAIN new
    BY <2>4
  <2> QED BY <2>2, <2>3, <2>4, <2>5, <2>6, <2>7, <2>8, <1>3 DEF new
<1> QED BY <1>1, <1>2, <1>3

LEMMA RequestIs ==
  ASSUME NEW r \in Requests
  PROVE  /\ r.port \in SDValues \cup {NotSet} /\ r.pass \in SDValues \cup {NotSet}
         /\ r.port # NotSet => r.port \in Ports
         /\ r.validate \in BOOLEAN /\ r.restart \in BOOLEAN
BY SSHDConfigAssumption DEF SDValues

LEMMA NewMainIs ==
  ASSUME NEW main \in Seq(SDLines), NEW r \in Requests
  PROVE  LET new == NewMain(main, r) IN
         /\ new \in Seq(SDLines)
         /\ DOMAIN main \subseteq DOMAIN new
         /\ \A i \in DOMAIN main : new[i].key = main[i].key
         /\ Active(new, "match") = Active(main, "match")
         /\ r.port # NotSet =>
              /\ \A i \in DOMAIN new : new[i].key = "port" => new[i] = Line("port", r.port)
              /\ \E i \in DOMAIN new : new[i].key = "port"
         /\ r.pass # NotSet =>
              /\ \A i \in DOMAIN new : new[i].key = "pass" => new[i] = Line("pass", r.pass)
              /\ \E i \in DOMAIN new : new[i].key = "pass"
<1> DEFINE mid == Updated(main, "port", r.port)
           new == Updated(mid, "pass", r.pass)
<1>0. /\ r.port \in SDValues \cup {NotSet} /\ r.pass \in SDValues \cup {NotSet}
      /\ "port" \in {"port", "pass"} /\ "pass" \in {"port", "pass"}
  BY RequestIs
<1>1. IsUpdated(mid, main, "port", r.port)
  BY <1>0, UpdatedIs, Zenon
<1> HIDE DEF mid
<1>2. IsUpdated(new, mid, "pass", r.pass)
  <2>1. mid \in Seq(SDLines)
    BY <1>1 DEF IsUpdated
  <2> QED BY <2>1, <1>0, UpdatedIs, Zenon
<1>3. NewMain(main, r) = new
  BY DEF NewMain, mid
<1> HIDE DEF new
<1> USE DEF IsUpdated
<1>4. DOMAIN main \subseteq DOMAIN new /\ \A i \in DOMAIN main : new[i].key = main[i].key
  BY <1>1, <1>2
<1>5. Active(new, "match") = Active(main, "match")
  <2>1. \A i \in DOMAIN main : main[i].key = "match" => new[i] = main[i]
    BY <1>1, <1>2
  <2>2. \A i \in DOMAIN new : new[i].key = "match" => i \in DOMAIN main
    BY <1>1, <1>2
  <2> QED BY <2>1, <2>2, <1>4 DEF Active
<1>6. ASSUME r.port # NotSet
      PROVE  /\ \A i \in DOMAIN new : new[i].key = "port" => new[i] = Line("port", r.port)
             /\ \E i \in DOMAIN new : new[i].key = "port"
  <2>1. \A i \in DOMAIN new : new[i].key = "port" => i \in DOMAIN mid /\ new[i] = mid[i]
    BY <1>2
  <2> QED BY <2>1, <1>1, <1>2, <1>6
<1> QED BY <1>2, <1>3, <1>4, <1>5, <1>6

-----------------------------------------------------------------------------
(* SSHDConfig: the configuration that sshd reads. *)

LEMMA ScopedIs ==
  ASSUME NEW lines \in Seq(SDLines), NEW within \in BOOLEAN
  PROVE  /\ Scoped(lines, within) \in Seq(ConfigLines)
         /\ DOMAIN Scoped(lines, within) = DOMAIN lines
         /\ Len(Scoped(lines, within)) = Len(lines)
         /\ \A i \in DOMAIN lines :
              /\ Scoped(lines, within)[i].key = lines[i].key
              /\ Scoped(lines, within)[i].v = lines[i].v
              /\ Scoped(lines, within)[i].off = lines[i].off
              /\ Scoped(lines, within)[i].global = (within /\ i \in Global(lines))
<1>1. DOMAIN lines = 1 .. Len(lines) /\ Len(lines) \in Nat
  OBVIOUS
<1> DEFINE Of(i) == [key |-> lines[i].key, v |-> lines[i].v, off |-> lines[i].off,
                     global |-> within /\ i \in Global(lines)]
           all == [i \in 1 .. Len(lines) |-> Of(i)]
<1>2. \A i \in 1 .. Len(lines) : Of(i) \in ConfigLines
  <2> SUFFICES ASSUME NEW i \in 1 .. Len(lines) PROVE Of(i) \in ConfigLines
    OBVIOUS
  <2>1. lines[i] \in SDLines
    OBVIOUS
  <2>2. (within /\ i \in Global(lines)) \in BOOLEAN
    BY Zenon
  <2> QED BY <2>1, <2>2 DEF SDLines, ConfigLines
<1>3. Scoped(lines, within) = all
  BY <1>1 DEF Scoped
<1>4. \A i \in 1 .. Len(lines) :
        /\ Of(i).key = lines[i].key /\ Of(i).v = lines[i].v /\ Of(i).off = lines[i].off
        /\ Of(i).global = (within /\ i \in Global(lines))
  OBVIOUS
<1> HIDE DEF Of
<1>5. all \in Seq(ConfigLines) /\ Len(all) = Len(lines) /\ DOMAIN all = 1 .. Len(lines)
  BY <1>1, <1>2
<1> QED BY <1>1, <1>3, <1>4, <1>5

LEMMA ScopedMain ==
  ASSUME NEW lines \in Seq(SDLines), NEW i \in DOMAIN lines
  PROVE  /\ Scoped(lines, TRUE)[i].key = lines[i].key
         /\ Scoped(lines, TRUE)[i].v = lines[i].v
         /\ Scoped(lines, TRUE)[i].off = lines[i].off
         /\ i \in Global(lines) => Scoped(lines, TRUE)[i].global
<1>1. /\ Scoped(lines, TRUE)[i].key = lines[i].key
      /\ Scoped(lines, TRUE)[i].v = lines[i].v
      /\ Scoped(lines, TRUE)[i].off = lines[i].off
  BY DEF Scoped
<1>2. ASSUME i \in Global(lines) PROVE Scoped(lines, TRUE)[i].global
  <2>1. Scoped(lines, TRUE)[i].global = (TRUE /\ i \in Global(lines))
    BY Zenon DEF Scoped
  <2> QED BY <2>1, <1>2
<1> QED BY <1>1, <1>2

(* Three sequences after each other. *)
IsJoined(e, a, b, c) ==
  /\ Len(e) = Len(a) + Len(b) + Len(c)
  /\ \A k \in 1 .. Len(a) : k \in DOMAIN e /\ e[k] = a[k]
  /\ \A k \in 1 .. Len(b) : Len(a) + k \in DOMAIN e /\ e[Len(a) + k] = b[k]
  /\ \A k \in 1 .. Len(c) :
       Len(a) + Len(b) + k \in DOMAIN e /\ e[Len(a) + Len(b) + k] = c[k]
  /\ \A k \in DOMAIN e :
       \/ k \in 1 .. Len(a)
       \/ \E j \in 1 .. Len(b) : k = Len(a) + j
       \/ \E j \in 1 .. Len(c) : k = Len(a) + Len(b) + j

LEMMA Joined ==
  ASSUME NEW S, NEW a \in Seq(S), NEW b \in Seq(S), NEW c \in Seq(S)
  PROVE  a \o b \o c \in Seq(S) /\ IsJoined(a \o b \o c, a, b, c)
<1> DEFINE e == (a \o b) \o c
<1>1. /\ e \in Seq(S) /\ Len(e) = Len(a) + Len(b) + Len(c)
      /\ Len(a) \in Nat /\ Len(b) \in Nat /\ Len(c) \in Nat
  OBVIOUS
<1>2. \A k \in 1 .. Len(a) : e[k] = a[k]
  OBVIOUS
<1>3. \A k \in 1 .. Len(b) : e[Len(a) + k] = b[k]
  OBVIOUS
<1>4. \A k \in 1 .. Len(c) : e[Len(a) + Len(b) + k] = c[k]
  OBVIOUS
<1> HIDE DEF e
<1>5. DOMAIN e = 1 .. Len(a) + Len(b) + Len(c)
  BY <1>1
<1>6. ASSUME NEW k \in DOMAIN e, k \notin 1 .. Len(a), ~ \E j \in 1 .. Len(b) : k = Len(a) + j
      PROVE  \E j \in 1 .. Len(c) : k = Len(a) + Len(b) + j
  <2>1. k \in Nat /\ k > Len(a)
    BY <1>1, <1>5, <1>6
  <2>2. k - Len(a) \in Nat /\ k = Len(a) + (k - Len(a)) /\ k - Len(a) > Len(b)
    BY <2>1, <1>1, <1>6
  <2>3. k - (Len(a) + Len(b)) \in 1 .. Len(c) /\ k = Len(a) + Len(b) + (k - (Len(a) + Len(b)))
    BY <2>1, <2>2, <1>1, <1>5
  <2> QED BY <2>3
<1>7. /\ \A k \in 1 .. Len(a) : k \in DOMAIN e
      /\ \A k \in 1 .. Len(b) : Len(a) + k \in DOMAIN e
      /\ \A k \in 1 .. Len(c) : Len(a) + Len(b) + k \in DOMAIN e
  BY <1>1, <1>5
<1>8. IsJoined(e, a, b, c)
  BY <1>1, <1>2, <1>3, <1>4, <1>6, <1>7, Zenon DEF IsJoined
<1> QED BY <1>1, <1>8 DEF e

IsExpanded(e, main, drop) ==
  /\ e \in Seq(ConfigLines)
  /\ \A k \in DOMAIN e :
       \/ \E i \in DOMAIN main : e[k] = Scoped(main, TRUE)[i]
       \/ \E j \in DOMAIN drop, g \in BOOLEAN : e[k] = Scoped(drop, g)[j]
  /\ \A i \in DOMAIN main :
       main[i].key # "include" => \E k \in DOMAIN e : e[k] = Scoped(main, TRUE)[i]

(* The parts of which the configuration consists, where there is an        *)
(* Include.                                                                *)
LEMMA ExpandParts ==
  ASSUME NEW main \in Seq(SDLines), Active(main, "include") # {}
  PROVE  \E i \in DOMAIN main, g \in BOOLEAN :
           /\ main[i].key = "include"
           /\ SubSeq(Scoped(main, TRUE), 1, i - 1) \in Seq(ConfigLines)
           /\ SubSeq(Scoped(main, TRUE), i + 1, Len(main)) \in Seq(ConfigLines)
           /\ \A drop : Expand(main, drop) =
                SubSeq(Scoped(main, TRUE), 1, i - 1) \o Scoped(drop, g)
                  \o SubSeq(Scoped(main, TRUE), i + 1, Len(main))
<1> DEFINE all == Scoped(main, TRUE)
           i == CHOOSE x \in Active(main, "include") : TRUE
<1>1. i \in Active(main, "include")
  OBVIOUS
<1>2. i \in DOMAIN main /\ main[i].key = "include"
  BY <1>1 DEF Active
<1>3. /\ all \in Seq(ConfigLines) /\ Len(all) = Len(main) /\ DOMAIN main = 1 .. Len(main)
      /\ Len(main) \in Nat /\ all[i] \in ConfigLines
  <2>1. all \in Seq(ConfigLines) /\ Len(all) = Len(main) /\ DOMAIN all = DOMAIN main
    BY ScopedIs
  <2> HIDE DEF all, i
  <2> QED BY <2>1, <1>2
<1>4. all[i].global \in BOOLEAN
  BY <1>3 DEF ConfigLines
<1>5. \A drop : Expand(main, drop) =
        SubSeq(all, 1, i - 1) \o Scoped(drop, all[i].global) \o SubSeq(all, i + 1, Len(all))
  BY DEF Expand
<1> HIDE DEF i
<1>6. \A drop : Expand(main, drop) =
        SubSeq(all, 1, i - 1) \o Scoped(drop, all[i].global) \o SubSeq(all, i + 1, Len(main))
  BY <1>5, <1>3
<1> HIDE DEF all
<1>7. SubSeq(all, 1, i - 1) \in Seq(ConfigLines) /\ SubSeq(all, i + 1, Len(main)) \in Seq(ConfigLines)
  BY <1>2, <1>3
<1> QED BY <1>2, <1>4, <1>6, <1>7, Zenon DEF all

LEMMA ExpandIs ==
  ASSUME NEW main \in Seq(SDLines), NEW drop \in Seq(SDLines)
  PROVE  IsExpanded(Expand(main, drop), main, drop)
<1> DEFINE all == Scoped(main, TRUE)
<1>1. /\ all \in Seq(ConfigLines) /\ DOMAIN all = DOMAIN main /\ Len(all) = Len(main)
      /\ DOMAIN main = 1 .. Len(main) /\ Len(main) \in Nat
  <2>1. all \in Seq(ConfigLines) /\ DOMAIN all = DOMAIN main /\ Len(all) = Len(main)
    BY ScopedIs
  <2> HIDE DEF all
  <2> QED BY <2>1
<1>2. CASE Active(main, "include") = {}
  <2>1. Expand(main, drop) = all
    BY <1>2 DEF Expand
  <2> QED BY <2>1, <1>1 DEF IsExpanded
<1>3. CASE Active(main, "include") # {}
  <2>1. PICK i \in DOMAIN main, g \in BOOLEAN :
          /\ main[i].key = "include"
          /\ SubSeq(all, 1, i - 1) \in Seq(ConfigLines)
          /\ SubSeq(all, i + 1, Len(main)) \in Seq(ConfigLines)
          /\ \A d : Expand(main, d) =
               SubSeq(all, 1, i - 1) \o Scoped(d, g) \o SubSeq(all, i + 1, Len(main))
    BY <1>3, ExpandParts
  <2> DEFINE a == SubSeq(all, 1, i - 1)
             b == Scoped(drop, g)
             c == SubSeq(all, i + 1, Len(main))
             e == Expand(main, drop)
  <2>2. b \in Seq(ConfigLines) /\ DOMAIN b = DOMAIN drop /\ DOMAIN drop = 1 .. Len(b)
    <3>1. b \in Seq(ConfigLines) /\ DOMAIN b = DOMAIN drop
      BY ScopedIs
    <3> HIDE DEF b
    <3> QED BY <3>1
  <2>3. e = a \o b \o c
    BY <2>1, Zenon
  <2> HIDE DEF b, e
  <2>4. e \in Seq(ConfigLines) /\ IsJoined(e, a, b, c)
    BY <2>1, <2>2, <2>3, Joined
  <2> HIDE DEF all
  <2>5. /\ Len(a) = i - 1 /\ \A k \in 1 .. i - 1 : a[k] = all[k]
        /\ Len(c) = Len(main) - i /\ \A k \in 1 .. Len(main) - i : c[k] = all[i + k]
        /\ i \in 1 .. Len(main)
    <3>1. i \in 1 .. Len(main) /\ Len(all) = Len(main) /\ Len(main) \in Nat /\ all \in Seq(ConfigLines)
      BY <1>1
    <3>2. Len(a) = i - 1 /\ \A k \in 1 .. i - 1 : a[k] = all[k]
      BY <3>1
    <3>3. Len(c) = Len(main) - i
      BY <3>1
    <3>4. \A k \in 1 .. Len(main) - i : c[k] = all[i + k]
      BY <3>1
    <3> QED BY <3>1, <3>2, <3>3, <3>4
  <2> HIDE DEF a, c
  <2>6. ASSUME NEW k \in DOMAIN e
        PROVE  \/ \E x \in DOMAIN main : e[k] = all[x]
               \/ \E j \in DOMAIN drop, h \in BOOLEAN : e[k] = Scoped(drop, h)[j]
    <3>1. CASE k \in 1 .. Len(a)
      <4>1. k \in DOMAIN main /\ e[k] = all[k]
        BY <3>1, <2>4, <2>5, <1>1 DEF IsJoined
      <4> QED BY <4>1
    <3>2. CASE \E j \in 1 .. Len(b) : k = Len(a) + j
      <4>1. PICK j \in 1 .. Len(b) : k = Len(a) + j
        BY <3>2
      <4>2. e[k] = b[j] /\ j \in DOMAIN drop
        BY <4>1, <2>2, <2>4 DEF IsJoined
      <4> QED BY <4>2 DEF b
    <3>3. CASE \E j \in 1 .. Len(c) : k = Len(a) + Len(b) + j
      <4>1. PICK j \in 1 .. Len(c) : k = Len(a) + Len(b) + j
        BY <3>3
      <4>2. e[k] = c[j]
        BY <4>1, <2>4 DEF IsJoined
      <4>3. i + j \in DOMAIN main /\ e[k] = all[i + j]
        BY <4>2, <2>5, <1>1
      <4> QED BY <4>3
    <3> QED BY <3>1, <3>2, <3>3, <2>4 DEF IsJoined
  <2>7. ASSUME NEW x \in DOMAIN main, main[x].key # "include"
        PROVE  \E k \in DOMAIN e : e[k] = all[x]
    <3>1. CASE x < i
      <4>1. x \in 1 .. Len(a) /\ a[x] = all[x]
        BY <3>1, <2>5, <1>1
      <4> QED BY <4>1, <2>4 DEF IsJoined
    <3>2. CASE x > i
      <4>1. x - i \in 1 .. Len(c) /\ c[x - i] = all[i + (x - i)] /\ i + (x - i) = x
        BY <3>2, <2>5, <1>1
      <4>2. Len(a) + Len(b) + (x - i) \in DOMAIN e /\ e[Len(a) + Len(b) + (x - i)] = c[x - i]
        BY <4>1, <2>4 DEF IsJoined
      <4> QED BY <4>1, <4>2
    <3>3. x # i
      BY <2>1, <2>7
    <3> QED BY <3>1, <3>2, <3>3, <2>5, <1>1
  <2> QED BY <2>4, <2>6, <2>7 DEF IsExpanded, e, all
<1> QED BY <1>2, <1>3

(* A set of numbers that is not empty has a least one.                     *)
LEMMA LeastLine ==
  ASSUME NEW T, T \subseteq Nat, T # {}
  PROVE  \E x \in T : \A y \in T : x <= y
<1>1. PICK x \in T : \A y \in T : ~ (<<y, x>> \in OpToRel(<, Nat))
  BY WFMin, NatLessThanWellFounded
<1>2. \A y \in T : ~ (y < x)
  BY <1>1 DEF OpToRel
<1> QED BY <1>2

(* Drop-ins with the same settings in the same places: where every Port is *)
(* global with the one, sshd takes the configuration with the other.       *)
LEMMA SamePlaces ==
  ASSUME NEW main \in Seq(SDLines), NEW drop \in Seq(SDLines), NEW other \in Seq(SDLines),
         DOMAIN other = DOMAIN drop, \A i \in DOMAIN drop : other[i].key = drop[i].key,
         Active(other, "match") = Active(drop, "match"),
         PortsGlobal(Expand(main, drop))
  PROVE  Valid(Expand(main, other))
<1> DEFINE all == Scoped(main, TRUE)
<1>1. \A g \in BOOLEAN : \A i \in DOMAIN drop :
        /\ Scoped(other, g)[i].key = Scoped(drop, g)[i].key
        /\ Scoped(other, g)[i].global = Scoped(drop, g)[i].global
  <2> SUFFICES ASSUME NEW g \in BOOLEAN, NEW i \in DOMAIN drop
               PROVE  /\ Scoped(other, g)[i].key = Scoped(drop, g)[i].key
                      /\ Scoped(other, g)[i].global = Scoped(drop, g)[i].global
    OBVIOUS
  <2>1. Scoped(drop, g)[i].key = drop[i].key /\ Scoped(drop, g)[i].global = (g /\ i \in Global(drop))
    BY ScopedIs
  <2>2. Scoped(other, g)[i].key = other[i].key /\ Scoped(other, g)[i].global = (g /\ i \in Global(other))
    BY ScopedIs
  <2>3. i \in Global(other) <=> i \in Global(drop)
    BY DEF Global
  <2>4. (g /\ i \in Global(other)) = (g /\ i \in Global(drop))
    BY <2>3
  <2> QED BY <2>1, <2>2, <2>4, Zenon
<1>2. Expand(main, drop) \in Seq(ConfigLines) /\ Expand(main, other) \in Seq(ConfigLines)
  BY ExpandIs DEF IsExpanded
<1>3. ASSUME NEW e1 \in Seq(ConfigLines), NEW e2 \in Seq(ConfigLines), PortsGlobal(e1),
             \A k \in DOMAIN e2 : \E l \in DOMAIN e1 :
               e1[l].key = e2[k].key /\ e1[l].global = e2[k].global
      PROVE  Valid(e2)
  <2>1. \A k \in DOMAIN e2 : e2[k].key = "port" => e2[k].global
    <3> SUFFICES ASSUME NEW k \in DOMAIN e2, e2[k].key = "port" PROVE e2[k].global
      OBVIOUS
    <3>1. PICK l \in DOMAIN e1 : e1[l].key = e2[k].key /\ e1[l].global = e2[k].global
      BY <1>3
    <3>2. e1[l].global
      BY <1>3, <3>1 DEF PortsGlobal
    <3> QED BY <3>1, <3>2, Zenon
  <2> QED BY <2>1, Zenon DEF Valid, InForce, Active
<1>4. CASE Active(main, "include") = {}
  <2>1. Expand(main, drop) = all /\ Expand(main, other) = all
    BY <1>4 DEF Expand
  <2> QED BY <2>1, <1>2, <1>3
<1>5. CASE Active(main, "include") # {}
  <2>1. PICK i \in DOMAIN main, g \in BOOLEAN :
          /\ main[i].key = "include"
          /\ SubSeq(all, 1, i - 1) \in Seq(ConfigLines)
          /\ SubSeq(all, i + 1, Len(main)) \in Seq(ConfigLines)
          /\ \A d : Expand(main, d) =
               SubSeq(all, 1, i - 1) \o Scoped(d, g) \o SubSeq(all, i + 1, Len(main))
    BY <1>5, ExpandParts
  <2> DEFINE a == SubSeq(all, 1, i - 1)
             c == SubSeq(all, i + 1, Len(main))
             b1 == Scoped(drop, g)
             b2 == Scoped(other, g)
             e1 == Expand(main, drop)
             e2 == Expand(main, other)
  <2>2. /\ b1 \in Seq(ConfigLines) /\ DOMAIN b1 = DOMAIN drop
        /\ b2 \in Seq(ConfigLines) /\ DOMAIN b2 = DOMAIN drop
    BY ScopedIs
  <2>3. e1 = a \o b1 \o c /\ e2 = a \o b2 \o c
    BY <2>1, Zenon
  <2>4. \A k \in DOMAIN drop : b1[k].key = b2[k].key /\ b1[k].global = b2[k].global
    BY <1>1
  <2>5. a \in Seq(ConfigLines) /\ c \in Seq(ConfigLines)
    BY <2>1
  <2> HIDE DEF all, a, c, b1, b2, e1, e2
  <2>6. IsJoined(e1, a, b1, c) /\ IsJoined(e2, a, b2, c)
    BY <2>2, <2>3, <2>5, Joined
  <2>7. Len(b1) = Len(b2) /\ DOMAIN drop = 1 .. Len(b1)
    BY <2>2
  <2>8. \A k \in DOMAIN e2 : \E l \in DOMAIN e1 :
          e1[l].key = e2[k].key /\ e1[l].global = e2[k].global
    <3> SUFFICES ASSUME NEW k \in DOMAIN e2
                 PROVE  k \in DOMAIN e1 /\ e1[k].key = e2[k].key /\ e1[k].global = e2[k].global
      OBVIOUS
    <3>1. CASE k \in 1 .. Len(a)
      BY <3>1, <2>6 DEF IsJoined
    <3>2. CASE \E j \in 1 .. Len(b2) : k = Len(a) + j
      <4>1. PICK j \in 1 .. Len(b2) : k = Len(a) + j
        BY <3>2
      <4>2. e2[k] = b2[j] /\ e1[k] = b1[j] /\ k \in DOMAIN e1 /\ j \in DOMAIN drop
        BY <4>1, <2>6, <2>7 DEF IsJoined
      <4> QED BY <4>2, <2>4
    <3>3. CASE \E j \in 1 .. Len(c) : k = Len(a) + Len(b2) + j
      <4>1. PICK j \in 1 .. Len(c) : k = Len(a) + Len(b2) + j
        BY <3>3
      <4> QED BY <4>1, <2>6, <2>7 DEF IsJoined
    <3> QED BY <3>1, <3>2, <3>3, <2>6 DEF IsJoined
  <2>9. e1 \in Seq(ConfigLines) /\ e2 \in Seq(ConfigLines) /\ PortsGlobal(e1)
    BY <1>2 DEF e1, e2
  <2> QED BY <2>8, <2>9, <1>3, Zenon DEF e2
<1> QED BY <1>4, <1>5

(* What is in force of a setting that the main file has as it was asked    *)
(* for, where the drop-in sets nothing else.                               *)
LEMMA ActiveIs ==
  ASSUME NEW main \in Seq(SDLines), NEW drop \in Seq(SDLines),
         NEW key \in {"port", "pass"}, NEW v \in SDValues,
         \A i \in DOMAIN main : main[i].key = key => main[i] = Line(key, v),
         \A i \in Active(drop, key) : drop[i].v = v
  PROVE  LET e == Expand(main, drop) IN
         /\ \A k \in Active(e, key) : e[k].v = v
         /\ \A i \in DOMAIN main : main[i].key = key =>
              \E k \in Active(e, key) : i \in Global(main) => k \in InForce(e, key)
<1> DEFINE e == Expand(main, drop)
<1>1. IsExpanded(e, main, drop)
  BY ExpandIs
<1>2. Line(key, v).key = key /\ Line(key, v).v = v /\ ~Line(key, v).off
  BY LineIs
<1> HIDE DEF e
<1>3. ASSUME NEW k \in Active(e, key) PROVE e[k].v = v
  <2>1. k \in DOMAIN e /\ e[k].key = key /\ ~e[k].off
    BY <1>3 DEF Active
  <2>2. CASE \E i \in DOMAIN main : e[k] = Scoped(main, TRUE)[i]
    <3>1. PICK i \in DOMAIN main : e[k] = Scoped(main, TRUE)[i]
      BY <2>2
    <3>2. e[k].key = main[i].key /\ e[k].v = main[i].v
      <4>1. Scoped(main, TRUE)[i].key = main[i].key /\ Scoped(main, TRUE)[i].v = main[i].v
        BY ScopedMain
      <4> QED BY <3>1, <4>1
    <3> QED BY <3>2, <2>1, <1>2
  <2>3. CASE \E j \in DOMAIN drop, g \in BOOLEAN : e[k] = Scoped(drop, g)[j]
    <3>1. PICK j \in DOMAIN drop, g \in BOOLEAN : e[k] = Scoped(drop, g)[j]
      BY <2>3
    <3>2. e[k].key = drop[j].key /\ e[k].v = drop[j].v /\ e[k].off = drop[j].off
      BY <3>1, ScopedIs
    <3>3. j \in Active(drop, key)
      BY <3>2, <2>1 DEF Active
    <3> QED BY <3>2, <3>3
  <2> QED BY <2>1, <2>2, <2>3, <1>1 DEF IsExpanded
<1>4. ASSUME NEW i \in DOMAIN main, main[i].key = key
      PROVE  \E k \in Active(e, key) : i \in Global(main) => k \in InForce(e, key)
  <2>1. PICK k \in DOMAIN e : e[k] = Scoped(main, TRUE)[i]
    BY <1>1, <1>4 DEF IsExpanded
  <2>2. /\ e[k].key = main[i].key /\ e[k].off = main[i].off
        /\ i \in Global(main) => e[k].global
    <3>1. /\ Scoped(main, TRUE)[i].key = main[i].key /\ Scoped(main, TRUE)[i].off = main[i].off
          /\ i \in Global(main) => Scoped(main, TRUE)[i].global
      BY ScopedMain
    <3> QED BY <2>1, <3>1
  <2>3. k \in Active(e, key)
    BY <2>2, <1>2, <1>4 DEF Active
  <2>4. i \in Global(main) => k \in InForce(e, key)
    BY <2>2, <2>3 DEF InForce
  <2> QED BY <2>3, <2>4
<1> QED BY <1>3, <1>4 DEF e

(* All ports are the one that was asked for, if sshd takes the files.      *)
LEMMA PortsAsAsked ==
  ASSUME NEW main \in Seq(SDLines), NEW drop \in Seq(SDLines), NEW v \in Ports,
         \A i \in DOMAIN main : main[i].key = "port" => main[i] = Line("port", v),
         \E i \in DOMAIN main : main[i].key = "port",
         \A i \in Active(drop, "port") : drop[i].v = v,
         Valid(Expand(main, drop))
  PROVE  PortsOf(Expand(main, drop)) = {v}
<1> DEFINE e == Expand(main, drop)
<1>1. v \in SDValues /\ "port" \in {"port", "pass"}
  BY DEF SDValues
<1>2. (\A k \in Active(e, "port") : e[k].v = v) /\ \E k \in Active(e, "port") : TRUE
  BY <1>1, ActiveIs
<1> HIDE DEF e
<1>3. Active(e, "port") = InForce(e, "port")
  <2>1. Valid(e)
    BY DEF e
  <2> QED BY <2>1 DEF Valid, InForce
<1>4. PortsOf(e) = {v}
  BY <1>2, <1>3 DEF PortsOf
<1> QED BY <1>4 DEF e

(* The first line for pass counts, and it is as asked for.                 *)
LEMMA PassAsAsked ==
  ASSUME NEW main \in Seq(SDLines), NEW drop \in Seq(SDLines), NEW v \in {"yes", "no"},
         \A i \in DOMAIN main : main[i].key = "pass" => main[i] = Line("pass", v),
         \E i \in Global(main) : main[i].key = "pass",
         Active(drop, "pass") = {}
  PROVE  PassOf(Expand(main, drop)) = v
<1> DEFINE e == Expand(main, drop)
           set == InForce(e, "pass")
<1>1. v \in SDValues /\ "pass" \in {"port", "pass"}
  BY DEF SDValues
<1>2. PICK i \in Global(main) : main[i].key = "pass"
  OBVIOUS
<1>3. i \in DOMAIN main
  BY DEF Global
<1>4. /\ \A k \in Active(e, "pass") : e[k].v = v
      /\ \E k \in Active(e, "pass") : i \in Global(main) => k \in set
  BY <1>1, <1>2, <1>3, ActiveIs
<1>5. e \in Seq(ConfigLines)
  BY ExpandIs DEF IsExpanded
<1> HIDE DEF e
<1>6. set # {} /\ set \subseteq Nat /\ \A k \in set : e[k].v = v
  BY <1>4, <1>5 DEF InForce, Active
<1> HIDE DEF set
<1>7. \E k \in set : \A j \in set : k <= j
  BY <1>6, LeastLine
<1>8. (CHOOSE k \in set : \A j \in set : k <= j) \in set
  BY <1>7
<1>9. e[CHOOSE k \in set : \A j \in set : k <= j].v = v
  BY <1>6, <1>8
<1> QED BY <1>6, <1>9 DEF PassOf, set, e

-----------------------------------------------------------------------------
(* SSHDConfig: the updates. *)

SDStages ==
  {"none", "backup", "main", "included", "dir", "socket", "validate", "restart", "verify",
   "restore"}
SDCallType ==
  [pc : {"idle", "next", "open", "write", "ended"}, stage : SDStages, req : Requests,
   new : Seq(SDLines), saved : 0 .. SDLastSecond, alone : BOOLEAN, before : SDFiles \cup {<<>>},
   result : {"none", "success", "invalid", "failed"}]

SDHostTypes ==
  /\ sdFile \in SDFiles
  /\ sdSocket \in [installed : BOOLEAN, port : {NotSet} \cup Ports]
  /\ sdDaemon = Down \/ sdDaemon \in Seq(ConfigLines)
  /\ sdBackup \in [1 .. SDLastSecond -> Seq(SDLines) \cup {NoBackup}]
  /\ sdNow \in 1 .. SDLastSecond /\ sdFaults \in 0 .. SDMaxFaults

InUpdate(k) == k.pc \notin {"idle", "ended"}

(* Where a call may be, and what it knows there. *)
CallPlace(k, backup) ==
  /\ k.pc = "next" => k.stage \notin {"none", "restore"}
  /\ k.pc \in {"open", "write"} => k.stage \in {"main", "included", "dir", "restore"}
  /\ k.stage \in {"included", "dir", "socket"} => k.req.port # NotSet
  /\ k.stage = "verify" => k.req.restart
  /\ InUpdate(k) => k.before \in SDFiles
  /\ InUpdate(k) /\ k.stage # "backup" =>
       k.saved \in 1 .. SDLastSecond /\ backup[k.saved] \in Seq(SDLines)

Alone ==
  \A c, d \in SDCalls :
    c # d /\ InUpdate(sdCall[c]) /\ InUpdate(sdCall[d]) => ~sdCall[c].alone

(* The drop-in after an update. *)
NewDrop(k) == SetAll(k.before["drop"], "port", k.req.port)
FinalDrop(k) == IF k.req.port = NotSet THEN k.before["drop"] ELSE NewDrop(k)

(* What an update that nothing has disturbed has made of the host, stage   *)
(* by stage.                                                               *)
Undisturbed(k, files, backup, daemon) ==
  /\ files["main"] =
       IF k.stage \in {"main", "restore"} /\ k.pc = "write" THEN <<>>
       ELSE IF k.stage \in {"backup", "main"} THEN k.before["main"]
       ELSE NewMain(k.before["main"], k.req)
  /\ k.stage \in {"backup", "main"} => files["drop"] = k.before["drop"]
  /\ k.stage \in {"included", "dir"} /\ k.pc = "write" => files["drop"] = <<>>
  /\ k.stage = "included" /\ k.pc # "write" => files["drop"] = k.before["drop"]
  /\ k.stage = "dir" /\ k.pc # "write" => files["drop"] \in {k.before["drop"], NewDrop(k)}
  /\ k.stage \in {"socket", "validate", "restart", "verify", "restore"} =>
       files["drop"] = FinalDrop(k)
  /\ k.pc \in {"open", "write"} => k.new =
       CASE k.stage = "main" -> NewMain(k.before["main"], k.req)
         [] k.stage = "restore" -> k.before["main"]
         [] OTHER -> NewDrop(k)
  /\ k.stage # "backup" => backup[k.saved] = k.before["main"]
  /\ k.stage \in {"restart", "verify"} /\ k.req.validate => Valid(ConfigOf(files))
  /\ k.stage = "verify" => daemon = ConfigOf(files)

SDInv ==
  /\ SDHostTypes
  /\ sdCall \in [SDCalls -> SDCallType]
  /\ \A c \in SDCalls : CallPlace(sdCall[c], sdBackup)
  /\ Alone
  /\ \A c \in SDCalls : InUpdate(sdCall[c]) /\ sdCall[c].alone =>
       Undisturbed(sdCall[c], sdFile, sdBackup, sdDaemon)

LEMMA NoCallIs ==
  /\ NoSDCall \in SDCallType
  /\ NoSDCall.pc = "idle" /\ NoSDCall.stage = "none" /\ NoSDCall.saved = 0
  /\ NoSDCall.alone = TRUE /\ NoSDCall.before = <<>> /\ NoSDCall.result = "none"
<1>1. (CHOOSE r \in Requests : TRUE) \in Requests
  BY SSHDConfigAssumption
<1>2. 0 \in 0 .. SDLastSecond
  BY SSHDConfigAssumption
<1>3. <<>> \in Seq(SDLines)
  OBVIOUS
<1> QED BY <1>1, <1>2, <1>3 DEF NoSDCall, SDCallType, SDStages

LEMMA ConfigIs ==
  ASSUME NEW files \in SDFiles
  PROVE  ConfigOf(files) \in Seq(ConfigLines)
<1>1. files["main"] \in Seq(SDLines) /\ files["drop"] \in Seq(SDLines)
  BY DEF SDFiles
<1> QED BY <1>1, ExpandIs DEF ConfigOf, IsExpanded

LEMMA SDInvInit == SDInit => SDInv
<1> SUFFICES ASSUME SDInit PROVE SDInv
  OBVIOUS
<1>1. sdFile \in SDFiles
  <2>1. sdFile \in [{"main", "drop"} -> Mains \cup DropIns]
    BY DEF SDInit
  <2>2. Mains \cup DropIns \subseteq Seq(SDLines)
    BY SSHDConfigAssumption
  <2> QED BY <2>1, <2>2 DEF SDFiles
<1>2. sdDaemon = Down \/ sdDaemon \in Seq(ConfigLines)
  <2>1. sdDaemon \in {Config, Down}
    BY DEF SDInit
  <2> QED BY <2>1, <1>1, ConfigIs DEF Config
<1>3. SDHostTypes
  <2>1. sdSocket \in [installed : BOOLEAN, port : {NotSet} \cup Ports]
    BY DEF SDInit
  <2>2. sdBackup \in [1 .. SDLastSecond -> Seq(SDLines) \cup {NoBackup}]
    BY DEF SDInit
  <2>3. sdNow \in 1 .. SDLastSecond /\ sdFaults \in 0 .. SDMaxFaults
    BY SSHDConfigAssumption DEF SDInit
  <2> QED BY <1>1, <1>2, <2>1, <2>2, <2>3 DEF SDHostTypes
<1>4. sdCall = [c \in SDCalls |-> NoSDCall]
  BY DEF SDInit
<1>5. \A c \in SDCalls : sdCall[c] = NoSDCall
  BY <1>4
<1>6. sdCall \in [SDCalls -> SDCallType]
  BY <1>4, NoCallIs
<1> QED BY <1>3, <1>5, <1>6, NoCallIs DEF SDInv, CallPlace, Alone, InUpdate

(* What the steps of call c have in common: the others stay as they are.   *)
OneMoves(c) ==
  sdCall' \in [SDCalls -> SDCallType] /\ \A d \in SDCalls \ {c} : sdCall'[d] = sdCall[d]

(* A call under way that takes a step answers for itself alone: the others *)
(* that are under way have not been alone since it began.                  *)
LEMMA OneMovesKeeps ==
  ASSUME SDInv, NEW c \in SDCalls, InUpdate(sdCall[c]), OneMoves(c), SDHostTypes',
         sdCall'[c].alone = sdCall[c].alone \/ ~InUpdate(sdCall'[c]),
         sdBackup' = sdBackup \/ sdBackup' = [sdBackup EXCEPT ![sdNow] = sdFile["main"]],
         CallPlace(sdCall'[c], sdBackup'),
         InUpdate(sdCall'[c]) /\ sdCall'[c].alone =>
           Undisturbed(sdCall'[c], sdFile', sdBackup', sdDaemon')
  PROVE  SDInv'
<1>1. sdCall' \in [SDCalls -> SDCallType]
  BY DEF OneMoves
<1>2. \A d \in SDCalls : CallPlace(sdCall'[d], sdBackup')
  <2> SUFFICES ASSUME NEW d \in SDCalls, d # c PROVE CallPlace(sdCall'[d], sdBackup')
    OBVIOUS
  <2>1. CallPlace(sdCall[d], sdBackup) /\ sdCall'[d] = sdCall[d]
    BY DEF OneMoves, SDInv
  <2>2. sdFile["main"] \in Seq(SDLines)
    BY DEF SDInv, SDHostTypes, SDFiles
  <2>3. \A s \in 1 .. SDLastSecond :
          sdBackup[s] \in Seq(SDLines) => sdBackup'[s] \in Seq(SDLines)
    BY <2>2 DEF SDInv, SDHostTypes
  <2> QED BY <2>1, <2>3 DEF CallPlace
<1>3. \A d \in SDCalls : InUpdate(sdCall'[d]) => InUpdate(sdCall[d]) /\ sdCall'[d].alone = sdCall[d].alone
  BY DEF OneMoves
<1>4. \A d, e \in SDCalls :
        d # e /\ InUpdate(sdCall'[d]) /\ InUpdate(sdCall'[e]) => ~sdCall'[d].alone
  <2> SUFFICES ASSUME NEW d \in SDCalls, NEW e \in SDCalls, d # e,
                      InUpdate(sdCall'[d]), InUpdate(sdCall'[e]), sdCall'[d].alone
               PROVE  FALSE
    OBVIOUS
  <2>1. InUpdate(sdCall[d]) /\ InUpdate(sdCall[e]) /\ sdCall'[d].alone = sdCall[d].alone
    BY <1>3
  <2> QED BY <2>1 DEF SDInv, Alone
<1>5. ASSUME NEW d \in SDCalls, InUpdate(sdCall'[d]), sdCall'[d].alone
      PROVE  Undisturbed(sdCall'[d], sdFile', sdBackup', sdDaemon')
  <2>1. CASE d = c
    BY <2>1, <1>5
  <2>2. CASE d # c
    <3>1. InUpdate(sdCall[d]) /\ sdCall[d].alone
      BY <1>3, <1>5
    <3> QED BY <3>1, <2>2 DEF SDInv, Alone
  <2> QED BY <2>1, <2>2
<1>6. Alone'
  BY <1>4 DEF Alone
<1>7. SDHostTypes'
  OBVIOUS
<1> QED BY <1>1, <1>2, <1>5, <1>6, <1>7 DEF SDInv

LEMMA SDGotoIs ==
  ASSUME sdCall \in [SDCalls -> SDCallType], NEW c \in SDCalls, NEW s \in SDStages, SDGoto(c, s)
  PROVE  /\ OneMoves(c)
         /\ sdCall'[c].pc = "next" /\ sdCall'[c].stage = s
         /\ sdCall'[c].req = sdCall[c].req /\ sdCall'[c].saved = sdCall[c].saved
         /\ sdCall'[c].alone = sdCall[c].alone /\ sdCall'[c].before = sdCall[c].before
<1>1. sdCall' = [sdCall EXCEPT ![c] = [sdCall[c] EXCEPT !.pc = "next", !.stage = s]]
  BY DEF SDGoto
<1>2. sdCall[c] \in SDCallType
  OBVIOUS
<1>3. [sdCall[c] EXCEPT !.pc = "next", !.stage = s] \in SDCallType
  BY <1>2 DEF SDCallType
<1> QED BY <1>1, <1>2, <1>3 DEF OneMoves, SDCallType

LEMMA SDEndIs ==
  ASSUME sdCall \in [SDCalls -> SDCallType], NEW c \in SDCalls,
         NEW how \in {"success", "invalid", "failed"}, SDEnd(c, how)
  PROVE  /\ OneMoves(c)
         /\ sdCall'[c].pc = "ended" /\ sdCall'[c].stage = "none"
         /\ sdCall'[c].req = sdCall[c].req /\ sdCall'[c].result = how
<1> DEFINE k == [NoSDCall EXCEPT !.pc = "ended", !.req = Req(c), !.result = how]
<1>1. sdCall' = [sdCall EXCEPT ![c] = k]
  BY DEF SDEnd
<1>2. sdCall[c].req \in Requests
  BY DEF SDCallType
<1>3. k \in SDCallType /\ k.pc = "ended" /\ k.stage = "none" /\ k.req = sdCall[c].req /\ k.result = how
  BY <1>2, NoCallIs DEF SDCallType, Req
<1> HIDE DEF k
<1> QED BY <1>1, <1>3 DEF OneMoves

LEMMA SDOpenIs ==
  ASSUME sdCall \in [SDCalls -> SDCallType], NEW c \in SDCalls, NEW new \in Seq(SDLines),
         NEW s \in SDStages,
         sdCall' = [sdCall EXCEPT ![c] = [sdCall[c] EXCEPT !.pc = "open", !.stage = s, !.new = new]]
  PROVE  /\ OneMoves(c)
         /\ sdCall'[c].pc = "open" /\ sdCall'[c].stage = s /\ sdCall'[c].new = new
         /\ sdCall'[c].req = sdCall[c].req /\ sdCall'[c].saved = sdCall[c].saved
         /\ sdCall'[c].alone = sdCall[c].alone /\ sdCall'[c].before = sdCall[c].before
<1>1. sdCall[c] \in SDCallType
  OBVIOUS
<1>2. [sdCall[c] EXCEPT !.pc = "open", !.stage = s, !.new = new] \in SDCallType
  BY <1>1 DEF SDCallType
<1> QED BY <1>1, <1>2 DEF OneMoves, SDCallType

(* The lines with which a call works. *)
LEMMA LinesOf ==
  ASSUME NEW k \in SDCallType, k.before \in SDFiles
  PROVE  /\ k.before["main"] \in Seq(SDLines) /\ k.before["drop"] \in Seq(SDLines)
         /\ NewMain(k.before["main"], k.req) \in Seq(SDLines)
         /\ k.req.port # NotSet =>
              /\ NewDrop(k) \in Seq(SDLines)
              /\ SetAll(NewDrop(k), "port", k.req.port) = NewDrop(k)
              /\ Has(NewDrop(k), "port") <=> Has(k.before["drop"], "port")
              /\ ~Has(k.before["drop"], "port") => NewDrop(k) = k.before["drop"]
<1>1. k.before["main"] \in Seq(SDLines) /\ k.before["drop"] \in Seq(SDLines) /\ k.req \in Requests
  BY DEF SDFiles, SDCallType
<1>2. NewMain(k.before["main"], k.req) \in Seq(SDLines)
  BY <1>1, NewMainIs
<1>3. ASSUME k.req.port # NotSet
      PROVE  /\ NewDrop(k) \in Seq(SDLines)
             /\ SetAll(NewDrop(k), "port", k.req.port) = NewDrop(k)
             /\ Has(NewDrop(k), "port") <=> Has(k.before["drop"], "port")
             /\ ~Has(k.before["drop"], "port") => NewDrop(k) = k.before["drop"]
  <2>1. k.req.port \in SDValues /\ "port" \in {"port", "pass"}
    BY <1>1, <1>3, RequestIs DEF SDValues
  <2>2. /\ SetAll(k.before["drop"], "port", k.req.port) \in Seq(SDLines)
        /\ SetAll(SetAll(k.before["drop"], "port", k.req.port), "port", k.req.port)
             = SetAll(k.before["drop"], "port", k.req.port)
        /\ Has(SetAll(k.before["drop"], "port", k.req.port), "port") <=> Has(k.before["drop"], "port")
        /\ ~Has(k.before["drop"], "port") =>
             SetAll(k.before["drop"], "port", k.req.port) = k.before["drop"]
    BY <1>1, <2>1, SetAllIs, SetAllKeeps, Zenon
  <2> QED BY <2>2 DEF NewDrop
<1> QED BY <1>1, <1>2, <1>3

(* The write fills the file that the open has emptied. *)
LEMMA AllIsWritten ==
  ASSUME NEW new \in Seq(SDLines)
  PROVE  new \o SubSeq(<<>>, Len(new) + 1, Len(<<>>)) = new
<1>1. Len(<<>>) = 0 /\ Len(new) + 1 > 0
  OBVIOUS
<1>2. SubSeq(<<>>, Len(new) + 1, Len(<<>>)) = <<>>
  BY <1>1
<1> QED BY <1>2

LEMMA SaveMainKeeps == ASSUME SDInv, NEW c \in SDCalls, SaveMain(c) PROVE SDInv'
<1> DEFINE k == sdCall[c]
<1>1. /\ k \in SDCallType /\ k.pc = "next" /\ k.stage = "backup" /\ InUpdate(k)
      /\ sdNow \in 1 .. SDLastSecond
  BY DEF SaveMain, Stage, SDInv, InUpdate, SDHostTypes
<1>2. sdCall' = [sdCall EXCEPT ![c] = [k EXCEPT !.stage = "main", !.saved = sdNow]]
  BY DEF SaveMain
<1>3. [k EXCEPT !.stage = "main", !.saved = sdNow] \in SDCallType
  <2>1. sdNow \in 0 .. SDLastSecond /\ "main" \in SDStages
    BY <1>1, SSHDConfigAssumption DEF SDStages
  <2> HIDE DEF k
  <2> QED BY <1>1, <2>1 DEF SDCallType
<1>4. /\ OneMoves(c)
      /\ sdCall'[c].pc = "next" /\ sdCall'[c].stage = "main" /\ sdCall'[c].saved = sdNow
      /\ sdCall'[c].req = k.req /\ sdCall'[c].alone = k.alone /\ sdCall'[c].before = k.before
  BY <1>1, <1>2, <1>3 DEF OneMoves, SDCallType, SDInv
<1> HIDE DEF k
<1>5. CallPlace(k, sdBackup) /\ k.before \in SDFiles
  BY <1>1 DEF k, SDInv, CallPlace
<1>6. SDHostTypes'
  BY DEF SaveMain, SDInv, SDHostTypes, SDFiles, onHost
<1>7. CallPlace(sdCall'[c], sdBackup')
  <2>1. sdBackup'[sdNow] \in Seq(SDLines)
    BY <1>1 DEF SaveMain, SDInv, SDHostTypes, SDFiles
  <2> QED BY <1>1, <1>4, <1>5, <2>1 DEF CallPlace, InUpdate
<1>8. ASSUME k.alone PROVE Undisturbed(sdCall'[c], sdFile', sdBackup', sdDaemon')
  <2>1. Undisturbed(k, sdFile, sdBackup, sdDaemon)
    BY <1>1, <1>8 DEF k, SDInv
  <2>2. sdBackup'[sdNow] = sdFile["main"] /\ sdFile' = sdFile /\ sdDaemon' = sdDaemon
    BY <1>1 DEF SaveMain, SDInv, SDHostTypes, onHost
  <2> QED BY <2>1, <2>2, <1>1, <1>4 DEF Undisturbed
<1>9. sdBackup' = [sdBackup EXCEPT ![sdNow] = sdFile["main"]]
  BY DEF SaveMain
<1> QED BY <1>1, <1>4, <1>6, <1>7, <1>8, <1>9, OneMovesKeeps DEF k

LEMMA ReadMainKeeps == ASSUME SDInv, NEW c \in SDCalls, ReadMain(c) PROVE SDInv'
<1> DEFINE k == sdCall[c]
           new == NewMain(sdFile["main"], k.req)
<1>1. /\ k \in SDCallType /\ k.pc = "next" /\ k.stage = "main" /\ InUpdate(k)
      /\ sdCall \in [SDCalls -> SDCallType] /\ k.req \in Requests
  BY DEF ReadMain, Stage, SDInv, InUpdate, SDCallType
<1>2. new \in Seq(SDLines)
  <2>1. sdFile["main"] \in Seq(SDLines)
    BY DEF SDInv, SDHostTypes, SDFiles
  <2> QED BY <1>1, <2>1, NewMainIs
<1>3. sdCall' = [sdCall EXCEPT ![c] = [k EXCEPT !.pc = "open", !.stage = "main", !.new = new]]
  BY <1>1 DEF ReadMain, Req, SDCallType
<1>4. /\ OneMoves(c)
      /\ sdCall'[c].pc = "open" /\ sdCall'[c].stage = "main" /\ sdCall'[c].new = new
      /\ sdCall'[c].req = k.req /\ sdCall'[c].saved = k.saved
      /\ sdCall'[c].alone = k.alone /\ sdCall'[c].before = k.before
  <2>1. "main" \in SDStages
    BY DEF SDStages
  <2> HIDE DEF new
  <2> QED BY <1>1, <1>2, <1>3, <2>1, SDOpenIs
<1>5. CallPlace(k, sdBackup) /\ k.before \in SDFiles
  BY <1>1 DEF SDInv, CallPlace
<1>6. SDHostTypes' /\ sdFile' = sdFile /\ sdBackup' = sdBackup
  BY DEF ReadMain, SDInv, SDHostTypes, SDFiles, onHost
<1>7. CallPlace(sdCall'[c], sdBackup')
  BY <1>1, <1>4, <1>5, <1>6 DEF CallPlace, InUpdate
<1>8. ASSUME k.alone PROVE Undisturbed(sdCall'[c], sdFile', sdBackup', sdDaemon')
  <2>1. Undisturbed(k, sdFile, sdBackup, sdDaemon)
    BY <1>1, <1>8 DEF SDInv
  <2> QED BY <2>1, <1>1, <1>4, <1>6 DEF Undisturbed
<1> QED BY <1>1, <1>4, <1>6, <1>7, <1>8, OneMovesKeeps

LEMMA ReadDropInKeeps == ASSUME SDInv, NEW c \in SDCalls, ReadDropIn(c) PROVE SDInv'
<1> DEFINE k == sdCall[c]
           new == SetAll(sdFile["drop"], "port", k.req.port)
           skips == \/ Stage(c, "included") /\ ~Included(sdFile["main"])
                    \/ ~Has(sdFile["drop"], "port")
<1>1. /\ k \in SDCallType /\ k.pc = "next" /\ k.stage \in {"included", "dir"} /\ InUpdate(k)
      /\ sdCall \in [SDCalls -> SDCallType] /\ k.req \in Requests
  BY DEF ReadDropIn, Stage, SDInv, InUpdate, SDCallType
<1>2. CallPlace(k, sdBackup) /\ k.before \in SDFiles /\ k.req.port # NotSet
  BY <1>1 DEF SDInv, CallPlace
<1>3. SDHostTypes' /\ sdFile' = sdFile /\ sdBackup' = sdBackup
  BY DEF ReadDropIn, SDInv, SDHostTypes, SDFiles, onHost
<1>4. ASSUME k.alone PROVE Undisturbed(k, sdFile, sdBackup, sdDaemon)
  BY <1>1, <1>4 DEF SDInv
<1>5. CASE skips
  <2> DEFINE s == IF k.stage = "included" THEN "dir" ELSE "socket"
  <2>1. s \in SDStages /\ SDGoto(c, s)
    BY <1>1, <1>5 DEF ReadDropIn, NextStage, SDStages
  <2>2. /\ OneMoves(c)
        /\ sdCall'[c].pc = "next" /\ sdCall'[c].stage = s
        /\ sdCall'[c].req = k.req /\ sdCall'[c].saved = k.saved
        /\ sdCall'[c].alone = k.alone /\ sdCall'[c].before = k.before
    <3> HIDE DEF s
    <3> QED BY <1>1, <2>1, SDGotoIs
  <2>3. CallPlace(sdCall'[c], sdBackup')
    BY <1>1, <1>2, <1>3, <2>2 DEF CallPlace, InUpdate
  <2>4. ASSUME k.alone PROVE Undisturbed(sdCall'[c], sdFile', sdBackup', sdDaemon')
    <3>1. Undisturbed(k, sdFile, sdBackup, sdDaemon)
      BY <1>4, <2>4
    <3>2. k.stage = "dir" => sdFile["drop"] = NewDrop(k)
      <4> SUFFICES ASSUME k.stage = "dir" PROVE sdFile["drop"] = NewDrop(k)
        OBVIOUS
      <4>1. sdFile["drop"] \in {k.before["drop"], NewDrop(k)}
        BY <3>1, <1>1 DEF Undisturbed
      <4>2. ~Has(sdFile["drop"], "port")
        BY <1>5 DEF Stage
      <4> QED BY <4>1, <4>2, <1>1, <1>2, LinesOf
    <3>3. NewDrop(sdCall'[c]) = NewDrop(k)
      BY <2>2 DEF NewDrop
    <3>4. FinalDrop(sdCall'[c]) = NewDrop(k)
      BY <2>2, <1>2, <3>3 DEF FinalDrop
    <3> HIDE DEF k
    <3> QED BY <3>1, <3>2, <3>3, <3>4, <1>1, <1>3, <2>2 DEF Undisturbed
  <2> QED BY <1>1, <1>3, <2>2, <2>3, <2>4, OneMovesKeeps
<1>6. CASE ~skips
  <2>1. sdFile["drop"] \in Seq(SDLines)
    BY DEF SDInv, SDHostTypes, SDFiles
  <2>2. new \in Seq(SDLines)
    <3>1. k.req.port \in SDValues /\ "port" \in {"port", "pass"}
      BY <1>1, <1>2, RequestIs DEF SDValues
    <3> QED BY <2>1, <3>1, SetAllIs
  <2>3. sdCall' = [sdCall EXCEPT ![c] = [k EXCEPT !.pc = "open", !.stage = k.stage, !.new = new]]
    BY <1>1, <1>6 DEF ReadDropIn, Req, SDCallType
  <2>4. k.stage \in SDStages
    BY <1>1 DEF SDCallType
  <2>5. /\ OneMoves(c)
        /\ sdCall'[c].pc = "open" /\ sdCall'[c].stage = k.stage /\ sdCall'[c].new = new
        /\ sdCall'[c].req = k.req /\ sdCall'[c].saved = k.saved
        /\ sdCall'[c].alone = k.alone /\ sdCall'[c].before = k.before
    <3> HIDE DEF new
    <3> QED BY <1>1, <2>2, <2>3, <2>4, SDOpenIs
  <2>6. CallPlace(sdCall'[c], sdBackup')
    BY <1>1, <1>2, <1>3, <2>5 DEF CallPlace, InUpdate
  <2>7. ASSUME k.alone PROVE Undisturbed(sdCall'[c], sdFile', sdBackup', sdDaemon')
    <3>1. Undisturbed(k, sdFile, sdBackup, sdDaemon)
      BY <1>4, <2>7
    <3>2. new = NewDrop(k)
      <4>1. sdFile["drop"] \in {k.before["drop"], NewDrop(k)}
        BY <3>1, <1>1 DEF Undisturbed
      <4> QED BY <4>1, <1>1, <1>2, LinesOf DEF NewDrop
    <3>3. NewDrop(sdCall'[c]) = NewDrop(k)
      BY <2>5 DEF NewDrop
    <3> HIDE DEF k, new
    <3> QED BY <3>1, <3>2, <3>3, <1>1, <1>3, <2>5 DEF Undisturbed
  <2> QED BY <1>1, <1>3, <2>5, <2>6, <2>7, OneMovesKeeps
<1> QED BY <1>5, <1>6

LEMMA OpenConfigKeeps == ASSUME SDInv, NEW c \in SDCalls, OpenConfig(c) PROVE SDInv'
<1> DEFINE k == sdCall[c]
<1>1. /\ k \in SDCallType /\ k.pc = "open" /\ InUpdate(k)
      /\ sdCall \in [SDCalls -> SDCallType] /\ sdFile \in SDFiles
  BY DEF OpenConfig, SDInv, InUpdate, SDHostTypes
<1>2. CallPlace(k, sdBackup) /\ k.stage \in {"main", "included", "dir", "restore"}
  BY <1>1 DEF SDInv, CallPlace
<1>3. sdCall' = [sdCall EXCEPT ![c] = [k EXCEPT !.pc = "write"]]
  BY DEF OpenConfig
<1>4. /\ OneMoves(c)
      /\ sdCall'[c].pc = "write" /\ sdCall'[c].stage = k.stage /\ sdCall'[c].new = k.new
      /\ sdCall'[c].req = k.req /\ sdCall'[c].saved = k.saved
      /\ sdCall'[c].alone = k.alone /\ sdCall'[c].before = k.before
  <2>1. [k EXCEPT !.pc = "write"] \in SDCallType
    BY <1>1 DEF SDCallType
  <2> QED BY <1>1, <1>3, <2>1 DEF OneMoves, SDCallType
<1>5. /\ sdFile' \in SDFiles
      /\ k.stage \in {"main", "restore"} => sdFile'["main"] = <<>> /\ sdFile'["drop"] = sdFile["drop"]
      /\ k.stage \in {"included", "dir"} => sdFile'["drop"] = <<>> /\ sdFile'["main"] = sdFile["main"]
  <2>1. <<>> \in Seq(SDLines)
    OBVIOUS
  <2>2. FileOf(c) = IF k.stage \in {"main", "restore"} THEN "main" ELSE "drop"
    BY DEF FileOf
  <2>3. sdFile' = [sdFile EXCEPT ![FileOf(c)] = <<>>]
    BY DEF OpenConfig
  <2> HIDE DEF k
  <2> QED BY <1>1, <2>1, <2>2, <2>3 DEF SDFiles
<1>6. SDHostTypes' /\ sdBackup' = sdBackup /\ sdDaemon' = sdDaemon
  BY <1>5 DEF OpenConfig, SDInv, SDHostTypes
<1>7. CallPlace(sdCall'[c], sdBackup')
  BY <1>1, <1>2, <1>4, <1>6 DEF CallPlace, InUpdate
<1>8. ASSUME k.alone PROVE Undisturbed(sdCall'[c], sdFile', sdBackup', sdDaemon')
  <2>1. Undisturbed(k, sdFile, sdBackup, sdDaemon)
    BY <1>1, <1>8 DEF SDInv
  <2>2. NewDrop(sdCall'[c]) = NewDrop(k) /\ FinalDrop(sdCall'[c]) = FinalDrop(k)
    BY <1>4 DEF NewDrop, FinalDrop
  <2> HIDE DEF k
  <2> QED BY <2>1, <2>2, <1>1, <1>2, <1>4, <1>5, <1>6 DEF Undisturbed
<1> QED BY <1>1, <1>4, <1>6, <1>7, <1>8, OneMovesKeeps

LEMMA WriteConfigKeeps == ASSUME SDInv, NEW c \in SDCalls, WriteConfig(c) PROVE SDInv'
<1> DEFINE k == sdCall[c]
           f == FileOf(c)
           all == k.new \o SubSeq(sdFile[f], Len(k.new) + 1, Len(sdFile[f]))
<1>1. /\ k \in SDCallType /\ k.pc = "write" /\ InUpdate(k) /\ k.new \in Seq(SDLines)
      /\ sdCall \in [SDCalls -> SDCallType] /\ sdFile \in SDFiles
  BY DEF WriteConfig, SDInv, InUpdate, SDHostTypes, SDCallType
<1>2. /\ CallPlace(k, sdBackup) /\ k.stage \in {"main", "included", "dir", "restore"}
      /\ k.before \in SDFiles
  BY <1>1 DEF SDInv, CallPlace
<1>3. f = IF k.stage \in {"main", "restore"} THEN "main" ELSE "drop"
  BY DEF FileOf
<1>4. /\ sdFile' \in SDFiles /\ sdFile'[f] = all
      /\ k.stage \in {"main", "restore"} => sdFile'["drop"] = sdFile["drop"]
      /\ k.stage \in {"included", "dir"} => sdFile'["main"] = sdFile["main"]
  <2>1. sdFile[f] \in Seq(SDLines)
    BY <1>1, <1>3 DEF SDFiles
  <2>2. all \in Seq(SDLines)
    <3> HIDE DEF k, f
    <3> QED BY <1>1, <2>1
  <2>3. sdFile' = [sdFile EXCEPT ![f] = all]
    BY DEF WriteConfig
  <2> HIDE DEF k, f, all
  <2> QED BY <1>1, <1>3, <2>2, <2>3 DEF SDFiles
<1>5. SDHostTypes' /\ sdBackup' = sdBackup /\ sdDaemon' = sdDaemon
  BY <1>4 DEF WriteConfig, SDInv, SDHostTypes
<1>6. CASE k.stage = "restore"
  <2>1. SDEnd(c, "invalid")
    BY <1>6 DEF WriteConfig
  <2>2. OneMoves(c) /\ sdCall'[c].pc = "ended" /\ sdCall'[c].stage = "none"
    BY <1>1, <2>1, SDEndIs
  <2>3. CallPlace(sdCall'[c], sdBackup') /\ ~InUpdate(sdCall'[c])
    BY <2>2 DEF CallPlace, InUpdate
  <2> QED BY <1>1, <1>5, <2>2, <2>3, OneMovesKeeps
<1>7. CASE k.stage # "restore"
  <2> DEFINE s == NextStage(c)
  <2>1. s = IF k.stage = "main" THEN IF k.req.port = NotSet THEN "validate" ELSE "included"
            ELSE IF k.stage = "included" THEN "dir" ELSE "socket"
    BY <1>2, <1>7 DEF NextStage, Req
  <2>2. SDGoto(c, s) /\ s \in SDStages
    BY <1>7, <2>1 DEF WriteConfig, SDStages
  <2>3. /\ OneMoves(c)
        /\ sdCall'[c].pc = "next" /\ sdCall'[c].stage = s
        /\ sdCall'[c].req = k.req /\ sdCall'[c].saved = k.saved
        /\ sdCall'[c].alone = k.alone /\ sdCall'[c].before = k.before
    <3> HIDE DEF s
    <3> QED BY <1>1, <2>2, SDGotoIs
  <2>4. CallPlace(sdCall'[c], sdBackup')
    <3> HIDE DEF k, s
    <3> QED BY <1>1, <1>2, <1>5, <1>7, <2>1, <2>3 DEF CallPlace, InUpdate
  <2>5. ASSUME k.alone PROVE Undisturbed(sdCall'[c], sdFile', sdBackup', sdDaemon')
    <3>1. Undisturbed(k, sdFile, sdBackup, sdDaemon)
      BY <1>1, <2>5 DEF SDInv
    <3>2. sdFile[f] = <<>>
      BY <3>1, <1>1, <1>2, <1>3 DEF Undisturbed
    <3>3. sdFile'[f] = k.new
      BY <3>2, <1>1, <1>4, AllIsWritten
    <3>4. NewDrop(sdCall'[c]) = NewDrop(k) /\ FinalDrop(sdCall'[c]) = FinalDrop(k)
      BY <2>3 DEF NewDrop, FinalDrop
    <3>5. FinalDrop(k) = IF k.req.port = NotSet THEN k.before["drop"] ELSE NewDrop(k)
      BY DEF FinalDrop
    <3>6. k.stage \in {"included", "dir"} => k.req.port # NotSet
      BY <1>2 DEF CallPlace
    <3> HIDE DEF k, s, f, all
    <3> QED BY <3>1, <3>3, <3>4, <3>5, <3>6, <1>1, <1>2, <1>3, <1>4, <1>5, <1>7, <2>1, <2>3 DEF Undisturbed
  <2> QED BY <1>1, <1>5, <2>3, <2>4, <2>5, OneMovesKeeps
<1> QED BY <1>6, <1>7

LEMMA SetSocketKeeps == ASSUME SDInv, NEW c \in SDCalls, SetSocket(c) PROVE SDInv'
<1> DEFINE k == sdCall[c]
<1>1. /\ k \in SDCallType /\ k.pc = "next" /\ k.stage = "socket" /\ InUpdate(k)
      /\ sdCall \in [SDCalls -> SDCallType] /\ k.req \in Requests
  BY DEF SetSocket, Stage, SDInv, InUpdate, SDCallType
<1>2. CallPlace(k, sdBackup) /\ k.req.port # NotSet
  BY <1>1 DEF SDInv, CallPlace
<1>3. sdFile' = sdFile /\ sdBackup' = sdBackup
  BY DEF SetSocket
<1>4. SDHostTypes'
  <2>1. sdSocket' \in [installed : BOOLEAN, port : {NotSet} \cup Ports]
    <3>1. sdSocket \in [installed : BOOLEAN, port : {NotSet} \cup Ports]
      BY DEF SDInv, SDHostTypes
    <3>2. k.req.port \in Ports
      BY <1>1, <1>2, RequestIs
    <3>3. sdSocket' = sdSocket \/ sdSocket' = [sdSocket EXCEPT !.port = k.req.port]
      BY DEF SetSocket, Req
    <3> HIDE DEF k
    <3> QED BY <3>1, <3>2, <3>3
  <2>2. sdDaemon' = Down \/ sdDaemon' \in Seq(ConfigLines)
    <3>1. Config \in Seq(ConfigLines)
      BY ConfigIs DEF SDInv, SDHostTypes, Config
    <3>2. sdDaemon' \in {sdDaemon, Config, Down}
      BY DEF SetSocket, Restarted
    <3>3. sdDaemon = Down \/ sdDaemon \in Seq(ConfigLines)
      BY DEF SDInv, SDHostTypes
    <3> QED BY <3>1, <3>2, <3>3
  <2> QED BY <2>1, <2>2 DEF SetSocket, SDInv, SDHostTypes
<1>5. /\ OneMoves(c)
      /\ sdCall'[c].pc = "next" /\ sdCall'[c].stage = "validate"
      /\ sdCall'[c].req = k.req /\ sdCall'[c].saved = k.saved
      /\ sdCall'[c].alone = k.alone /\ sdCall'[c].before = k.before
  <2>1. SDGoto(c, "validate") /\ "validate" \in SDStages
    BY DEF SetSocket, SDStages
  <2> QED BY <1>1, <2>1, SDGotoIs
<1>6. CallPlace(sdCall'[c], sdBackup')
  BY <1>1, <1>2, <1>3, <1>5 DEF CallPlace, InUpdate
<1>7. ASSUME k.alone PROVE Undisturbed(sdCall'[c], sdFile', sdBackup', sdDaemon')
  <2>1. Undisturbed(k, sdFile, sdBackup, sdDaemon)
    BY <1>1, <1>7 DEF SDInv
  <2>2. FinalDrop(sdCall'[c]) = FinalDrop(k)
    BY <1>5 DEF NewDrop, FinalDrop
  <2> HIDE DEF k
  <2> QED BY <2>1, <2>2, <1>1, <1>3, <1>5 DEF Undisturbed
<1> QED BY <1>1, <1>3, <1>4, <1>5, <1>6, <1>7, OneMovesKeeps

(* The call turns to the backup, after a validation that refuses.          *)
TurnsBack(c) ==
  sdCall' = [sdCall EXCEPT ![c].pc = "open", ![c].stage = "restore", ![c].new = ToRestore(c)]

LEMMA TurnsBackKeeps ==
  ASSUME SDInv, NEW c \in SDCalls, Stage(c, "validate"), TurnsBack(c),
         UNCHANGED <<onHost, sdBackup, sdNow>>, sdFaults' \in 0 .. SDMaxFaults
  PROVE  SDInv'
<1> DEFINE k == sdCall[c]
<1>1. /\ k \in SDCallType /\ k.pc = "next" /\ k.stage = "validate" /\ InUpdate(k)
      /\ sdCall \in [SDCalls -> SDCallType]
  BY DEF Stage, SDInv, InUpdate
<1>2. CallPlace(k, sdBackup) /\ sdBackup[k.saved] \in Seq(SDLines)
  BY <1>1 DEF SDInv, CallPlace
<1>3. SDHostTypes' /\ sdFile' = sdFile /\ sdBackup' = sdBackup
  BY DEF SDInv, SDHostTypes, onHost
<1>4. /\ OneMoves(c)
      /\ sdCall'[c].pc = "open" /\ sdCall'[c].stage = "restore"
      /\ sdCall'[c].new = sdBackup[k.saved]
      /\ sdCall'[c].req = k.req /\ sdCall'[c].saved = k.saved
      /\ sdCall'[c].alone = k.alone /\ sdCall'[c].before = k.before
  <2>1. sdCall' = [sdCall EXCEPT ![c] =
          [k EXCEPT !.pc = "open", !.stage = "restore", !.new = sdBackup[k.saved]]]
    BY DEF TurnsBack, ToRestore
  <2>2. "restore" \in SDStages
    BY DEF SDStages
  <2> HIDE DEF k
  <2>3. [k EXCEPT !.pc = "open", !.stage = "restore", !.new = sdBackup[k.saved]] \in SDCallType
    BY <1>1, <1>2, <2>2 DEF SDCallType
  <2> QED BY <1>1, <2>1, <2>3 DEF OneMoves, SDCallType
<1>5. CallPlace(sdCall'[c], sdBackup')
  BY <1>1, <1>2, <1>3, <1>4 DEF CallPlace, InUpdate
<1>6. ASSUME k.alone PROVE Undisturbed(sdCall'[c], sdFile', sdBackup', sdDaemon')
  <2>1. Undisturbed(k, sdFile, sdBackup, sdDaemon)
    BY <1>1, <1>6 DEF SDInv
  <2>2. FinalDrop(sdCall'[c]) = FinalDrop(k)
    BY <1>4 DEF NewDrop, FinalDrop
  <2> HIDE DEF k
  <2> QED BY <2>1, <2>2, <1>1, <1>3, <1>4 DEF Undisturbed
<1> QED BY <1>1, <1>3, <1>4, <1>5, <1>6, OneMovesKeeps

LEMMA ValidateKeeps == ASSUME SDInv, NEW c \in SDCalls, Validate(c) PROVE SDInv'
<1> DEFINE k == sdCall[c]
<1>1. /\ k \in SDCallType /\ k.pc = "next" /\ k.stage = "validate" /\ InUpdate(k)
      /\ sdCall \in [SDCalls -> SDCallType]
  BY DEF Validate, Stage, SDInv, InUpdate
<1>2. CallPlace(k, sdBackup)
  BY DEF SDInv
<1>3. SDHostTypes' /\ sdFile' = sdFile /\ sdBackup' = sdBackup /\ sdFaults' \in 0 .. SDMaxFaults
  BY DEF Validate, SDInv, SDHostTypes, onHost
<1>4. CASE ~Req(c).validate \/ Valid(Config)
  <2>1. SDGoto(c, "restart") /\ "restart" \in SDStages
    BY <1>4 DEF Validate, SDStages
  <2>2. /\ OneMoves(c)
        /\ sdCall'[c].pc = "next" /\ sdCall'[c].stage = "restart"
        /\ sdCall'[c].req = k.req /\ sdCall'[c].saved = k.saved
        /\ sdCall'[c].alone = k.alone /\ sdCall'[c].before = k.before
    BY <1>1, <2>1, SDGotoIs
  <2>3. CallPlace(sdCall'[c], sdBackup')
    BY <1>1, <1>2, <1>3, <2>2 DEF CallPlace, InUpdate
  <2>4. ASSUME k.alone PROVE Undisturbed(sdCall'[c], sdFile', sdBackup', sdDaemon')
    <3>1. Undisturbed(k, sdFile, sdBackup, sdDaemon)
      BY <1>1, <2>4 DEF SDInv
    <3>2. FinalDrop(sdCall'[c]) = FinalDrop(k)
      BY <2>2 DEF NewDrop, FinalDrop
    <3>3. k.req.validate => Valid(ConfigOf(sdFile'))
      BY <1>3, <1>4 DEF Req, Config
    <3> HIDE DEF k
    <3> QED BY <3>1, <3>2, <3>3, <1>1, <1>3, <2>2 DEF Undisturbed
  <2> QED BY <1>1, <1>3, <2>2, <2>3, <2>4, OneMovesKeeps
<1>5. CASE ~(~Req(c).validate \/ Valid(Config))
  BY <1>3, <1>5, TurnsBackKeeps DEF Validate, TurnsBack
<1> QED BY <1>4, <1>5

(* The call ends, and files and backups stay as they are. *)
LEMMA EndKeeps ==
  ASSUME SDInv, NEW c \in SDCalls, InUpdate(sdCall[c]),
         NEW how \in {"success", "invalid", "failed"}, SDEnd(c, how),
         SDHostTypes', sdBackup' = sdBackup
  PROVE  SDInv'
<1>1. OneMoves(c) /\ sdCall'[c].pc = "ended" /\ sdCall'[c].stage = "none"
  BY SDEndIs DEF SDInv
<1>2. CallPlace(sdCall'[c], sdBackup') /\ ~InUpdate(sdCall'[c])
  BY <1>1 DEF CallPlace, InUpdate
<1> QED BY <1>1, <1>2, OneMovesKeeps

LEMMA RestartKeeps == ASSUME SDInv, NEW c \in SDCalls, RestartSSHD(c) PROVE SDInv'
<1> DEFINE k == sdCall[c]
<1>1. /\ k \in SDCallType /\ k.pc = "next" /\ k.stage = "restart" /\ InUpdate(k)
      /\ sdCall \in [SDCalls -> SDCallType]
  BY DEF RestartSSHD, Stage, SDInv, InUpdate
<1>2. CallPlace(k, sdBackup)
  BY DEF SDInv
<1>3. sdFile' = sdFile /\ sdBackup' = sdBackup
  BY DEF RestartSSHD
<1>4. SDHostTypes'
  <2>1. sdDaemon' = Down \/ sdDaemon' \in Seq(ConfigLines)
    <3>1. Config \in Seq(ConfigLines)
      BY ConfigIs DEF SDInv, SDHostTypes, Config
    <3>2. sdDaemon' \in {sdDaemon, Config, Down}
      BY DEF RestartSSHD, Restarted
    <3>3. sdDaemon = Down \/ sdDaemon \in Seq(ConfigLines)
      BY DEF SDInv, SDHostTypes
    <3> QED BY <3>1, <3>2, <3>3
  <2> QED BY <2>1 DEF RestartSSHD, SDInv, SDHostTypes
<1>5. ASSUME NEW how \in {"success", "failed"}, SDEnd(c, how) PROVE SDInv'
  BY <1>1, <1>3, <1>4, <1>5, EndKeeps
<1>6. ASSUME SDGoto(c, "verify"), sdDaemon' = Restarted, Restarted # Down, Req(c).restart
      PROVE  SDInv'
  <2>1. "verify" \in SDStages
    BY DEF SDStages
  <2>2. /\ OneMoves(c)
        /\ sdCall'[c].pc = "next" /\ sdCall'[c].stage = "verify"
        /\ sdCall'[c].req = k.req /\ sdCall'[c].saved = k.saved
        /\ sdCall'[c].alone = k.alone /\ sdCall'[c].before = k.before
    BY <1>1, <1>6, <2>1, SDGotoIs
  <2>3. CallPlace(sdCall'[c], sdBackup')
    BY <1>1, <1>2, <1>3, <1>6, <2>2 DEF CallPlace, InUpdate, Req
  <2>4. sdDaemon' = ConfigOf(sdFile')
    BY <1>3, <1>6 DEF Restarted, Config
  <2>5. ASSUME k.alone PROVE Undisturbed(sdCall'[c], sdFile', sdBackup', sdDaemon')
    <3>1. Undisturbed(k, sdFile, sdBackup, sdDaemon)
      BY <1>1, <2>5 DEF SDInv
    <3>2. FinalDrop(sdCall'[c]) = FinalDrop(k)
      BY <2>2 DEF NewDrop, FinalDrop
    <3> HIDE DEF k
    <3> QED BY <3>1, <3>2, <1>1, <1>3, <2>2, <2>4 DEF Undisturbed
  <2> QED BY <1>1, <1>3, <1>4, <2>2, <2>3, <2>5, OneMovesKeeps
<1> QED BY <1>5, <1>6 DEF RestartSSHD

LEMMA FailKeeps == ASSUME SDInv, NEW c \in SDCalls, SDFail(c) PROVE SDInv'
<1>1. InUpdate(sdCall[c]) /\ sdFaults' \in 0 .. SDMaxFaults
  BY SSHDConfigAssumption DEF SDFail, Updating, InUpdate, SDInv, SDHostTypes
<1>2. CASE Stage(c, "validate") /\ Req(c).validate
  BY <1>1, <1>2, TurnsBackKeeps DEF SDFail, TurnsBack
<1>3. CASE ~(Stage(c, "validate") /\ Req(c).validate)
  <2>1. SDEnd(c, "failed")
    BY <1>3 DEF SDFail
  <2>2. SDHostTypes' /\ sdBackup' = sdBackup
    BY <1>1 DEF SDFail, SDInv, SDHostTypes, onHost
  <2> QED BY <1>1, <2>1, <2>2, EndKeeps
<1> QED BY <1>2, <1>3

LEMMA BeginKeeps ==
  ASSUME SDInv, NEW c \in SDCalls, NEW r \in Requests, Begin(c, r) PROVE SDInv'
<1> DEFINE others == {d \in SDCalls : Updating(d)}
           k == [NoSDCall EXCEPT !.pc = "next", !.stage = "backup", !.req = r,
                                 !.alone = others = {}, !.before = sdFile]
           Meanwhile(d) == [sdCall[d] EXCEPT !.alone = @ /\ d \notin others]
<1>1. /\ sdCall \in [SDCalls -> SDCallType] /\ sdCall[c].pc = "idle" /\ sdFile \in SDFiles
      /\ sdFile' = sdFile /\ sdDaemon' = sdDaemon /\ sdBackup' = sdBackup
      /\ sdCall' = [d \in SDCalls |-> IF d = c THEN k ELSE Meanwhile(d)]
  BY DEF Begin, SDInv, SDHostTypes, onHost
<1>2. /\ k \in SDCallType /\ k.pc = "next" /\ k.stage = "backup" /\ k.before = sdFile
      /\ k.alone = (others = {})
  <2>1. (others = {}) \in BOOLEAN
    OBVIOUS
  <2>2. "backup" \in SDStages
    BY DEF SDStages
  <2> HIDE DEF others
  <2> QED BY <1>1, <2>1, <2>2, NoCallIs DEF SDCallType
<1>3. \A d \in SDCalls :
        /\ Meanwhile(d) \in SDCallType
        /\ Meanwhile(d).pc = sdCall[d].pc /\ Meanwhile(d).stage = sdCall[d].stage
        /\ Meanwhile(d).req = sdCall[d].req /\ Meanwhile(d).saved = sdCall[d].saved
        /\ Meanwhile(d).before = sdCall[d].before /\ Meanwhile(d).alone = (sdCall[d].alone /\ d \notin others)
  <2> SUFFICES ASSUME NEW d \in SDCalls
               PROVE  /\ Meanwhile(d) \in SDCallType
                      /\ Meanwhile(d).pc = sdCall[d].pc /\ Meanwhile(d).stage = sdCall[d].stage
                      /\ Meanwhile(d).req = sdCall[d].req /\ Meanwhile(d).saved = sdCall[d].saved
                      /\ Meanwhile(d).before = sdCall[d].before
                      /\ Meanwhile(d).alone = (sdCall[d].alone /\ d \notin others)
    OBVIOUS
  <2>1. sdCall[d] \in SDCallType
    BY <1>1
  <2>2. (sdCall[d].alone /\ d \notin others) \in BOOLEAN
    OBVIOUS
  <2> HIDE DEF others
  <2> QED BY <2>1, <2>2 DEF SDCallType
<1> HIDE DEF k, Meanwhile
<1>4. /\ sdCall' \in [SDCalls -> SDCallType] /\ sdCall'[c] = k
      /\ \A d \in SDCalls : d # c => sdCall'[d] = Meanwhile(d)
  BY <1>1, <1>2, <1>3
<1>5. SDHostTypes'
  BY DEF Begin, SDInv, SDHostTypes, onHost
<1>6. ASSUME NEW d \in SDCalls PROVE CallPlace(sdCall'[d], sdBackup')
  <2>1. CallPlace(sdCall[d], sdBackup)
    BY DEF SDInv
  <2>2. CASE d = c
    BY <2>2, <1>1, <1>2, <1>4 DEF CallPlace
  <2>3. CASE d # c
    BY <2>1, <2>3, <1>1, <1>3, <1>4 DEF CallPlace, InUpdate
  <2> QED BY <2>2, <2>3
<1>7. ASSUME NEW d \in SDCalls, InUpdate(sdCall'[d]), sdCall'[d].alone
      PROVE  d = c /\ others = {}
  <2>1. CASE d = c
    BY <2>1, <1>2, <1>4, <1>7
  <2>2. CASE d # c
    <3>1. Meanwhile(d).alone /\ InUpdate(Meanwhile(d))
      BY <2>2, <1>4, <1>7
    <3>2. d \notin others
      BY <3>1, <1>3
    <3>3. d \in others
      BY <3>1, <1>3 DEF InUpdate, Updating
    <3> QED BY <3>2, <3>3
  <2> QED BY <2>1, <2>2
<1>8. Alone'
  <2> SUFFICES ASSUME NEW d \in SDCalls, NEW e \in SDCalls, d # e,
                      InUpdate(sdCall'[d]), InUpdate(sdCall'[e]), sdCall'[d].alone
               PROVE  FALSE
    BY DEF Alone
  <2>1. d = c /\ others = {}
    BY <1>7
  <2>2. InUpdate(sdCall[e])
    BY <2>1, <1>3, <1>4 DEF InUpdate
  <2> QED BY <2>1, <2>2 DEF InUpdate, Updating
<1>9. ASSUME NEW d \in SDCalls, InUpdate(sdCall'[d]), sdCall'[d].alone
      PROVE  Undisturbed(sdCall'[d], sdFile', sdBackup', sdDaemon')
  BY <1>1, <1>2, <1>4, <1>7, <1>9 DEF Undisturbed
<1> QED BY <1>4, <1>5, <1>6, <1>8, <1>9 DEF SDInv

LEMMA SDCrashKeeps == ASSUME SDInv, SDCrash PROVE SDInv'
<1> DEFINE Died(c) == [NoSDCall EXCEPT !.pc = "ended", !.req = Req(c), !.result = "failed"]
<1>1. sdCall \in [SDCalls -> SDCallType]
  BY DEF SDInv
<1>2. \A c \in SDCalls : Died(c) \in SDCallType /\ Died(c).pc = "ended" /\ Died(c).stage = "none"
  <2> SUFFICES ASSUME NEW c \in SDCalls
               PROVE  Died(c) \in SDCallType /\ Died(c).pc = "ended" /\ Died(c).stage = "none"
    OBVIOUS
  <2>1. sdCall[c].req \in Requests
    BY <1>1 DEF SDCallType
  <2> QED BY <2>1, NoCallIs DEF SDCallType, Req
<1>3. sdCall' = [c \in SDCalls |-> IF Updating(c) THEN Died(c) ELSE sdCall[c]]
  BY DEF SDCrash
<1> HIDE DEF Died
<1>4. /\ sdCall' \in [SDCalls -> SDCallType]
      /\ \A c \in SDCalls : sdCall'[c] = Died(c) \/ (sdCall'[c] = sdCall[c] /\ ~Updating(c))
  BY <1>1, <1>2, <1>3
<1>5. SDHostTypes' /\ sdBackup' = sdBackup
  <2>1. sdFaults' \in 0 .. SDMaxFaults
    <3>1. sdFaults \in 0 .. SDMaxFaults /\ SDMaxFaults \in Nat
      BY SSHDConfigAssumption DEF SDInv, SDHostTypes
    <3>2. sdFaults < SDMaxFaults /\ sdFaults' = sdFaults + 1
      BY DEF SDCrash
    <3> QED BY <3>1, <3>2
  <2> QED BY <2>1 DEF SDCrash, SDInv, SDHostTypes, onHost
<1>6. \A c \in SDCalls : ~InUpdate(sdCall'[c])
  BY <1>2, <1>4 DEF InUpdate, Updating
<1>7. ASSUME NEW c \in SDCalls PROVE CallPlace(sdCall'[c], sdBackup')
  <2>1. CallPlace(sdCall[c], sdBackup)
    BY DEF SDInv
  <2>2. CASE sdCall'[c] = Died(c)
    BY <2>2, <1>2 DEF CallPlace, InUpdate
  <2> QED BY <2>1, <2>2, <1>4, <1>5
<1> QED BY <1>4, <1>5, <1>6, <1>7 DEF SDInv, Alone

LEMMA SDInvNext == SDInv /\ [SDNext]_sdVars => SDInv'
<1> SUFFICES ASSUME SDInv, [SDNext]_sdVars PROVE SDInv'
  OBVIOUS
<1>1. ASSUME NEW c \in SDCalls, Verify(c) PROVE SDInv'
  <2>1. InUpdate(sdCall[c]) /\ SDHostTypes' /\ sdBackup' = sdBackup
    BY <1>1 DEF Verify, Stage, InUpdate, SDInv, SDHostTypes, onHost
  <2>2. \E how \in {"success", "invalid", "failed"} : SDEnd(c, how)
    BY <1>1 DEF Verify
  <2> QED BY <2>1, <2>2, EndKeeps
<1>2. ASSUME SDTick PROVE SDInv'
  <2>1. /\ sdFile' = sdFile /\ sdBackup' = sdBackup /\ sdDaemon' = sdDaemon /\ sdCall' = sdCall
    BY <1>2 DEF SDTick, onHost
  <2>2. SDHostTypes'
    BY <1>2, SSHDConfigAssumption DEF SDTick, SDInv, SDHostTypes, onHost
  <2> QED BY <2>1, <2>2 DEF SDInv, Alone
<1>3. ASSUME UNCHANGED sdVars PROVE SDInv'
  <2>1. /\ sdFile' = sdFile /\ sdBackup' = sdBackup /\ sdDaemon' = sdDaemon /\ sdCall' = sdCall
        /\ sdSocket' = sdSocket /\ sdNow' = sdNow /\ sdFaults' = sdFaults
    BY <1>3 DEF sdVars
  <2> QED BY <2>1 DEF SDInv, Alone, SDHostTypes
<1> QED BY <1>1, <1>2, <1>3, BeginKeeps, SaveMainKeeps, ReadMainKeeps, ReadDropInKeeps,
          OpenConfigKeeps, WriteConfigKeeps, SetSocketKeeps, ValidateKeeps, RestartKeeps,
          FailKeeps, SDCrashKeeps, Zenon DEF SDNext

(* What an undisturbed update has made of the files is in force, if sshd   *)
(* takes them.                                                             *)
LEMMA AskedIsInForce ==
  ASSUME NEW k \in SDCallType, k.before \in SDFiles, NEW files \in SDFiles,
         files["main"] = NewMain(k.before["main"], k.req), files["drop"] = FinalDrop(k),
         Valid(ConfigOf(files))
  PROVE  /\ k.req.port # NotSet => PortsOf(ConfigOf(files)) = {k.req.port}
         /\ k.req.pass # NotSet /\ Decides(k.before) => PassOf(ConfigOf(files)) = k.req.pass
<1> DEFINE m == k.before["main"]
           d == k.before["drop"]
           new == NewMain(m, k.req)
           set == FinalDrop(k)
<1>1. m \in Seq(SDLines) /\ d \in Seq(SDLines) /\ k.req \in Requests
  BY DEF SDFiles, SDCallType
<1>2. /\ new \in Seq(SDLines) /\ DOMAIN m \subseteq DOMAIN new
      /\ \A i \in DOMAIN m : new[i].key = m[i].key
      /\ Active(new, "match") = Active(m, "match")
      /\ k.req.port # NotSet =>
           /\ \A i \in DOMAIN new : new[i].key = "port" => new[i] = Line("port", k.req.port)
           /\ \E i \in DOMAIN new : new[i].key = "port"
      /\ k.req.pass # NotSet =>
           /\ \A i \in DOMAIN new : new[i].key = "pass" => new[i] = Line("pass", k.req.pass)
           /\ \E i \in DOMAIN new : new[i].key = "pass"
  <2> HIDE DEF m
  <2> QED BY <1>1, NewMainIs
<1>3. set \in Seq(SDLines) /\ Active(set, "pass") = Active(d, "pass")
  <2>1. CASE k.req.port = NotSet
    BY <2>1, <1>1 DEF FinalDrop
  <2>2. CASE k.req.port # NotSet
    <3>1. k.req.port \in SDValues /\ "port" \in {"port", "pass"}
          /\ "pass" \in {"port", "pass", "match", "include"} \ {"port"}
      BY <1>1, <2>2, RequestIs DEF SDValues
    <3>2. set = SetAll(d, "port", k.req.port)
      BY <2>2 DEF FinalDrop, NewDrop
    <3>3. SetAll(d, "port", k.req.port) \in Seq(SDLines)
      BY <1>1, <3>1, SetAllIs, Zenon
    <3>4. Active(SetAll(d, "port", k.req.port), "pass") = Active(d, "pass")
      BY <1>1, <3>1, SetAllKeeps, Zenon
    <3> QED BY <3>2, <3>3, <3>4, Zenon
  <2> QED BY <2>1, <2>2
<1>4. ConfigOf(files) = Expand(new, set)
  BY DEF ConfigOf
<1>5. ASSUME k.req.port # NotSet PROVE PortsOf(ConfigOf(files)) = {k.req.port}
  <2>1. k.req.port \in Ports /\ k.req.port \in SDValues /\ "port" \in {"port", "pass"}
    BY <1>1, <1>5, RequestIs DEF SDValues
  <2>2. \A i \in Active(set, "port") : set[i].v = k.req.port
    <3>1. set = SetAll(d, "port", k.req.port)
      BY <1>5 DEF FinalDrop, NewDrop
    <3>2. /\ DOMAIN SetAll(d, "port", k.req.port) = DOMAIN d
          /\ \A i \in DOMAIN d : SetAll(d, "port", k.req.port)[i] =
               IF d[i].key = "port" THEN Line("port", k.req.port) ELSE d[i]
      BY <1>1, <2>1, SetAllIs, Zenon
    <3>3. Line("port", k.req.port).v = k.req.port
      BY <2>1, LineIs
    <3> HIDE DEF set, d
    <3> QED BY <3>1, <3>2, <3>3 DEF Active
  <2>3. Valid(Expand(new, set))
    BY <1>4
  <2>4. /\ \A i \in DOMAIN new : new[i].key = "port" => new[i] = Line("port", k.req.port)
        /\ \E i \in DOMAIN new : new[i].key = "port"
    BY <1>2, <1>5
  <2>5. new \in Seq(SDLines) /\ set \in Seq(SDLines)
    BY <1>2, <1>3
  <2> HIDE DEF new, set
  <2>6. PortsOf(Expand(new, set)) = {k.req.port}
    BY <2>1, <2>2, <2>3, <2>4, <2>5, PortsAsAsked
  <2> QED BY <1>4, <2>6
<1>6. ASSUME k.req.pass # NotSet, Decides(k.before)
      PROVE  PassOf(ConfigOf(files)) = k.req.pass
  <2>1. k.req.pass \in {"yes", "no"}
    BY <1>1, <1>6, SSHDConfigAssumption
  <2>2. \E i \in Global(new) : new[i].key = "pass"
    <3> DEFINE lines == {i \in DOMAIN m : m[i].key = "pass"}
    <3>1. IF lines = {} THEN Active(m, "match") = {} ELSE lines \cap Global(m) # {}
      BY <1>6 DEF Decides
    <3>2. CASE lines = {}
      <4>1. PICK i \in DOMAIN new : new[i].key = "pass"
        BY <1>2, <1>6
      <4>2. i \in Global(new)
        BY <1>2, <3>1, <3>2, <4>1 DEF Global
      <4> QED BY <4>1, <4>2
    <3>3. CASE lines # {}
      <4>1. PICK i \in lines : i \in Global(m)
        BY <3>1, <3>3
      <4>2. i \in DOMAIN m /\ m[i].key = "pass" /\ \A j \in Active(m, "match") : i < j
        BY <4>1 DEF Global
      <4> HIDE DEF m, new, lines
      <4>3. i \in Global(new) /\ new[i].key = "pass"
        BY <1>2, <4>2 DEF Global
      <4> QED BY <4>3
    <3> QED BY <3>2, <3>3
  <2>3. Active(set, "pass") = {}
    BY <1>3, <1>6 DEF Decides
  <2> HIDE DEF new, set
  <2> QED BY <1>2, <1>3, <1>4, <1>6, <2>1, <2>2, <2>3, PassAsAsked, Zenon
<1> QED BY <1>5, <1>6

(* Where an undisturbed call ends without a failure. *)
LEMMA EndsWhere ==
  ASSUME SDInv, [SDNext]_sdVars, NEW c \in SDCalls, EndsAlone(c)
  PROVE  \/ WriteConfig(c) /\ sdCall[c].stage = "restore"
         \/ RestartSSHD(c)
         \/ Verify(c)
<1>1. /\ sdCall \in [SDCalls -> SDCallType] /\ sdCall[c].pc \notin {"idle", "ended"}
      /\ sdCall'[c].pc = "ended" /\ sdFaults' = sdFaults /\ sdFaults \in Nat
  BY DEF EndsAlone, Updating, SDInv, SDHostTypes
<1>2. sdCall' # sdCall
  BY <1>1
<1>3. ASSUME NEW d \in SDCalls, NEW s, SDGoto(d, s) PROVE FALSE
  BY <1>1, <1>3 DEF SDGoto, SDCallType
<1>4. ASSUME NEW d \in SDCalls, NEW how, SDEnd(d, how) PROVE d = c
  BY <1>1, <1>4 DEF SDEnd, SDCallType
<1>5. ~SDTick /\ ~UNCHANGED sdVars
  BY <1>2 DEF SDTick, sdVars
<1>6. ~SDCrash
  <2>1. SDCrash => sdFaults' = sdFaults + 1
    BY DEF SDCrash
  <2> QED BY <2>1, <1>1
<1>7. ASSUME NEW d \in SDCalls, SDFail(d) PROVE FALSE
  BY <1>1, <1>7 DEF SDFail
<1>8. ASSUME NEW d \in SDCalls, NEW r \in Requests, Begin(d, r) PROVE FALSE
  <2>1. sdCall'[c].pc = IF c = d THEN "next" ELSE sdCall[c].pc
    <3>1. sdCall[c] \in SDCallType
      BY <1>1
    <3>2. c = d => sdCall'[c].pc = "next"
      BY <1>8 DEF Begin, NoSDCall
    <3>3. c # d => sdCall'[c].pc = sdCall[c].pc
      BY <1>8, <3>1 DEF Begin, SDCallType
    <3> QED BY <3>2, <3>3
  <2> QED BY <2>1, <1>1
<1>9. ASSUME NEW d \in SDCalls, SaveMain(d) \/ OpenConfig(d) \/ ReadMain(d) PROVE FALSE
  <2>1. sdCall[d] \in SDCallType /\ sdCall[c] \in SDCallType
    BY <1>1
  <2>2. ASSUME SaveMain(d) PROVE sdCall'[c].pc = sdCall[c].pc
    BY <2>1, <2>2, <1>1 DEF SaveMain, SDCallType
  <2>3. ASSUME OpenConfig(d) PROVE sdCall'[c].pc \in {sdCall[c].pc, "write"}
    BY <2>1, <2>3, <1>1 DEF OpenConfig, SDCallType
  <2>4. ASSUME ReadMain(d) PROVE sdCall'[c].pc \in {sdCall[c].pc, "open"}
    <3> DEFINE new == NewMain(sdFile["main"], Req(d))
    <3>1. sdCall' = [sdCall EXCEPT ![d].pc = "open", ![d].new = new]
      BY <2>4 DEF ReadMain
    <3> HIDE DEF new
    <3> QED BY <2>1, <3>1, <1>1 DEF SDCallType
  <2> QED BY <2>2, <2>3, <2>4, <1>1, <1>9
<1>10. ASSUME NEW d \in SDCalls, ReadDropIn(d) PROVE FALSE
  <2>1. sdCall'[c].pc \in {sdCall[c].pc, "open"}
    BY <1>1, <1>3, <1>10 DEF ReadDropIn, SDCallType
  <2> QED BY <2>1, <1>1
<1>11. ASSUME NEW d \in SDCalls, SetSocket(d) PROVE FALSE
  BY <1>3, <1>11 DEF SetSocket
<1>12. ASSUME NEW d \in SDCalls, Validate(d) PROVE FALSE
  <2> DEFINE new == ToRestore(d)
  <2>1. sdCall' = [sdCall EXCEPT ![d].pc = "open", ![d].stage = "restore", ![d].new = new]
    BY <1>3, <1>12 DEF Validate
  <2> HIDE DEF new
  <2>2. sdCall'[c].pc \in {sdCall[c].pc, "open"}
    BY <2>1, <1>1 DEF SDCallType
  <2> QED BY <2>2, <1>1
<1>13. ASSUME NEW d \in SDCalls, WriteConfig(d)
       PROVE  d = c /\ sdCall[c].stage = "restore"
  BY <1>3, <1>4, <1>13 DEF WriteConfig
<1>14. ASSUME NEW d \in SDCalls, RestartSSHD(d) PROVE d = c
  BY <1>3, <1>4, <1>14 DEF RestartSSHD
<1>15. ASSUME NEW d \in SDCalls, Verify(d) PROVE d = c
  BY <1>4, <1>15 DEF Verify
<1> QED BY <1>5, <1>6, <1>7, <1>8, <1>9, <1>10, <1>11, <1>12, <1>13, <1>14, <1>15 DEF SDNext

(* The end of an undisturbed call that did not fail. *)
LEMMA EndIs ==
  ASSUME SDInv, [SDNext]_sdVars, NEW c \in SDCalls, EndsAlone(c)
  PROVE  LET k == sdCall[c] IN
         /\ k \in SDCallType /\ k.before \in SDFiles /\ sdFile' \in SDFiles
         /\ sdFile'["drop"] = FinalDrop(k)
         /\ \/ /\ sdCall'[c].result = "invalid"
               /\ sdFile'["main"] = k.before["main"]
            \/ /\ sdCall'[c].result # "invalid"
               /\ sdFile'["main"] = NewMain(k.before["main"], k.req)
               /\ k.req.validate => Valid(ConfigOf(sdFile'))
               /\ sdCall'[c].result = "success" /\ k.req.restart =>
                    sdDaemon' = ConfigOf(sdFile')
<1> DEFINE k == sdCall[c]
<1>1. /\ k \in SDCallType /\ InUpdate(k) /\ k.alone /\ CallPlace(k, sdBackup)
      /\ sdCall \in [SDCalls -> SDCallType] /\ sdFile \in SDFiles
      /\ Undisturbed(k, sdFile, sdBackup, sdDaemon)
  BY DEF EndsAlone, Updating, InUpdate, SDInv, SDHostTypes
<1>2. k.before \in SDFiles
  BY <1>1 DEF CallPlace
<1>3. sdFile' \in SDFiles
  BY SDInvNext DEF SDInv, SDHostTypes
<1>4. CASE WriteConfig(c) /\ k.stage = "restore"
  <2>1. k.pc = "write" /\ SDEnd(c, "invalid") /\ FileOf(c) = "main"
    BY <1>4 DEF WriteConfig, FileOf
  <2>2. sdFile["main"] = <<>> /\ sdFile["drop"] = FinalDrop(k) /\ k.new = k.before["main"]
    BY <1>1, <1>4, <2>1 DEF Undisturbed
  <2>3. sdFile' = [sdFile EXCEPT !["main"] = k.new \o SubSeq(<<>>, Len(k.new) + 1, Len(<<>>))]
    BY <1>4, <2>1, <2>2 DEF WriteConfig
  <2>4. k.new \in Seq(SDLines)
    BY <1>1 DEF SDCallType
  <2>5. sdFile' = [sdFile EXCEPT !["main"] = k.new]
    BY <2>3, <2>4, AllIsWritten
  <2>6. sdFile'["main"] = k.before["main"] /\ sdFile'["drop"] = FinalDrop(k)
    <3> HIDE DEF k
    <3> QED BY <2>2, <2>5, <1>1 DEF SDFiles
  <2>7. sdCall'[c].result = "invalid"
    BY <1>1, <2>1, SDEndIs
  <2> QED BY <1>1, <1>2, <1>3, <2>6, <2>7
<1>5. CASE RestartSSHD(c)
  <2>1. k.stage = "restart" /\ k.pc = "next" /\ sdFile' = sdFile
    BY <1>5 DEF RestartSSHD, Stage
  <2>2. /\ sdFile["drop"] = FinalDrop(k) /\ sdFile["main"] = NewMain(k.before["main"], k.req)
        /\ k.req.validate => Valid(ConfigOf(sdFile))
    <3> HIDE DEF k
    <3> QED BY <1>1, <2>1 DEF Undisturbed
  <2>3. ~SDGoto(c, "verify")
    BY <1>1 DEF EndsAlone, SDGoto, SDCallType
  <2>4. \/ SDEnd(c, "failed")
        \/ SDEnd(c, "success") /\ ~k.req.restart
    BY <1>5, <2>3 DEF RestartSSHD, Req
  <2>5. sdCall'[c].result = "failed" \/ (sdCall'[c].result = "success" /\ ~k.req.restart)
    BY <1>1, <2>4, SDEndIs
  <2> HIDE DEF k
  <2> QED BY <1>1, <1>2, <1>3, <2>1, <2>2, <2>5 DEF k
<1>6. CASE Verify(c)
  <2>1. k.stage = "verify" /\ k.pc = "next" /\ sdFile' = sdFile /\ sdDaemon' = sdDaemon
    BY <1>6 DEF Verify, Stage, onHost
  <2>2. /\ sdFile["drop"] = FinalDrop(k) /\ sdFile["main"] = NewMain(k.before["main"], k.req)
        /\ k.req.validate => Valid(ConfigOf(sdFile))
        /\ sdDaemon = ConfigOf(sdFile)
    <3> HIDE DEF k
    <3> QED BY <1>1, <2>1 DEF Undisturbed
  <2>3. SDEnd(c, "failed") \/ SDEnd(c, "success")
    BY <1>6 DEF Verify
  <2>4. sdCall'[c].result \in {"failed", "success"}
    BY <1>1, <2>3, SDEndIs
  <2> HIDE DEF k
  <2> QED BY <1>1, <1>2, <1>3, <2>1, <2>2, <2>4 DEF k
<1> QED BY <1>4, <1>5, <1>6, EndsWhere

(* For any configurations and requests, any number of overlapping updates, *)
(* failures and restarts of the agent: an undisturbed update leaves a      *)
(* configuration that sshd takes, or sshd_config as it was; and one that   *)
(* reports success is in effect.                                           *)
THEOREM UpdatesAlwaysSound == SDSpec => UpdatesSound
<1>1. ASSUME SDInv, [SDNext]_sdVars, NEW c \in SDCalls, EndsAlone(c), Req(c).validate
      PROVE  IF sdCall'[c].result = "invalid"
             THEN /\ sdFile'["main"] = sdCall[c].before["main"]
                  /\ PortsGlobal(ConfigOf(sdCall[c].before)) => Valid(Config')
             ELSE Valid(Config')
  <2> DEFINE k == sdCall[c]
             m == k.before["main"]
             d == k.before["drop"]
  <2>1. /\ k \in SDCallType /\ k.before \in SDFiles /\ sdFile' \in SDFiles
        /\ sdFile'["drop"] = FinalDrop(k)
        /\ \/ sdCall'[c].result = "invalid" /\ sdFile'["main"] = m
           \/ sdCall'[c].result # "invalid" /\ (k.req.validate => Valid(ConfigOf(sdFile')))
    BY <1>1, EndIs
  <2>2. Config' = ConfigOf(sdFile')
    BY DEF Config
  <2>3. CASE sdCall'[c].result # "invalid"
    BY <2>1, <2>2, <2>3, <1>1 DEF Req
  <2>4. CASE sdCall'[c].result = "invalid"
    <3>1. sdFile'["main"] = m
      BY <2>1, <2>4
    <3>2. ASSUME PortsGlobal(ConfigOf(k.before)) PROVE Valid(Config')
      <4>1. m \in Seq(SDLines) /\ d \in Seq(SDLines) /\ k.req \in Requests
        BY <2>1 DEF SDFiles, SDCallType
      <4>2. PortsGlobal(Expand(m, d))
        BY <3>2 DEF ConfigOf
      <4>3. Config' = Expand(m, FinalDrop(k))
        BY <2>1, <2>2, <3>1 DEF ConfigOf
      <4>4. CASE k.req.port = NotSet
        <5>1. FinalDrop(k) = d
          BY <4>4 DEF FinalDrop
        <5> HIDE DEF k, m, d
        <5> QED BY <4>1, <4>2, <4>3, <5>1, SamePlaces
      <4>5. CASE k.req.port # NotSet
        <5> DEFINE set == SetAll(d, "port", k.req.port)
        <5>1. FinalDrop(k) = set
          BY <4>5 DEF FinalDrop, NewDrop
        <5>2. /\ k.req.port \in SDValues /\ "port" \in {"port", "pass"}
              /\ "match" \in {"port", "pass", "match", "include"} \ {"port"}
          BY <4>1, <4>5, RequestIs DEF SDValues
        <5> HIDE DEF m, d
        <5>3. set \in Seq(SDLines) /\ DOMAIN set = DOMAIN d
          BY <4>1, <5>2, SetAllIs, Zenon
        <5>4. (\A i \in DOMAIN d : set[i].key = d[i].key) /\ Active(set, "match") = Active(d, "match")
          BY <4>1, <5>2, SetAllKeeps, Zenon
        <5> HIDE DEF set
        <5> QED BY <4>1, <4>2, <4>3, <5>1, <5>3, <5>4, SamePlaces
      <4> QED BY <4>4, <4>5
    <3> QED BY <2>4, <3>1, <3>2
  <2> QED BY <2>3, <2>4
<1>2. ASSUME SDInv, [SDNext]_sdVars, NEW c \in SDCalls, EndsAlone(c),
             sdCall'[c].result = "success", Valid(Config')
      PROVE  /\ Req(c).port # NotSet => PortsOf(Config') = {Req(c).port}
             /\ Req(c).pass # NotSet /\ Decides(sdCall[c].before) => PassOf(Config') = Req(c).pass
             /\ Req(c).restart => sdDaemon' = Config'
  <2> DEFINE k == sdCall[c]
  <2>1. /\ k \in SDCallType /\ k.before \in SDFiles /\ sdFile' \in SDFiles
        /\ sdFile'["drop"] = FinalDrop(k)
        /\ sdFile'["main"] = NewMain(k.before["main"], k.req)
        /\ k.req.restart => sdDaemon' = ConfigOf(sdFile')
    BY <1>2, EndIs
  <2>2. Config' = ConfigOf(sdFile')
    BY DEF Config
  <2>3. /\ k.req.port # NotSet => PortsOf(ConfigOf(sdFile')) = {k.req.port}
        /\ k.req.pass # NotSet /\ Decides(k.before) => PassOf(ConfigOf(sdFile')) = k.req.pass
    <3> DEFINE files == sdFile'
    <3>1. Valid(ConfigOf(files))
      BY <1>2, <2>2
    <3> HIDE DEF k, files
    <3> QED BY <2>1, <3>1, AskedIsInForce DEF files
  <2> QED BY <2>1, <2>2, <2>3 DEF Req
<1>3. SDInv /\ [SDNext]_sdVars =>
        /\ \A c \in SDCalls : EndsAlone(c) /\ Req(c).validate =>
             IF sdCall'[c].result = "invalid"
             THEN /\ sdFile'["main"] = sdCall[c].before["main"]
                  /\ PortsGlobal(ConfigOf(sdCall[c].before)) => Valid(Config')
             ELSE Valid(Config')
        /\ \A c \in SDCalls :
             EndsAlone(c) /\ sdCall'[c].result = "success" /\ Valid(Config') =>
               /\ Req(c).port # NotSet => PortsOf(Config') = {Req(c).port}
               /\ Req(c).pass # NotSet /\ Decides(sdCall[c].before) => PassOf(Config') = Req(c).pass
               /\ Req(c).restart => sdDaemon' = Config'
  BY <1>1, <1>2, Zenon
<1> QED BY <1>3, SDInvInit, SDInvNext, PTL
        DEF SDSpec, UpdatesSound, ValidatedUpdateSafe, SuccessIsEffective
=============================================================================
