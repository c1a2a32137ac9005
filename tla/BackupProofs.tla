---------------------------- MODULE BackupProofs ------------------------------
(***************************************************************************)
(* The exports and the restores, for any number of restores and any        *)
(* faults: whose database it is that a restore changes, and what is left   *)
(* of those that fail.                                                     *)
(***************************************************************************)
EXTENDS Backup, SequenceTheorems, WellFoundedInduction, TLAPS

-----------------------------------------------------------------------------
(* The restores *)

Early == {"check", "exists", "create"}
Owning == {"grant", "flush", "undo", "source", "start", "feed", "wait", "rollback", "done"}

(* From its CREATE to its end a restore owns the database of the name, and *)
(* before and after it does not: only an excused one leaves it behind.     *)
Owns(r) ==
  /\ rpc[r] \in Owning => maker = r
  /\ rpc[r] \in Early => maker # r
  /\ rpc[r] = "failed" /\ r \notin rexcused => maker # r
  /\ restorer[r] = "running" => rpc[r] \in {"feed", "wait"}

RestoreInv ==
  /\ rpc \in [Restores -> Early \cup Owning \cup {"failed"}]
  /\ restorer \in [Restores -> {"none", "running", "ok", "dead"}]
  /\ applied \in [Restores -> Nat]
  /\ \A r \in Restores : Owns(r)

LEMMA RestoreInvInit == Init => RestoreInv
BY RestoreDumpAssumption
   DEF Init, RestoreInit, RestoreInv, Owns, Early, Owning

LEMMA RestoreInvNext == RestoreInv /\ [Next]_vars => RestoreInv'
<1> SUFFICES ASSUME RestoreInv, [Next]_vars PROVE RestoreInv'
  OBVIOUS
<1> USE RestoreDumpAssumption
    DEF RestoreInv, Owns, Early, Owning, To, Excuse, Create, Drop, server, input, feed
<1>1. ASSUME NEW r \in Restores, CheckRestore(r) PROVE RestoreInv'
  BY <1>1 DEF CheckRestore
<1>2. ASSUME NEW r \in Restores, CheckTarget(r) PROVE RestoreInv'
  BY <1>2 DEF CheckTarget
<1>3. ASSUME NEW r \in Restores, CreateTarget(r) PROVE RestoreInv'
  BY <1>3 DEF CreateTarget
<1>4. ASSUME NEW r \in Restores, GrantOwner(r) PROVE RestoreInv'
  BY <1>4 DEF GrantOwner
<1>5. ASSUME NEW r \in Restores, FlushPrivileges(r) PROVE RestoreInv'
  BY <1>5 DEF FlushPrivileges
<1>6. ASSUME NEW r \in Restores, UndoCreate(r) PROVE RestoreInv'
  BY <1>6 DEF UndoCreate
<1>7. ASSUME NEW r \in Restores, StartRestorer(r) PROVE RestoreInv'
  BY <1>7 DEF StartRestorer
<1>8. ASSUME NEW r \in Restores, FeedFrame(r) PROVE RestoreInv'
  BY <1>8 DEF FeedFrame
<1>9. ASSUME NEW r \in Restores, FeedFails(r) PROVE RestoreInv'
  BY <1>9 DEF FeedFails
<1>10. ASSUME NEW r \in Restores, FeedEnds(r) PROVE RestoreInv'
  BY <1>10 DEF FeedEnds
<1>11. ASSUME NEW r \in Restores, WaitRestorer(r) PROVE RestoreInv'
  BY <1>11 DEF WaitRestorer
<1>12. ASSUME NEW r \in Restores, Rollback(r) PROVE RestoreInv'
  BY <1>12 DEF Rollback
<1>13. ASSUME NEW r \in Restores, RestorerApplies(r) PROVE RestoreInv'
  BY <1>13 DEF RestorerApplies
<1>14. ASSUME NEW r \in Restores, RestorerExits(r) PROVE RestoreInv'
  BY <1>14 DEF RestorerExits
<1>15. ASSUME NEW r \in Restores, RestorerDies(r) PROVE RestoreInv'
  BY <1>15 DEF RestorerDies
<1>16. ASSUME NEW r \in Restores, RestorerKilled(r) PROVE RestoreInv'
  BY <1>16 DEF RestorerKilled
<1>17. ASSUME NEW r \in Restores, RestoreCancelled(r) PROVE RestoreInv'
  BY <1>17 DEF RestoreCancelled
<1>18. ASSUME NEW r \in Restores, Open(r) PROVE RestoreInv'
  BY <1>18 DEF Open, OpenLocal, OpenObject, Begin
<1>19. ASSUME OtherCreates PROVE RestoreInv'
  BY <1>19 DEF OtherCreates
<1>20. CASE UNCHANGED restoreVars
  BY <1>20 DEF restoreVars
<1> QED
  BY <1>1, <1>2, <1>3, <1>4, <1>5, <1>6, <1>7, <1>8, <1>9, <1>10, <1>11, <1>12, <1>13, <1>14, <1>15, <1>16, <1>17, <1>18, <1>19, <1>20
  DEF Next, ByExport, ByRestore, Push, RestoreNext, RestoreStep, vars

(* A restore that has failed leaves no database of its own behind, unless  *)
(* its rollback failed too (dropRestoreTarget).                            *)
THEOREM FailedAlwaysLeavesNothing == Spec => []FailedLeavesNothing
<1>1. RestoreInv => FailedLeavesNothing
  BY DEF RestoreInv, Owns, FailedLeavesNothing
<1> QED BY <1>1, RestoreInvInit, RestoreInvNext, PTL DEF Spec

LEMMA RestoreInvOthers ==
  ASSUME RestoreInv, [Next]_vars, maker # Nobody, <<maker, data>>' # <<maker, data>>
  PROVE  \E r \in Restores : maker = r /\ (rpc[r]' # rpc[r] \/ applied[r]' # applied[r])
<1> USE DEF RestoreInv, Owns, Owning, To
<1>1. ASSUME NEW r \in Restores, UndoCreate(r) \/ Rollback(r)
      PROVE  maker = r /\ rpc'[r] # rpc[r]
  BY <1>1 DEF UndoCreate, Rollback
<1>2. ASSUME NEW r \in Restores, RestorerApplies(r)
      PROVE  maker = r /\ applied'[r] # applied[r]
  BY <1>2 DEF RestorerApplies
<1>3. ASSUME NEW r \in Restores, CreateTarget(r) PROVE FALSE
  BY <1>3 DEF CreateTarget, server
<1>4. ASSUME NEW r \in Restores, Open(r) PROVE FALSE
  BY <1>4 DEF Open, OpenLocal, OpenObject, server
<1>5. ASSUME NEW r \in Restores,
             \/ CheckRestore(r) \/ CheckTarget(r) \/ GrantOwner(r) \/ FlushPrivileges(r)
             \/ StartRestorer(r) \/ FeedFrame(r) \/ FeedFails(r) \/ FeedEnds(r)
             \/ WaitRestorer(r) \/ RestorerExits(r) \/ RestorerDies(r)
             \/ RestorerKilled(r) \/ RestoreCancelled(r)
      PROVE  FALSE
  BY <1>5 DEF CheckRestore, CheckTarget, GrantOwner, FlushPrivileges, StartRestorer,
     FeedFrame, FeedFails, FeedEnds, WaitRestorer, RestorerExits, RestorerDies,
     RestorerKilled, RestoreCancelled, server
<1>6. ~OtherCreates
  BY DEF OtherCreates
<1>7. ~UNCHANGED restoreVars
  BY DEF restoreVars, server
<1> QED
  BY <1>1, <1>2, <1>3, <1>4, <1>5, <1>6, <1>7
  DEF Next, ByExport, ByRestore, Push, RestoreNext, RestoreStep, vars

(* No step of a restore drops, replaces or fills a database that another   *)
(* restore or another command has made (the CREATE that fails when it is   *)
(* there, and the rollback that is deferred only after it).                *)
THEOREM OthersAlwaysKept == Spec => OthersKept
<1>1. RestoreInv /\ [Next]_vars =>
        [maker # Nobody /\ <<maker, data>>' # <<maker, data>> =>
           \E r \in Restores : maker = r /\ (rpc[r]' # rpc[r] \/ applied[r]' # applied[r])]_vars
  BY RestoreInvOthers
<1> QED BY <1>1, RestoreInvInit, RestoreInvNext, PTL DEF Spec, OthersKept

-----------------------------------------------------------------------------
(* FlattenSeq, one member after the other *)

(* A set of numbers that is not empty has a least one.                     *)
LEMMA LeastNat ==
  ASSUME NEW T, T \subseteq Nat, T # {}
  PROVE  \E x \in T : \A y \in T : x <= y
<1>1. PICK x \in T : \A y \in T : ~ (<<y, x>> \in OpToRel(<, Nat))
  BY WFMin, NatLessThanWellFounded
<1>2. \A y \in T : ~ (y < x)
  BY <1>1 DEF OpToRel
<1> QED BY <1>2

(* Induction, as a property of sets of numbers. *)
LEMMA SetInduction ==
  ASSUME NEW S, 0 \in S, \A n \in Nat : n \in S => n + 1 \in S
  PROVE  Nat \subseteq S
<1> SUFFICES ASSUME Nat \ S # {} PROVE FALSE
  OBVIOUS
<1>1. PICK x \in Nat \ S : \A y \in Nat \ S : x <= y
  BY LeastNat
<1>2. x # 0
  OBVIOUS
<1>3. x - 1 \in S /\ x - 1 \in Nat
  BY <1>1, <1>2
<1> QED BY <1>3

(* f flattens the first n members of s, one after the other. *)
Rec(f, s, n) == f = [i \in 1..n |-> IF i = 1 THEN s[i] ELSE f[i - 1] \o s[i]]

LEMMA FlattenIs ==
  ASSUME NEW s, Len(s) # 0
  PROVE  FlattenSeq(s) = (CHOOSE f : Rec(f, s, Len(s)))[Len(s)]
BY DEF FlattenSeq, Rec

LEMMA RecExists ==
  ASSUME NEW s, NEW n \in Nat
  PROVE  \E f : Rec(f, s, n)
<1> DEFINE S == {m \in Nat : \E f : Rec(f, s, m)}
<1>1. 0 \in S
  <2> DEFINE f == [i \in 1..0 |-> <<>>]
  <2>1. f = [i \in 1..0 |-> IF i = 1 THEN s[i] ELSE f[i - 1] \o s[i]]
    OBVIOUS
  <2>2. Rec(f, s, 0)
    BY <2>1 DEF Rec
  <2> QED BY <2>2
<1>2. ASSUME NEW m \in Nat, m \in S PROVE m + 1 \in S
  <2>1. PICK f : Rec(f, s, m)
    BY <1>2
  <2> DEFINE last == IF m + 1 = 1 THEN s[m + 1] ELSE f[m] \o s[m + 1]
             g == [i \in 1..(m + 1) |-> IF i = m + 1 THEN last ELSE f[i]]
  <2>2. f = [i \in 1..m |-> IF i = 1 THEN s[i] ELSE f[i - 1] \o s[i]]
    BY <2>1 DEF Rec
  <2>3. ASSUME NEW i \in 1..(m + 1)
        PROVE  g[i] = IF i = 1 THEN s[i] ELSE g[i - 1] \o s[i]
    <3>1. CASE i = m + 1
      BY <3>1
    <3>2. CASE i # m + 1
      <4>1. i \in 1..m /\ (i # 1 => i - 1 \in 1..m)
        BY <3>2
      <4>2. f[i] = IF i = 1 THEN s[i] ELSE f[i - 1] \o s[i]
        BY <2>2, <4>1
      <4>3. g[i] = f[i] /\ (i # 1 => g[i - 1] = f[i - 1])
        BY <4>1, <3>2
      <4> QED BY <4>2, <4>3
    <3> QED BY <3>1, <3>2
  <2>4. g = [i \in 1..(m + 1) |-> IF i = 1 THEN s[i] ELSE g[i - 1] \o s[i]]
    <3>1. g = [i \in 1..(m + 1) |-> g[i]]
      OBVIOUS
    <3> HIDE DEF g
    <3> QED BY <2>3, <3>1
  <2>5. Rec(g, s, m + 1)
    <3> HIDE DEF g
    <3> QED BY <2>4 DEF Rec
  <2> HIDE DEF g
  <2> QED BY <2>5
<1> HIDE DEF S
<1>3. Nat \subseteq S
  BY <1>1, <1>2, SetInduction
<1> QED BY <1>3 DEF S

LEMMA RecAt ==
  ASSUME NEW s, NEW f, NEW n \in Nat, Rec(f, s, n), NEW i \in 1..n
  PROVE  f[i] = IF i = 1 THEN s[i] ELSE f[i - 1] \o s[i]
BY DEF Rec

(* What is flattened depends on the members alone. *)
LEMMA RecUnique ==
  ASSUME NEW s, NEW t, NEW f, NEW g, NEW n \in Nat, NEW m \in Nat, n <= m,
         Rec(f, s, n), Rec(g, t, m), \A i \in 1..n : s[i] = t[i]
  PROVE  \A i \in 1..n : f[i] = g[i]
<1> SUFFICES ASSUME {i \in 1..n : f[i] # g[i]} # {} PROVE FALSE
  OBVIOUS
<1>1. PICK i \in 1..n : f[i] # g[i] /\ \A j \in 1..n : f[j] # g[j] => i <= j
  <2> DEFINE T == {i \in 1..n : f[i] # g[i]}
  <2>1. T \subseteq Nat /\ T # {}
    OBVIOUS
  <2> HIDE DEF T
  <2>2. PICK i \in T : \A j \in T : i <= j
    BY <2>1, LeastNat
  <2> QED BY <2>2 DEF T
<1>2. /\ f[i] = IF i = 1 THEN s[i] ELSE f[i - 1] \o s[i]
      /\ g[i] = IF i = 1 THEN t[i] ELSE g[i - 1] \o t[i]
  BY RecAt
<1>3. i # 1 => f[i - 1] = g[i - 1]
  <2>1. i # 1 => i - 1 \in 1..n /\ ~(i <= i - 1)
    OBVIOUS
  <2> QED BY <1>1, <2>1
<1> QED BY <1>1, <1>2, <1>3

LEMMA FlattenRec ==
  ASSUME NEW s, Len(s) \in Nat \ {0}
  PROVE  \E f : Rec(f, s, Len(s)) /\ FlattenSeq(s) = f[Len(s)]
<1>1. \E f : Rec(f, s, Len(s))
  BY RecExists
<1>2. Rec(CHOOSE f : Rec(f, s, Len(s)), s, Len(s))
  BY <1>1
<1> QED BY <1>2, FlattenIs

LEMMA FlattenAppend ==
  ASSUME NEW U, NEW s \in Seq(Seq(U)), NEW x \in Seq(U)
  PROVE  FlattenSeq(Append(s, x)) = FlattenSeq(s) \o x
<1> DEFINE n == Len(s)
           t == Append(s, x)
<1>1. /\ n \in Nat /\ Len(t) = n + 1 /\ t[n + 1] = x
      /\ \A i \in 1..n : s[i] = t[i]
  OBVIOUS
<1>2. n = 0 => s = <<>>
  OBVIOUS
<1> HIDE DEF n, t
<1>3. PICK g : Rec(g, t, n + 1) /\ FlattenSeq(t) = g[n + 1]
  BY <1>1, FlattenRec
<1>4. g[n + 1] = IF n + 1 = 1 THEN x ELSE g[n] \o x
  <2>1. n + 1 \in Nat /\ n + 1 \in 1..(n + 1) /\ (n + 1) - 1 = n
    BY <1>1
  <2>2. g[n + 1] = IF n + 1 = 1 THEN t[n + 1] ELSE g[(n + 1) - 1] \o t[n + 1]
    BY <1>3, <2>1, RecAt
  <2> QED BY <1>1, <2>1, <2>2
<1>5. CASE n = 0
  <2>1. s = <<>> /\ FlattenSeq(s) = <<>>
    BY <1>2, <1>5 DEF FlattenSeq
  <2>2. <<>> \o x = x
    OBVIOUS
  <2> QED BY <1>3, <1>4, <1>5, <2>1, <2>2 DEF t
<1>6. CASE n # 0
  <2>1. Len(s) \in Nat \ {0}
    BY <1>1, <1>6 DEF n
  <2>2. PICK f : Rec(f, s, Len(s)) /\ FlattenSeq(s) = f[Len(s)]
    BY <2>1, FlattenRec
  <2>3. n + 1 \in Nat /\ n <= n + 1
    BY <1>1
  <2>4. \A i \in 1..n : f[i] = g[i]
    <3>1. Rec(f, s, n)
      BY <2>2 DEF n
    <3> QED BY <1>1, <1>3, <2>3, <3>1, RecUnique
  <2>5. FlattenSeq(s) = g[n]
    BY <2>1, <2>2, <2>4 DEF n
  <2> QED BY <1>1, <1>3, <1>4, <1>6, <2>5 DEF t
<1> QED BY <1>1, <1>5, <1>6

-----------------------------------------------------------------------------
(* Frames and what they hold *)

Symbols == 1..Units \cup {End}
FrameSet == [idx : Nat, data : Seq(Symbols)]

LEMMA OpenedAppend ==
  ASSUME NEW fs \in Seq(FrameSet), NEW f \in FrameSet
  PROVE  Opened(Append(fs, f)) = Opened(fs) \o f.data
<1> DEFINE datas == [k \in 1..Len(fs) |-> fs[k].data]
           more == [k \in 1..Len(Append(fs, f)) |-> Append(fs, f)[k].data]
<1>1. datas \in Seq(Seq(Symbols)) /\ Len(datas) = Len(fs)
  <2>1. \A k \in 1..Len(fs) : fs[k].data \in Seq(Symbols)
    <3>1. \A k \in 1..Len(fs) : fs[k] \in FrameSet
      OBVIOUS
    <3>2. \A g \in FrameSet : g.data \in Seq(Symbols)
      BY DEF FrameSet
    <3> QED BY <3>1, <3>2
  <2> QED BY <2>1
<1>2. f.data \in Seq(Symbols)
  BY DEF FrameSet
<1>3. more = Append(datas, f.data)
  OBVIOUS
<1>4. FlattenSeq(Append(datas, f.data)) = FlattenSeq(datas) \o f.data
  <2> HIDE DEF datas
  <2> QED BY <1>1, <1>2, FlattenAppend
<1>5. Opened(Append(fs, f)) = FlattenSeq(more) /\ Opened(fs) = FlattenSeq(datas)
  BY Zenon DEF Opened
<1> HIDE DEF datas, more
<1> QED BY <1>3, <1>4, <1>5

LEMMA OpenedNothing == Opened(<<>>) = <<>>
<1>1. [k \in 1..Len(<<>>) |-> <<>>[k].data] = <<>>
  OBVIOUS
<1> QED BY <1>1 DEF Opened, FlattenSeq

(* A unit more, in the block or in a new frame. *)
LEMMA AppendToBoth ==
  ASSUME NEW S, NEW s \in Seq(S), NEW t \in Seq(S), NEW x \in S
  PROVE  /\ s \o Append(t, x) = Append(s \o t, x)
         /\ s \o t \in Seq(S) /\ Append(t, x) \in Seq(S)
         /\ s \o <<>> = s
OBVIOUS

Taken(n) == [u \in 1..n |-> u]

LEMMA TakenMore ==
  ASSUME NEW n \in Nat
  PROVE  /\ Append(Taken(n), n + 1) = Taken(n + 1)
         /\ Taken(n) \in Seq(Nat)
BY DEF Taken

-----------------------------------------------------------------------------
(* The export *)

Before == {"check", "open", "start"}
Past == {"gzip", "seal", "close", "complete"}
During == {"pump", "wait"} \cup Past

(* What the export has written so far, and what that should hold together  *)
(* with the encrypter's buffer.                                            *)
Out == IF local THEN object ELSE staged \o part
Expected ==
  IF compress /\ xpc \in {"seal", "close", "complete"} THEN Append(Taken(copied), End)
  ELSE Taken(copied)

(* Each frame in its place, none of them broken. *)
InPlace(fs) == \A k \in 1..Len(fs) : Opens(fs[k], k - 1)
Whole(fs) == InPlace(fs) /\ Opened(fs) = Plain(compress)

ExportTypes ==
  /\ local \in BOOLEAN /\ compress \in BOOLEAN
  /\ xpc \in Before \cup During \cup {"abort", "done", "failed"}
  /\ dumper \in {"none", "running", "ok", "dead"}
  /\ written \in 0..Units /\ copied \in 0..written /\ written - copied <= PipeCap
  /\ block \in Seq(Symbols) /\ Len(block) < BlockUnits /\ sealed \in Nat
  /\ part \in Seq(FrameSet) /\ Len(part) < PartFrames
  /\ staged \in Seq(FrameSet) /\ object \in Seq(FrameSet)

(* Before the tool is started nothing has been written. *)
Fresh ==
  xpc \in Before =>
    /\ block = <<>> /\ sealed = 0 /\ part = <<>> /\ staged = <<>> /\ object = <<>>
    /\ copied = 0 /\ written = 0 /\ dumper = "none" /\ ~copyErr
    /\ xpc # "start" => ~there

(* Where the goroutine is tells how far the tool and the buffers are. *)
InStep ==
  /\ copyErr => xpc \in {"wait", "abort", "failed"}
  /\ xpc \in During => dumper # "none"
  /\ xpc = "wait" /\ ~copyErr => copied = written /\ dumper # "running"
  /\ xpc \in Past => copied = Units /\ dumper = "ok"
  /\ xpc = "gzip" => compress
  /\ xpc \in {"close", "complete"} => block = <<>>
  /\ xpc = "complete" => part = <<>>
  /\ dumper = "ok" => written = Units

(* What has been written is what was read: the frames in their places.     *)
Faithful ==
  xpc \in During /\ ~copyErr =>
    /\ InPlace(Out) /\ sealed = Len(Out) /\ Opened(Out) \in Seq(Symbols)
    /\ Opened(Out) \o block = Expected

Finished ==
  /\ local => staged = <<>> /\ part = <<>> /\ xpc # "complete"
  /\ local /\ xpc \in {"start"} \cup During => there
  /\ xpc = "done" => there
  /\ there /\ ~local => xpc \in {"done", "abort", "failed"}
  /\ there /\ (xpc = "done" \/ ~local) => dumper = "ok" /\ Whole(object)
  /\ NothingLingers

ExportInv == ExportTypes /\ Fresh /\ InStep /\ Faithful /\ Finished

LEMMA OutType ==
  ASSUME ExportTypes
  PROVE  Out \in Seq(FrameSet) /\ Len(Out) \in Nat
BY DEF ExportTypes, Out

LEMMA SealedFrames ==
  ASSUME NEW k \in Nat, NEW b \in Seq(Symbols), b # <<>>
  PROVE  Seal(k, b) \in FrameSet /\ Opens(Seal(k, b), k) /\ Seal(k, b).data = b
BY DEF Seal, FrameSet, Opens, Broken

LEMMA AppendedFrame ==
  ASSUME NEW fs \in Seq(FrameSet), NEW f \in FrameSet, InPlace(fs), Opens(f, Len(fs))
  PROVE  InPlace(Append(fs, f)) /\ Len(Append(fs, f)) = Len(fs) + 1
<1>1. Len(Append(fs, f)) = Len(fs) + 1
  OBVIOUS
<1>2. ASSUME NEW k \in 1..(Len(fs) + 1)
      PROVE  Opens(Append(fs, f)[k], k - 1)
  <2>1. CASE k = Len(fs) + 1
    BY <2>1
  <2>2. CASE k # Len(fs) + 1
    <3>1. k \in 1..Len(fs) /\ Append(fs, f)[k] = fs[k]
      BY <2>2
    <3> QED BY <3>1 DEF InPlace
  <2> QED BY <2>1, <2>2
<1> QED BY <1>1, <1>2 DEF InPlace

(* A frame that is written to the sink. *)
LEMMA SinkEffect ==
  ASSUME ExportTypes, UNCHANGED local, local => staged = <<>> /\ part = <<>>,
         NEW f \in FrameSet, WriteSink(f)
  PROVE  /\ Out' = Append(Out, f)
         /\ part' \in Seq(FrameSet) /\ Len(part') < PartFrames
         /\ staged' \in Seq(FrameSet) /\ object' \in Seq(FrameSet)
         /\ local => staged' = <<>> /\ part' = <<>>
         /\ ~local => object' = object
<1> USE DEF ExportTypes
<1>1. CASE WriteFile(f)
  BY <1>1, ExportDumpAssumption DEF WriteFile, Out
<1>2. CASE BufferFrame(f)
  <2>1. ~local /\ part' = Append(part, f) /\ UNCHANGED <<staged, object>>
    BY <1>2 DEF BufferFrame
  <2>2. Len(part') = Len(part) + 1 /\ Len(part) + 1 # PartFrames /\ part' \in Seq(FrameSet)
    BY <1>2, <2>1 DEF BufferFrame, PartFills
  <2>3. staged \o Append(part, f) = Append(staged \o part, f)
    BY AppendToBoth
  <2> QED BY <2>1, <2>2, <2>3, ExportDumpAssumption DEF Out
<1>3. CASE UploadPart(f)
  <2>1. ~local /\ staged' = staged \o Append(part, f) /\ part' = <<>> /\ object' = object
    BY <1>3 DEF UploadPart, PartFills
  <2>2. /\ staged \o Append(part, f) = Append(staged \o part, f)
        /\ Append(part, f) \in Seq(FrameSet) /\ staged' \in Seq(FrameSet)
        /\ staged' \o <<>> = staged'
    BY <2>1, AppendToBoth
  <2> QED BY <2>1, <2>2, ExportDumpAssumption DEF Out
<1> QED BY <1>1, <1>2, <1>3 DEF WriteSink

(* A block that is sealed, and nothing or a unit more is left in the buffer. *)
LEMMA SealEffect ==
  ASSUME ExportTypes, UNCHANGED local, local => staged = <<>> /\ part = <<>>,
         InPlace(Out), sealed = Len(Out), Opened(Out) \in Seq(Symbols),
         NEW b \in Seq(Symbols), b # <<>>, WriteSink(Seal(sealed, b))
  PROVE  /\ InPlace(Out') /\ Len(Out') = sealed + 1
         /\ Opened(Out') \in Seq(Symbols) /\ Opened(Out') = Opened(Out) \o b
         /\ part' \in Seq(FrameSet) /\ Len(part') < PartFrames
         /\ staged' \in Seq(FrameSet) /\ object' \in Seq(FrameSet)
         /\ local => staged' = <<>> /\ part' = <<>>
         /\ ~local => object' = object
<1>1. /\ Seal(sealed, b) \in FrameSet /\ Opens(Seal(sealed, b), sealed)
      /\ Seal(sealed, b).data = b
  BY SealedFrames DEF ExportTypes
<1>2. Out \in Seq(FrameSet)
  BY OutType
<1>3. Out' = Append(Out, Seal(sealed, b))
  BY <1>1, SinkEffect
<1>4. InPlace(Out') /\ Len(Out') = sealed + 1
  BY <1>1, <1>2, <1>3, AppendedFrame
<1>5. Opened(Out') = Opened(Out) \o b
  BY <1>1, <1>2, <1>3, OpenedAppend
<1>6. Opened(Out') \in Seq(Symbols)
  BY <1>5, AppendToBoth
<1>7. /\ part' \in Seq(FrameSet) /\ Len(part') < PartFrames
      /\ staged' \in Seq(FrameSet) /\ object' \in Seq(FrameSet)
      /\ local => staged' = <<>> /\ part' = <<>>
      /\ ~local => object' = object
  BY <1>1, SinkEffect
<1> QED BY <1>4, <1>5, <1>6, <1>7

LEMMA UnitEffect ==
  ASSUME ExportTypes, UNCHANGED local, local => staged = <<>> /\ part = <<>>,
         InPlace(Out), sealed = Len(Out), Opened(Out) \in Seq(Symbols),
         NEW u \in Symbols, WriteUnit(u)
  PROVE  /\ InPlace(Out') /\ sealed' = Len(Out') /\ sealed' \in Nat
         /\ Opened(Out') \in Seq(Symbols)
         /\ Opened(Out') \o block' = Append(Opened(Out) \o block, u)
         /\ block' \in Seq(Symbols) /\ Len(block') < BlockUnits
         /\ part' \in Seq(FrameSet) /\ Len(part') < PartFrames
         /\ staged' \in Seq(FrameSet) /\ object' \in Seq(FrameSet)
         /\ local => staged' = <<>> /\ part' = <<>>
         /\ ~local => object' = object
<1> DEFINE full == Append(block, u)
<1>1. full \in Seq(Symbols) /\ full # <<>> /\ Opened(Out) \o full = Append(Opened(Out) \o block, u)
  <2>1. block \in Seq(Symbols)
    BY DEF ExportTypes
  <2>2. full \in Seq(Symbols) /\ Opened(Out) \o full = Append(Opened(Out) \o block, u)
    BY <2>1, AppendToBoth
  <2>3. full # <<>>
    BY <2>1
  <2> QED BY <2>2, <2>3
<1>2. CASE /\ Len(full) < BlockUnits /\ block' = full
           /\ UNCHANGED <<sealed, part, staged, object>>
  <2>1. Out' = Out
    BY <1>2 DEF Out
  <2> HIDE DEF full
  <2> QED BY <1>1, <1>2, <2>1 DEF ExportTypes
<1>3. CASE /\ block' = <<>> /\ sealed' = sealed + 1
           /\ WriteSink(Seal(sealed, full))
  <2> HIDE DEF full
  <2>1. /\ InPlace(Out') /\ Len(Out') = sealed + 1
        /\ Opened(Out') \in Seq(Symbols) /\ Opened(Out') = Opened(Out) \o full
        /\ part' \in Seq(FrameSet) /\ Len(part') < PartFrames
        /\ staged' \in Seq(FrameSet) /\ object' \in Seq(FrameSet)
        /\ local => staged' = <<>> /\ part' = <<>>
        /\ ~local => object' = object
    BY <1>1, <1>3, SealEffect
  <2>2. Opened(Out') \o <<>> = Opened(Out')
    BY <2>1, AppendToBoth
  <2>3. sealed' = Len(Out') /\ sealed' \in Nat
    BY <1>3, <2>1 DEF ExportTypes
  <2>4. block' \in Seq(Symbols) /\ Len(block') < BlockUnits
    BY <1>3, CipherStreamAssumption
  <2> QED BY <1>1, <1>3, <2>1, <2>2, <2>3, <2>4
<1> QED BY <1>2, <1>3 DEF WriteUnit

LEMMA ExportInvInit == Init => ExportInv
<1> SUFFICES ASSUME Init PROVE ExportInv
  OBVIOUS
<1> USE DEF Init, ExportInit
<1>1. ExportTypes
  BY CipherStreamAssumption, ExportDumpAssumption DEF ExportTypes, Before
<1>2. Fresh /\ InStep /\ Faithful /\ Finished
  BY DEF Fresh, InStep, Faithful, Finished, Before, During, Past, NothingLingers
<1> QED BY <1>1, <1>2 DEF ExportInv

(* A step that leaves the data alone: only its place is to be looked at.   *)
LEMMA SameOut ==
  ASSUME UNCHANGED <<local, compress, part, staged, object>>
  PROVE  /\ Out' = Out /\ (InPlace(Out) => InPlace(Out'))
         /\ Opened(Out') = Opened(Out) /\ Whole(object)' = Whole(object)
BY DEF Out, Whole

LEMMA ToolStep ==
  ASSUME ExportInv, DumperWrites \/ DumperExits \/ DumperDies \/ DumperKilled \/ ExportCancelled
  PROVE  ExportInv'
<1>1. UNCHANGED <<local, compress, part, staged, object>> /\ UNCHANGED <<block, sealed, copied>>
  BY DEF DumperWrites, DumperExits, DumperDies, DumperKilled, ExportCancelled, asked, tool, stream
<1>2. UNCHANGED <<xpc, there, excused, copyErr>>
  BY DEF DumperWrites, DumperExits, DumperDies, DumperKilled, ExportCancelled, stream
<1>3. /\ Out' = Out /\ Opened(Out') = Opened(Out)
      /\ (InPlace(Out) => InPlace(Out')) /\ Whole(object)' = Whole(object)
  BY <1>1, SameOut
<1>4. CASE dumper' = dumper /\ written' = written
  <2>1. ExportTypes' /\ Fresh' /\ InStep' /\ Finished'
    BY <1>1, <1>2, <1>3, <1>4
    DEF ExportInv, ExportTypes, Fresh, InStep, Finished, NothingLingers
  <2>2. Faithful'
    BY <1>1, <1>2, <1>3 DEF ExportInv, Faithful, Expected
  <2> QED BY <2>1, <2>2 DEF ExportInv
<1>5. CASE /\ dumper = "running" /\ written' \in 0..Units /\ written <= written'
           /\ written' - copied <= PipeCap
           /\ dumper' = "ok" => written' = Units
           /\ dumper' \in {"running", "ok", "dead"}
  <2>1. dumper # "none" /\ dumper # "ok"
    BY <1>5
  <2>2. ExportTypes'
    BY <1>1, <1>2, <1>5 DEF ExportInv, ExportTypes
  <2>3. xpc \notin Before /\ xpc \notin Past
    BY <1>5 DEF ExportInv, Fresh, InStep
  <2>4. Fresh' /\ InStep'
    BY <1>1, <1>2, <1>5, <2>3, ExportDumpAssumption DEF ExportInv, Fresh, InStep, Past
  <2>5. Finished'
    BY <1>1, <1>2, <1>3, <1>5 DEF ExportInv, Finished, NothingLingers
  <2>6. Faithful'
    BY <1>1, <1>2, <1>3 DEF ExportInv, Faithful, Expected
  <2> QED BY <2>2, <2>4, <2>5, <2>6 DEF ExportInv
<1>6. CASE DumperWrites
  BY <1>5, <1>6, CipherStreamAssumption, ExportDumpAssumption
  DEF DumperWrites, ExportInv, ExportTypes
<1>7. CASE DumperExits \/ DumperDies \/ DumperKilled
  BY <1>5, <1>7, CipherStreamAssumption DEF DumperExits, DumperDies, DumperKilled, ExportInv, ExportTypes
<1>8. CASE ExportCancelled
  BY <1>4, <1>8 DEF ExportCancelled, tool
<1> QED BY <1>6, <1>7, <1>8

(* The steps up to the start of the tool, which write nothing. *)
LEMMA OpeningStep ==
  ASSUME ExportInv, CheckRequest \/ OpenFile \/ CreateUpload \/ StartTool
  PROVE  ExportInv'
<1> USE DEF asked, tool, stream
<1>1. /\ UNCHANGED <<local, compress, written, copied, copyErr, block, sealed>>
      /\ UNCHANGED <<part, staged, object, excused>>
  BY DEF CheckRequest, OpenFile, CreateUpload, StartTool
<1>2. /\ block = <<>> /\ sealed = 0 /\ part = <<>> /\ staged = <<>> /\ object = <<>>
      /\ copied = 0 /\ written = 0 /\ dumper = "none" /\ ~copyErr
      /\ xpc # "start" => ~there
      /\ xpc \in Before
  BY DEF ExportInv, Fresh, CheckRequest, OpenFile, CreateUpload, StartTool, Before
<1>3. \/ xpc' \in Before /\ dumper' = "none"
      \/ xpc' = "failed" /\ dumper' = "none" /\ ~there'
      \/ xpc' = "abort" /\ dumper' = "none" /\ there' = there
      \/ xpc' = "pump" /\ dumper' = "running" /\ there' = there
  BY <1>2 DEF CheckRequest, OpenFile, CreateUpload, StartTool, Before
<1>4. /\ xpc' \in {"check", "open"} => ~there'
      /\ there' => local
      /\ local /\ xpc' \in {"start", "pump"} => there'
  BY <1>2 DEF ExportInv, Finished, CheckRequest, OpenFile, CreateUpload, StartTool, Before, During
<1>5. ExportTypes'
  BY <1>1, <1>3 DEF ExportInv, ExportTypes, Before, During
<1>6. Fresh' /\ InStep'
  BY <1>1, <1>2, <1>3, <1>4, CipherStreamAssumption DEF Fresh, InStep, Before, During, Past
<1>7. Finished'
  BY <1>1, <1>2, <1>3, <1>4 DEF Finished, NothingLingers, Before, During, Past
<1>8. Faithful'
  <2>1. CASE xpc' = "pump"
    <3>1. Out' = <<>>
      BY <1>1, <1>2 DEF Out
    <3>2. Opened(Out') = <<>> /\ Opened(Out') \in Seq(Symbols)
      <4>1. Opened(Out') = <<>>
        BY <3>1, OpenedNothing, Zenon
      <4>2. <<>> \in Seq(Symbols)
        OBVIOUS
      <4> QED BY <4>1, <4>2
    <3>3. Expected' = <<>>
      BY <1>1, <1>2, <2>1 DEF Expected, Taken
    <3> QED BY <1>1, <1>2, <3>1, <3>2, <3>3 DEF Faithful, InPlace
  <2>2. CASE xpc' # "pump"
    BY <1>3, <2>2 DEF Faithful, Before, During, Past
  <2> QED BY <2>1, <2>2
<1> QED BY <1>5, <1>6, <1>7, <1>8 DEF ExportInv

(* A unit of the dump is read, and written or lost. *)
LEMMA CopyStep == ASSUME ExportInv, Copy PROVE ExportInv'
<1> USE DEF asked, tool
<1>1. /\ xpc = "pump" /\ copied < written /\ copied' = copied + 1
      /\ UNCHANGED <<local, compress, xctx, dumper, written, there, excused>>
  BY DEF Copy
<1>2. /\ ExportTypes /\ ~copyErr /\ dumper # "none"
      /\ local => staged = <<>> /\ part = <<>> /\ there
      /\ ~local => ~there
  BY <1>1 DEF ExportInv, InStep, Finished, During
<1>3. copied' \in 0..written' /\ written' - copied' <= PipeCap /\ copied + 1 \in 1..Units
  BY <1>1, <1>2, CipherStreamAssumption, ExportDumpAssumption DEF ExportTypes
<1>4. CASE WriteUnit(copied + 1) /\ UNCHANGED <<xpc, copyErr>>
  <2>1. /\ InPlace(Out) /\ sealed = Len(Out) /\ Opened(Out) \in Seq(Symbols)
        /\ Opened(Out) \o block = Taken(copied)
    BY <1>1, <1>2 DEF ExportInv, Faithful, Expected, During
  <2>2. copied + 1 \in Symbols
    BY <1>3 DEF Symbols
  <2>3. /\ InPlace(Out') /\ sealed' = Len(Out') /\ sealed' \in Nat
        /\ Opened(Out') \in Seq(Symbols)
        /\ Opened(Out') \o block' = Append(Opened(Out) \o block, copied + 1)
        /\ block' \in Seq(Symbols) /\ Len(block') < BlockUnits
        /\ part' \in Seq(FrameSet) /\ Len(part') < PartFrames
        /\ staged' \in Seq(FrameSet) /\ object' \in Seq(FrameSet)
        /\ local => staged' = <<>> /\ part' = <<>>
    BY <1>1, <1>2, <1>4, <2>1, <2>2, UnitEffect
  <2>4. Append(Taken(copied), copied + 1) = Taken(copied + 1)
    <3>1. copied \in Nat
      BY <1>2 DEF ExportTypes
    <3> QED BY <3>1, TakenMore
  <2>5. Expected' = Taken(copied + 1)
    BY <1>1, <1>4 DEF Expected
  <2>6. Faithful'
    BY <2>1, <2>3, <2>4, <2>5 DEF Faithful
  <2>7. ExportTypes'
    BY <1>1, <1>2, <1>3, <1>4, <2>3 DEF ExportTypes
  <2>8. Fresh' /\ InStep' /\ Finished'
    BY <1>1, <1>2, <1>4, <2>3
    DEF ExportInv, Fresh, InStep, Finished, NothingLingers, Before, During, Past
  <2> QED BY <2>6, <2>7, <2>8 DEF ExportInv
<1>5. CASE /\ copyErr' = TRUE /\ xpc' = "wait"
           /\ UNCHANGED <<block, sealed, part, staged, object>>
  <2>1. ExportTypes'
    BY <1>1, <1>2, <1>3, <1>5 DEF ExportTypes, During
  <2>2. Fresh' /\ InStep' /\ Finished' /\ Faithful'
    BY <1>1, <1>2, <1>5
    DEF ExportInv, Fresh, InStep, Finished, Faithful, NothingLingers, Before, During, Past
  <2> QED BY <2>1, <2>2 DEF ExportInv
<1> QED BY <1>4, <1>5 DEF Copy

(* The copy ends, and the tool has been waited for. *)
LEMMA WaitStep == ASSUME ExportInv, CopyEOF \/ Wait PROVE ExportInv'
<1> USE DEF asked, tool, stream
<1>1. /\ UNCHANGED <<local, compress, part, staged, object>>
      /\ UNCHANGED <<dumper, written, copied, copyErr, block, sealed, there, excused>>
  BY DEF CopyEOF, Wait
<1>2. /\ Out' = Out /\ Opened(Out') = Opened(Out)
      /\ (InPlace(Out) => InPlace(Out')) /\ Whole(object)' = Whole(object)
  BY <1>1, SameOut
<1>3. \/ xpc = "pump" /\ xpc' = "wait" /\ copied = written /\ dumper # "running"
      \/ xpc = "wait" /\ xpc' = "abort"
      \/ /\ xpc = "wait" /\ ~copyErr /\ dumper = "ok"
         /\ xpc' = IF compress THEN "gzip" ELSE "seal"
  <2>1. dumper \in {"none", "running", "ok", "dead"}
    BY DEF ExportInv, ExportTypes
  <2>2. xpc = "wait" => dumper # "none"
    BY DEF ExportInv, InStep, During
  <2> QED BY <2>1, <2>2 DEF CopyEOF, Wait
<1>4. ExportTypes'
  BY <1>1, <1>3 DEF ExportInv, ExportTypes, During, Past
<1>5. Fresh' /\ InStep' /\ Finished'
  <2>1. dumper = "ok" => written = Units
    BY DEF ExportInv, InStep
  <2>2. xpc = "wait" /\ ~copyErr => copied = written
    BY DEF ExportInv, InStep
  <2> QED BY <1>1, <1>2, <1>3, <2>1, <2>2
      DEF ExportInv, Fresh, InStep, Finished, NothingLingers, Before, During, Past
<1>6. Faithful'
  <2>1. CASE xpc' = "abort"
    BY <2>1 DEF Faithful, During, Past
  <2>2. CASE xpc' # "abort"
    <3>1. Expected' = Expected
      BY <1>1, <1>3, <2>2 DEF Expected
    <3> QED BY <1>1, <1>2, <1>3, <2>2, <3>1 DEF ExportInv, Faithful, During, Past
  <2> QED BY <2>1, <2>2
<1> QED BY <1>4, <1>5, <1>6 DEF ExportInv

(* A step past the copy that fails leads to the clean-up. *)
LEMMA AbortStep ==
  ASSUME ExportInv, xpc \in Past \cup {"start"}, xpc' = "abort",
         UNCHANGED <<local, compress, part, staged, object>>,
         UNCHANGED <<dumper, written, copied, copyErr, block, sealed, there, excused>>
  PROVE  ExportInv'
<1>1. Whole(object)' = Whole(object)
  BY SameOut
<1>2. ExportTypes'
  BY DEF ExportInv, ExportTypes
<1>3. Fresh' /\ InStep' /\ Faithful' /\ Finished'
  BY <1>1 DEF ExportInv, Fresh, InStep, Finished, Faithful, NothingLingers, Before, During, Past
<1> QED BY <1>2, <1>3 DEF ExportInv

LEMMA GzipStep == ASSUME ExportInv, CloseGzip PROVE ExportInv'
<1> USE DEF asked, tool
<1>1. /\ xpc = "gzip"
      /\ UNCHANGED <<local, compress, copied, copyErr, dumper, written, there, excused>>
  BY DEF CloseGzip
<1>2. /\ ExportTypes /\ ~copyErr /\ compress /\ copied = Units /\ dumper = "ok"
      /\ local => staged = <<>> /\ part = <<>> /\ there
      /\ ~local => ~there
  BY <1>1 DEF ExportInv, InStep, Finished, During, Past
<1>3. CASE WriteUnit(End) /\ xpc' = "seal"
  <2>1. /\ InPlace(Out) /\ sealed = Len(Out) /\ Opened(Out) \in Seq(Symbols)
        /\ Opened(Out) \o block = Taken(copied)
    BY <1>1, <1>2 DEF ExportInv, Faithful, Expected, During, Past
  <2>2. End \in Symbols
    BY DEF Symbols
  <2>3. /\ InPlace(Out') /\ sealed' = Len(Out') /\ sealed' \in Nat
        /\ Opened(Out') \in Seq(Symbols)
        /\ Opened(Out') \o block' = Append(Opened(Out) \o block, End)
        /\ block' \in Seq(Symbols) /\ Len(block') < BlockUnits
        /\ part' \in Seq(FrameSet) /\ Len(part') < PartFrames
        /\ staged' \in Seq(FrameSet) /\ object' \in Seq(FrameSet)
        /\ local => staged' = <<>> /\ part' = <<>>
    BY <1>1, <1>2, <1>3, <2>1, <2>2, UnitEffect
  <2>4. Expected' = Append(Taken(copied), End)
    BY <1>1, <1>2, <1>3 DEF Expected
  <2>5. Faithful'
    BY <2>1, <2>3, <2>4 DEF Faithful
  <2>6. ExportTypes'
    BY <1>1, <1>2, <1>3, <2>3 DEF ExportTypes, During, Past
  <2>7. Fresh' /\ InStep' /\ Finished'
    BY <1>1, <1>2, <1>3, <2>3
    DEF ExportInv, Fresh, InStep, Finished, NothingLingers, Before, During, Past
  <2> QED BY <2>5, <2>6, <2>7 DEF ExportInv
<1>4. CASE xpc' = "abort" /\ UNCHANGED <<block, sealed, part, staged, object>>
  BY <1>1, <1>4, AbortStep DEF Past
<1> QED BY <1>3, <1>4 DEF CloseGzip

LEMMA SealStep == ASSUME ExportInv, CloseEncrypter PROVE ExportInv'
<1> USE DEF asked, tool
<1>1. /\ xpc = "seal"
      /\ UNCHANGED <<local, compress, copied, copyErr, dumper, written, there, excused>>
  BY DEF CloseEncrypter
<1>2. /\ ExportTypes /\ ~copyErr /\ copied = Units /\ dumper = "ok"
      /\ local => staged = <<>> /\ part = <<>> /\ there
      /\ ~local => ~there
  BY <1>1 DEF ExportInv, InStep, Finished, During, Past
<1>3. /\ InPlace(Out) /\ sealed = Len(Out) /\ Opened(Out) \in Seq(Symbols)
      /\ Opened(Out) \o block = Expected
  BY <1>1, <1>2 DEF ExportInv, Faithful, During, Past
<1>4. xpc' = "close" => Expected' = Expected
  BY <1>1 DEF Expected
<1>5. CASE block = <<>> /\ xpc' = "close" /\ UNCHANGED <<sealed, block, part, staged, object>>
  <2>1. Out' = Out /\ Opened(Out') = Opened(Out) /\ InPlace(Out')
    BY <1>1, <1>3, <1>5, SameOut
  <2>2. Faithful'
    BY <1>3, <1>4, <1>5, <2>1 DEF Faithful
  <2>3. ExportTypes'
    BY <1>1, <1>2, <1>5 DEF ExportTypes, During, Past
  <2>4. Fresh' /\ InStep' /\ Finished'
    BY <1>1, <1>2, <1>5
    DEF ExportInv, Fresh, InStep, Finished, NothingLingers, Before, During, Past
  <2> QED BY <2>2, <2>3, <2>4 DEF ExportInv
<1>6. CASE /\ block # <<>> /\ WriteSink(Seal(sealed, block))
           /\ sealed' = sealed + 1 /\ block' = <<>> /\ xpc' = "close"
  <2>1. block \in Seq(Symbols)
    BY <1>2 DEF ExportTypes
  <2>2. /\ InPlace(Out') /\ Len(Out') = sealed + 1
        /\ Opened(Out') \in Seq(Symbols) /\ Opened(Out') = Opened(Out) \o block
        /\ part' \in Seq(FrameSet) /\ Len(part') < PartFrames
        /\ staged' \in Seq(FrameSet) /\ object' \in Seq(FrameSet)
        /\ local => staged' = <<>> /\ part' = <<>>
    BY <1>1, <1>2, <1>3, <1>6, <2>1, SealEffect
  <2>3. Opened(Out') \o block' = Opened(Out')
    BY <1>6, <2>2, AppendToBoth
  <2>4. Faithful'
    BY <1>3, <1>4, <1>6, <2>2, <2>3 DEF Faithful
  <2>5. ExportTypes'
    BY <1>1, <1>2, <1>6, <2>2, CipherStreamAssumption DEF ExportTypes, During, Past
  <2>6. Fresh' /\ InStep' /\ Finished'
    BY <1>1, <1>2, <1>6, <2>2
    DEF ExportInv, Fresh, InStep, Finished, NothingLingers, Before, During, Past
  <2> QED BY <2>4, <2>5, <2>6 DEF ExportInv
<1>7. CASE xpc' = "abort" /\ UNCHANGED <<sealed, block, part, staged, object>>
  BY <1>1, <1>7, AbortStep DEF Past
<1> QED BY <1>5, <1>6, <1>7 DEF CloseEncrypter

(* Once the encrypter is closed, the whole dump has been written. *)
LEMMA ClosedIsWhole ==
  ASSUME ExportInv, xpc \in {"close", "complete"}
  PROVE  Whole(Out) /\ dumper = "ok" /\ copied = Units /\ block = <<>> /\ ~copyErr
<1>1. /\ dumper = "ok" /\ copied = Units /\ block = <<>> /\ ~copyErr
  BY DEF ExportInv, InStep, Past
<1>2. /\ InPlace(Out) /\ Opened(Out) \in Seq(Symbols)
      /\ Opened(Out) \o block = Expected
  BY <1>1 DEF ExportInv, Faithful, During, Past
<1>3. Opened(Out) \o <<>> = Opened(Out)
  BY <1>2, AppendToBoth
<1>4. Expected = Plain(compress)
  BY <1>1 DEF Expected, Plain, Dump, Taken
<1> QED BY <1>1, <1>2, <1>3, <1>4 DEF Whole

LEMMA CloseFileStep == ASSUME ExportInv, CloseFile PROVE ExportInv'
<1> USE DEF asked, tool, stream
<1>1. /\ xpc = "close" /\ local
      /\ UNCHANGED <<local, compress, part, staged, object>>
      /\ UNCHANGED <<copied, copyErr, block, sealed, dumper, written, there>>
      /\ \/ xpc' = "done" /\ excused' = excused
         \/ xpc' = "failed" /\ excused' = TRUE
  BY DEF CloseFile
<1>2. Whole(object) /\ dumper = "ok" /\ ~copyErr
  <2>1. Out = object
    BY <1>1 DEF Out
  <2> QED BY <1>1, <2>1, ClosedIsWhole
<1>3. Whole(object)' = Whole(object)
  BY <1>1, SameOut
<1>4. ExportTypes'
  BY <1>1 DEF ExportInv, ExportTypes
<1>5. Fresh' /\ InStep' /\ Faithful' /\ Finished'
  BY <1>1, <1>2, <1>3
  DEF ExportInv, Fresh, InStep, Finished, Faithful, NothingLingers, Before, During, Past
<1> QED BY <1>4, <1>5 DEF ExportInv

LEMMA TailStep == ASSUME ExportInv, UploadTail PROVE ExportInv'
<1> USE DEF asked, tool
<1>1. /\ xpc = "close" /\ ~local
      /\ UNCHANGED <<local, compress, object, copied, copyErr, block, sealed>>
      /\ UNCHANGED <<dumper, written, there, excused>>
  BY DEF UploadTail
<1>2. CASE staged' = staged \o part /\ part' = <<>> /\ xpc' = "complete"
  <2>1. staged \in Seq(FrameSet) /\ part \in Seq(FrameSet)
    BY DEF ExportInv, ExportTypes
  <2>2. staged' \in Seq(FrameSet) /\ staged' \o <<>> = staged'
    BY <1>2, <2>1
  <2>3. Out' = Out
    BY <1>1, <1>2, <2>2 DEF Out
  <2>4. Expected' = Expected
    BY <1>1, <1>2 DEF Expected
  <2>5. Faithful'
    BY <1>1, <1>2, <2>3, <2>4 DEF ExportInv, Faithful, During, Past
  <2>6. ExportTypes'
    BY <1>1, <1>2, <2>2, ExportDumpAssumption DEF ExportInv, ExportTypes, During, Past
  <2>7. Fresh' /\ InStep' /\ Finished'
    BY <1>1, <1>2
    DEF ExportInv, Fresh, InStep, Finished, NothingLingers, Before, During, Past
  <2> QED BY <2>5, <2>6, <2>7 DEF ExportInv
<1>3. CASE xpc' = "abort" /\ UNCHANGED <<staged, part>>
  BY <1>1, <1>3, AbortStep DEF Past
<1> QED BY <1>2, <1>3 DEF UploadTail

LEMMA CompleteStep == ASSUME ExportInv, Complete PROVE ExportInv'
<1> USE DEF asked, tool
<1>1. /\ xpc = "complete" /\ ~local
      /\ UNCHANGED <<local, compress, part, copied, copyErr, block, sealed>>
      /\ UNCHANGED <<dumper, written, excused>>
  BY DEF Complete, ExportInv, Finished
<1>2. CASE object' = staged /\ staged' = <<>> /\ there' = TRUE /\ xpc' \in {"done", "abort"}
  <2>1. part = <<>> /\ staged \in Seq(FrameSet)
    BY <1>1 DEF ExportInv, InStep, ExportTypes
  <2>2. Out = object'
    BY <1>1, <1>2, <2>1 DEF Out
  <2>3. Whole(Out) /\ dumper = "ok" /\ ~copyErr
    BY <1>1, ClosedIsWhole
  <2>4. Whole(object)'
    BY <1>1, <2>2, <2>3 DEF Whole, InPlace
  <2>5. ExportTypes'
    BY <1>1, <1>2, <2>1 DEF ExportInv, ExportTypes
  <2>6. Fresh' /\ InStep' /\ Faithful' /\ Finished'
    BY <1>1, <1>2, <2>3, <2>4
    DEF ExportInv, Fresh, InStep, Finished, Faithful, NothingLingers, Before, During, Past
  <2> QED BY <2>5, <2>6 DEF ExportInv
<1>3. CASE xpc' = "abort" /\ UNCHANGED <<object, staged, there>>
  BY <1>1, <1>3, AbortStep DEF Past
<1> QED BY <1>2, <1>3 DEF Complete

LEMMA CleanUpStep == ASSUME ExportInv, AbortUpload \/ RemoveFile PROVE ExportInv'
<1> USE DEF asked, tool
<1>1. /\ xpc = "abort" /\ xpc' = "failed"
      /\ UNCHANGED <<local, compress, part, copied, copyErr, block, sealed>>
      /\ UNCHANGED <<dumper, written>>
  BY DEF AbortUpload, RemoveFile
<1>2. CASE AbortUpload
  <2>1. /\ ~local /\ UNCHANGED <<object, there>>
        /\ \/ staged' = <<>> /\ excused' = excused
           \/ staged' = staged /\ excused' = TRUE
    BY <1>2 DEF AbortUpload
  <2>2. Whole(object)' = Whole(object)
    BY <1>1, <2>1 DEF Whole, InPlace
  <2>3. ExportTypes'
    <3>1. ExportTypes /\ staged \in Seq(FrameSet)
      BY DEF ExportInv, ExportTypes
    <3>2. <<>> \in Seq(FrameSet)
      OBVIOUS
    <3>3. staged' \in Seq(FrameSet)
      BY <2>1, <3>1, <3>2
    <3> QED BY <1>1, <2>1, <3>1, <3>3 DEF ExportTypes
  <2>4. Fresh' /\ InStep' /\ Faithful' /\ Finished'
    BY <1>1, <2>1, <2>2
    DEF ExportInv, Fresh, InStep, Finished, Faithful, NothingLingers, Before, During, Past
  <2> QED BY <2>3, <2>4 DEF ExportInv
<1>3. CASE RemoveFile
  <2>1. /\ local /\ UNCHANGED staged
        /\ \/ there' = FALSE /\ object' = <<>> /\ excused' = excused
           \/ UNCHANGED <<there, object>> /\ excused' = TRUE
    BY <1>3 DEF RemoveFile
  <2>2. ExportTypes'
    <3>1. ExportTypes /\ object \in Seq(FrameSet)
      BY DEF ExportInv, ExportTypes
    <3>2. <<>> \in Seq(FrameSet)
      OBVIOUS
    <3>3. object' \in Seq(FrameSet)
      BY <2>1, <3>1, <3>2
    <3> QED BY <1>1, <2>1, <3>1, <3>3 DEF ExportTypes
  <2>3. Fresh' /\ InStep' /\ Faithful' /\ Finished'
    BY <1>1, <2>1
    DEF ExportInv, Fresh, InStep, Finished, Faithful, NothingLingers, Before, During, Past
  <2> QED BY <2>2, <2>3 DEF ExportInv
<1> QED BY <1>2, <1>3

LEMMA NoExportStep == ASSUME ExportInv, UNCHANGED exportVars PROVE ExportInv'
<1> USE DEF exportVars
<1>1. /\ Out' = Out /\ Opened(Out') = Opened(Out)
      /\ (InPlace(Out) => InPlace(Out')) /\ Whole(object)' = Whole(object)
  BY SameOut
<1>2. ExportTypes' /\ Fresh' /\ InStep' /\ Finished'
  BY <1>1 DEF ExportInv, ExportTypes, Fresh, InStep, Finished, NothingLingers
<1>3. Expected' = Expected
  BY DEF Expected
<1>4. Faithful'
  BY <1>1, <1>3 DEF ExportInv, Faithful
<1> QED BY <1>2, <1>4 DEF ExportInv

LEMMA ExportInvNext == ASSUME ExportInv, [Next]_vars PROVE ExportInv'
<1>1. CASE ExportNext
  BY <1>1, ToolStep, OpeningStep, CopyStep, WaitStep, GzipStep, SealStep, CloseFileStep,
     TailStep, CompleteStep, CleanUpStep, Zenon
  DEF ExportNext, ExportStep
<1>2. CASE UNCHANGED exportVars
  BY <1>2, NoExportStep
<1> QED BY <1>1, <1>2 DEF Next, ByExport, ByRestore, Push, vars
-----------------------------------------------------------------------------
(* The copy of the object, and what the restores have read of it *)

(* t starts with s. *)
Starts(s, t) == \E u \in Seq(Symbols) : t = s \o u

LEMMA StartsItself ==
  ASSUME NEW s \in Seq(Symbols) PROVE Starts(s, s)
<1>1. <<>> \in Seq(Symbols) /\ s = s \o <<>>
  OBVIOUS
<1> QED BY <1>1 DEF Starts

LEMMA StartsOn ==
  ASSUME NEW s \in Seq(Symbols), NEW x \in Seq(Symbols), NEW t \in Seq(Symbols),
         Starts(s \o x, t)
  PROVE  Starts(s, t)
<1>1. PICK u \in Seq(Symbols) : t = (s \o x) \o u
  BY DEF Starts
<1>2. (s \o x) \o u = s \o (x \o u)
  BY ConcatAssociative
<1>3. x \o u \in Seq(Symbols)
  OBVIOUS
<1> QED BY <1>1, <1>2, <1>3 DEF Starts

(* The frames up to some place hold the start of what all of them hold.    *)
LEMMA OpenedStarts ==
  ASSUME NEW fs \in Seq(FrameSet), Opened(fs) \in Seq(Symbols), NEW n \in 0..Len(fs)
  PROVE  /\ Opened(SubSeq(fs, 1, n)) \in Seq(Symbols)
         /\ Starts(Opened(SubSeq(fs, 1, n)), Opened(fs))
<1> DEFINE L == Len(fs)
           Read(k) == Opened(SubSeq(fs, 1, k))
           S == {k \in Nat : k <= L => Read(k) \in Seq(Symbols)}
           T == {k \in Nat : k <= L => Starts(Read(L - k), Opened(fs))}
<1>1. L \in Nat /\ SubSeq(fs, 1, L) = fs /\ SubSeq(fs, 1, 0) = <<>>
  OBVIOUS
<1>2. ASSUME NEW k \in Nat, k + 1 <= L
      PROVE  /\ Read(k + 1) = Read(k) \o fs[k + 1].data
             /\ fs[k + 1].data \in Seq(Symbols)
  <2>1. /\ SubSeq(fs, 1, k) \in Seq(FrameSet) /\ fs[k + 1] \in FrameSet
        /\ SubSeq(fs, 1, k + 1) = Append(SubSeq(fs, 1, k), fs[k + 1])
    BY <1>2
  <2>2. Opened(Append(SubSeq(fs, 1, k), fs[k + 1])) = Opened(SubSeq(fs, 1, k)) \o fs[k + 1].data
    BY <2>1, OpenedAppend
  <2>3. fs[k + 1].data \in Seq(Symbols)
    BY <2>1 DEF FrameSet
  <2> QED BY <2>1, <2>2, <2>3
<1>3. Read(0) = <<>> /\ Read(L) = Opened(fs)
  BY <1>1, OpenedNothing, Zenon
<1> HIDE DEF L, Read
<1>4. 0 \in S /\ 0 \in T
  <2>1. <<>> \in Seq(Symbols) /\ L - 0 = L
    BY <1>1
  <2> QED BY <1>3, <2>1, StartsItself
<1>5. ASSUME NEW k \in Nat, k \in S PROVE k + 1 \in S
  <2>1. SUFFICES ASSUME k + 1 <= L PROVE Read(k + 1) \in Seq(Symbols)
    OBVIOUS
  <2>2. Read(k) \in Seq(Symbols)
    BY <1>1, <1>5, <2>1
  <2>3. Read(k + 1) = Read(k) \o fs[k + 1].data /\ fs[k + 1].data \in Seq(Symbols)
    BY <1>2, <2>1
  <2>4. Read(k) \o fs[k + 1].data \in Seq(Symbols)
    BY <2>2, <2>3, ConcatProperties
  <2> QED BY <2>3, <2>4
<1>6. Nat \subseteq S
  <2> HIDE DEF S
  <2> QED BY <1>4, <1>5, SetInduction
<1>7. ASSUME NEW k \in 0..L PROVE Read(k) \in Seq(Symbols)
  BY <1>1, <1>6
<1>8. ASSUME NEW k \in Nat, k \in T PROVE k + 1 \in T
  <2>1. SUFFICES ASSUME k + 1 <= L PROVE Starts(Read(L - (k + 1)), Opened(fs))
    OBVIOUS
  <2> DEFINE m == L - (k + 1)
  <2>2. m \in Nat /\ m + 1 <= L /\ m + 1 = L - k /\ m \in 0..L /\ k <= L
    BY <1>1, <2>1
  <2> HIDE DEF m
  <2>3. Starts(Read(m + 1), Opened(fs))
    BY <1>8, <2>2
  <2>4. Read(m + 1) = Read(m) \o fs[m + 1].data /\ fs[m + 1].data \in Seq(Symbols)
    BY <1>2, <2>2
  <2>5. Read(m) \in Seq(Symbols)
    BY <1>7, <2>2
  <2>6. Starts(Read(m) \o fs[m + 1].data, Opened(fs))
    BY <2>3, <2>4
  <2>7. Starts(Read(m), Opened(fs))
    BY <2>4, <2>5, <2>6, StartsOn
  <2> QED BY <2>7 DEF m
<1>9. Nat \subseteq T
  <2> HIDE DEF T
  <2> QED BY <1>4, <1>8, SetInduction
<1>10. Starts(Read(n), Opened(fs))
  <2>1. L - n \in Nat /\ L - n <= L /\ L - (L - n) = n
    BY <1>1 DEF L
  <2>2. Starts(Read(L - (L - n)), Opened(fs))
    BY <1>9, <2>1
  <2> QED BY <2>1, <2>2
<1>11. Read(n) \in Seq(Symbols)
  BY <1>7 DEF L
<1> QED BY <1>10, <1>11 DEF Read

LEMMA PlainUnits ==
  ASSUME NEW z \in BOOLEAN
  PROVE  /\ Plain(z) \in Seq(Symbols)
         /\ Len(Plain(z)) = IF z THEN Units + 1 ELSE Units
         /\ \A i \in 1..Units : Plain(z)[i] = i
         /\ z => Plain(z)[Units + 1] = End
         /\ Dump \in Seq(Symbols) /\ Len(Dump) = Units /\ \A i \in 1..Units : Dump[i] = i
<1>1. /\ Dump \in Seq(Symbols) /\ Len(Dump) = Units /\ \A i \in 1..Units : Dump[i] = i
      /\ Units \in Nat /\ End \in Symbols
  BY CipherStreamAssumption DEF Dump, Symbols
<1>2. CASE z
  <2>1. Plain(z) = Append(Dump, End)
    BY <1>2 DEF Plain
  <2> DEFINE d == Dump
  <2>2. d \in Seq(Symbols) /\ Len(d) = Units /\ \A i \in 1..Units : d[i] = i
    BY <1>1
  <2> HIDE DEF d
  <2>3. /\ Append(d, End) \in Seq(Symbols) /\ Len(Append(d, End)) = Units + 1
        /\ Append(d, End)[Units + 1] = End
        /\ \A i \in 1..Units : Append(d, End)[i] = d[i]
    BY <1>1, <2>2
  <2> QED BY <1>1, <1>2, <2>1, <2>2, <2>3 DEF d
<1>3. CASE ~z
  <2>1. Plain(z) = Dump
    BY <1>3 DEF Plain
  <2> QED BY <1>1, <1>3, <2>1
<1> QED BY <1>2, <1>3

(* What a tool gets of the start of a dump is the start of the dump, and   *)
(* all of it when nothing is missing or gzip's trailer has been read.      *)
LEMMA UnzipStarts ==
  ASSUME NEW z \in BOOLEAN, NEW p \in Seq(Symbols), Starts(p, Plain(z))
  PROVE  /\ IsPrefix(Unzip(p), Dump)
         /\ p = Plain(z) => Unzip(p) = Dump
         /\ z /\ p # <<>> /\ Last(p) = End => Unzip(p) = Dump
<1> DEFINE D == Plain(z)
<1>1. PICK u \in Seq(Symbols) : D = p \o u
  BY DEF Starts
<1>2. /\ D \in Seq(Symbols) /\ Len(D) = IF z THEN Units + 1 ELSE Units
      /\ \A i \in 1..Units : D[i] = i
      /\ z => D[Units + 1] = End
      /\ Dump \in Seq(Symbols) /\ Len(Dump) = Units /\ \A i \in 1..Units : Dump[i] = i
  BY PlainUnits
<1>3. Units \in Nat /\ End \notin 1..Units
  BY CipherStreamAssumption
<1> HIDE DEF D
<1>4. /\ Len(p) \in Nat /\ Len(p) <= Len(D)
      /\ \A i \in 1..Len(p) : p[i] = D[i]
  BY <1>1, <1>2
<1>5. p # <<>> <=> Len(p) # 0
  OBVIOUS
<1>6. CASE Len(p) <= Units
  <2>1. \A i \in 1..Len(p) : p[i] = i
    BY <1>2, <1>3, <1>4, <1>6
  <2>2. p # <<>> => p[Len(p)] = Len(p) /\ Len(p) \in 1..Units
    BY <1>3, <1>4, <1>5, <1>6, <2>1
  <2>3. ~ (p # <<>> /\ Last(p) = End)
    BY <1>3, <2>2 DEF Last
  <2>4. Unzip(p) = p
    BY <2>3 DEF Unzip
  <2>5. IsPrefix(p, Dump)
    <3>1. SubSeq(p, 1, Len(p)) = p
      OBVIOUS
    <3>2. SubSeq(Dump, 1, Len(p)) = p
      BY <1>2, <1>3, <1>4, <1>6, <2>1
    <3> QED BY <1>2, <1>6, <3>1, <3>2 DEF IsPrefix
  <2>6. p = D => p = Dump
    <3> SUFFICES ASSUME p = D PROVE p = Dump
      OBVIOUS
    <3>1. Len(p) = Units
      BY <1>2, <1>3, <1>6
    <3> QED BY <1>2, <2>1, <3>1
  <2> QED BY <2>3, <2>4, <2>5, <2>6 DEF D
<1>7. CASE ~(Len(p) <= Units)
  <2>1. z /\ Len(p) = Units + 1 /\ Len(p) # 0
    BY <1>2, <1>3, <1>4, <1>7
  <2>2. p # <<>> /\ Last(p) = End
    <3>1. p[Units + 1] = D[Units + 1]
      BY <1>3, <1>4, <2>1
    <3> QED BY <1>2, <1>5, <2>1, <3>1 DEF Last
  <2>3. Unzip(p) = SubSeq(p, 1, Units)
    <3>1. Len(p) - 1 = Units
      BY <1>3, <2>1
    <3> QED BY <2>2, <3>1 DEF Unzip, Front
  <2>4. SubSeq(p, 1, Units) = Dump
    <3>1. \A i \in 1..Units : p[i] = i
      BY <1>2, <1>3, <1>4, <2>1
    <3> QED BY <1>2, <1>3, <2>1, <3>1
  <2>5. IsPrefix(Dump, Dump)
    BY <1>2 DEF IsPrefix
  <2> QED BY <2>3, <2>4, <2>5
<1> QED BY <1>6, <1>7

LEMMA BrokenFrame == Broken \in FrameSet /\ \A k : ~Opens(Broken, k)
<1>1. <<>> \in Seq(Symbols) /\ Units + 1 \in Nat
  BY CipherStreamAssumption
<1> QED BY <1>1 DEF Broken, FrameSet, Opens

(* A copy that is whole, or damaged: its frames open as far as they are    *)
(* the frames of the object.                                               *)
LEMMA CopyOpens ==
  ASSUME NEW fs \in Seq(FrameSet), InPlace(fs), NEW c, c = fs \/ c \in Damaged(fs)
  PROVE  /\ c \in Seq(FrameSet)
         /\ \A n \in 0..Len(c) : (\A k \in 1..n : Opens(c[k], k - 1)) =>
              n <= Len(fs) /\ SubSeq(c, 1, n) = SubSeq(fs, 1, n)
<1>1. CASE c = fs
  BY <1>1
<1>2. ASSUME NEW m \in 0..Len(fs), c = SubSeq(fs, 1, m)
      PROVE  /\ c \in Seq(FrameSet)
             /\ \A n \in 0..Len(c) : n <= Len(fs) /\ SubSeq(c, 1, n) = SubSeq(fs, 1, n)
  BY <1>2
<1>3. ASSUME NEW m \in 0..(Len(fs) - 1), c = Append(SubSeq(fs, 1, m), Broken)
      PROVE  /\ c \in Seq(FrameSet)
             /\ \A n \in 0..Len(c) : (\A k \in 1..n : Opens(c[k], k - 1)) =>
                  n <= Len(fs) /\ SubSeq(c, 1, n) = SubSeq(fs, 1, n)
  <2>1. /\ SubSeq(fs, 1, m) \in Seq(FrameSet) /\ Len(SubSeq(fs, 1, m)) = m
        /\ m \in Nat /\ m <= Len(fs)
    OBVIOUS
  <2>2. /\ c \in Seq(FrameSet) /\ Len(c) = m + 1 /\ c[m + 1] = Broken
        /\ \A k \in 1..m : c[k] = fs[k]
    BY <1>3, <2>1, BrokenFrame
  <2>3. ASSUME NEW n \in 0..Len(c), \A k \in 1..n : Opens(c[k], k - 1)
        PROVE  n <= Len(fs) /\ SubSeq(c, 1, n) = SubSeq(fs, 1, n)
    <3>1. ~Opens(c[m + 1], (m + 1) - 1)
      BY <2>2, BrokenFrame
    <3>2. m + 1 \notin 1..n
      BY <2>3, <3>1
    <3>3. n \in Nat /\ n <= m
      BY <2>1, <2>2, <3>2
    <3> QED BY <2>1, <2>2, <3>3
  <2> QED BY <2>2, <2>3
<1>4. ASSUME NEW m \in 1..Len(fs), c = RemoveAt(fs, m)
      PROVE  /\ c \in Seq(FrameSet)
             /\ \A n \in 0..Len(c) : (\A k \in 1..n : Opens(c[k], k - 1)) =>
                  n <= Len(fs) /\ SubSeq(c, 1, n) = SubSeq(fs, 1, n)
  <2>1. c = SubSeq(fs, 1, m - 1) \o SubSeq(fs, m + 1, Len(fs))
    BY <1>4 DEF RemoveAt
  <2> DEFINE a == SubSeq(fs, 1, m - 1)
             b == SubSeq(fs, m + 1, Len(fs))
  <2>3. m \in Nat /\ m # 0 /\ Len(fs) \in Nat /\ m <= Len(fs)
    OBVIOUS
  <2>5. /\ a \in Seq(FrameSet) /\ Len(a) = m - 1
        /\ \A k \in 1..(m - 1) : a[k] = fs[k]
    BY <2>3
  <2>6. /\ b \in Seq(FrameSet) /\ Len(b) = Len(fs) - m
        /\ 1 <= Len(b) => b[1] = fs[m + 1]
    BY <2>3
  <2>2. /\ c \in Seq(FrameSet) /\ Len(c) = Len(fs) - 1
        /\ \A k \in 1..(m - 1) : c[k] = fs[k]
        /\ m <= Len(c) => c[m] = fs[m + 1]
    <3>1. c = a \o b
      BY <2>1
    <3> HIDE DEF a, b
    <3>2. /\ c \in Seq(FrameSet) /\ Len(c) = Len(a) + Len(b)
          /\ \A i \in 1..Len(a) + Len(b) : c[i] = IF i <= Len(a) THEN a[i] ELSE b[i - Len(a)]
      BY <2>5, <2>6, <3>1, ConcatProperties
    <3>4. Len(a) \in Nat /\ Len(b) \in Nat
      BY <2>5, <2>6
    <3>3. /\ c \in Seq(FrameSet)
          /\ \A k \in 1..Len(a) : c[k] = a[k]
          /\ 1 <= Len(b) => c[Len(a) + 1] = b[1]
      BY <3>2, <3>4
    <3> QED BY <2>3, <2>5, <2>6, <3>2, <3>3
  <2> HIDE DEF a, b
  <2>4. ASSUME NEW n \in 0..Len(c), \A k \in 1..n : Opens(c[k], k - 1)
        PROVE  n <= Len(fs) /\ SubSeq(c, 1, n) = SubSeq(fs, 1, n)
    <3>1. ~(m <= n)
      <4> SUFFICES ASSUME m <= n PROVE FALSE
        OBVIOUS
      <4>1. m \in 1..n /\ m + 1 \in 1..Len(fs) /\ m <= Len(c)
        BY <2>2, <2>3
      <4>2. c[m].idx = m - 1
        BY <2>4, <4>1 DEF Opens
      <4>3. fs[m + 1].idx = (m + 1) - 1
        BY <4>1 DEF InPlace, Opens
      <4> QED BY <2>2, <2>3, <4>1, <4>2, <4>3
    <3>2. n \in Nat /\ n <= m - 1 /\ n <= Len(fs)
      BY <2>2, <2>3, <3>1
    <3> QED BY <2>2, <2>3, <3>2
  <2> QED BY <2>2, <2>4
<1> QED BY <1>1, <1>2, <1>3, <1>4 DEF Damaged
-----------------------------------------------------------------------------
(* What a restore has fed its tool, and what the database holds *)

Unfed == Early \cup {"grant", "flush", "undo", "source", "start"}
Reading == {"start", "feed", "wait", "done"}

Text(r) == Plaintext(r, applied[r])

Fed(r) ==
  /\ rpc[r] \in Unfed => applied[r] = 0 /\ opened[r] = 0 /\ ~feedErr[r] /\ restorer[r] = "none"
  /\ rpc[r] \in Reading => source[r] = copy /\ unzip[r] = compress
  /\ \A k \in 1..opened[r] : Opens(source[r][k], k - 1)
  /\ rpc[r] \in Owning => data = Unzip(Text(r))
  /\ rpc[r] = "feed" => restorer[r] \in {"running", "dead"} /\ ~feedErr[r]
  /\ rpc[r] \in {"wait", "done"} => restorer[r] # "none"
  /\ rpc[r] \in {"wait", "done"} /\ ~feedErr[r] => AtEnd(r) /\ Unzipped(r)
  /\ rpc[r] \in {"wait", "done"} /\ restorer[r] = "ok" =>
       applied[r] = opened[r] /\ (engine = "mysql" \/ data = Dump)
  /\ rpc[r] = "done" => restorer[r] = "ok" /\ ~feedErr[r]

(* The panel gives the restores when the export is done, and its object    *)
(* does not change after that.                                             *)
Given ==
  /\ pushed \in BOOLEAN /\ copy \in Seq(FrameSet)
  /\ ~pushed => \A r \in Restores : rpc[r] = "check"
  /\ pushed => xpc = "done" /\ (copy = object \/ (local /\ copy \in Damaged(object)))

FeedTypes ==
  /\ engine \in {"mysql", "postgresql"}
  /\ maker \in Restores \cup {Nobody, Other}
  /\ source \in [Restores -> Seq(FrameSet)]
  /\ unzip \in [Restores -> BOOLEAN]
  /\ feedErr \in [Restores -> BOOLEAN]
  /\ opened \in [Restores -> Nat]
  /\ \A r \in Restores : applied[r] <= opened[r] /\ opened[r] <= Len(source[r])

FeedInv == FeedTypes /\ Given /\ \A r \in Restores : Fed(r)

(* A step that leaves alone what belongs to q, and its database. *)
Spared(q) ==
  /\ rpc'[q] = rpc[q] /\ source'[q] = source[q] /\ unzip'[q] = unzip[q]
  /\ opened'[q] = opened[q] /\ restorer'[q] = restorer[q]
  /\ applied'[q] = applied[q] /\ feedErr'[q] = feedErr[q]
  /\ rpc[q] \in Owning => data' = data

LEMMA SameText ==
  ASSUME NEW r, source'[r] = source[r], applied'[r] = applied[r], opened'[r] = opened[r],
         unzip'[r] = unzip[r]
  PROVE  Text(r)' = Text(r) /\ AtEnd(r)' = AtEnd(r) /\ Unzipped(r)' = Unzipped(r)
BY DEF Text, AtEnd, Unzipped, Plaintext

LEMMA NothingHeld ==
  ASSUME NEW s \in Seq(FrameSet)
  PROVE  Unzip(Opened(SubSeq(s, 1, 0))) = <<>>
<1>1. SubSeq(s, 1, 0) = <<>>
  OBVIOUS
<1>2. Opened(SubSeq(s, 1, 0)) = <<>>
  BY <1>1, OpenedNothing, Zenon
<1> QED BY <1>2 DEF Unzip

LEMMA NothingRead ==
  ASSUME NEW r \in Restores, source \in [Restores -> Seq(FrameSet)], applied[r] = 0
  PROVE  Unzip(Text(r)) = <<>>
BY NothingHeld DEF Text, Plaintext

LEMMA SparedFed ==
  ASSUME NEW q \in Restores, Fed(q), Spared(q), UNCHANGED <<engine, compress>>,
         copy' = copy \/ rpc[q] \notin Reading
  PROVE  Fed(q)'
<1>1. Text(q)' = Text(q) /\ AtEnd(q)' = AtEnd(q) /\ Unzipped(q)' = Unzipped(q)
  BY SameText DEF Spared
<1>2. rpc'[q] = rpc[q] /\ source'[q] = source[q] /\ unzip'[q] = unzip[q]
  BY DEF Spared
<1>3. opened'[q] = opened[q] /\ restorer'[q] = restorer[q]
      /\ applied'[q] = applied[q] /\ feedErr'[q] = feedErr[q]
  BY DEF Spared
<1>4. rpc[q] \in Owning => data' = data
  BY DEF Spared
<1>5. {"wait", "done"} \subseteq Owning
  BY DEF Owning
<1>6. \A x : Unzip(x)' = Unzip(x)
  BY DEF Unzip
<1>7. (rpc[q] \in Owning => data = Unzip(Text(q)))'
  BY <1>1, <1>2, <1>4 DEF Fed
<1>8. (\A k \in 1..opened[q] : Opens(source[q][k], k - 1))'
  BY <1>2, <1>3 DEF Fed, Opens
<1>9. (rpc[q] \in {"wait", "done"} /\ restorer[q] = "ok" =>
         applied[q] = opened[q] /\ (engine = "mysql" \/ data = Dump))'
  BY <1>2, <1>3, <1>4, <1>5 DEF Fed, Dump
<1> QED BY <1>1, <1>2, <1>3, <1>7, <1>8, <1>9 DEF Fed

LEMMA FeedInvInit == Init => FeedInv
<1> SUFFICES ASSUME Init PROVE FeedInv
  OBVIOUS
<1> USE DEF Init, RestoreInit
<1>1. <<>> \in Seq(FrameSet)
  OBVIOUS
<1>2. FeedTypes
  BY <1>1 DEF FeedTypes
<1>3. Given
  BY <1>1 DEF Given
<1>4. ASSUME NEW r \in Restores PROVE Fed(r)
  BY <1>1 DEF Fed, Unfed, Reading, Early, Owning
<1> QED BY <1>2, <1>3, <1>4 DEF FeedInv

Step(r) ==
  \/ RestoreStep(r) \/ Open(r)
  \/ RestorerApplies(r) \/ RestorerExits(r) \/ RestorerDies(r)
  \/ RestorerKilled(r) \/ RestoreCancelled(r)

LEMMA StepSpares ==
  ASSUME RestoreInv, FeedTypes, NEW r \in Restores, NEW q \in Restores, q # r, Step(r)
  PROVE  Spared(q) /\ engine' = engine
<1> USE RestoreDumpAssumption
    DEF RestoreInv, Owns, FeedTypes, Spared, To, Create, Drop, server, input, feed
<1>1. CASE CheckRestore(r) \/ CheckTarget(r) \/ GrantOwner(r) \/ FlushPrivileges(r)
  BY <1>1 DEF CheckRestore, CheckTarget, GrantOwner, FlushPrivileges
<1>2. CASE CreateTarget(r)
  BY <1>2 DEF CreateTarget
<1>3. CASE UndoCreate(r) \/ Rollback(r)
  BY <1>3 DEF UndoCreate, Rollback, Owning
<1>4. CASE Open(r)
  BY <1>4 DEF Open, OpenLocal, OpenObject, Begin
<1>5. CASE StartRestorer(r) \/ FeedFrame(r) \/ FeedFails(r) \/ FeedEnds(r) \/ WaitRestorer(r)
  BY <1>5 DEF StartRestorer, FeedFrame, FeedFails, FeedEnds, WaitRestorer
<1>6. CASE RestorerApplies(r)
  BY <1>6 DEF RestorerApplies, Owning
<1>7. CASE RestorerExits(r) \/ RestorerDies(r) \/ RestorerKilled(r) \/ RestoreCancelled(r)
  BY <1>7 DEF RestorerExits, RestorerDies, RestorerKilled, RestoreCancelled
<1> QED BY <1>1, <1>2, <1>3, <1>4, <1>5, <1>6, <1>7 DEF Step, RestoreStep

LEMMA FeedTypesNext ==
  ASSUME RestoreInv, FeedInv, NEW r \in Restores, Step(r), UNCHANGED copy,
         compress \in BOOLEAN
  PROVE  FeedTypes'
<1> USE RestoreDumpAssumption
    DEF FeedInv, FeedTypes, RestoreInv, Create, Drop, server, input, feed
<1>1. CASE CheckRestore(r) \/ CheckTarget(r) \/ GrantOwner(r) \/ FlushPrivileges(r)
  BY <1>1 DEF CheckRestore, CheckTarget, GrantOwner, FlushPrivileges
<1>2. CASE CreateTarget(r)
  BY <1>2 DEF CreateTarget
<1>3. CASE UndoCreate(r) \/ Rollback(r)
  BY <1>3 DEF UndoCreate, Rollback
<1>4. CASE Open(r)
  <2>1. opened[r] = 0 /\ applied[r] = 0
    BY <1>4 DEF Fed, Unfed, Open, OpenLocal, OpenObject
  <2>2. copy \in Seq(FrameSet)
    BY DEF Given
  <2>3. /\ UNCHANGED <<engine, maker, opened, applied, feedErr>>
        /\ \/ UNCHANGED input
           \/ /\ source' = [source EXCEPT ![r] = copy]
              /\ unzip' = [unzip EXCEPT ![r] = compress]
    BY <1>4 DEF Open, OpenLocal, OpenObject, Begin
  <2>4. ASSUME NEW q \in Restores
        PROVE  applied'[q] <= opened'[q] /\ opened'[q] <= Len(source'[q])
    <3>1. applied[q] <= opened[q] /\ opened[q] <= Len(source[q])
      OBVIOUS
    <3>2. Len(copy) \in Nat
      BY <2>2
    <3>3. source'[q] = source[q] \/ (q = r /\ source'[q] = copy)
      BY <2>3
    <3> QED BY <2>1, <2>3, <3>1, <3>2, <3>3
  <2>5. source' \in [Restores -> Seq(FrameSet)] /\ unzip' \in [Restores -> BOOLEAN]
    BY <2>2, <2>3
  <2> QED BY <2>3, <2>4, <2>5
<1>5. CASE StartRestorer(r) \/ FeedFails(r) \/ FeedEnds(r) \/ WaitRestorer(r)
  BY <1>5 DEF StartRestorer, FeedFails, FeedEnds, WaitRestorer
<1>6. CASE FeedFrame(r)
  BY <1>6 DEF FeedFrame, AtEnd
<1>7. CASE RestorerApplies(r)
  BY <1>7 DEF RestorerApplies
<1>8. CASE RestorerExits(r) \/ RestorerDies(r) \/ RestorerKilled(r) \/ RestoreCancelled(r)
  BY <1>8 DEF RestorerExits, RestorerDies, RestorerKilled, RestoreCancelled
<1> QED BY <1>1, <1>2, <1>3, <1>4, <1>5, <1>6, <1>7, <1>8 DEF Step, RestoreStep

(* A step of r to a place where it does not read, and its feed is as it was. *)
LEMMA PlacedFed ==
  ASSUME NEW r \in Restores, Fed(r),
         source'[r] = source[r], unzip'[r] = unzip[r], opened'[r] = opened[r],
         restorer'[r] = restorer[r], applied'[r] = applied[r], feedErr'[r] = feedErr[r],
         rpc'[r] \in Unfed \cup {"rollback", "failed"}, rpc'[r] # "start",
         rpc'[r] \in Unfed => rpc[r] \in Unfed,
         rpc'[r] \in Owning => data' = Unzip(Text(r))
  PROVE  Fed(r)'
<1>1. rpc'[r] \notin Reading
  BY DEF Unfed, Reading, Early
<1>2. Text(r)' = Text(r)
  BY SameText
<1>3. (rpc[r] \in Owning => data = Unzip(Text(r)))'
  BY <1>2 DEF Unzip
<1>4. (\A k \in 1..opened[r] : Opens(source[r][k], k - 1))'
  BY DEF Fed, Opens
<1>5. (rpc[r] \in Unfed =>
         applied[r] = 0 /\ opened[r] = 0 /\ ~feedErr[r] /\ restorer[r] = "none")'
  BY DEF Fed
<1>6. rpc'[r] \notin {"feed", "wait", "done"}
  BY <1>1 DEF Reading
<1> QED BY <1>1, <1>3, <1>4, <1>5, <1>6 DEF Fed

LEMMA FedNext ==
  ASSUME RestoreInv, FeedInv, NEW r \in Restores, Step(r), UNCHANGED <<copy, compress>>,
         compress \in BOOLEAN
  PROVE  Fed(r)'
<1> USE DEF To, server, input, feed
<1>0. /\ Fed(r) /\ FeedTypes /\ RestoreInv
      /\ (rpc[r] \in Owning => data = Unzip(Text(r)))
      /\ (applied[r] = 0 => Unzip(Text(r)) = <<>>)
  BY NothingRead DEF FeedInv, FeedTypes, Fed
<1>1. CASE CheckRestore(r) \/ CheckTarget(r) \/ GrantOwner(r) \/ FlushPrivileges(r)
  <2>1. /\ UNCHANGED <<source, unzip, opened, restorer, applied, feedErr, data>>
        /\ rpc[r] \in Unfed
        /\ rpc'[r] \in {"exists", "failed", "create", "flush", "source", "undo"}
        /\ rpc'[r] \in Owning => rpc[r] \in Owning
    BY <1>0, <1>1
    DEF RestoreInv, CheckRestore, CheckTarget, GrantOwner, FlushPrivileges, Unfed, Early, Owning
  <2>2. rpc'[r] \in Unfed \cup {"failed"} /\ rpc'[r] # "start"
    BY <2>1 DEF Unfed, Early
  <2> QED BY <1>0, <2>1, <2>2, PlacedFed
<1>2. CASE CreateTarget(r)
  <2>1. /\ UNCHANGED <<source, unzip, opened, restorer, applied, feedErr>>
        /\ rpc[r] \in Unfed /\ rpc'[r] \in {"failed", "grant", "source"}
        /\ rpc'[r] # "failed" => data' = <<>>
    BY <1>0, <1>2 DEF RestoreInv, CreateTarget, Create, Unfed, Early
  <2>2. applied[r] = 0
    BY <1>0, <2>1 DEF Fed
  <2>3. rpc'[r] \in Unfed \cup {"failed"} /\ rpc'[r] # "start"
    BY <2>1 DEF Unfed, Early
  <2>4. rpc'[r] \in Owning => data' = Unzip(Text(r))
    BY <1>0, <2>1, <2>2 DEF Owning
  <2> QED BY <1>0, <2>1, <2>3, <2>4, PlacedFed
<1>3. CASE UndoCreate(r) \/ Rollback(r)
  <2>1. /\ UNCHANGED <<source, unzip, opened, restorer, applied, feedErr>>
        /\ rpc'[r] = "failed"
    BY <1>0, <1>3 DEF RestoreInv, UndoCreate, Rollback
  <2>2. rpc'[r] \notin Unfed /\ rpc'[r] \notin Owning
    BY <2>1 DEF Unfed, Early, Owning
  <2> QED BY <1>0, <2>1, <2>2, PlacedFed
<1>4. CASE Open(r)
  <2>1. /\ rpc[r] = "source" /\ UNCHANGED <<opened, restorer, applied, feedErr, data>>
        /\ rpc'[r] \in {"start", "rollback"}
    BY <1>0, <1>4 DEF RestoreInv, Open, OpenLocal, OpenObject, Begin
  <2>2. /\ applied[r] = 0 /\ opened[r] = 0 /\ ~feedErr[r] /\ restorer[r] = "none"
        /\ data = <<>>
    BY <1>0, <2>1 DEF Fed, Unfed, Owning
  <2>3. CASE UNCHANGED input /\ rpc'[r] = "rollback"
    <3>1. rpc'[r] \in Unfed => rpc[r] \in Unfed
      BY <2>1 DEF Unfed
    <3>2. data' = Unzip(Text(r))
      BY <1>0, <2>1, <2>2
    <3> QED BY <1>0, <2>1, <2>3, <3>1, <3>2, PlacedFed
  <2>4. CASE source' = [source EXCEPT ![r] = copy] /\ unzip' = [unzip EXCEPT ![r] = compress]
    <3>1. source'[r] = copy /\ unzip'[r] = compress
      BY <1>0, <2>4 DEF FeedTypes
    <3>2. FeedTypes'
      BY FeedTypesNext
    <3>3. (Unzip(Text(r)) = <<>>)'
      <4>1. source'[r] \in Seq(FrameSet) /\ applied'[r] = 0
        BY <2>1, <2>2, <3>2 DEF FeedTypes
      <4>2. Unzip(Opened(SubSeq(source'[r], 1, 0))) = <<>>
        BY <4>1, NothingHeld
      <4> QED BY <4>1, <4>2 DEF Text, Plaintext, Unzip
    <3>4. (rpc[r] \in Owning => data = Unzip(Text(r)))'
      BY <2>1, <2>2, <3>3
    <3>5. (\A k \in 1..opened[r] : Opens(source[r][k], k - 1))'
      BY <2>1, <2>2
    <3> QED BY <2>1, <2>2, <3>1, <3>4, <3>5 DEF Fed
  <2> QED BY <1>0, <1>4, <2>3, <2>4 DEF RestoreInv, Open, OpenLocal, OpenObject, Begin
<1>5. CASE StartRestorer(r)
  <2>1. /\ rpc[r] = "start" /\ UNCHANGED <<source, unzip, opened, applied, feedErr, data>>
        /\ \/ rpc'[r] = "rollback" /\ restorer' = restorer
           \/ rpc'[r] = "feed" /\ restorer'[r] = "running"
    BY <1>0, <1>5 DEF RestoreInv, StartRestorer
  <2>2. CASE rpc'[r] = "rollback" /\ restorer' = restorer
    BY <1>0, <2>1, <2>2, PlacedFed DEF Unfed, Owning
  <2>3. CASE rpc'[r] = "feed" /\ restorer'[r] = "running"
    <3>1. Text(r)' = Text(r)
      BY <2>1, SameText
    <3>2. (rpc[r] \in Owning => data = Unzip(Text(r)))'
      BY <1>0, <2>1, <3>1 DEF Owning, Unzip
    <3>3. (\A k \in 1..opened[r] : Opens(source[r][k], k - 1))'
      BY <1>0, <2>1 DEF Fed, Opens
    <3>4. /\ source[r] = copy /\ unzip[r] = compress /\ ~feedErr[r]
      BY <1>0, <2>1 DEF Fed, Reading, Unfed
    <3>5. rpc'[r] \notin Unfed
      BY <2>3 DEF Unfed, Early
    <3> QED BY <2>1, <2>3, <3>2, <3>3, <3>4, <3>5 DEF Fed
  <2> QED BY <2>1, <2>2, <2>3
<1>6. CASE FeedFrame(r)
  <2>1. /\ rpc[r] = "feed" /\ opened'[r] = opened[r] + 1
        /\ UNCHANGED <<rpc, source, unzip, restorer, applied, feedErr, data>>
        /\ Opens(source[r][opened[r] + 1], opened[r]) /\ opened[r] \in Nat
    BY <1>0, <1>6 DEF FeedTypes, FeedFrame
  <2>2. Text(r)' = Text(r)
    BY <2>1 DEF Text, Plaintext
  <2>3. (rpc[r] \in Owning => data = Unzip(Text(r)))'
    BY <1>0, <2>1, <2>2 DEF Unzip
  <2>4. (\A k \in 1..opened[r] : Opens(source[r][k], k - 1))'
    <3>1. ASSUME NEW k \in 1..(opened[r] + 1) PROVE Opens(source[r][k], k - 1)
      <4>1. CASE k = opened[r] + 1
        <5>1. k - 1 = opened[r]
          BY <2>1, <4>1
        <5> QED BY <2>1, <4>1, <5>1
      <4>2. CASE k # opened[r] + 1
        <5>1. k \in 1..opened[r]
          BY <2>1, <4>2
        <5> QED BY <1>0, <5>1 DEF Fed
      <4> QED BY <4>1, <4>2
    <3> QED BY <2>1, <3>1 DEF Opens
  <2>5. rpc'[r] \notin Unfed
    BY <2>1 DEF Unfed, Early
  <2>6. rpc'[r] \notin {"wait", "done"}
    BY <2>1
  <2> QED BY <1>0, <2>1, <2>3, <2>4, <2>5, <2>6 DEF Fed
<1>7. CASE FeedFails(r) \/ FeedEnds(r)
  <2>1. /\ rpc[r] = "feed" /\ rpc'[r] = "wait"
        /\ UNCHANGED <<source, unzip, opened, restorer, applied, data>>
        /\ \/ feedErr'[r]
           \/ feedErr'[r] = feedErr[r] /\ AtEnd(r) /\ Unzipped(r)
    BY <1>0, <1>7 DEF RestoreInv, FeedTypes, FeedFails, FeedEnds
  <2>2. Text(r)' = Text(r) /\ AtEnd(r)' = AtEnd(r) /\ Unzipped(r)' = Unzipped(r)
    BY <2>1, SameText
  <2>3. (rpc[r] \in Owning => data = Unzip(Text(r)))'
    BY <1>0, <2>1, <2>2 DEF Owning, Unzip
  <2>4. (\A k \in 1..opened[r] : Opens(source[r][k], k - 1))'
    BY <1>0, <2>1 DEF Fed, Opens
  <2>5. rpc'[r] \notin Unfed /\ rpc'[r] \notin {"feed", "done"}
    BY <2>1 DEF Unfed, Early
  <2>6. restorer'[r] \in {"running", "dead"}
    BY <1>0, <2>1 DEF Fed
  <2>7. source[r] = copy /\ unzip[r] = compress
    BY <1>0, <2>1 DEF Fed, Reading
  <2>8. (rpc[r] \in {"wait", "done"} /\ ~feedErr[r] => AtEnd(r) /\ Unzipped(r))'
    BY <2>1, <2>2
  <2> QED BY <2>1, <2>3, <2>4, <2>5, <2>6, <2>7, <2>8 DEF Fed
<1>8. CASE WaitRestorer(r)
  <2>1. /\ rpc[r] = "wait" /\ restorer[r] # "running"
        /\ UNCHANGED <<source, unzip, opened, restorer, applied, feedErr, data>>
        /\ \/ rpc'[r] = "rollback"
           \/ rpc'[r] = "done" /\ ~feedErr[r] /\ restorer[r] # "dead"
    BY <1>0, <1>8 DEF RestoreInv, WaitRestorer
  <2>2. CASE rpc'[r] = "rollback"
    BY <1>0, <2>1, <2>2, PlacedFed DEF Owning, Unfed, Early
  <2>3. CASE rpc'[r] = "done" /\ ~feedErr[r] /\ restorer[r] # "dead"
    <3>1. restorer[r] = "ok"
      BY <1>0, <2>1, <2>3 DEF Fed, RestoreInv
    <3>2. Text(r)' = Text(r) /\ AtEnd(r)' = AtEnd(r) /\ Unzipped(r)' = Unzipped(r)
      BY <2>1, SameText
    <3>3. (rpc[r] \in Owning => data = Unzip(Text(r)))'
      BY <1>0, <2>1, <3>2 DEF Owning, Unzip
    <3>4. (\A k \in 1..opened[r] : Opens(source[r][k], k - 1))'
      BY <1>0, <2>1 DEF Fed, Opens
    <3>5. rpc'[r] \notin Unfed /\ rpc'[r] # "feed"
      BY <2>3 DEF Unfed, Early
    <3>6. source[r] = copy /\ unzip[r] = compress
      BY <1>0, <2>1 DEF Fed, Reading
    <3>7. (rpc[r] \in {"wait", "done"} /\ ~feedErr[r] => AtEnd(r) /\ Unzipped(r))'
      BY <1>0, <2>1, <2>3, <3>2 DEF Fed
    <3>8. (rpc[r] \in {"wait", "done"} /\ restorer[r] = "ok" =>
             applied[r] = opened[r] /\ (engine = "mysql" \/ data = Dump))'
      <4>1. engine' = engine
        BY <1>8 DEF WaitRestorer
      <4> QED BY <1>0, <2>1, <3>1, <4>1 DEF Fed, Dump
    <3> QED BY <2>1, <2>3, <3>1, <3>3, <3>4, <3>5, <3>6, <3>7, <3>8 DEF Fed
  <2> QED BY <2>1, <2>2, <2>3
<1>9. CASE RestorerApplies(r)
  <2>1. /\ restorer[r] = "running" /\ applied'[r] = applied[r] + 1
        /\ UNCHANGED <<rpc, source, unzip, opened, restorer, feedErr>>
        /\ data' = Unzip(Plaintext(r, applied[r] + 1))
    BY <1>0, <1>9 DEF RestoreInv, RestorerApplies
  <2>2. rpc[r] \in {"feed", "wait"}
    BY <1>0, <2>1 DEF RestoreInv, Owns
  <2>3. (rpc[r] \in Owning => data = Unzip(Text(r)))'
    BY <2>1 DEF Text, Plaintext, Unzip
  <2>4. (\A k \in 1..opened[r] : Opens(source[r][k], k - 1))'
    BY <1>0, <2>1 DEF Fed, Opens
  <2>5. rpc'[r] \notin Unfed /\ rpc'[r] # "done"
    BY <2>1, <2>2 DEF Unfed, Early
  <2>6. AtEnd(r)' = AtEnd(r) /\ Unzipped(r)' = Unzipped(r)
    BY <2>1 DEF AtEnd, Unzipped, Plaintext
  <2>7. restorer'[r] = "running"
    BY <2>1
  <2> QED BY <1>0, <2>1, <2>3, <2>4, <2>5, <2>6, <2>7 DEF Fed
<1>10. CASE RestorerExits(r) \/ RestorerDies(r) \/ RestorerKilled(r)
  <2>1. /\ restorer[r] = "running" /\ restorer'[r] \in {"ok", "dead"}
        /\ UNCHANGED <<rpc, source, unzip, opened, applied, feedErr, data, engine>>
        /\ restorer'[r] = "ok" =>
             rpc[r] = "wait" /\ applied[r] = opened[r] /\ (engine = "mysql" \/ data = Dump)
    BY <1>0, <1>10 DEF RestoreInv, RestorerExits, RestorerDies, RestorerKilled
  <2>2. rpc[r] \in {"feed", "wait"}
    BY <1>0, <2>1 DEF RestoreInv, Owns
  <2>3. Text(r)' = Text(r) /\ AtEnd(r)' = AtEnd(r) /\ Unzipped(r)' = Unzipped(r)
    BY <2>1, SameText
  <2>4. (rpc[r] \in Owning => data = Unzip(Text(r)))'
    BY <1>0, <2>1, <2>3 DEF Unzip
  <2>5. (\A k \in 1..opened[r] : Opens(source[r][k], k - 1))'
    BY <1>0, <2>1 DEF Fed, Opens
  <2>6. rpc'[r] \notin Unfed /\ rpc'[r] # "done"
    BY <2>1, <2>2 DEF Unfed, Early
  <2>7. (rpc[r] \in {"wait", "done"} /\ restorer[r] = "ok" =>
           applied[r] = opened[r] /\ (engine = "mysql" \/ data = Dump))'
    BY <2>1 DEF Dump
  <2>8. (rpc[r] \in {"wait", "done"} /\ ~feedErr[r] => AtEnd(r) /\ Unzipped(r))'
    BY <1>0, <2>1, <2>3 DEF Fed
  <2>9. (rpc[r] = "feed" => restorer[r] \in {"running", "dead"} /\ ~feedErr[r])'
    BY <1>0, <2>1 DEF Fed
  <2>10. (rpc[r] \in Reading => source[r] = copy /\ unzip[r] = compress)'
    BY <1>0, <2>1 DEF Fed
  <2> QED BY <2>1, <2>4, <2>5, <2>6, <2>7, <2>8, <2>9, <2>10 DEF Fed
<1>11. CASE RestoreCancelled(r)
  BY <1>0, <1>11, SparedFed DEF RestoreCancelled, Spared
<1> QED BY <1>1, <1>2, <1>3, <1>4, <1>5, <1>6, <1>7, <1>8, <1>9, <1>10, <1>11
        DEF Step, RestoreStep

(* An export that is done does not go on. *)
LEMMA DoneIsDone ==
  ASSUME ExportInv, xpc = "done", ExportNext
  PROVE  FALSE
<1>1. dumper = "ok"
  BY DEF ExportInv, Finished
<1>2. ~ (DumperWrites \/ DumperExits \/ DumperDies \/ DumperKilled \/ ExportCancelled)
  BY <1>1 DEF DumperWrites, DumperExits, DumperDies, DumperKilled, ExportCancelled
<1>3. ~ ExportStep
  BY DEF ExportStep, CheckRequest, OpenFile, CreateUpload, StartTool, Copy, CopyEOF, Wait,
     CloseGzip, CloseEncrypter, CloseFile, UploadTail, Complete, AbortUpload, RemoveFile
<1> QED BY <1>2, <1>3 DEF ExportNext

LEMMA AskedOnce == ASSUME ExportNext PROVE UNCHANGED compress
BY DEF ExportNext, ExportStep, CheckRequest, OpenFile, CreateUpload, StartTool, Copy, CopyEOF,
   Wait, CloseGzip, CloseEncrypter, CloseFile, UploadTail, Complete, AbortUpload, RemoveFile,
   DumperWrites, DumperExits, DumperDies, DumperKilled, ExportCancelled, asked

(* A step that no restore takes. *)
LEMMA NobodysStep ==
  ASSUME FeedInv, UNCHANGED <<engine, rpc, source, unzip, opened, restorer, applied, feedErr>>,
         UNCHANGED compress, copy' = copy \/ ~pushed,
         maker' \in Restores \cup {Nobody, Other},
         data' = data \/ \A q \in Restores : rpc[q] \notin Owning
  PROVE  FeedTypes' /\ \A q \in Restores : Fed(q)'
<1>1. FeedTypes'
  BY DEF FeedInv, FeedTypes
<1>2. ASSUME NEW q \in Restores PROVE Fed(q)'
  <2>1. Fed(q) /\ Spared(q) /\ engine' = engine
    BY DEF FeedInv, Spared
  <2>2. copy' = copy \/ rpc[q] \notin Reading
    BY DEF FeedInv, Given, Reading
  <2> QED BY <2>1, <2>2, SparedFed
<1> QED BY <1>1, <1>2

LEMMA FeedInvNext ==
  ASSUME RestoreInv, ExportInv, FeedInv, [Next]_vars
  PROVE  FeedInv'
<1>1. CASE ByExport(ExportNext)
  <2>1. /\ ~pushed /\ UNCHANGED <<restoreVars, pushed, copy>> /\ UNCHANGED compress
    BY <1>1, DoneIsDone, AskedOnce DEF ByExport, FeedInv, Given
  <2>2. FeedTypes' /\ \A q \in Restores : Fed(q)'
    BY <2>1, NobodysStep DEF restoreVars, server, FeedInv, FeedTypes
  <2>3. Given'
    BY <2>1 DEF FeedInv, Given, restoreVars
  <2> QED BY <2>2, <2>3 DEF FeedInv
<1>2. CASE Push
  <2>1. /\ ~pushed /\ pushed' /\ xpc = "done" /\ UNCHANGED exportVars /\ UNCHANGED restoreVars
        /\ copy' = object \/ (local /\ copy' \in Damaged(object))
    BY <1>2 DEF Push
  <2>2. UNCHANGED <<local, compress, xpc, object>>
    BY <2>1 DEF exportVars
  <2>3. FeedTypes' /\ \A q \in Restores : Fed(q)'
    BY <2>1, <2>2, NobodysStep DEF restoreVars, server, FeedInv, FeedTypes
  <2>4. copy' \in Seq(FrameSet)
    <3>1. object \in Seq(FrameSet) /\ InPlace(object)
      BY <2>1 DEF ExportInv, ExportTypes, Finished, Whole
    <3> QED BY <2>1, <3>1, CopyOpens
  <2>5. pushed' \in BOOLEAN
    <3>1. pushed' = TRUE
      BY <1>2, Zenon DEF Push
    <3> QED BY <3>1
  <2>6. Given'
    BY <2>1, <2>2, <2>4, <2>5 DEF Given, Damaged, Broken
  <2> QED BY <2>3, <2>6 DEF FeedInv
<1>3. ASSUME NEW r \in Restores, ByRestore(Step(r)) PROVE FeedInv'
  <2>1. pushed /\ Step(r) /\ UNCHANGED exportVars /\ UNCHANGED <<pushed, copy>>
    BY <1>3 DEF ByRestore
  <2>2. UNCHANGED <<local, compress, xpc, object>> /\ compress \in BOOLEAN
    BY <2>1 DEF exportVars, ExportInv, ExportTypes
  <2>3. FeedTypes'
    BY <2>1, <2>2, FeedTypesNext
  <2>4. ASSUME NEW q \in Restores PROVE Fed(q)'
    <3>1. CASE q = r
      BY <2>1, <2>2, <3>1, FedNext
    <3>2. CASE q # r
      <4>1. Spared(q) /\ engine' = engine
        BY <2>1, <3>2, StepSpares DEF FeedInv
      <4> QED BY <2>1, <2>2, <4>1, SparedFed DEF FeedInv
    <3> QED BY <3>1, <3>2
  <2>5. Given'
    BY <2>1, <2>2 DEF FeedInv, Given, Damaged, Broken
  <2> QED BY <2>3, <2>4, <2>5 DEF FeedInv
<1>4. CASE ByRestore(OtherCreates)
  <2>1. /\ maker = Nobody /\ UNCHANGED <<engine, rpc, source, unzip, opened, restorer, applied, feedErr>>
        /\ UNCHANGED <<pushed, copy>> /\ maker' = Other
    BY <1>4 DEF ByRestore, OtherCreates, Create, input, feed
  <2>2. UNCHANGED <<local, compress, xpc, object>>
    BY <1>4 DEF ByRestore, exportVars
  <2>3. \A q \in Restores : rpc[q] \notin Owning
    BY <2>1, RestoreDumpAssumption DEF RestoreInv, Owns
  <2>4. FeedTypes' /\ \A q \in Restores : Fed(q)'
    BY <2>1, <2>2, <2>3, NobodysStep
  <2>5. Given'
    BY <2>1, <2>2 DEF FeedInv, Given, Damaged, Broken
  <2> QED BY <2>4, <2>5 DEF FeedInv
<1>5. CASE UNCHANGED vars
  <2>1. UNCHANGED exportVars /\ UNCHANGED restoreVars /\ UNCHANGED <<pushed, copy>>
    BY <1>5 DEF vars
  <2>2. UNCHANGED <<local, compress, xpc, object>>
    BY <2>1 DEF exportVars
  <2>3. FeedTypes' /\ \A q \in Restores : Fed(q)'
    BY <2>1, <2>2, NobodysStep DEF restoreVars, server, FeedInv, FeedTypes
  <2>4. Given'
    BY <2>1, <2>2 DEF FeedInv, Given, restoreVars, Damaged, Broken
  <2> QED BY <2>3, <2>4 DEF FeedInv
<1> QED BY <1>1, <1>2, <1>3, <1>4, <1>5, Zenon DEF Next, ByRestore, RestoreNext, Step

-----------------------------------------------------------------------------
BackupInv == RestoreInv /\ ExportInv /\ FeedInv

LEMMA BackupInvAlways == Spec => []BackupInv
<1>1. Init => BackupInv
  BY RestoreInvInit, ExportInvInit, FeedInvInit DEF BackupInv
<1>2. BackupInv /\ [Next]_vars => BackupInv'
  BY RestoreInvNext, ExportInvNext, FeedInvNext DEF BackupInv
<1> QED BY <1>1, <1>2, PTL DEF Spec

(* What an export leaves is the whole output of a tool that ended well,    *)
(* every frame in its place, or nothing: whatever fails, whenever the      *)
(* context ends, however long the dump and however it is cut (ops_export,  *)
(* uploader and sink of internal/database).                                *)
THEOREM ExportsAlwaysSafe == Spec => []ExportSafe
<1>1. ASSUME BackupInv PROVE ExportSafe
  <2> USE <1>1 DEF BackupInv
  <2>1. TypeOK
    BY DEF TypeOK, ExportInv, ExportTypes, RestoreInv, FeedInv, FeedTypes, Before, During, Past
  <2>2. ObjectsAreWhole
    BY DEF ExportInv, Finished, ObjectsAreWhole, Whole, InPlace
  <2>3. NothingLingers
    BY DEF ExportInv, Finished
  <2> QED BY <2>1, <2>2, <2>3 DEF ExportSafe
<1> QED BY <1>1, BackupInvAlways, PTL

LEMMA DoneIsDump ==
  ASSUME BackupInv, NEW r \in Restores, rpc[r] = "done"
  PROVE  /\ maker = r
         /\ IsPrefix(data, Dump)
         /\ ~local \/ compress \/ engine = "postgresql" => data = Dump
<1> USE DEF BackupInv
<1>1. maker = r /\ Fed(r)
  BY DEF RestoreInv, Owns, Owning, FeedInv
<1>2. /\ source[r] = copy /\ unzip[r] = compress /\ restorer[r] = "ok"
      /\ AtEnd(r) /\ Unzipped(r) /\ applied[r] = opened[r]
      /\ engine = "mysql" \/ data = Dump
      /\ data = Unzip(Text(r))
  BY <1>1 DEF Fed, Reading, Owning
<1>3. pushed /\ xpc = "done" /\ (copy = object \/ (local /\ copy \in Damaged(object)))
  BY DEF FeedInv, Given
<1>4. /\ object \in Seq(FrameSet) /\ InPlace(object) /\ Opened(object) = Plain(compress)
      /\ compress \in BOOLEAN
  BY <1>3 DEF ExportInv, ExportTypes, Finished, Whole
<1>5. opened[r] = Len(copy) /\ \A k \in 1..opened[r] : Opens(copy[k], k - 1)
  BY <1>1, <1>2 DEF AtEnd, Fed
<1>6. /\ copy \in Seq(FrameSet) /\ Len(copy) <= Len(object)
      /\ SubSeq(copy, 1, Len(copy)) = SubSeq(object, 1, Len(copy))
  <2>1. /\ copy \in Seq(FrameSet)
        /\ \A n \in 0..Len(copy) : (\A k \in 1..n : Opens(copy[k], k - 1)) =>
             n <= Len(object) /\ SubSeq(copy, 1, n) = SubSeq(object, 1, n)
    BY <1>3, <1>4, CopyOpens
  <2>2. Len(copy) \in 0..Len(copy)
    BY <2>1
  <2> QED BY <1>5, <2>1, <2>2
<1>7. Text(r) = Opened(SubSeq(object, 1, Len(copy)))
  BY <1>2, <1>5, <1>6 DEF Text, Plaintext
<1>8. Text(r) \in Seq(Symbols) /\ Starts(Text(r), Plain(compress))
  <2>1. Len(copy) \in 0..Len(object) /\ Plain(compress) \in Seq(Symbols)
    BY <1>4, <1>6, PlainUnits
  <2> QED BY <1>4, <1>7, <2>1, OpenedStarts
<1>9. /\ IsPrefix(data, Dump)
      /\ Text(r) = Plain(compress) => data = Dump
      /\ compress /\ Text(r) # <<>> /\ Last(Text(r)) = End => data = Dump
  BY <1>2, <1>4, <1>8, UnzipStarts
<1>10. ~local => data = Dump
  <2>1. ~local => Text(r) = Opened(object)
    <3>1. SubSeq(object, 1, Len(object)) = object
      BY <1>4
    <3> QED BY <1>3, <1>7, <3>1
  <2> QED BY <1>4, <1>9, <2>1
<1>11. compress => data = Dump
  BY <1>2, <1>9 DEF Unzipped, Text
<1>12. engine = "postgresql" => data = Dump
  BY <1>2
<1> QED BY <1>1, <1>9, <1>10, <1>11, <1>12

(* A restore that reports completed has restored the dump, also from a     *)
(* copy with its end cut off or frames missing, or reports a failure       *)
(* (opRestoreDump, decrypt_stream.go).                                     *)
THEOREM RestoresAlwaysTheDump == Spec => []RestoredIsDump
<1>1. BackupInv => RestoredIsDump
  BY DoneIsDump DEF RestoredIsDump
<1> QED BY <1>1, BackupInvAlways, PTL
=============================================================================
