--------------------------- MODULE AIFileOpsProofs ----------------------------
(***************************************************************************)
(* The assistant's file operations, the file browser and the janitor, for  *)
(* any calls, roots, files and links, failures and restarts.  What is      *)
(* proved of the calls rests on CallSound and BackupIsKept, what is proved *)
(* of the janitor on CycleSound.                                           *)
(***************************************************************************)
EXTENDS AIFileOps, FiniteSetTheorems, TLAPS

-----------------------------------------------------------------------------
(* The inductive invariant. *)

Places == {"idle", "open", "lstat", "copy", "mutate", "done", "ended"}
Active == {"lstat", "copy", "mutate", "done"}

CallRecords ==
  [pc : Places, does : {"backup", "write", "edit", "delete"},
   inv : Invocations \cup {Nowhere}, path : Paths \cup {Nowhere},
   isDir : BOOLEAN, read : Texts, was : Entries, before : Entries, lost : BOOLEAN]

(* A call that has not begun has no path; one under way or done has one    *)
(* that is not blocked by its name; one that copies copies a file or a     *)
(* directory; a path in a directory is neither a directory nor a link, and *)
(* only a root is removed with all that it holds.                          *)
CallSound(k) ==
  /\ k \in CallRecords
  /\ k.pc = "idle" => k.path = Nowhere
  /\ k.pc = "open" => k.inv \in Invocations /\ k.path \in Paths /\ k.was \in Leaves
                       /\ ~k.isDir
  /\ k.pc \in Active => k.inv \in Invocations /\ k.path \in Paths \ Blocked
  /\ k.pc = "copy" => k.was.kind \in {"file", "dir"}
  /\ k.path \in Files => k.was \in Leaves
  /\ k.isDir => k.path \in Roots

(* The backup of a call, as long as it is there, is what the call took,    *)
(* unless another call may have used its name, or its end was lost.        *)
BackupIsKept(c) ==
  /\ call[c].pc \in {"mutate", "done"} /\ call[c].was.kind \in {"file", "dir"}
  /\ ~call[c].lost /\ ~Shared(c)
  => backup[Slot(c, call[c].was.kind)] \in {NoEntry, call[c].was}

Cycles == [on : BOOLEAN, now : Nat, todo : SUBSET Invocations,
           doomed : SUBSET Invocations,
           keep : SUBSET [inv : Invocations, mod : Nat, size : Nat],
           total : Nat, raced : BOOLEAN]

(* As many members as the directories of K have backup files. *)
Weights(K) == UNION {{d} \X (1..d.size) : d \in K}

(* The total counts every directory that may still go, so that taking its  *)
(* size off never goes below 0.                                            *)
TotalCovers ==
  IsFiniteSet(Weights(cycle.keep)) /\ cycle.total >= Cardinality(Weights(cycle.keep))

HeldSlots == {s \in Slots : backup[s] # NoEntry}
Counted == {s \in HeldSlots : s[1] \notin cycle.todo \cup cycle.doomed}

(* What the cycle has read is still so, as long as no backup raced with it. *)
StillSo ==
  /\ cycle.now <= aiClock
  /\ cycle.todo \cap cycle.doomed = {}
  /\ \A i \in cycle.doomed : cycle.now > touched[i] + MaxAge
  /\ \A d \in cycle.keep :
       /\ d.inv \notin cycle.todo \cup cycle.doomed
       /\ d.mod = touched[d.inv] /\ d.size = Cardinality(Held(d.inv))
  /\ \A d, e \in cycle.keep : d.inv = e.inv => d = e
  /\ cycle.total <= Cardinality(Counted)

CycleFresh == ~cycle.raced => StillSo

Resting == /\ cycle.todo = {} /\ cycle.doomed = {} /\ cycle.keep = {}
           /\ cycle.now = 0 /\ cycle.total = 0

CycleSound ==
  /\ cycle \in Cycles
  /\ ~cycle.on => Resting
  /\ TotalCovers /\ CycleFresh

(* What a backup file may hold. *)
Archives == Entries \cup {CutArchive}

StoreOK ==
  /\ entry \in [Roots -> Entries] /\ backup \in [Slots -> Archives]
  /\ \A s \in Slots : backup[s] # NoEntry => backup[s].kind = s[3]
  /\ touched \in [Invocations -> 0..aiClock] /\ aiClock \in 1..LastTick

CallsOK ==
  /\ call \in [Calls -> CallRecords]
  /\ \A c \in Calls : CallSound(call[c])

AIInv ==
  /\ StoreOK /\ CallsOK
  /\ \A c \in Calls : BackupIsKept(c)
  /\ CycleSound

-----------------------------------------------------------------------------
(* What is at a path, and the records of the calls. *)

LEMMA LeavesAreEntries ==
  /\ NoEntry \in Leaves /\ Leaves \subseteq Entries
  /\ \A t \in Texts, m \in Modes : File(t, m) \in Leaves
  /\ \A p \in Paths : Link(p) \in Entries
  /\ \A h \in [Names -> Leaves] : Tree(h) \in Entries
BY DEF Leaves, Entries

LEMMA KindsOfEntries ==
  /\ NoEntry.kind = "absent" /\ NoEntry.text = {} /\ NoEntry.mode = "0644"
  /\ \A t, m : File(t, m).kind = "file" /\ File(t, m).text = t /\ File(t, m).mode = m
  /\ \A h : Tree(h).kind = "dir" /\ Tree(h).holds = h
  /\ \A p : Link(p).kind = "link" /\ Link(p).to = p
  /\ CutArchive.kind = "dir"
BY DEF NoEntry, File, Tree, Link, CutArchive

LEMMA EntriesByKind ==
  ASSUME NEW e \in Entries
  PROVE  /\ e.kind \in {"absent", "file", "dir", "link"}
         /\ e.kind = "absent" => e = NoEntry
         /\ e.kind = "file" => e.text \in Texts /\ e.mode \in Modes /\ e = File(e.text, e.mode)
         /\ e.kind = "dir" => e.holds \in [Names -> Leaves] /\ e = Tree(e.holds)
         /\ e.kind = "link" => e.to \in Paths
         /\ e.kind \in {"absent", "file"} <=> e \in Leaves
<1>1. CASE e = NoEntry
  BY <1>1, KindsOfEntries, LeavesAreEntries
<1>2. ASSUME NEW t \in Texts, NEW m \in Modes, e = File(t, m)
      PROVE  /\ e.kind = "file" /\ e.text \in Texts /\ e.mode \in Modes
             /\ e = File(e.text, e.mode) /\ e \in Leaves
  BY <1>2, KindsOfEntries, LeavesAreEntries
<1>3. ASSUME NEW p \in Paths, e = Link(p)
      PROVE  e.kind = "link" /\ e.to \in Paths
  BY <1>3, KindsOfEntries
<1>4. ASSUME NEW h \in [Names -> Leaves], e = Tree(h)
      PROVE  e.kind = "dir" /\ e.holds \in [Names -> Leaves] /\ e = Tree(e.holds)
  BY <1>4, KindsOfEntries
<1>5. \A x \in Leaves : x.kind \in {"absent", "file"}
  BY KindsOfEntries DEF Leaves
<1>6. \/ e = NoEntry
      \/ \E t \in Texts, m \in Modes : e = File(t, m)
      \/ \E p \in Paths : e = Link(p)
      \/ \E h \in [Names -> Leaves] : e = Tree(h)
  BY DEF Entries, Leaves
<1> HIDE DEF NoEntry, File, Tree, Link
<1>7. CASE \E t \in Texts, m \in Modes : e = File(t, m)
  BY <1>2, <1>7
<1>8. CASE \E p \in Paths : e = Link(p)
  BY <1>3, <1>5, <1>8
<1>9. CASE \E h \in [Names -> Leaves] : e = Tree(h)
  BY <1>4, <1>5, <1>9
<1> QED BY <1>1, <1>6, <1>7, <1>8, <1>9

LEMMA ModesOfEntries == \A e \in Entries : e.mode \in Modes
BY DEF Entries, Leaves, NoEntry, File, Link, Tree, Modes

LEMMA SavedEntries ==
  ASSUME NEW e \in Entries
  PROVE  Saved(e) \in Entries /\ Saved(e).kind = e.kind /\ (e \in Leaves => Saved(e) \in Leaves)
<1>1. CASE e.kind = "file"
  <2>1. e.text \in Texts /\ Perm(e.mode) \in Modes
    BY <1>1, EntriesByKind DEF Perm, Modes
  <2>2. File(e.text, Perm(e.mode)) \in Leaves
    BY <2>1, LeavesAreEntries
  <2> QED BY <1>1, <2>2, KindsOfEntries, LeavesAreEntries DEF Saved
<1>2. CASE e.kind # "file"
  BY <1>2 DEF Saved
<1> QED BY <1>1, <1>2

LEMMA EmptyTreeIsEntry == EmptyTree \in Entries /\ EmptyTree.kind = "dir"
<1>1. [n \in Names |-> NoEntry] \in [Names -> Leaves]
  BY LeavesAreEntries
<1> QED BY <1>1, LeavesAreEntries, KindsOfEntries DEF EmptyTree

LEMMA RealIsRoot ==
  ASSUME StoreOK, NEW r \in Roots
  PROVE  Real(r) \in Roots /\ (entry[r].kind # "link" => Real(r) = r)
BY DEF Real

LEMMA FilesHaveNames ==
  ASSUME NEW p \in Files
  PROVE  p \in Paths /\ p \notin Roots /\ Dir[p] \in Roots /\ Base[p] \in Names
BY AIFileOpsAssumption DEF Paths, Names

LEMMA HoldsLeaves ==
  ASSUME StoreOK, NEW r \in Roots, NEW n \in Names
  PROVE  Holds(r, n) \in Leaves
<1>1. entry[r] \in Entries
  BY DEF StoreOK
<1>2. CASE entry[r].kind = "dir"
  BY <1>1, <1>2, EntriesByKind DEF Holds
<1>3. CASE entry[r].kind # "dir"
  BY <1>3, LeavesAreEntries DEF Holds
<1> QED BY <1>2, <1>3

LEMMA LookType ==
  ASSUME StoreOK, NEW p \in Paths
  PROVE  Look(p) \in Entries /\ (p \in Files => Look(p) \in Leaves)
<1>1. CASE p \in Roots
  <2>1. p \notin Files
    BY <1>1, AIFileOpsAssumption
  <2> QED BY <1>1, <2>1 DEF Look, StoreOK
<1>2. CASE p \in Files
  <2>1. p \notin Roots /\ Real(Dir[p]) \in Roots /\ Base[p] \in Names
    BY <1>2, FilesHaveNames, RealIsRoot
  <2> QED BY <2>1, HoldsLeaves, LeavesAreEntries DEF Look
<1> QED BY <1>1, <1>2 DEF Paths

LEMMA ResolveType ==
  ASSUME StoreOK, NEW p \in Paths
  PROVE  Resolve(p) \in Paths
<1>1. CASE p \in Files
  <2>1. Real(Dir[p]) \in Roots /\ Base[p] \in Names
    BY <1>1, FilesHaveNames, RealIsRoot
  <2>2. \E f \in Files : Dir[f] = Real(Dir[p]) /\ Base[f] = Base[p]
    BY <2>1, AIFileOpsAssumption
  <2> DEFINE g == CHOOSE f \in Files : Dir[f] = Real(Dir[p]) /\ Base[f] = Base[p]
  <2>3. g \in Files
    BY <2>2
  <2> HIDE DEF g
  <2>4. Resolve(p) = p \/ Resolve(p) = g
    BY <1>1 DEF Resolve, g
  <2> QED BY <1>1, <2>3, <2>4 DEF Paths
<1>2. CASE p \notin Files
  <2>1. entry[p] \in Entries
    BY <1>2 DEF StoreOK, Paths
  <2>2. Resolve(p) = p \/ (entry[p].kind = "link" /\ Resolve(p) = entry[p].to)
    BY <1>2 DEF Resolve
  <2> QED BY <2>1, <2>2, EntriesByKind
<1> QED BY <1>1, <1>2

(* What a path can take. *)
Fits(p, e) == e \in Entries /\ (p \in Files => e \in Leaves)

LEMMA PlacedType ==
  ASSUME StoreOK, NEW p \in Paths, CanPlace(p), NEW e, Fits(p, e)
  PROVE  Placed(p, e) \in [Roots -> Entries]
<1>1. CASE p \in Roots
  BY <1>1 DEF Placed, StoreOK, Fits
<1>2. CASE p \in Files
  <2>1. p \notin Roots /\ Real(Dir[p]) \in Roots /\ Base[p] \in Names
    BY <1>2, FilesHaveNames, RealIsRoot
  <2> DEFINE r == Real(Dir[p])
             h == [entry[r].holds EXCEPT ![Base[p]] = e]
  <2>2. entry[r].holds \in [Names -> Leaves]
    BY <1>2, <2>1, EntriesByKind DEF CanPlace, StoreOK
  <2>3. h \in [Names -> Leaves]
    BY <1>2, <2>1, <2>2 DEF Fits
  <2>4. Tree(h) \in Entries
    BY <2>3, LeavesAreEntries
  <2>5. Placed(p, e) = [entry EXCEPT ![r] = Tree(h)]
    BY <2>1 DEF Placed
  <2> HIDE DEF r, h
  <2> QED BY <2>4, <2>5 DEF StoreOK
<1> QED BY <1>1, <1>2 DEF Paths

LEMMA NoCallIsSound ==
  /\ CallSound(NoCall) /\ NoCall.pc = "idle"
  /\ CallSound([NoCall EXCEPT !.pc = "ended"])
  /\ [NoCall EXCEPT !.pc = "ended"].pc = "ended"
  /\ [NoCall EXCEPT !.pc = "ended"].path = Nowhere
<1> DEFINE k == [NoCall EXCEPT !.pc = "ended"]
<1>1. NoEntry \in Entries /\ NoEntry \in Leaves /\ {} \in Texts
  BY LeavesAreEntries DEF Texts
<1>2. NoCall \in CallRecords /\ k \in CallRecords /\ k.pc = "ended" /\ k.path = Nowhere
      /\ NoCall.was = NoEntry /\ k.was = NoEntry /\ NoCall.path = Nowhere /\ NoCall.pc = "idle"
      /\ ~NoCall.isDir /\ ~k.isDir
  <2> HIDE DEF NoEntry
  <2> QED BY <1>1 DEF NoCall, CallRecords, Places
<1> HIDE DEF k, NoCall
<1> QED BY <1>1, <1>2 DEF CallSound, Active, k

(* The record of a call after each step, and what the step did to it.      *)
LEMMA OneCallMoves ==
  ASSUME CallsOK, NEW c \in Calls, NEW k, CallSound(k),
         call' = [call EXCEPT ![c] = k]
  PROVE  /\ CallsOK'
         /\ call'[c] = k
         /\ \A d \in Calls \ {c} : call'[d] = call[d]
BY DEF CallsOK, CallSound

LEMMA CallTypes ==
  ASSUME CallsOK, NEW c \in Calls
  PROVE  /\ CallSound(call[c]) /\ call[c] \in CallRecords
         /\ call[c].was \in Entries /\ call[c].pc \in Places /\ call[c].lost \in BOOLEAN
         /\ call[c].inv \in Invocations \cup {Nowhere}
         /\ call[c].path \in Paths \cup {Nowhere}
BY DEF CallsOK, CallRecords

(* A call under way or done has an invocation, a path and a place for its  *)
(* backup.                                                                 *)
LEMMA ActiveCalls ==
  ASSUME StoreOK, CallsOK, NEW c \in Calls, call[c].pc \in Active
  PROVE  /\ call[c].inv \in Invocations /\ call[c].path \in Paths \ Blocked
         /\ call[c].path # Nowhere
         /\ Fits(call[c].path, Target(c)) /\ Fits(call[c].path, call[c].was)
         /\ \A kind \in {"file", "dir"} : Slot(c, kind) \in Slots
<1>1. call[c].inv \in Invocations /\ call[c].path \in Paths \ Blocked
  BY CallTypes DEF CallSound
<1>2. call[c].path # Nowhere
  BY <1>1, AIFileOpsAssumption
<1>3. Fits(call[c].path, Target(c))
  BY <1>1, LookType DEF Target, Fits
<1>4. Fits(call[c].path, call[c].was)
  BY CallTypes DEF CallSound, Fits
<1>5. \A kind \in {"file", "dir"} : Slot(c, kind) \in Slots
  BY <1>1 DEF Slot, Slots
<1> QED BY <1>1, <1>2, <1>3, <1>4, <1>5

(* What is left of a call is sound. *)
LEMMA LeftOversAreSound ==
  ASSUME CallsOK, NEW c \in Calls
  PROVE  /\ CallSound(Over(c)) /\ Over(c).pc = "ended"
         /\ Over(c).inv = call[c].inv /\ Over(c).path = call[c].path
         /\ ~Over(c).isDir
<1>1. call[c].inv \in Invocations \cup {Nowhere} /\ call[c].path \in Paths \cup {Nowhere}
  BY CallTypes
<1>2. NoCall \in CallRecords /\ NoCall.was \in Leaves /\ ~NoCall.isDir
  BY NoCallIsSound, LeavesAreEntries DEF CallSound, NoCall
<1>3. /\ Over(c) \in CallRecords /\ Over(c).pc = "ended" /\ Over(c).was = NoCall.was
      /\ ~Over(c).isDir
      /\ Over(c).inv = call[c].inv /\ Over(c).path = call[c].path
  <2> HIDE DEF NoCall
  <2> QED BY <1>1, <1>2 DEF Over, CallRecords, Places
<1> HIDE DEF NoCall, Over
<1> QED BY <1>2, <1>3 DEF CallSound, Active

LEMMA DoneCallsAreSound ==
  ASSUME StoreOK, CallsOK, NEW c \in Calls, call[c].pc \in Active
  PROVE  /\ CallSound(Done(c)) /\ Done(c).pc = "done"
         /\ Done(c).inv = call[c].inv /\ Done(c).path = call[c].path
         /\ Done(c).was = call[c].was /\ Done(c).lost = call[c].lost
<1>1. /\ call[c].inv \in Invocations /\ call[c].path \in Paths \ Blocked
      /\ Target(c) \in Entries /\ Fits(call[c].path, call[c].was)
  BY ActiveCalls DEF Fits
<1>2. call[c].was \in Entries /\ call[c].lost \in BOOLEAN
  BY CallTypes
<1>3. /\ Over(c) \in CallRecords /\ ~Over(c).isDir
      /\ Over(c).inv = call[c].inv /\ Over(c).path = call[c].path
  BY LeftOversAreSound DEF CallSound
<1>4. /\ Done(c) \in CallRecords /\ Done(c).pc = "done" /\ ~Done(c).isDir
      /\ Done(c).inv = call[c].inv /\ Done(c).path = call[c].path
      /\ Done(c).was = call[c].was /\ Done(c).lost = call[c].lost
  <2> HIDE DEF Over, Target
  <2> QED BY <1>1, <1>2, <1>3 DEF Done, CallRecords, Places
<1> QED BY <1>1, <1>4 DEF CallSound, Active, Fits

(* The effect of the first steps of a call on its record. *)
LEMMA BeginEffect ==
  ASSUME StoreOK, CallsOK, NEW c \in Calls, NEW i \in Invocations,
         NEW what \in {"backup", "write", "edit", "delete"}, NEW p \in Named,
         NEW recursive \in BOOLEAN, AIBegin(c, what, i, p, recursive)
  PROVE  /\ CallsOK'
         /\ call[c].path = Nowhere
         /\ call'[c].pc \in {"open", "lstat", "ended"}
         /\ \A d \in Calls \ {c} : call'[d] = call[d]
<1>1. p \in Paths
  BY AIFileOpsAssumption
<1>2. Resolve(p) \in Paths
  BY <1>1, ResolveType
<1>3. call[c].path = Nowhere
  BY CallTypes DEF AIBegin, At, CallSound
<1>4. CASE what = "write"
  <2> DEFINE k == [NoCall EXCEPT !.pc = "open", !.does = what, !.inv = i, !.path = p]
  <2>1. call' = [call EXCEPT ![c] = k]
    BY <1>4 DEF AIBegin
  <2>2. CallSound(k) /\ k.pc = "open"
    <3>1. NoCall \in CallRecords /\ NoCall.was \in Leaves /\ ~NoCall.isDir
      BY NoCallIsSound, LeavesAreEntries DEF CallSound, NoCall
    <3> HIDE DEF NoCall
    <3>2. k \in CallRecords /\ k.pc = "open" /\ k.inv = i /\ k.path = p /\ k.was = NoCall.was
          /\ ~k.isDir
      BY <1>1, <3>1 DEF CallRecords, Places
    <3> QED BY <1>1, <3>1, <3>2 DEF CallSound, Active
  <2> HIDE DEF k
  <2> QED BY <1>3, <2>1, <2>2, OneCallMoves
<1>5. CASE what # "write" /\ Refused(what, p, recursive)
  <2>1. call' = [call EXCEPT ![c] = [NoCall EXCEPT !.pc = "ended"]]
    BY <1>5 DEF AIBegin
  <2> QED BY <1>3, <2>1, NoCallIsSound, OneCallMoves
<1>6. CASE what # "write" /\ ~Refused(what, p, recursive)
  <2> DEFINE d == what = "delete" /\ Look(Resolve(p)).kind = "dir"
             t == IF what = "edit" THEN Look(Resolve(p)).text ELSE {}
             place == IF what = "edit" THEN "open" ELSE "lstat"
             k == [NoCall EXCEPT !.pc = place, !.does = what, !.inv = i,
                     !.path = Resolve(p), !.isDir = d, !.read = t]
  <2>1. call' = [call EXCEPT ![c] = k]
    BY <1>6 DEF AIBegin
  <2>2. Resolve(p) \in Paths \ Blocked
    BY <1>2, <1>6 DEF Refused, IsBlocked, Forbidden
  <2>3. /\ d \in BOOLEAN /\ t \in Texts /\ place \in {"open", "lstat"}
        /\ d => Resolve(p) \in Roots
        /\ place = "open" => ~d
    <3>1. what = "edit" => Look(Resolve(p)).kind = "file"
      BY <1>6 DEF Refused, EditRefused
    <3>2. what = "edit" => Look(Resolve(p)).text \in Texts
      BY <1>2, <3>1, LookType, EntriesByKind
    <3>3. d => Resolve(p) \in Roots
      <4>1. \A x \in Leaves : x.kind # "dir"
        BY EntriesByKind, LeavesAreEntries
      <4> QED BY <1>2, <4>1, LookType DEF Paths
    <3> QED BY <3>2, <3>3 DEF Texts
  <2>4. CallSound(k) /\ k.pc = place
    <3>1. NoCall \in CallRecords /\ NoCall.was \in Leaves /\ ~NoCall.isDir
      BY NoCallIsSound, LeavesAreEntries DEF CallSound, NoCall
    <3> HIDE DEF d, t, place, NoCall
    <3>2. /\ k \in CallRecords /\ k.was = NoCall.was /\ k.isDir = d
          /\ k.pc = place /\ k.inv = i /\ k.path = Resolve(p)
      BY <2>2, <2>3, <3>1 DEF CallRecords, Places
    <3> QED BY <2>2, <2>3, <3>1, <3>2 DEF CallSound, Active
  <2> HIDE DEF k
  <2> QED BY <1>3, <2>1, <2>3, <2>4, OneCallMoves
<1> QED BY <1>4, <1>5, <1>6

LEMMA OpenEffect ==
  ASSUME StoreOK, CallsOK, NEW c \in Calls, OpenWrite(c)
  PROVE  /\ CallsOK'
         /\ call[c].pc = "open" /\ call'[c].pc \in {"lstat", "ended"}
         /\ \A d \in Calls \ {c} : call'[d] = call[d]
         /\ \/ UNCHANGED entry
            \/ \E r \in Roots : /\ entry[r].kind = "absent"
                                /\ entry' = [entry EXCEPT ![r] = EmptyTree]
<1> DEFINE p == call[c].path
           q == Resolve(p)
           goes == /\ ~Refused("write", p, FALSE)
                   /\ CanPlace(q) \/ entry[Dir[q]].kind = "absent"
<1>1. call[c].pc = "open"
  BY DEF OpenWrite, At
<1>2. /\ CallSound(call[c]) /\ call[c] \in CallRecords
      /\ call[c].inv \in Invocations /\ p \in Paths
  BY <1>1, CallTypes DEF CallSound
<1>3. q \in Paths
  BY <1>2, ResolveType
<1>4. \/ UNCHANGED entry
      \/ \E r \in Roots : /\ entry[r].kind = "absent"
                          /\ entry' = [entry EXCEPT ![r] = EmptyTree]
  <2>1. CASE goes /\ ~CanPlace(q)
    <3>1. q \in Files /\ Dir[q] \in Roots
      BY <2>1, FilesHaveNames DEF CanPlace
    <3> QED BY <2>1, <3>1 DEF OpenWrite
  <2>2. CASE ~(goes /\ ~CanPlace(q))
    BY <2>2 DEF OpenWrite
  <2> QED BY <2>1, <2>2
<1>5. CASE goes
  <2> DEFINE k == [call[c] EXCEPT !.pc = "lstat", !.path = q]
  <2>1. call' = [call EXCEPT ![c] = k]
    BY <1>5 DEF OpenWrite
  <2>2. q \in Paths \ Blocked
    BY <1>3, <1>5 DEF Refused, IsBlocked, Forbidden
  <2>3. call[c].was \in Leaves /\ ~call[c].isDir
    BY <1>1, <1>2 DEF CallSound
  <2>4. CallSound(k) /\ k.pc = "lstat"
    <3> HIDE DEF p, q
    <3>1. /\ k \in CallRecords /\ k.pc = "lstat" /\ k.path = q
          /\ k.inv = call[c].inv /\ k.was = call[c].was /\ k.isDir = call[c].isDir
      BY <1>2, <2>2 DEF CallRecords, Places
    <3> QED BY <1>2, <2>2, <2>3, <3>1 DEF CallSound, Active
  <2> HIDE DEF k
  <2> QED BY <1>1, <1>4, <2>1, <2>4, OneCallMoves
<1>6. CASE ~goes
  <2>1. call' = [call EXCEPT ![c] = [NoCall EXCEPT !.pc = "ended"]]
    BY <1>6 DEF OpenWrite
  <2> QED BY <1>1, <1>4, <2>1, NoCallIsSound, OneCallMoves
<1> QED BY <1>5, <1>6

-----------------------------------------------------------------------------
(* What a step may do to the calls and to their backups. *)

(* Only c moves, and keeps its name. *)
Moves(c) ==
  /\ CallsOK'
  /\ call[c].pc \in Active /\ call'[c].pc \in Active \cup {"ended"}
  /\ call'[c].inv = call[c].inv /\ call'[c].path = call[c].path
  /\ \A d \in Calls \ {c} : call'[d] = call[d]

(* A call that has its backup keeps to it, or has just made it. *)
HoldsOn(c) ==
  /\ call'[c].pc \in {"mutate", "done"} /\ call'[c].was.kind \in {"file", "dir"}
  /\ ~call'[c].lost
  => /\ call'[c].inv = call[c].inv /\ call'[c].path = call[c].path
     /\ \/ /\ call[c].pc \in {"mutate", "done"} /\ call'[c].was = call[c].was
           /\ ~call[c].lost
        \/ /\ call[c].pc = "copy" /\ call'[c].was.kind = call[c].was.kind
           /\ backup'[Slot(c, call[c].was.kind)] = call'[c].was

(* Backup files go, or are written by the calls that copy. *)
WrittenBy(cs) ==
  \A s \in Slots :
    \/ backup'[s] \in {backup[s], NoEntry}
    \/ \E d \in cs : call[d].pc = "copy" /\ s = Slot(d, call[d].was.kind)

(* No name of a call that may have a backup is taken back. *)
NamesStay ==
  \A d \in Calls : call[d].path # Nowhere /\ call[d].pc # "open" =>
    /\ call'[d].path = call[d].path /\ call'[d].inv = call[d].inv
    /\ call'[d].pc # "open"

LEMMA LstatEffect ==
  ASSUME StoreOK, CallsOK, NEW c \in Calls, Lstat(c)
  PROVE  Moves(c) /\ HoldsOn(c)
<1>1. call[c].pc = "lstat"
  BY DEF Lstat, At
<1>2. /\ call[c].inv \in Invocations /\ call[c].path \in Paths \ Blocked
      /\ Fits(call[c].path, Target(c))
  BY <1>1, ActiveCalls DEF Active
<1>3. CallSound(call[c]) /\ call[c] \in CallRecords /\ call[c].lost \in BOOLEAN
  BY CallTypes
<1>4. CASE Target(c).kind \in {"absent", "link"} /\ Does(c, "backup")
  <2>1. call' = [call EXCEPT ![c] = Over(c)]
    BY <1>4 DEF Lstat, End
  <2>2. /\ CallSound(Over(c)) /\ Over(c).pc = "ended"
        /\ Over(c).inv = call[c].inv /\ Over(c).path = call[c].path
    BY LeftOversAreSound
  <2> QED BY <1>1, <2>1, <2>2, OneCallMoves DEF Moves, HoldsOn, Active
<1>5. CASE ~(Target(c).kind \in {"absent", "link"} /\ Does(c, "backup"))
  <2> DEFINE w == Saved(Target(c))
             place == IF Target(c).kind \in {"absent", "link"} THEN "mutate" ELSE "copy"
             k == [call[c] EXCEPT !.was = w, !.pc = place]
  <2>1. call' = [call EXCEPT ![c] = k]
    BY <1>3, <1>5 DEF Lstat, CallRecords, CallsOK
  <2>2. /\ place \in {"copy", "mutate"}
        /\ place = "copy" <=> w.kind \in {"file", "dir"}
    BY <1>2, SavedEntries, EntriesByKind DEF Fits
  <2>3. Fits(call[c].path, w)
    BY <1>2, SavedEntries DEF Fits
  <2>4. /\ CallSound(k) /\ k.pc = place /\ k.was = w
        /\ k.inv = call[c].inv /\ k.path = call[c].path
    <3>1. call[c].pc \in Active
      BY <1>1 DEF Active
    <3>2. place \in {"copy", "mutate"} /\ (place = "copy" => w.kind \in {"file", "dir"})
      BY <2>2, Zenon
    <3> HIDE DEF w, place
    <3>3. /\ k \in CallRecords
          /\ k.pc = place /\ k.was = w /\ k.inv = call[c].inv /\ k.path = call[c].path
          /\ k.isDir = call[c].isDir
      BY <1>3, <2>3, <3>1, <3>2 DEF CallRecords, Places, Fits
    <3> HIDE DEF k
    <3>4. call[c].isDir => call[c].path \in Roots
      BY <1>3 DEF CallSound
    <3> QED BY <1>2, <2>3, <3>2, <3>3, <3>4 DEF CallSound, Active, Fits
  <2> HIDE DEF k, place, w
  <2> QED BY <1>1, <2>1, <2>2, <2>4, OneCallMoves DEF Moves, HoldsOn, Active
<1> QED BY <1>4, <1>5

(* What is copied is of the kind that Lstat found. *)
LEMMA CopiedType ==
  ASSUME StoreOK, CallsOK, NEW c \in Calls, call[c].pc = "copy", ~Cannot(c)
  PROVE  /\ Fits(call[c].path, Copied(c))
         /\ Copied(c).kind = call[c].was.kind
         /\ call[c].was.kind \in {"file", "dir"}
<1>1. /\ Fits(call[c].path, Target(c)) /\ call[c].was \in Entries
      /\ call[c].was.kind \in {"file", "dir"}
  BY ActiveCalls, CallTypes DEF Active, CallSound
<1>2. Target(c).kind = call[c].was.kind
  BY DEF Cannot, At
<1>3. CASE call[c].was.kind = "file"
  <2>1. Target(c).text \in Texts /\ call[c].was.mode \in Modes
    BY <1>1, <1>2, <1>3, EntriesByKind DEF Fits
  <2>2. Copied(c) \in Leaves /\ Copied(c).kind = "file"
    BY <1>3, <2>1, LeavesAreEntries, KindsOfEntries DEF Copied
  <2> QED BY <1>3, <2>2, LeavesAreEntries DEF Fits
<1>4. CASE call[c].was.kind = "dir"
  BY <1>1, <1>2, <1>4 DEF Copied
<1> QED BY <1>1, <1>3, <1>4

LEMMA CopyEffect ==
  ASSUME StoreOK, CallsOK, NEW c \in Calls, Copy(c)
  PROVE  /\ Moves(c) /\ HoldsOn(c) /\ WrittenBy({c})
         /\ \E w \in Archives : /\ w.kind = call[c].was.kind /\ w # NoEntry
                                /\ backup' = [backup EXCEPT ![Slot(c, call[c].was.kind)] = w]
         /\ Slot(c, call[c].was.kind) \in Slots
<1> DEFINE slot == Slot(c, call[c].was.kind)
<1>1. call[c].pc = "copy" /\ ~Cannot(c)
  BY DEF Copy, At
<1>2. /\ call[c].inv \in Invocations /\ call[c].path \in Paths \ Blocked
      /\ \A kind \in {"file", "dir"} : Slot(c, kind) \in Slots
  BY <1>1, ActiveCalls DEF Active
<1>3. CallSound(call[c]) /\ call[c] \in CallRecords
  BY CallTypes
<1>4. /\ Fits(call[c].path, Copied(c)) /\ Copied(c).kind = call[c].was.kind
      /\ call[c].was.kind \in {"file", "dir"}
  BY <1>1, CopiedType
<1>5. slot \in Slots
  BY <1>2, <1>4
<1>6. PICK lost \in BOOLEAN :
        /\ lost => call[c].was.kind = "dir"
        /\ backup' = [backup EXCEPT ![slot] = IF lost THEN CutArchive ELSE Copied(c)]
        /\ IF Does(c, "backup") THEN End(c)
           ELSE call' = [call EXCEPT ![c].pc = "mutate", ![c].was = Copied(c), ![c].lost = lost]
  BY DEF Copy
<1> DEFINE w == IF lost THEN CutArchive ELSE Copied(c)
<1>7. /\ w \in Archives /\ w.kind = call[c].was.kind /\ w # NoEntry
      /\ (~lost => w = Copied(c))
  <2>1. Copied(c) # NoEntry /\ CutArchive # NoEntry
    BY <1>4, KindsOfEntries
  <2> QED BY <1>4, <1>6, <2>1, KindsOfEntries DEF Archives, Fits
<1>8. backup' = [backup EXCEPT ![slot] = w]
  BY <1>6
<1> HIDE DEF w
<1>9. backup'[slot] = w /\ \A s \in Slots \ {slot} : backup'[s] = backup[s]
  BY <1>5, <1>8 DEF StoreOK
<1>10. WrittenBy({c})
  BY <1>1, <1>9 DEF WrittenBy
<1>11. Moves(c) /\ HoldsOn(c)
  <2>1. CASE Does(c, "backup")
    <3>1. call' = [call EXCEPT ![c] = Over(c)]
      BY <1>6, <2>1 DEF End
    <3>2. /\ CallSound(Over(c)) /\ Over(c).pc = "ended"
          /\ Over(c).inv = call[c].inv /\ Over(c).path = call[c].path
      BY LeftOversAreSound
    <3> QED BY <1>1, <3>1, <3>2, OneCallMoves DEF Moves, HoldsOn, Active
  <2>2. CASE ~Does(c, "backup")
    <3> DEFINE v == Copied(c)
               k == [call[c] EXCEPT !.was = v, !.pc = "mutate", !.lost = lost]
    <3>a. Fits(call[c].path, v) /\ v.kind = call[c].was.kind
      BY <1>4
    <3>b. ~lost => backup'[slot] = v
      BY <1>7, <1>9
    <3>c. call' = [call EXCEPT ![c].pc = "mutate", ![c].was = v, ![c].lost = lost]
      BY <1>6, <2>2
    <3> HIDE DEF v
    <3>1. call' = [call EXCEPT ![c] = k]
      BY <1>3, <3>c DEF CallRecords, CallsOK
    <3>2. /\ CallSound(k) /\ k.pc = "mutate" /\ k.was = v /\ k.lost = lost
          /\ k.inv = call[c].inv /\ k.path = call[c].path
      <4>1. /\ k \in CallRecords /\ k.pc = "mutate" /\ k.was = v /\ k.lost = lost
            /\ k.inv = call[c].inv /\ k.path = call[c].path /\ k.isDir = call[c].isDir
        BY <1>3, <3>a DEF CallRecords, Places, Fits
      <4> HIDE DEF k
      <4>2. call[c].isDir => call[c].path \in Roots
        BY <1>3 DEF CallSound
      <4> QED BY <1>2, <3>a, <4>1, <4>2 DEF CallSound, Active, Fits
    <3> HIDE DEF k
    <3>3. /\ CallsOK' /\ call'[c] = k /\ \A d \in Calls \ {c} : call'[d] = call[d]
      BY <3>1, <3>2, OneCallMoves
    <3> QED BY <1>1, <3>a, <3>b, <3>2, <3>3 DEF Moves, HoldsOn, Active
  <2> QED BY <2>1, <2>2
<1> QED BY <1>5, <1>7, <1>8, <1>10, <1>11

(* A change that has been made. *)
LEMMA ChangeEffect ==
  ASSUME StoreOK, CallsOK, NEW c \in Calls, call[c].pc = "mutate",
         call' = [call EXCEPT ![c] = Done(c)]
  PROVE  Moves(c) /\ HoldsOn(c)
<1>1. /\ CallSound(Done(c)) /\ Done(c).pc = "done"
      /\ Done(c).inv = call[c].inv /\ Done(c).path = call[c].path
      /\ Done(c).was = call[c].was /\ Done(c).lost = call[c].lost
  BY DoneCallsAreSound DEF Active
<1> QED BY <1>1, OneCallMoves DEF Moves, HoldsOn, Active

(* A call that ends. *)
LEMMA EndEffect ==
  ASSUME StoreOK, CallsOK, NEW c \in Calls, call[c].pc \in Active, End(c)
  PROVE  Moves(c) /\ HoldsOn(c) /\ call'[c].pc = "ended"
<1>1. call' = [call EXCEPT ![c] = Over(c)]
  BY DEF End
<1>2. /\ CallSound(Over(c)) /\ Over(c).pc = "ended"
      /\ Over(c).inv = call[c].inv /\ Over(c).path = call[c].path
  BY LeftOversAreSound
<1> QED BY <1>1, <1>2, OneCallMoves DEF Moves, HoldsOn, Active

LEMMA CutEffect ==
  ASSUME StoreOK, CallsOK, NEW cs \in SUBSET Calls, CutShort(cs)
  PROVE  /\ WrittenBy(cs)
         /\ backup' \in [Slots -> Archives]
         /\ \A s \in Slots : backup'[s] # NoEntry => backup'[s].kind = s[3]
         /\ \A s \in Slots : backup[s] # NoEntry => backup'[s] # NoEntry
         /\ touched' \in [Invocations -> 0..aiClock]
<1> DEFINE atCopy == {Slot(c, call[c].was.kind) : c \in {d \in cs : At(d, "copy")}}
<1>1. PICK S \in SUBSET atCopy :
        LET cut == {s \in S : touched[s[1]] > 0}
            new == {s[1] : s \in {t \in cut : backup[t] = NoEntry}}
        IN /\ backup' = [s \in Slots |-> IF s \in cut THEN Torn(s[3]) ELSE backup[s]]
           /\ touched' = [i \in Invocations |-> IF i \in new THEN aiClock ELSE touched[i]]
  BY DEF CutShort
<1>2. \A s \in Slots : s[3] \in {"file", "dir"}
  BY DEF Slots
<1>3. \A s \in Slots :
        \/ backup'[s] = backup[s]
        \/ backup'[s] = Torn(s[3]) /\ s \in atCopy
  <2> HIDE DEF atCopy
  <2>1. backup' = [s \in Slots |-> IF s \in {t \in S : touched[t[1]] > 0}
                                   THEN Torn(s[3]) ELSE backup[s]]
    BY <1>1
  <2> QED BY <1>1, <2>1
<1>4. \A kind \in {"file", "dir"} :
        Torn(kind) \in Archives /\ Torn(kind).kind = kind /\ Torn(kind) # NoEntry
  <2>1. File({}, "0644") \in Entries /\ File({}, "0644").kind = "file"
    BY LeavesAreEntries, KindsOfEntries DEF Texts, Modes
  <2> HIDE DEF File, CutArchive, NoEntry
  <2> QED BY <2>1, KindsOfEntries DEF Torn, Archives
<1>5. backup' = [s \in Slots |-> backup'[s]]
  BY <1>1
<1>6. touched' \in [Invocations -> 0..aiClock]
  BY <1>1 DEF StoreOK
<1>7. WrittenBy(cs)
  BY <1>3 DEF WrittenBy, At
<1>8. backup' \in [Slots -> Archives]
  BY <1>2, <1>3, <1>4, <1>5 DEF StoreOK
<1>9. \A s \in Slots : backup'[s] # NoEntry => backup'[s].kind = s[3]
  BY <1>2, <1>3, <1>4 DEF StoreOK
<1>10. \A s \in Slots : backup[s] # NoEntry => backup'[s] # NoEntry
  BY <1>2, <1>3, <1>4
<1> QED BY <1>6, <1>7, <1>8, <1>9, <1>10

LEMMA EvictEffect ==
  ASSUME StoreOK, NEW i \in Invocations, Evict(i)
  PROVE  /\ StoreOK' /\ WrittenBy({}) /\ UNCHANGED <<entry, call, aiClock>>
         /\ backup' = [s \in Slots |-> IF s[1] = i THEN NoEntry ELSE backup[s]]
         /\ \A s \in Slots : backup'[s] = IF s[1] = i THEN NoEntry ELSE backup[s]
         /\ \A j \in Invocations : touched'[j] = IF j = i THEN 0 ELSE touched[j]
<1>1. NoEntry \in Archives
  BY LeavesAreEntries DEF Archives
<1>2. \A s \in Slots : backup'[s] = IF s[1] = i THEN NoEntry ELSE backup[s]
  BY DEF Evict
<1>3. backup' \in [Slots -> Archives]
  BY <1>1 DEF Evict, StoreOK
<1>4. touched' = [touched EXCEPT ![i] = 0] /\ touched' \in [Invocations -> 0..aiClock]
  BY DEF Evict, StoreOK
<1>5. StoreOK'
  BY <1>2, <1>3, <1>4 DEF Evict, StoreOK
<1>6. \A j \in Invocations : touched'[j] = IF j = i THEN 0 ELSE touched[j]
  BY <1>4 DEF StoreOK
<1> QED BY <1>2, <1>5, <1>6 DEF Evict, WrittenBy

(* A change of entries alone. *)
LEMMA StoredEntry ==
  ASSUME StoreOK, entry' \in [Roots -> Entries], UNCHANGED <<backup, touched, aiClock>>
  PROVE  StoreOK' /\ WrittenBy({})
BY DEF StoreOK, WrittenBy

(* A touched directory. *)
LEMMA TouchEffect ==
  ASSUME StoreOK, NEW i \in Invocations, NEW b \in BOOLEAN, Touch(i, b)
  PROVE  touched' \in [Invocations -> 0..aiClock]
BY DEF StoreOK, Touch

-----------------------------------------------------------------------------
(* The calls keep what they have backed up. *)

LEMMA KeptStep ==
  ASSUME StoreOK, CallsOK, \A c \in Calls : BackupIsKept(c),
         NEW cs \in SUBSET Calls, WrittenBy(cs), NamesStay,
         \A c \in Calls : HoldsOn(c)
  PROVE  \A c \in Calls : BackupIsKept(c)'
<1> SUFFICES ASSUME NEW c \in Calls,
                    call'[c].pc \in {"mutate", "done"},
                    call'[c].was.kind \in {"file", "dir"}, ~call'[c].lost, ~Shared(c)'
             PROVE  backup'[Slot(c, call[c].was.kind)'] \in {NoEntry, call'[c].was}
  BY DEF BackupIsKept
<1>1. call'[c].inv = call[c].inv /\ call'[c].path = call[c].path
  BY DEF HoldsOn
<1>2. \A kind : Slot(c, kind)' = Slot(c, kind)
  BY <1>1 DEF Slot
<1>3. ~Shared(c)
  BY <1>1 DEF Shared, NamesStay, At
<1>4. CASE /\ call[c].pc \in {"mutate", "done"} /\ call'[c].was = call[c].was
           /\ ~call[c].lost
  <2> DEFINE slot == Slot(c, call[c].was.kind)
  <2>1. backup[slot] \in {NoEntry, call[c].was}
    BY <1>3, <1>4 DEF BackupIsKept
  <2>2. slot \in Slots
    BY <1>4, ActiveCalls DEF Active
  <2>3. ASSUME NEW d \in cs, call[d].pc = "copy", slot = Slot(d, call[d].was.kind)
        PROVE  FALSE
    <3>1. d \in Calls \ {c}
      BY <1>4, <2>3
    <3>2. call[d].path # Nowhere
      BY <2>3, <3>1, ActiveCalls DEF Active
    <3>3. call[d].inv = call[c].inv /\ Base[call[d].path] = Base[call[c].path]
      BY <2>3 DEF Slot
    <3> QED BY <1>3, <2>3, <3>1, <3>2, <3>3 DEF Shared, At
  <2>4. backup'[slot] \in {backup[slot], NoEntry}
    BY <2>2, <2>3 DEF WrittenBy
  <2> QED BY <1>2, <1>4, <2>1, <2>4
<1>5. CASE /\ call'[c].was.kind = call[c].was.kind
           /\ backup'[Slot(c, call[c].was.kind)] = call'[c].was
  BY <1>2, <1>5
<1> QED BY <1>4, <1>5 DEF HoldsOn

-----------------------------------------------------------------------------
(* The janitor: what its totals stand for. *)

LEMMA OneWeight ==
  ASSUME NEW d, NEW n \in Nat
  PROVE  IsFiniteSet({d} \X (1..n)) /\ Cardinality({d} \X (1..n)) = n
<1>1. IsFiniteSet({d}) /\ Cardinality({d}) = 1
  BY FS_Singleton
<1>2. IsFiniteSet(1..n) /\ Cardinality(1..n) = n
  BY FS_Interval
<1>3. /\ IsFiniteSet({d} \X (1..n))
      /\ Cardinality({d} \X (1..n)) = Cardinality({d}) * Cardinality(1..n)
  BY <1>1, <1>2, FS_Product
<1> QED BY <1>1, <1>2, <1>3

LEMMA NoWeight == IsFiniteSet(Weights({})) /\ Cardinality(Weights({})) = 0
<1>1. Weights({}) = {}
  BY DEF Weights
<1> QED BY <1>1, FS_EmptySet

LEMMA AddedWeight ==
  ASSUME NEW K, IsFiniteSet(Weights(K)), NEW d, d.size \in Nat
  PROVE  /\ IsFiniteSet(Weights(K \cup {d}))
         /\ Cardinality(Weights(K \cup {d})) <= Cardinality(Weights(K)) + d.size
<1> DEFINE new == {d} \X (1..d.size)
<1>1. Weights(K \cup {d}) = Weights(K) \cup new
  BY DEF Weights
<1>2. IsFiniteSet(new) /\ Cardinality(new) = d.size
  BY OneWeight
<1>3. Cardinality(Weights(K) \cap new) \in Nat
  BY <1>2, FS_Intersection, FS_CardinalityType
<1>4. Cardinality(Weights(K)) \in Nat
  BY FS_CardinalityType
<1> HIDE DEF new
<1>5. /\ IsFiniteSet(Weights(K) \cup new)
      /\ Cardinality(Weights(K) \cup new)
           = Cardinality(Weights(K)) + Cardinality(new) - Cardinality(Weights(K) \cap new)
  BY <1>2, FS_Union
<1>6. Cardinality(Weights(K) \cup new) <= Cardinality(Weights(K)) + d.size
  BY <1>2, <1>3, <1>4, <1>5
<1> QED BY <1>1, <1>5, <1>6, Zenon

LEMMA TakenWeight ==
  ASSUME NEW K, IsFiniteSet(Weights(K)), NEW d \in K, d.size \in Nat
  PROVE  /\ IsFiniteSet(Weights(K \ {d}))
         /\ Cardinality(Weights(K \ {d})) + d.size = Cardinality(Weights(K))
         /\ Cardinality(Weights(K \ {d})) \in Nat
<1> DEFINE old == {d} \X (1..d.size)
<1>1. Weights(K) = Weights(K \ {d}) \cup old /\ Weights(K \ {d}) \cap old = {}
  BY DEF Weights
<1>2. IsFiniteSet(old) /\ Cardinality(old) = d.size
  BY OneWeight
<1>3. IsFiniteSet(Weights(K \ {d})) /\ Cardinality(Weights(K \ {d})) \in Nat
  BY <1>1, FS_Subset, FS_CardinalityType
<1> HIDE DEF old
<1>4. Cardinality(Weights(K \ {d}) \cup old)
        = Cardinality(Weights(K \ {d})) + Cardinality(old)
            - Cardinality(Weights(K \ {d}) \cap old)
  BY <1>2, <1>3, FS_Union
<1>5. Cardinality(Weights(K \ {d}) \cap old) = 0
  BY <1>1, FS_EmptySet
<1> QED BY <1>1, <1>2, <1>3, <1>4, <1>5

LEMMA HeldFinite ==
  /\ IsFiniteSet(HeldSlots) /\ Cardinality(HeldSlots) \in Nat
  /\ IsFiniteSet(Counted) /\ Cardinality(Counted) \in Nat
  /\ Cardinality(Counted) <= Cardinality(HeldSlots)
  /\ \A i : IsFiniteSet(Held(i)) /\ Cardinality(Held(i)) \in Nat
<1>1. IsFiniteSet(HeldSlots) /\ IsFiniteSet(Counted) /\ \A i : IsFiniteSet(Held(i))
  BY AIFileOpsAssumption, FS_Subset DEF HeldSlots, Counted, Held
<1>2. Cardinality(Counted) <= Cardinality(HeldSlots)
  BY <1>1, FS_Subset DEF Counted
<1> QED BY <1>1, <1>2, FS_CardinalityType

(* No cycle, a cycle that a backup races with, and one that is left alone. *)
LEMMA IdleCycle ==
  ASSUME cycle' = NoCycle, aiClock' \in Nat, touched' \in [Invocations -> 0..aiClock']
  PROVE  CycleSound'
<1>1. NoCycle \in Cycles
  BY DEF NoCycle, Cycles
<1>2. TotalCovers'
  BY NoWeight DEF TotalCovers, NoCycle
<1>3. Cardinality(Counted)' \in Nat
  BY AIFileOpsAssumption, FS_Subset, FS_CardinalityType DEF Counted, HeldSlots
<1>4. CycleFresh'
  BY <1>3 DEF CycleFresh, StillSo, NoCycle
<1>5. Resting'
  BY DEF Resting, NoCycle
<1> QED BY <1>1, <1>2, <1>4, <1>5 DEF CycleSound

LEMMA RacedCycle ==
  ASSUME CycleSound, cycle' = [cycle EXCEPT !.raced = @ \/ cycle.on],
         aiClock' \in Nat, touched' \in [Invocations -> 0..aiClock']
  PROVE  CycleSound'
<1>1. CASE cycle.on
  <2>1. cycle' \in Cycles /\ cycle'.raced /\ cycle'.on
    BY <1>1 DEF CycleSound, Cycles
  <2>2. cycle'.keep = cycle.keep /\ cycle'.total = cycle.total
    BY DEF CycleSound, Cycles
  <2> QED BY <2>1, <2>2 DEF CycleSound, TotalCovers, CycleFresh, StillSo
<1>2. CASE ~cycle.on
  <2>1. /\ cycle' \in Cycles /\ ~cycle'.on
        /\ cycle'.keep = {} /\ cycle'.total = 0 /\ cycle'.now = 0
        /\ cycle'.todo = {} /\ cycle'.doomed = {}
    BY <1>2 DEF CycleSound, Cycles, Resting
  <2>2. Cardinality(Counted)' \in Nat
    BY AIFileOpsAssumption, FS_Subset, FS_CardinalityType DEF Counted, HeldSlots
  <2>3. CycleFresh'
    BY <2>1, <2>2 DEF CycleFresh, StillSo
  <2>4. TotalCovers'
    BY <2>1, NoWeight DEF TotalCovers
  <2> QED BY <2>1, <2>3, <2>4 DEF CycleSound, Resting
<1>3. cycle.on \in BOOLEAN
  BY DEF CycleSound, Cycles
<1> QED BY <1>1, <1>2

LEMMA QuietCycle ==
  ASSUME StoreOK, CycleSound, UNCHANGED <<backup, touched, cycle>>,
         aiClock' \in Nat, aiClock <= aiClock'
  PROVE  CycleSound'
<1>1. Counted' = Counted /\ \A i : Held(i)' = Held(i)
  BY DEF Counted, HeldSlots, Held
<1>2. aiClock \in Nat /\ cycle.now \in Nat
  BY AIFileOpsAssumption DEF StoreOK, CycleSound, Cycles
<1>3. CycleFresh'
  BY <1>1, <1>2 DEF CycleSound, CycleFresh, StillSo
<1> QED BY <1>3 DEF CycleSound, TotalCovers, Resting

(* A cycle with the members of keep and the total of cycle', whose other   *)
(* fields are checked where it is taken up.                                *)
LEMMA StartCycleSound ==
  ASSUME StoreOK, StartCycle
  PROVE  CycleSound'
<1> DEFINE todo == {i \in Invocations : touched[i] > 0}
<1>1. /\ cycle' \in Cycles /\ cycle'.on /\ cycle'.now = aiClock /\ cycle'.todo = todo
      /\ cycle'.doomed = {} /\ cycle'.keep = {} /\ cycle'.total = 0
  <2>1. NoCycle \in Cycles
    BY DEF NoCycle, Cycles
  <2>2. cycle' = [NoCycle EXCEPT !.on = TRUE, !.now = aiClock, !.todo = todo]
    BY DEF StartCycle
  <2>3. todo \in SUBSET Invocations /\ aiClock \in Nat
    BY DEF StoreOK
  <2>4. NoCycle.doomed = {} /\ NoCycle.keep = {} /\ NoCycle.total = 0
    BY DEF NoCycle
  <2> HIDE DEF todo, NoCycle
  <2> QED BY <2>1, <2>2, <2>3, <2>4 DEF Cycles
<1>2. Cardinality(Counted)' \in Nat
  BY AIFileOpsAssumption, FS_Subset, FS_CardinalityType DEF Counted, HeldSlots
<1>3. TotalCovers'
  BY <1>1, NoWeight DEF TotalCovers
<1>4. aiClock' = aiClock /\ aiClock \in Nat
  BY DEF StartCycle, StoreOK
<1>5. CycleFresh'
  BY <1>1, <1>2, <1>4 DEF CycleFresh, StillSo
<1> QED BY <1>1, <1>3, <1>5 DEF CycleSound

LEMMA VisitSound ==
  ASSUME StoreOK, CycleSound, NEW i \in Invocations, Visit(i)
  PROVE  CycleSound'
<1>1. /\ cycle \in Cycles /\ cycle.on /\ i \in cycle.todo /\ cycle.doomed = {}
      /\ TotalCovers /\ CycleFresh
  BY DEF CycleSound, Cycles, Visit, Resting
<1>2. touched[i] \in Nat /\ aiClock \in Nat
  BY DEF StoreOK
<1>3. UNCHANGED <<entry, backup, touched, aiClock>>
  BY DEF Visit, files
<1>4. /\ HeldSlots' = HeldSlots /\ \A j : Held(j)' = Held(j)
  BY <1>3 DEF HeldSlots, Held
<1>5. CASE TooOld(i)
  <2>1. /\ cycle' \in Cycles /\ cycle'.on /\ cycle'.raced = cycle.raced
        /\ cycle'.now = cycle.now /\ cycle'.todo = cycle.todo \ {i}
        /\ cycle'.doomed = {i} /\ cycle'.keep = cycle.keep
        /\ cycle'.total = cycle.total
    BY <1>1, <1>5 DEF Visit, Cycles
  <2>2. Counted' = Counted
    BY <1>1, <1>4, <2>1 DEF Counted
  <2>3. TotalCovers'
    BY <1>1, <2>1 DEF TotalCovers
  <2>4. CycleFresh'
    <3> SUFFICES ASSUME ~cycle.raced PROVE StillSo'
      BY <2>1 DEF CycleFresh
    <3>1. cycle'.now <= aiClock'
      BY <1>1, <1>3, <2>1 DEF CycleFresh, StillSo
    <3>2. cycle'.todo \cap cycle'.doomed = {}
      BY <2>1
    <3>3. \A j \in cycle'.doomed : cycle'.now > touched'[j] + MaxAge
      BY <1>3, <1>5, <2>1 DEF TooOld
    <3>4. \A d \in cycle'.keep :
            /\ d.inv \notin cycle'.todo \cup cycle'.doomed
            /\ d.mod = touched'[d.inv] /\ d.size = Cardinality(Held(d.inv)')
      BY <1>1, <1>3, <1>4, <2>1 DEF CycleFresh, StillSo
    <3>5. \A d, e \in cycle'.keep : d.inv = e.inv => d = e
      BY <1>1, <2>1 DEF CycleFresh, StillSo
    <3>6. cycle'.total <= Cardinality(Counted')
      BY <1>1, <2>1, <2>2 DEF CycleFresh, StillSo
    <3> QED BY <3>1, <3>2, <3>3, <3>4, <3>5, <3>6 DEF StillSo
  <2> QED BY <2>1, <2>3, <2>4 DEF CycleSound
<1>6. CASE ~TooOld(i)
  <2> DEFINE seen == [inv |-> i, mod |-> touched[i], size |-> Cardinality(Held(i))]
  <2>1. Cardinality(Held(i)) \in Nat /\ IsFiniteSet(Held(i))
    BY HeldFinite
  <2>2. seen \in [inv : Invocations, mod : Nat, size : Nat]
    BY <1>2, <2>1
  <2>3. seen.inv = i /\ seen.mod = touched[i] /\ seen.size = Cardinality(Held(i))
    OBVIOUS
  <2>4. cycle' = [cycle EXCEPT !.todo = @ \ {i}, !.keep = @ \cup {seen},
                    !.total = @ + Cardinality(Held(i))]
    BY <1>6 DEF Visit
  <2> HIDE DEF seen
  <2>5. /\ cycle' \in Cycles /\ cycle'.on /\ cycle'.raced = cycle.raced
        /\ cycle'.now = cycle.now /\ cycle'.todo = cycle.todo \ {i}
        /\ cycle'.doomed = {} /\ cycle'.keep = cycle.keep \cup {seen}
        /\ cycle'.total = cycle.total + Cardinality(Held(i))
    <3>1. /\ cycle.keep \cup {seen} \in SUBSET [inv : Invocations, mod : Nat, size : Nat]
          /\ cycle.total + Cardinality(Held(i)) \in Nat
      BY <1>1, <2>1, <2>2 DEF Cycles
    <3>2. cycle.todo \ {i} \in SUBSET Invocations
      BY <1>1 DEF Cycles
    <3> QED BY <1>1, <2>4, <3>1, <3>2 DEF Cycles
  <2>6. TotalCovers'
    <3>1. /\ IsFiniteSet(Weights(cycle.keep \cup {seen}))
          /\ Cardinality(Weights(cycle.keep \cup {seen}))
               <= Cardinality(Weights(cycle.keep)) + Cardinality(Held(i))
      BY <1>1, <2>1, <2>3, AddedWeight DEF TotalCovers
    <3>2. /\ cycle.total >= Cardinality(Weights(cycle.keep)) /\ cycle.total \in Nat
          /\ Cardinality(Weights(cycle.keep)) \in Nat
      BY <1>1, FS_CardinalityType DEF TotalCovers, Cycles
    <3>3. Cardinality(Weights(cycle.keep \cup {seen})) \in Nat
      BY <3>1, FS_CardinalityType
    <3> QED BY <2>1, <2>5, <3>1, <3>2, <3>3 DEF TotalCovers
  <2>7. CycleFresh'
    <3> SUFFICES ASSUME ~cycle.raced PROVE StillSo'
      BY <2>5 DEF CycleFresh
    <3>1. cycle'.now <= aiClock'
      BY <1>1, <1>3, <2>5 DEF CycleFresh, StillSo
    <3>2. \A d \in cycle'.keep :
            /\ d.inv \notin cycle'.todo \cup cycle'.doomed
            /\ d.mod = touched'[d.inv] /\ d.size = Cardinality(Held(d.inv)')
      BY <1>1, <1>3, <1>4, <2>3, <2>5 DEF CycleFresh, StillSo
    <3>3. \A d \in cycle.keep : d.inv # i
      BY <1>1 DEF CycleFresh, StillSo
    <3>4. \A d, e \in cycle'.keep : d.inv = e.inv => d = e
      BY <1>1, <2>3, <2>5, <3>3 DEF CycleFresh, StillSo
    <3>5. cycle'.total <= Cardinality(Counted')
      <4>1. Counted' = Counted \cup Held(i) /\ Counted \cap Held(i) = {}
        BY <1>1, <1>4, <2>5 DEF Counted, HeldSlots, Held
      <4>2. Cardinality(Counted \cup Held(i))
              = Cardinality(Counted) + Cardinality(Held(i)) - Cardinality(Counted \cap Held(i))
        BY <2>1, HeldFinite, FS_Union
      <4>3. Cardinality(Counted \cap Held(i)) = 0
        BY <4>1, FS_EmptySet
      <4>4. cycle.total <= Cardinality(Counted) /\ cycle.total \in Nat
        BY <1>1 DEF CycleFresh, StillSo, Cycles
      <4>5. Cardinality(Counted) \in Nat
        BY HeldFinite
      <4>6. Cardinality(Counted') = Cardinality(Counted) + Cardinality(Held(i))
        BY <2>1, <4>1, <4>2, <4>3, <4>5
      <4> QED BY <2>1, <2>5, <4>4, <4>5, <4>6
    <3> QED BY <2>5, <3>1, <3>2, <3>4, <3>5 DEF StillSo
  <2> QED BY <2>5, <2>6, <2>7 DEF CycleSound
<1> QED BY <1>5, <1>6

LEMMA EvictOldSound ==
  ASSUME StoreOK, CycleSound, NEW i \in Invocations, EvictOld(i)
  PROVE  CycleSound'
<1>1. /\ cycle \in Cycles /\ cycle.on /\ cycle.doomed = {i}
      /\ TotalCovers /\ CycleFresh
  BY DEF CycleSound, Cycles, EvictOld, Resting
<1>2. /\ cycle' \in Cycles /\ cycle'.on /\ cycle'.raced = cycle.raced
      /\ cycle'.now = cycle.now /\ cycle'.todo = cycle.todo
      /\ cycle'.doomed = {} /\ cycle'.keep = cycle.keep
      /\ cycle'.total = cycle.total
  BY <1>1 DEF EvictOld, Cycles
<1>3. TotalCovers'
  BY <1>1, <1>2 DEF TotalCovers
<1>4. aiClock' = aiClock
  BY DEF EvictOld, Evict
<1>5. /\ ~cycle.raced => i \notin cycle.todo
      /\ ~cycle.raced => \A d \in cycle.keep : d.inv # i
  BY <1>1 DEF CycleFresh, StillSo
<1>6. CASE Evict(i)
  <2>1. /\ \A s \in Slots : backup'[s] = IF s[1] = i THEN NoEntry ELSE backup[s]
        /\ \A j \in Invocations : touched'[j] = IF j = i THEN 0 ELSE touched[j]
    BY <1>6, EvictEffect
  <2>2. Counted' = Counted
    BY <1>1, <1>2, <2>1 DEF Counted, HeldSlots
  <2>3. \A j \in Invocations \ {i} : Held(j)' = Held(j)
    BY <2>1 DEF Held
  <2>4. \A d \in cycle.keep : d.inv \in Invocations
    BY <1>1 DEF Cycles
  <2>5. CycleFresh'
    <3> SUFFICES ASSUME ~cycle.raced PROVE StillSo'
      BY <1>2 DEF CycleFresh
    <3>1. \A d \in cycle'.keep :
            /\ d.inv \notin cycle'.todo \cup cycle'.doomed
            /\ d.mod = touched'[d.inv] /\ d.size = Cardinality(Held(d.inv)')
      BY <1>1, <1>2, <1>5, <2>1, <2>3, <2>4 DEF CycleFresh, StillSo
    <3>2. cycle'.now <= aiClock' /\ cycle'.total <= Cardinality(Counted')
      BY <1>1, <1>2, <1>4, <2>2 DEF CycleFresh, StillSo
    <3>3. \A d, e \in cycle'.keep : d.inv = e.inv => d = e
      BY <1>1, <1>2 DEF CycleFresh, StillSo
    <3> QED BY <1>2, <3>1, <3>2, <3>3 DEF StillSo
  <2> QED BY <1>2, <1>3, <2>5 DEF CycleSound
<1>7. CASE UNCHANGED <<files, call, aiClock>>
  <2>1. UNCHANGED <<backup, touched>>
    BY <1>7 DEF files
  <2>2. HeldSlots' = HeldSlots /\ \A j : Held(j)' = Held(j)
    BY <2>1 DEF HeldSlots, Held
  <2>3. Cardinality(Counted) <= Cardinality(Counted')
    <3>1. Counted \subseteq Counted' /\ Counted' \subseteq HeldSlots
      BY <1>2, <2>2 DEF Counted
    <3>2. IsFiniteSet(Counted')
      BY <3>1, HeldFinite, FS_Subset
    <3> QED BY <3>1, <3>2, FS_Subset
  <2>4. /\ cycle.total \in Nat /\ Cardinality(Counted) \in Nat
        /\ Cardinality(Counted') \in Nat
    <3>1. Counted' \subseteq HeldSlots
      BY <2>2 DEF Counted
    <3> QED BY <1>1, <3>1, HeldFinite, FS_Subset, FS_CardinalityType DEF Cycles
  <2>5. CycleFresh'
    <3> SUFFICES ASSUME ~cycle.raced PROVE StillSo'
      BY <1>2 DEF CycleFresh
    <3>1. \A d \in cycle'.keep :
            /\ d.inv \notin cycle'.todo \cup cycle'.doomed
            /\ d.mod = touched'[d.inv] /\ d.size = Cardinality(Held(d.inv)')
      BY <1>1, <1>2, <2>1, <2>2 DEF CycleFresh, StillSo
    <3>2. cycle.total <= Cardinality(Counted)
      BY <1>1 DEF CycleFresh, StillSo
    <3>3. cycle'.total <= Cardinality(Counted')
      BY <1>2, <2>3, <2>4, <3>2
    <3>4. /\ cycle'.now <= aiClock'
          /\ \A d, e \in cycle'.keep : d.inv = e.inv => d = e
      BY <1>1, <1>2, <1>4 DEF CycleFresh, StillSo
    <3> QED BY <1>2, <3>1, <3>3, <3>4 DEF StillSo
  <2> QED BY <1>2, <1>3, <2>5 DEF CycleSound
<1> QED BY <1>6, <1>7 DEF EvictOld

LEMMA EvictForSpaceSound ==
  ASSUME StoreOK, CycleSound, NEW d \in cycle.keep, EvictForSpace(d)
  PROVE  CycleSound'
<1>1. /\ cycle \in Cycles /\ cycle.on /\ cycle.todo = {} /\ cycle.doomed = {}
      /\ TotalCovers /\ CycleFresh
  BY DEF CycleSound, Cycles, EvictForSpace, Scanned
<1>2. /\ d.inv \in Invocations /\ d.size \in Nat /\ cycle.total \in Nat
      /\ \A e \in cycle.keep : e.inv \in Invocations
  BY <1>1 DEF Cycles
<1>3. /\ IsFiniteSet(Weights(cycle.keep \ {d}))
      /\ Cardinality(Weights(cycle.keep \ {d})) + d.size = Cardinality(Weights(cycle.keep))
      /\ Cardinality(Weights(cycle.keep \ {d})) \in Nat
      /\ cycle.total >= Cardinality(Weights(cycle.keep))
  BY <1>1, <1>2, TakenWeight DEF TotalCovers
<1>4. aiClock' = aiClock
  BY DEF EvictForSpace, Evict
<1>5. CASE /\ cycle' = [cycle EXCEPT !.keep = @ \ {d}, !.total = @ - d.size]
           /\ Evict(d.inv)
  <2>1. cycle.total - d.size \in Nat
    BY <1>2, <1>3
  <2>2. /\ cycle' \in Cycles /\ cycle'.on /\ cycle'.raced = cycle.raced
        /\ cycle'.now = cycle.now /\ cycle'.todo = {} /\ cycle'.doomed = {}
        /\ cycle'.keep = cycle.keep \ {d} /\ cycle'.total = cycle.total - d.size
    BY <1>1, <1>5, <2>1 DEF Cycles
  <2>3. TotalCovers'
    BY <1>2, <1>3, <2>2 DEF TotalCovers
  <2>4. /\ \A s \in Slots : backup'[s] = IF s[1] = d.inv THEN NoEntry ELSE backup[s]
        /\ \A j \in Invocations : touched'[j] = IF j = d.inv THEN 0 ELSE touched[j]
    BY <1>2, <1>5, EvictEffect
  <2>5. \A j \in Invocations \ {d.inv} : Held(j)' = Held(j)
    BY <2>4 DEF Held
  <2>6. /\ Counted = Counted' \cup Held(d.inv) /\ Counted' \cap Held(d.inv) = {}
        /\ Counted' \subseteq HeldSlots
    BY <1>1, <2>2, <2>4 DEF Counted, HeldSlots, Held
  <2>7. CycleFresh'
    <3> SUFFICES ASSUME ~cycle.raced PROVE StillSo'
      BY <2>2 DEF CycleFresh
    <3>1. /\ d.size = Cardinality(Held(d.inv))
          /\ \A e \in cycle.keep \ {d} : e.inv # d.inv
          /\ cycle.total <= Cardinality(Counted)
      BY <1>1 DEF CycleFresh, StillSo
    <3>2. \A e \in cycle'.keep :
            /\ e.inv \notin cycle'.todo \cup cycle'.doomed
            /\ e.mod = touched'[e.inv] /\ e.size = Cardinality(Held(e.inv)')
      BY <1>1, <1>2, <2>2, <2>4, <2>5, <3>1 DEF CycleFresh, StillSo
    <3>3. cycle'.total <= Cardinality(Counted')
      <4>1. /\ IsFiniteSet(Counted') /\ Cardinality(Counted') \in Nat
            /\ IsFiniteSet(Held(d.inv)) /\ Cardinality(Held(d.inv)) \in Nat
        BY <2>6, HeldFinite, FS_Subset, FS_CardinalityType
      <4>2. Cardinality(Counted' \cup Held(d.inv))
              = Cardinality(Counted') + Cardinality(Held(d.inv))
                  - Cardinality(Counted' \cap Held(d.inv))
        BY <4>1, FS_Union
      <4>3. Cardinality(Counted' \cap Held(d.inv)) = 0
        BY <2>6, FS_EmptySet
      <4>4. Cardinality(Counted) = Cardinality(Counted') + d.size
        BY <2>6, <3>1, <4>1, <4>2, <4>3
      <4> QED BY <1>2, <2>2, <3>1, <4>1, <4>4
    <3>4. /\ cycle'.now <= aiClock'
          /\ \A e, f \in cycle'.keep : e.inv = f.inv => e = f
      BY <1>1, <1>4, <2>2 DEF CycleFresh, StillSo
    <3> QED BY <2>2, <3>2, <3>3, <3>4 DEF StillSo
  <2> QED BY <2>2, <2>3, <2>7 DEF CycleSound
<1>6. CASE /\ cycle' = [cycle EXCEPT !.keep = @ \ {d}]
           /\ UNCHANGED <<files, call, aiClock>>
  <2>1. /\ cycle' \in Cycles /\ cycle'.on /\ cycle'.raced = cycle.raced
        /\ cycle'.now = cycle.now /\ cycle'.todo = {} /\ cycle'.doomed = {}
        /\ cycle'.keep = cycle.keep \ {d} /\ cycle'.total = cycle.total
    BY <1>1, <1>6 DEF Cycles
  <2>2. cycle.total >= Cardinality(Weights(cycle.keep \ {d}))
    BY <1>2, <1>3
  <2>3. TotalCovers'
    BY <1>3, <2>1, <2>2 DEF TotalCovers
  <2>4. UNCHANGED <<backup, touched>>
    BY <1>6 DEF files
  <2>5. Counted' = Counted /\ \A j : Held(j)' = Held(j)
    BY <1>1, <2>1, <2>4 DEF Counted, HeldSlots, Held
  <2>6. CycleFresh'
    BY <1>1, <1>4, <2>1, <2>4, <2>5 DEF CycleFresh, StillSo
  <2> QED BY <2>1, <2>3, <2>6 DEF CycleSound
<1> QED BY <1>5, <1>6 DEF EvictForSpace

-----------------------------------------------------------------------------
(* The inductive invariant holds. *)

LEMMA AIInvInit == AIInit => AIInv
<1> SUFFICES ASSUME AIInit PROVE AIInv
  OBVIOUS
<1>1. File({}, FirstMode) \in Leaves
  BY LeavesAreEntries, AIFileOpsAssumption DEF Texts
<1>2. entry \in [Roots -> Entries]
  <2>1. {NoEntry, File({}, FirstMode)} \subseteq Leaves
    BY <1>1, LeavesAreEntries
  <2>2. [Names -> {NoEntry, File({}, FirstMode)}] \subseteq [Names -> Leaves]
    BY <2>1
  <2>3. {NoEntry, File({}, FirstMode)} \cup {Link(p) : p \in Paths}
          \cup {Tree(h) : h \in [Names -> {NoEntry, File({}, FirstMode)}]} \subseteq Entries
    BY <2>1, <2>2, LeavesAreEntries
  <2> QED BY <2>3 DEF AIInit
<1>3. NoEntry \in Archives
  BY LeavesAreEntries DEF Archives
<1>4. StoreOK
  BY <1>2, <1>3, AIFileOpsAssumption DEF AIInit, StoreOK
<1>5. CallsOK
  BY NoCallIsSound DEF AIInit, CallsOK, CallSound
<1>6. \A c \in Calls : BackupIsKept(c)
  BY NoCallIsSound DEF AIInit, BackupIsKept
<1>7. CycleSound
  <2>1. NoCycle \in Cycles
    BY DEF NoCycle, Cycles
  <2>2. cycle = NoCycle /\ aiClock = 1
    BY DEF AIInit
  <2>3. Resting
    BY <2>2 DEF Resting, NoCycle
  <2>4. TotalCovers
    BY <2>3, NoWeight DEF TotalCovers, Resting
  <2>5. CycleFresh
    BY <2>2, <2>3, HeldFinite DEF CycleFresh, StillSo, Resting
  <2> QED BY <2>1, <2>2, <2>3, <2>4, <2>5 DEF CycleSound
<1> QED BY <1>4, <1>5, <1>6, <1>7 DEF AIInv

(* A step of call c that leaves the janitor alone, or races with it. *)
LEMMA CallStep ==
  ASSUME AIInv, NEW c \in Calls, Moves(c), HoldsOn(c), WrittenBy({c}), StoreOK', CycleSound'
  PROVE  AIInv'
<1>1. NamesStay
  BY DEF Moves, NamesStay, Active
<1>2. \A d \in Calls : HoldsOn(d)
  BY DEF Moves, HoldsOn
<1>3. \A d \in Calls : BackupIsKept(d)'
  BY <1>1, <1>2, KeptStep DEF AIInv
<1> QED BY <1>3 DEF AIInv, Moves

(* A step of the janitor, the browser or the clock. *)
LEMMA OtherStep ==
  ASSUME AIInv, UNCHANGED call, WrittenBy({}), StoreOK', CycleSound'
  PROVE  AIInv'
<1>1. CallsOK'
  BY DEF AIInv, CallsOK, CallSound
<1>2. NamesStay /\ \A d \in Calls : HoldsOn(d)
  BY DEF NamesStay, HoldsOn
<1>3. \A d \in Calls : BackupIsKept(d)'
  BY <1>2, KeptStep DEF AIInv
<1> QED BY <1>1, <1>3 DEF AIInv

(* The first steps of a call, which have no backup yet. *)
LEMMA EarlyStep ==
  ASSUME AIInv, NEW c \in Calls, call[c].path = Nowhere \/ call[c].pc = "open",
         CallsOK', call'[c].pc \in {"open", "lstat", "ended"},
         \A d \in Calls \ {c} : call'[d] = call[d],
         entry' \in [Roots -> Entries], UNCHANGED <<backup, touched, cycle, aiClock>>
  PROVE  AIInv'
<1>1. StoreOK' /\ WrittenBy({})
  BY StoredEntry DEF AIInv
<1>2. CycleSound'
  BY QuietCycle DEF AIInv, StoreOK
<1>3. NamesStay /\ \A d \in Calls : HoldsOn(d)
  BY DEF NamesStay, HoldsOn
<1>4. \A d \in Calls : BackupIsKept(d)'
  BY <1>1, <1>3, KeptStep DEF AIInv
<1> QED BY <1>1, <1>2, <1>4 DEF AIInv

LEMMA BeginInv ==
  ASSUME AIInv, NEW c \in Calls, NEW i \in Invocations,
         NEW what \in {"backup", "write", "edit", "delete"}, NEW p \in Named,
         NEW recursive \in BOOLEAN, AIBegin(c, what, i, p, recursive)
  PROVE  AIInv'
<1>1. /\ CallsOK' /\ call[c].path = Nowhere /\ call'[c].pc \in {"open", "lstat", "ended"}
      /\ \A d \in Calls \ {c} : call'[d] = call[d]
  BY BeginEffect DEF AIInv
<1>2. UNCHANGED <<entry, backup, touched, cycle, aiClock>>
  BY DEF AIBegin, files
<1>3. entry' \in [Roots -> Entries]
  BY <1>2 DEF AIInv, StoreOK
<1> QED BY <1>1, <1>2, <1>3, EarlyStep

LEMMA OpenInv == ASSUME AIInv, NEW c \in Calls, OpenWrite(c) PROVE AIInv'
<1>1. /\ CallsOK' /\ call[c].pc = "open" /\ call'[c].pc \in {"lstat", "ended"}
      /\ \A d \in Calls \ {c} : call'[d] = call[d]
      /\ \/ UNCHANGED entry
         \/ \E r \in Roots : /\ entry[r].kind = "absent"
                             /\ entry' = [entry EXCEPT ![r] = EmptyTree]
  BY OpenEffect DEF AIInv
<1>2. entry' \in [Roots -> Entries]
  BY <1>1, EmptyTreeIsEntry DEF AIInv, StoreOK
<1>3. UNCHANGED <<backup, touched, cycle, aiClock>>
  BY DEF OpenWrite
<1> QED BY <1>1, <1>2, <1>3, EarlyStep

LEMMA LstatInv ==
  ASSUME AIInv, NEW c \in Calls, Lstat(c)
  PROVE  AIInv'
<1>1. Moves(c) /\ HoldsOn(c)
  BY LstatEffect DEF AIInv
<1>2. call[c].inv \in Invocations
  BY ActiveCalls DEF AIInv, Lstat, At, Active
<1>3. /\ touched' \in [Invocations -> 0..aiClock] /\ UNCHANGED <<entry, backup, aiClock>>
      /\ cycle' = [cycle EXCEPT !.raced = @ \/ cycle.on]
  BY <1>2, TouchEffect DEF AIInv, Lstat, Touch
<1>4. StoreOK' /\ WrittenBy({c})
  BY <1>3 DEF AIInv, StoreOK, WrittenBy
<1>5. CycleSound'
  BY <1>3, RacedCycle DEF AIInv, StoreOK
<1> QED BY <1>1, <1>4, <1>5, CallStep

LEMMA CopyInv ==
  ASSUME AIInv, NEW c \in Calls, Copy(c)
  PROVE  AIInv'
<1> DEFINE slot == Slot(c, call[c].was.kind)
<1>1. /\ Moves(c) /\ HoldsOn(c) /\ WrittenBy({c})
      /\ \E w \in Archives : /\ w.kind = call[c].was.kind /\ w # NoEntry
                             /\ backup' = [backup EXCEPT ![slot] = w]
      /\ slot \in Slots /\ slot[3] = call[c].was.kind
  BY CopyEffect DEF AIInv, Slot
<1>2. call[c].inv \in Invocations
  BY ActiveCalls DEF AIInv, Copy, At, Active
<1>3. /\ touched' \in [Invocations -> 0..aiClock] /\ UNCHANGED <<entry, aiClock>>
      /\ cycle' = [cycle EXCEPT !.raced = @ \/ cycle.on]
  BY <1>2, TouchEffect DEF AIInv, Copy, Touch
<1> HIDE DEF slot
<1>4. StoreOK'
  BY <1>1, <1>3 DEF AIInv, StoreOK
<1>5. CycleSound'
  BY <1>3, RacedCycle DEF AIInv, StoreOK
<1> QED BY <1>1, <1>4, <1>5, CallStep

(* A change of the path of a call. *)
LEMMA ChangeInv ==
  ASSUME AIInv, NEW c \in Calls, Moves(c), HoldsOn(c),
         entry' \in [Roots -> Entries], UNCHANGED <<backup, touched, cycle, aiClock>>
  PROVE  AIInv'
<1>1. StoreOK' /\ WrittenBy({c})
  BY StoredEntry DEF AIInv, WrittenBy
<1>2. CycleSound'
  BY QuietCycle DEF AIInv, StoreOK
<1> QED BY <1>1, <1>2, CallStep

(* What Restored makes, and what a call writes, can be at its path. *)
LEMMA WrittenEntries ==
  ASSUME StoreOK, CallsOK, NEW c \in Calls
  PROVE  Fits(call[c].path, File(call[c].read \cup {c}, call[c].was.mode))
<1>1. call[c].read \cup {c} \in Texts
  BY CallTypes DEF CallRecords, Texts
<1>2. call[c].was.mode \in Modes
  BY CallTypes, ModesOfEntries
<1> QED BY <1>1, <1>2, LeavesAreEntries DEF Fits

LEMMA RestoredType ==
  ASSUME StoreOK, CallsOK, NEW c \in Calls, call[c].pc = "done", Undoable(c)
  PROVE  Fits(call[c].path, Restored(c))
<1> DEFINE was == call[c].was
           kept == backup[Slot(c, was.kind)]
<1>1. /\ was \in Entries /\ Fits(call[c].path, was) /\ Fits(call[c].path, Target(c))
      /\ \A kind \in {"file", "dir"} : Slot(c, kind) \in Slots /\ Slot(c, kind)[3] = kind
  BY ActiveCalls, CallTypes DEF Active, Slot
<1>2. was.kind \in {"file", "dir"} =>
        kept \in Archives /\ kept # NoEntry /\ kept.kind = was.kind
  BY <1>1 DEF Undoable, BackupThere, StoreOK
<1>3. CASE was.kind = "file"
  <2>1. kept \in Entries /\ kept.kind = "file" /\ was.mode \in Modes
    BY <1>1, <1>2, <1>3, KindsOfEntries, ModesOfEntries DEF Archives
  <2>2. kept.text \in Texts
    BY <2>1, EntriesByKind
  <2>3. Restored(c) = File(kept.text, was.mode)
    BY <1>3 DEF Restored
  <2> QED BY <2>1, <2>2, <2>3, LeavesAreEntries DEF Fits
<1>4. CASE was.kind = "dir"
  <2>1. kept \in Entries /\ kept.kind = "dir" /\ call[c].path \notin Files
    <3>1. call[c].path \notin Files
      BY <1>1, <1>4, EntriesByKind DEF Fits
    <3> QED BY <1>2, <1>4, <3>1 DEF Archives, Undoable
  <2>2. kept.holds \in [Names -> Leaves]
    BY <2>1, EntriesByKind
  <2>3. Target(c).kind = "dir" => Target(c).holds \in [Names -> Leaves]
    BY <1>1, EntriesByKind DEF Fits
  <2> DEFINE h == [n \in Names |-> IF kept.holds[n] # NoEntry \/ Target(c).kind # "dir"
                                   THEN kept.holds[n] ELSE Target(c).holds[n]]
  <2>4. h \in [Names -> Leaves]
    <3> HIDE DEF kept
    <3> QED BY <2>2, <2>3
  <2>5. Restored(c) = Tree(h)
    BY <1>4 DEF Restored, Unpacked
  <2> HIDE DEF h
  <2> QED BY <2>1, <2>4, <2>5, LeavesAreEntries DEF Fits
<1>5. CASE was.kind \notin {"file", "dir"}
  BY <1>1, <1>5 DEF Restored
<1> QED BY <1>3, <1>4, <1>5

LEMMA RenameInv == ASSUME AIInv, NEW c \in Calls, Rename(c) PROVE AIInv'
<1> DEFINE e == File(call[c].read \cup {c}, call[c].was.mode)
<1>1. /\ call[c].pc = "mutate" /\ call' = [call EXCEPT ![c] = Done(c)]
      /\ UNCHANGED <<backup, touched, cycle, aiClock>>
      /\ entry' = Placed(call[c].path, e)
  BY DEF Rename, At
<1>2. call[c].path \in Paths /\ CanPlace(call[c].path)
  BY <1>1, ActiveCalls DEF AIInv, Active, Rename, Cannot, At
<1>3. Fits(call[c].path, e)
  BY WrittenEntries DEF AIInv
<1>4. Moves(c) /\ HoldsOn(c)
  BY <1>1, ChangeEffect DEF AIInv
<1>5. entry' \in [Roots -> Entries]
  <2> HIDE DEF e
  <2> QED BY <1>1, <1>2, <1>3, PlacedType DEF AIInv
<1> QED BY <1>1, <1>4, <1>5, ChangeInv

(* What is there to be removed is in a directory. *)
LEMMA RemovedPlace ==
  ASSUME StoreOK, CallsOK, NEW c \in Calls, Remove(c)
  PROVE  call[c].path \in Paths \ Blocked /\ CanPlace(call[c].path)
<1>1. call[c].pc = "mutate" /\ CanRemove(c)
  BY DEF Remove, At, Does, Cannot
<1>2. call[c].path \in Paths \ Blocked
  BY <1>1, ActiveCalls DEF Active
<1>3. CASE call[c].isDir
  <2>1. call[c].path \in Roots
    BY <1>3, CallTypes DEF CallSound
  <2> QED BY <1>2, <2>1, AIFileOpsAssumption DEF CanPlace
<1>4. CASE ~call[c].isDir
  <2>1. Target(c).kind # "absent"
    BY <1>1, <1>4, EmptyTreeIsEntry DEF CanRemove
  <2>2. ASSUME call[c].path \in Files, entry[Real(Dir[call[c].path])].kind # "dir"
        PROVE  FALSE
    <3>1. Target(c) = NoEntry
      BY <2>2, FilesHaveNames DEF Target, Look, Holds
    <3> QED BY <2>1, <3>1, KindsOfEntries
  <2> QED BY <1>2, <2>2 DEF CanPlace
<1> QED BY <1>3, <1>4

LEMMA RemoveInv == ASSUME AIInv, NEW c \in Calls, Remove(c) PROVE AIInv'
<1>1. /\ call[c].pc = "mutate" /\ call' = [call EXCEPT ![c] = Done(c)]
      /\ UNCHANGED <<backup, touched, cycle, aiClock>>
      /\ entry' = Placed(call[c].path, NoEntry)
  BY DEF Remove, At
<1>2. call[c].path \in Paths /\ CanPlace(call[c].path)
  BY RemovedPlace DEF AIInv
<1>3. Fits(call[c].path, NoEntry)
  BY LeavesAreEntries DEF Fits
<1>4. Moves(c) /\ HoldsOn(c)
  BY <1>1, ChangeEffect DEF AIInv
<1>5. entry' \in [Roots -> Entries]
  BY <1>1, <1>2, <1>3, PlacedType DEF AIInv
<1> QED BY <1>1, <1>4, <1>5, ChangeInv

LEMMA RemoveStopsInv == ASSUME AIInv, NEW c \in Calls, RemoveStops(c) PROVE AIInv'
<1>1. /\ call[c].pc = "mutate" /\ End(c) /\ UNCHANGED <<backup, touched, cycle, aiClock>>
      /\ Target(c).kind = "dir"
  BY DEF RemoveStops, At
<1>2. call[c].path \in Roots /\ entry[call[c].path].holds \in [Names -> Leaves]
  <2>1. call[c].path \in Roots
    BY CallTypes DEF AIInv, CallSound, RemoveStops
  <2>2. entry[call[c].path] \in Entries /\ Target(c) = entry[call[c].path]
    BY <2>1 DEF AIInv, StoreOK, Target, Look
  <2> QED BY <1>1, <2>1, <2>2, EntriesByKind
<1>3. PICK gone \in SUBSET Names :
        entry' = [entry EXCEPT ![call[c].path] =
                    Tree([n \in Names |-> IF n \in gone THEN NoEntry ELSE @.holds[n]])]
  BY DEF RemoveStops
<1> DEFINE h == [n \in Names |-> IF n \in gone THEN NoEntry ELSE entry[call[c].path].holds[n]]
<1>4. entry' = [entry EXCEPT ![call[c].path] = Tree(h)]
  BY <1>2, <1>3 DEF AIInv, StoreOK
<1>5. h \in [Names -> Leaves]
  BY <1>2, LeavesAreEntries
<1> HIDE DEF h
<1>6. entry' \in [Roots -> Entries]
  BY <1>4, <1>5, LeavesAreEntries DEF AIInv, StoreOK
<1>7. Moves(c) /\ HoldsOn(c)
  BY <1>1, EndEffect DEF AIInv, Active
<1> QED BY <1>1, <1>6, <1>7, ChangeInv

LEMMA UndoInv == ASSUME AIInv, NEW c \in Calls, Undo(c) PROVE AIInv'
<1>1. /\ call[c].pc = "done" /\ End(c) /\ UNCHANGED <<backup, touched, cycle, aiClock>>
      /\ entry' = Placed(call[c].path, Restored(c))
      /\ Undoable(c) /\ CanPlace(call[c].path)
  BY DEF Undo, Mutated, At, Undoable, WayClear
<1>2. Fits(call[c].path, Restored(c)) /\ call[c].path \in Paths
  BY <1>1, RestoredType, ActiveCalls DEF AIInv, Active
<1>3. Moves(c) /\ HoldsOn(c)
  BY <1>1, EndEffect DEF AIInv, Active
<1>4. entry' \in [Roots -> Entries]
  BY <1>1, <1>2, PlacedType DEF AIInv
<1> QED BY <1>1, <1>3, <1>4, ChangeInv

LEMMA FailInv == ASSUME AIInv, NEW c \in Calls, Fail(c) PROVE AIInv'
<1>1. call[c].pc \in Active /\ End(c) /\ UNCHANGED <<entry, aiClock>>
  BY DEF Fail, Active
<1>2. Moves(c) /\ HoldsOn(c)
  BY <1>1, EndEffect DEF AIInv
<1>3. CASE UNCHANGED <<backup, touched, cycle>>
  <2>1. StoreOK' /\ WrittenBy({c})
    BY <1>1, <1>3 DEF AIInv, StoreOK, WrittenBy
  <2>2. CycleSound'
    BY <1>1, <1>3, QuietCycle DEF AIInv, StoreOK
  <2> QED BY <1>2, <2>1, <2>2, CallStep
<1>4. CASE CutShort({c}) /\ cycle' = [cycle EXCEPT !.raced = @ \/ cycle.on]
  <2>1. /\ WrittenBy({c})
        /\ backup' \in [Slots -> Archives]
        /\ \A s \in Slots : backup'[s] # NoEntry => backup'[s].kind = s[3]
        /\ touched' \in [Invocations -> 0..aiClock]
    BY <1>4, CutEffect DEF AIInv
  <2>2. StoreOK'
    BY <1>1, <2>1 DEF AIInv, StoreOK
  <2>3. CycleSound'
    BY <1>1, <1>4, <2>1, RacedCycle DEF AIInv, StoreOK
  <2> QED BY <1>2, <2>1, <2>2, <2>3, CallStep
<1> QED BY <1>3, <1>4 DEF Fail

LEMMA BrowserInv ==
  ASSUME AIInv, NEW p \in Paths, NEW e, Fits(p, e), CanPlace(p), Other(p, e)
  PROVE  AIInv'
<1>1. entry' \in [Roots -> Entries]
  BY PlacedType DEF AIInv, Other
<1>2. StoreOK' /\ WrittenBy({})
  BY <1>1, StoredEntry DEF AIInv, Other
<1>3. CycleSound'
  BY QuietCycle DEF AIInv, Other, StoreOK
<1> QED BY <1>2, <1>3, OtherStep DEF Other

(* What the browser does at a path. *)
LEMMA BrowserSteps ==
  ASSUME AIInv, NEW p \in Paths, NEW q \in Paths,
         \/ BrowserWrite(p) \/ BrowserDelete(p) \/ (p \in Roots /\ BrowserMkdir(p))
         \/ BrowserCopy(p, q)
  PROVE  AIInv'
<1>1. \A r \in Paths : Resolve(r) \in Paths /\ Look(r) \in Entries
  BY ResolveType, LookType DEF AIInv
<1>2. \A r \in Paths, t \in Texts, m \in Modes : Fits(r, File(t, m))
  BY LeavesAreEntries DEF Fits
<1>3. CASE BrowserWrite(p)
  <2>1. Look(Resolve(p)).mode \in Modes
    <3>1. Look(Resolve(p)) \in Entries /\ Look(Resolve(p)).kind \in {"file", "absent"}
      BY <1>1, <1>3 DEF BrowserWrite, Writable
    <3> QED BY <3>1, EntriesByKind, KindsOfEntries DEF Modes
  <2>2. Fits(Resolve(p), File({Browser}, Look(Resolve(p)).mode))
    BY <1>1, <1>2, <2>1 DEF Texts
  <2> QED BY <1>1, <1>3, <2>2, BrowserInv DEF BrowserWrite, Writable
<1>4. CASE BrowserDelete(p)
  <2>1. Fits(p, NoEntry)
    BY LeavesAreEntries DEF Fits
  <2>2. ASSUME p \in Files, entry[Real(Dir[p])].kind # "dir" PROVE FALSE
    <3>1. Look(p) = NoEntry
      BY <2>2, FilesHaveNames DEF Look, Holds
    <3> QED BY <1>4, <3>1, KindsOfEntries DEF BrowserDelete, Exists
  <2>3. CanPlace(p)
    BY <2>2 DEF CanPlace
  <2> QED BY <1>4, <2>1, <2>3, BrowserInv DEF BrowserDelete
<1>5. CASE p \in Roots /\ BrowserMkdir(p)
  <2>1. Fits(p, EmptyTree) /\ CanPlace(p)
    BY <1>5, EmptyTreeIsEntry, AIFileOpsAssumption DEF Fits, CanPlace
  <2> QED BY <1>5, <2>1, BrowserInv DEF BrowserMkdir
<1>6. CASE BrowserCopy(p, q)
  <2>1. Look(Resolve(p)) \in Leaves
    BY <1>1, <1>6, EntriesByKind DEF BrowserCopy
  <2>2. Fits(Resolve(q), Look(Resolve(p)))
    BY <1>1, <2>1 DEF Fits
  <2> QED BY <1>1, <1>6, <2>2, BrowserInv DEF BrowserCopy, Writable
<1> QED BY <1>3, <1>4, <1>5, <1>6

LEMMA EvictInv ==
  ASSUME AIInv, NEW i \in Invocations, Evict(i), CycleSound'
  PROVE  AIInv'
BY EvictEffect, OtherStep DEF AIInv

(* A step of the janitor that leaves the files alone, or the clock. *)
LEMMA QuietInv ==
  ASSUME AIInv, UNCHANGED <<files, call>>, aiClock' \in aiClock..LastTick, CycleSound'
  PROVE  AIInv'
<1>1. StoreOK' /\ WrittenBy({})
  <2>1. touched' \in [Invocations -> 0..aiClock'] /\ aiClock' \in 1..LastTick
    BY AIFileOpsAssumption DEF AIInv, StoreOK, files
  <2> QED BY <2>1 DEF AIInv, StoreOK, WrittenBy, files
<1> QED BY <1>1, OtherStep

LEMMA CrashInv == ASSUME AIInv, AICrash PROVE AIInv'
<1>1. /\ WrittenBy(Calls)
      /\ backup' \in [Slots -> Archives]
      /\ \A s \in Slots : backup'[s] # NoEntry => backup'[s].kind = s[3]
      /\ touched' \in [Invocations -> 0..aiClock]
  BY CutEffect DEF AIInv, AICrash
<1> DEFINE gone == [NoCall EXCEPT !.pc = "ended"]
<1>2. /\ UNCHANGED <<entry, aiClock>> /\ cycle' = NoCycle
      /\ call' = [c \in Calls |->
           CASE call[c].pc \in {"lstat", "copy", "mutate"} -> Over(c)
             [] call[c].pc = "open" -> gone
             [] OTHER -> call[c]]
  BY DEF AICrash
<1>3. StoreOK'
  BY <1>1, <1>2 DEF AIInv, StoreOK
<1>4. CycleSound'
  BY <1>1, <1>2, IdleCycle DEF AIInv, StoreOK
<1>5. CallSound(gone) /\ gone.pc = "ended"
  BY NoCallIsSound
<1> HIDE DEF gone
<1>6. \A c \in Calls : \/ call'[c] = call[c] /\ call'[c].pc \notin {"mutate", "open"}
                       \/ call'[c] = Over(c)
                       \/ call[c].pc = "open" /\ call'[c] = gone
  BY <1>2
<1>7. \A c \in Calls : /\ CallSound(Over(c)) /\ Over(c).pc = "ended"
                       /\ Over(c).inv = call[c].inv /\ Over(c).path = call[c].path
  BY LeftOversAreSound DEF AIInv
<1>8. CallsOK'
  <2>1. \A c \in Calls : CallSound(call'[c])
    BY <1>5, <1>6, <1>7 DEF AIInv, CallsOK
  <2>2. call' = [c \in Calls |-> call'[c]]
    BY <1>2
  <2> QED BY <2>1, <2>2 DEF CallsOK, CallSound
<1>9. NamesStay /\ \A c \in Calls : HoldsOn(c)
  BY <1>5, <1>6, <1>7 DEF NamesStay, HoldsOn
<1>10. \A c \in Calls : BackupIsKept(c)'
  BY <1>1, <1>9, KeptStep DEF AIInv
<1> QED BY <1>3, <1>4, <1>8, <1>10 DEF AIInv

LEMMA AIInvNext == AIInv /\ [AINext]_aiVars => AIInv'
<1> SUFFICES ASSUME AIInv, [AINext]_aiVars PROVE AIInv'
  OBVIOUS
<1>1. ASSUME NEW c \in Calls, NEW i \in Invocations,
             NEW what \in {"backup", "write", "edit", "delete"}, NEW p \in Named,
             NEW recursive \in BOOLEAN, AIBegin(c, what, i, p, recursive)
      PROVE  AIInv'
  BY <1>1, BeginInv
<1>2. ASSUME NEW c \in Calls,
             \/ OpenWrite(c) \/ Lstat(c) \/ Copy(c) \/ Rename(c) \/ Remove(c)
             \/ Fail(c) \/ RemoveStops(c) \/ Undo(c)
      PROVE  AIInv'
  BY <1>2, OpenInv, LstatInv, CopyInv, RenameInv, RemoveInv, FailInv, RemoveStopsInv, UndoInv
<1>3. ASSUME NEW p \in Paths, BrowserWrite(p) \/ BrowserDelete(p) PROVE AIInv'
  BY <1>3, BrowserSteps
<1>31. ASSUME NEW r \in Roots, BrowserMkdir(r) PROVE AIInv'
  BY <1>31, BrowserSteps DEF Paths
<1>32. ASSUME NEW p \in Paths, NEW q \in Paths, BrowserCopy(p, q) PROVE AIInv'
  BY <1>32, BrowserSteps
<1>4. aiClock \in aiClock..LastTick
  BY AIFileOpsAssumption DEF AIInv, StoreOK
<1>5. ASSUME NEW i \in Invocations, Visit(i) PROVE AIInv'
  BY <1>4, <1>5, VisitSound, QuietInv DEF AIInv, Visit
<1>6. ASSUME NEW i \in Invocations, EvictOld(i) PROVE AIInv'
  <2>1. CycleSound'
    BY <1>6, EvictOldSound DEF AIInv
  <2> QED BY <1>4, <1>6, <2>1, EvictInv, QuietInv DEF EvictOld
<1>7. ASSUME NEW d \in cycle.keep, EvictForSpace(d) PROVE AIInv'
  <2>1. CycleSound'
    BY <1>7, EvictForSpaceSound DEF AIInv
  <2>2. d.inv \in Invocations
    BY <1>7 DEF AIInv, CycleSound, Cycles
  <2> QED BY <1>4, <1>7, <2>1, <2>2, EvictInv, QuietInv DEF EvictForSpace
<1>8. CASE StartCycle
  BY <1>4, <1>8, StartCycleSound, QuietInv DEF AIInv, StartCycle
<1>9. CASE EndCycle
  <2>1. CycleSound'
    BY <1>9, IdleCycle DEF EndCycle, AIInv, StoreOK, files
  <2> QED BY <1>4, <1>9, <2>1, QuietInv DEF EndCycle
<1>10. CASE AITick
  <2>1. aiClock \in 1..LastTick /\ aiClock' = aiClock + 1 /\ aiClock < LastTick
    BY <1>10 DEF AITick, AIInv, StoreOK
  <2>2. aiClock' \in aiClock..LastTick /\ aiClock' \in Nat /\ aiClock <= aiClock'
    BY <2>1, AIFileOpsAssumption
  <2>3. CycleSound'
    BY <1>10, <2>2, QuietCycle DEF AIInv, AITick, files
  <2> QED BY <1>10, <2>2, <2>3, QuietInv DEF AITick
<1>11. CASE AICrash
  BY <1>11, CrashInv
<1>12. CASE UNCHANGED aiVars
  <2>1. UNCHANGED <<files, call, cycle, aiClock, backup, touched>>
    BY <1>12 DEF aiVars, files
  <2>2. CycleSound'
    BY <2>1, QuietCycle DEF AIInv, StoreOK
  <2> QED BY <1>4, <2>1, <2>2, QuietInv
<1>13. CASE AINext
  <2>1. ASSUME NEW c \in Calls, NEW what \in {"backup", "write", "edit", "delete"},
               NEW i \in Invocations, NEW p \in Named, NEW recursive \in BOOLEAN,
               AIBegin(c, what, i, p, recursive)
        PROVE  AIInv'
    BY <2>1, <1>1
  <2> QED BY <1>2, <1>3, <1>31, <1>32, <1>5, <1>6, <1>7, <1>8, <1>9, <1>10, <1>11, <1>13,
             <2>1, Zenon DEF AINext
<1> QED BY <1>12, <1>13

-----------------------------------------------------------------------------
(* What follows. *)

LEMMA AIInvTypes == AIInv => AITypeOK
<1> SUFFICES ASSUME AIInv PROVE AITypeOK
  OBVIOUS
<1>1. \A c \in Calls : call[c].pc \in Places /\ call[c].path \in Paths \cup {Nowhere}
  BY CallTypes DEF AIInv
<1>2. cycle.total >= 0
  BY DEF AIInv, CycleSound, Cycles
<1> QED BY <1>1, <1>2 DEF AIInv, StoreOK, AITypeOK, Places, Archives

(* A recipe that is due makes what its call replaced, and can be run: the  *)
(* backup file still holds what the call has taken.                        *)
LEMMA AIInvUndo == AIInv => UndoRestores
<1> SUFFICES ASSUME AIInv, NEW c \in Calls, UndoIsDue(c), ~call[c].lost
             PROVE  Undoable(c) /\ Restored(c) = Saved(call[c].before)
  BY DEF UndoRestores
<1> DEFINE was == call[c].was
<1>1. /\ was \in Entries /\ call[c].pc = "done" /\ BackupThere(c) /\ WayClear(c)
      /\ was = Saved(call[c].before)
      /\ was.kind = "dir" => ~Exists(call[c].path)
  BY CallTypes DEF AIInv, UndoIsDue, Mutated, At
<1>2. was.kind \in {"file", "dir"} => backup[Slot(c, was.kind)] = was
  BY <1>1 DEF AIInv, BackupIsKept, BackupThere, UndoIsDue
<1>3. was.kind = "dir" => backup[Slot(c, "dir")] # CutArchive
  <2> SUFFICES ASSUME was.kind = "dir" PROVE was # CutArchive
    BY <1>2
  <2>1. was = Tree(was.holds)
    BY <1>1, EntriesByKind
  <2>2. "mode" \in DOMAIN Tree(was.holds) /\ "mode" \notin DOMAIN CutArchive
    BY DEF Tree, CutArchive
  <2> QED BY <2>1, <2>2
<1>4. Undoable(c)
  BY <1>1, <1>3 DEF Undoable
<1>5. CASE was.kind = "file"
  <2>1. Restored(c) = File(was.text, was.mode)
    BY <1>2, <1>5 DEF Restored
  <2> QED BY <1>1, <1>4, <1>5, <2>1, EntriesByKind
<1>6. CASE was.kind = "dir"
  <2>1. Target(c).kind = "absent"
    BY <1>1, <1>6 DEF Exists, Target
  <2>2. was.holds \in [Names -> Leaves] /\ was = Tree(was.holds)
    BY <1>1, <1>6, EntriesByKind
  <2>3. [n \in Names |-> IF was.holds[n] # NoEntry \/ Target(c).kind # "dir"
                         THEN was.holds[n] ELSE Target(c).holds[n]] = was.holds
    BY <2>1, <2>2
  <2>4. Restored(c) = Unpacked(was, Target(c))
    BY <1>2, <1>6 DEF Restored
  <2>5. Restored(c) = Tree(was.holds)
    BY <2>3, <2>4 DEF Unpacked
  <2> QED BY <1>1, <1>4, <2>2, <2>5
<1>7. CASE was.kind \notin {"file", "dir"}
  <2>1. Restored(c) = was
    BY <1>7 DEF Restored
  <2> QED BY <1>1, <1>4, <2>1
<1> QED BY <1>5, <1>6, <1>7

(* Backups are what they are taken for, the janitor's total never goes     *)
(* below zero, and an undo brings back what its call replaced, up to the   *)
(* special bits of a mode, unless the end of an archive was lost, for any  *)
(* calls, paths, failures and evictions (captureBackup, runJanitorCycle).  *)
THEOREM BackupsAlwaysSound == AISpec => []BackupsSound
<1>1. AIInv => BackupsSound
  BY AIInvTypes, AIInvUndo DEF BackupsSound
<1> QED BY <1>1, AIInvInit, AIInvNext, PTL DEF AISpec

(* What is placed at a path that is not blocked, whose directory is no     *)
(* link and which is not the blocked path's own directory, leaves the      *)
(* blocked path alone.                                                     *)
LEMMA PlacedElsewhere ==
  ASSUME StoreOK, NEW p \in Paths \ Blocked, CanPlace(p), NEW f \in Blocked, p # Dir[f],
         p \in Files => entry[Dir[p]].kind # "link", NEW e, entry' = Placed(p, e)
  PROVE  Holds(Dir[f], Base[f])' = Holds(Dir[f], Base[f])
<1>1. f \in Files /\ Dir[f] \in Roots /\ Base[f] \in Names
  BY FilesHaveNames, AIFileOpsAssumption
<1>2. CASE p \in Roots
  <2>1. entry'[Dir[f]] = entry[Dir[f]]
    BY <1>1, <1>2 DEF Placed, StoreOK
  <2> QED BY <2>1 DEF Holds
<1>3. CASE p \in Files
  <2>1. p \notin Roots /\ Dir[p] \in Roots /\ Base[p] \in Names
    BY <1>3, FilesHaveNames
  <2>2. Real(Dir[p]) = Dir[p]
    BY <1>3, <2>1, RealIsRoot
  <2>3. entry[Dir[p]].kind = "dir"
    BY <1>3, <2>2 DEF CanPlace
  <2> DEFINE h == [entry[Dir[p]].holds EXCEPT ![Base[p]] = e]
  <2>4. entry' = [entry EXCEPT ![Dir[p]] = Tree(h)]
    BY <2>1, <2>2 DEF Placed
  <2>5. entry[Dir[p]].holds \in [Names -> Leaves]
    BY <2>1, <2>3, EntriesByKind DEF StoreOK
  <2>6. CASE Dir[f] # Dir[p]
    <3>1. entry'[Dir[f]] = entry[Dir[f]]
      BY <1>1, <2>4, <2>6 DEF StoreOK
    <3> QED BY <3>1 DEF Holds
  <2>7. CASE Dir[f] = Dir[p]
    <3>1. Base[f] # Base[p]
      BY <1>1, <1>3, <2>7, AIFileOpsAssumption
    <3>2. h[Base[f]] = entry[Dir[p]].holds[Base[f]]
      BY <1>1, <2>5, <3>1
    <3> HIDE DEF h
    <3>3. entry'[Dir[f]].kind = "dir" /\ entry'[Dir[f]].holds = h
      BY <1>1, <2>4, <2>7, KindsOfEntries DEF StoreOK
    <3> QED BY <2>3, <2>7, <3>2, <3>3 DEF Holds
  <2> QED BY <2>6, <2>7
<1> QED BY <1>2, <1>3 DEF Paths

(* A call that may change the blocked path f. *)
Reaches(c, f) ==
  /\ call'[c] # call[c]
  /\ \/ call[c].path = Dir[f]
     \/ call[c].path \in Files /\ entry[Dir[call[c].path]].kind = "link"

(* The paths of calls under way or done are those that checkBlocked has    *)
(* let through, links resolved.                                            *)
LEMMA AIInvBlocked ==
  ASSUME AIInv, [AINext]_aiVars, NEW f \in Blocked,
         Holds(Dir[f], Base[f])' # Holds(Dir[f], Base[f])
  PROVE  \E c \in Calls : Reaches(c, f)
<1>1. f \in Files /\ Dir[f] \in Roots /\ Base[f] \in Names
  BY FilesHaveNames, AIFileOpsAssumption
<1>2. ASSUME NEW c \in Calls, Rename(c) \/ Remove(c) \/ Undo(c)
      PROVE  Reaches(c, f)
  <2>1. /\ call[c].path \in Paths \ Blocked /\ CanPlace(call[c].path)
        /\ \E e : entry' = Placed(call[c].path, e)
        /\ call'[c] # call[c]
    <3>1. CASE Rename(c)
      <4>1. /\ call[c].pc = "mutate" /\ call' = [call EXCEPT ![c] = Done(c)]
            /\ ~Cannot(c) /\ call[c].does \in {"write", "edit"}
        BY <3>1 DEF Rename, At
      <4>2. call[c].path \in Paths \ Blocked /\ Done(c).pc = "done"
        BY <4>1, ActiveCalls, DoneCallsAreSound DEF AIInv, Active
      <4>3. call'[c] # call[c]
        BY <4>1, <4>2 DEF AIInv, CallsOK
      <4> QED BY <3>1, <4>1, <4>2, <4>3 DEF Rename, Cannot, At
    <3>2. CASE Remove(c)
      <4>1. call[c].pc = "mutate" /\ call' = [call EXCEPT ![c] = Done(c)]
        BY <3>2 DEF Remove, At
      <4>2. /\ call[c].path \in Paths \ Blocked /\ CanPlace(call[c].path)
            /\ Done(c).pc = "done"
        BY <3>2, <4>1, RemovedPlace, DoneCallsAreSound DEF AIInv, Active
      <4>3. call'[c] # call[c]
        BY <4>1, <4>2 DEF AIInv, CallsOK
      <4> QED BY <3>2, <4>2, <4>3 DEF Remove
    <3>3. CASE Undo(c)
      <4>1. call[c].pc = "done" /\ End(c)
        BY <3>3 DEF Undo, Mutated, At
      <4>2. call[c].path \in Paths \ Blocked /\ call'[c].pc = "ended"
        BY <4>1, ActiveCalls, EndEffect DEF AIInv, Active
      <4> QED BY <3>3, <4>1, <4>2 DEF Undo, Undoable, WayClear
    <3> QED BY <1>2, <3>1, <3>2, <3>3
  <2> QED BY <2>1, PlacedElsewhere DEF Reaches, AIInv
<1>3. ASSUME NEW c \in Calls, RemoveStops(c) PROVE Reaches(c, f)
  <2>1. call[c].pc = "mutate" /\ End(c) /\ call[c].path \in Roots
    BY <1>3, CallTypes DEF RemoveStops, At, AIInv, CallSound
  <2>2. call'[c].pc = "ended"
    BY <2>1, EndEffect DEF AIInv, Active
  <2>3. \E e : entry' = [entry EXCEPT ![call[c].path] = e]
    BY <1>3 DEF RemoveStops
  <2>4. call[c].path = Dir[f]
    <3> SUFFICES ASSUME call[c].path # Dir[f] PROVE FALSE
      OBVIOUS
    <3>1. entry'[Dir[f]] = entry[Dir[f]]
      BY <1>1, <2>3 DEF AIInv, StoreOK
    <3> QED BY <3>1 DEF Holds
  <2> QED BY <2>1, <2>2, <2>4 DEF Reaches
<1>4. ASSUME NEW c \in Calls, OpenWrite(c) PROVE FALSE
  <2>1. \/ UNCHANGED entry
        \/ \E r \in Roots : /\ entry[r].kind = "absent"
                            /\ entry' = [entry EXCEPT ![r] = EmptyTree]
    BY <1>4, OpenEffect DEF AIInv
  <2>2. ASSUME NEW r \in Roots, entry[r].kind = "absent",
               entry' = [entry EXCEPT ![r] = EmptyTree]
        PROVE  FALSE
    <3>1. CASE r = Dir[f]
      <4>1. entry'[Dir[f]].kind = "dir" /\ entry'[Dir[f]].holds[Base[f]] = NoEntry
        BY <1>1, <2>2, <3>1, KindsOfEntries DEF AIInv, StoreOK, EmptyTree
      <4> QED BY <2>2, <3>1, <4>1 DEF Holds
    <3>2. CASE r # Dir[f]
      <4>1. entry'[Dir[f]] = entry[Dir[f]]
        BY <1>1, <2>2, <3>2 DEF AIInv, StoreOK
      <4> QED BY <4>1 DEF Holds
    <3> QED BY <3>1, <3>2
  <2> QED BY <2>1, <2>2 DEF Holds
<1>5. ~UNCHANGED entry
  BY DEF Holds
<1>6. ASSUME NEW q, NEW e, Other(q, e) PROVE FALSE
  BY <1>6 DEF Other
<1>7. ASSUME NEW q, NEW r,
             \/ BrowserWrite(q) \/ BrowserDelete(q) \/ BrowserMkdir(q) \/ BrowserCopy(q, r)
      PROVE  FALSE
  BY <1>6, <1>7 DEF BrowserWrite, BrowserDelete, BrowserMkdir, BrowserCopy
<1>8. ASSUME NEW c \in Calls, Lstat(c) \/ Copy(c) \/ Fail(c)
      PROVE  FALSE
  BY <1>5, <1>8 DEF Lstat, Copy, Fail
<1>9. ASSUME NEW c \in Calls, NEW what, NEW i, NEW q, NEW recursive,
             AIBegin(c, what, i, q, recursive)
      PROVE  FALSE
  BY <1>5, <1>9 DEF AIBegin, files
<1>10. ASSUME NEW i \in Invocations, Visit(i) \/ EvictOld(i)
      PROVE  FALSE
  BY <1>5, <1>10 DEF Visit, EvictOld, Evict, files
<1>11. ASSUME NEW d \in cycle.keep, EvictForSpace(d)
      PROVE  FALSE
  BY <1>5, <1>11 DEF EvictForSpace, Evict, files
<1>12. CASE StartCycle \/ EndCycle \/ AITick \/ AICrash \/ UNCHANGED aiVars
  BY <1>5, <1>12 DEF StartCycle, EndCycle, AITick, AICrash, files, aiVars
<1> QED BY <1>2, <1>3, <1>4, <1>7, <1>8, <1>9, <1>10, <1>11, <1>12, Zenon DEF AINext

(* A path on the blocklist only changes by a call on its own directory, or *)
(* by one on a path whose directory is a link: no call that names it, or a *)
(* link to it, changes it, for any calls, paths, links and failures        *)
(* (checkBlocked, resolveForAI).                                           *)
THEOREM BlockedAlwaysKeptByName == AISpec => BlockedByNameKept
<1>1. AIInv /\ [AINext]_aiVars =>
        [\A f \in Blocked :
           Holds(Dir[f], Base[f])' # Holds(Dir[f], Base[f]) =>
             \E c \in Calls :
               /\ call'[c] # call[c]
               /\ \/ call[c].path = Dir[f]
                  \/ call[c].path \in Files /\ entry[Dir[call[c].path]].kind = "link"]_aiVars
  BY AIInvBlocked DEF Reaches
<1> QED BY <1>1, AIInvInit, AIInvNext, PTL DEF AISpec, BlockedByNameKept

-----------------------------------------------------------------------------
(* What a step that loses the backup file s, without a race, must be. *)
MayGo(s) ==
  \/ aiClock - touched[s[1]] > MaxAge
  \/ /\ Cardinality({r \in Slots : backup[r] # NoEntry}) > Cap
     /\ \A d \in cycle.keep : touched[d.inv] >= touched[s[1]]

LEMMA LostByAge ==
  ASSUME AIInv, ~cycle.raced, NEW i \in Invocations, EvictOld(i),
         NEW s \in Slots, backup[s] # NoEntry, backup'[s] = NoEntry
  PROVE  MayGo(s)
<1>1. CASE Evict(i)
  <2>1. s[1] = i
    BY <1>1, EvictEffect DEF AIInv
  <2>2. cycle.now > touched[i] + MaxAge /\ cycle.now <= aiClock
    BY DEF AIInv, CycleSound, CycleFresh, StillSo, EvictOld
  <2>3. /\ cycle.now \in Nat /\ aiClock \in Nat /\ touched[i] \in Nat /\ MaxAge \in Nat
    BY AIFileOpsAssumption DEF AIInv, CycleSound, Cycles, StoreOK
  <2> QED BY <2>1, <2>2, <2>3 DEF MayGo
<1> QED BY <1>1 DEF EvictOld, files

LEMMA LostForSpace ==
  ASSUME AIInv, ~cycle.raced, NEW d \in cycle.keep, EvictForSpace(d),
         NEW s \in Slots, backup[s] # NoEntry, backup'[s] = NoEntry
  PROVE  MayGo(s)
<1>1. CASE Evict(d.inv)
  <2>1. d.inv \in Invocations
    BY DEF AIInv, CycleSound, Cycles
  <2>2. s[1] = d.inv
    BY <1>1, <2>1, EvictEffect DEF AIInv
  <2>3. cycle.total <= Cardinality(Counted) /\ cycle.total \in Nat /\ cycle.total > Cap
    BY DEF AIInv, CycleSound, Cycles, CycleFresh, StillSo, EvictForSpace
  <2>4. Cardinality(HeldSlots) > Cap
    BY <2>3, HeldFinite, AIFileOpsAssumption
  <2>5. \A e \in cycle.keep : touched[e.inv] >= touched[s[1]]
    <3>1. \A e \in cycle.keep : e.mod = touched[e.inv] /\ e.mod \in Nat
      BY DEF AIInv, CycleSound, Cycles, CycleFresh, StillSo
    <3>2. \A e \in cycle.keep : d.mod <= e.mod
      BY DEF EvictForSpace, Oldest
    <3> QED BY <2>2, <3>1, <3>2
  <2> QED BY <2>4, <2>5 DEF MayGo, HeldSlots
<1> QED BY <1>1 DEF EvictForSpace, files

(* Only the janitor's evictions lose a backup file. *)
LEMMA LostByJanitor ==
  ASSUME AIInv, [AINext]_aiVars, NEW s \in Slots, backup[s] # NoEntry, backup'[s] = NoEntry
  PROVE  \/ \E i \in Invocations : EvictOld(i)
         \/ \E d \in cycle.keep : EvictForSpace(d)
<1>1. ASSUME NEW c \in Calls, Copy(c) PROVE FALSE
  <2>1. PICK w \in Archives : /\ w # NoEntry
                              /\ backup' = [backup EXCEPT ![Slot(c, call[c].was.kind)] = w]
    BY <1>1, CopyEffect DEF AIInv
  <2> QED BY <2>1 DEF AIInv, StoreOK
<1>2. ASSUME NEW cs \in SUBSET Calls, CutShort(cs) PROVE FALSE
  BY <1>2, CutEffect DEF AIInv
<1>3. ASSUME NEW c \in Calls, \/ OpenWrite(c) \/ Lstat(c) \/ Rename(c)
                              \/ Remove(c) \/ RemoveStops(c) \/ Undo(c)
      PROVE  FALSE
  BY <1>3 DEF OpenWrite, Lstat, Rename, Remove, RemoveStops, Undo
<1>4. ASSUME NEW c \in Calls, Fail(c) PROVE FALSE
  BY <1>2, <1>4 DEF Fail
<1>5. ASSUME NEW c, NEW what, NEW i, NEW q, NEW recursive, AIBegin(c, what, i, q, recursive)
      PROVE  FALSE
  BY <1>5 DEF AIBegin, files
<1>6. ASSUME NEW q, NEW e, Other(q, e) PROVE FALSE
  BY <1>6 DEF Other
<1>7. ASSUME NEW p, NEW q,
             \/ BrowserWrite(p) \/ BrowserDelete(p) \/ BrowserMkdir(p) \/ BrowserCopy(p, q)
      PROVE  FALSE
  BY <1>6, <1>7 DEF BrowserWrite, BrowserDelete, BrowserMkdir, BrowserCopy
<1>8. ASSUME NEW i \in Invocations, Visit(i) PROVE FALSE
  BY <1>8 DEF Visit, files
<1>9. CASE StartCycle \/ EndCycle \/ AITick \/ UNCHANGED aiVars
  BY <1>9 DEF StartCycle, EndCycle, AITick, files, aiVars
<1>10. CASE AICrash
  BY <1>2, <1>10 DEF AICrash
<1> QED BY <1>1, <1>3, <1>4, <1>5, <1>7, <1>8, <1>9, <1>10, Zenon DEF AINext

(* The janitor only evicts what is too old, or the oldest when the backups *)
(* are over the cap, for any ages, sizes and failures (runJanitorCycle).   *)
THEOREM FreshBackupsAlwaysKept == AISpec => FreshBackupsKept
<1>1. ASSUME AIInv, [AINext]_aiVars, NEW s \in Slots,
             backup[s] # NoEntry, backup'[s] = NoEntry, ~cycle.raced
      PROVE  MayGo(s)
  BY <1>1, LostByJanitor, LostByAge, LostForSpace
<1>2. AIInv /\ [AINext]_aiVars =>
        [\A s \in Slots :
           backup[s] # NoEntry /\ backup'[s] = NoEntry /\ ~cycle.raced => 
             \/ aiClock - touched[s[1]] > MaxAge
             \/ /\ Cardinality({r \in Slots : backup[r] # NoEntry}) > Cap
                /\ \A d \in cycle.keep : touched[d.inv] >= touched[s[1]]]_aiVars
  BY <1>1 DEF MayGo
<1> QED BY <1>2, AIInvInit, AIInvNext, PTL DEF AISpec, FreshBackupsKept
=============================================================================
