-------------------------- MODULE XZramStoreProofs --------------------------
(***************************************************************************)
(* Proofs about XZramStore, for every set of runs and every bound.         *)
(***************************************************************************)
EXTENDS XZramStore, SequenceTheorems, TLAPS

-----------------------------------------------------------------------------
(* Sequences of entries.                                                   *)

\* What RemoveAt leaves: everything but position i, in the same order
\* (index.remove(pos) in delete_snapshot_unlocked).
LEMMA RemoveAtProperties ==
  ASSUME NEW S, NEW s \in Seq(S), NEW i \in 1..Len(s)
  PROVE  /\ RemoveAt(s, i) \in Seq(S)
         /\ Len(RemoveAt(s, i)) = Len(s) - 1
         /\ DOMAIN RemoveAt(s, i) = 1..(Len(s) - 1)
         /\ \A k \in 1..(Len(s) - 1) :
              RemoveAt(s, i)[k] = IF k < i THEN s[k] ELSE s[k + 1]
<1> DEFINE front == SubSeq(s, 1, i - 1)
           back  == SubSeq(s, i + 1, Len(s))
<1>0. Len(s) \in Nat /\ i \in Int /\ \A k \in 1..Len(s) : s[k] \in S
  BY LenProperties, ElementOfSeq
<1>1. /\ front \in Seq(S) /\ Len(front) = i - 1
      /\ \A k \in 1..(i - 1) : front[k] = s[k]
  <2>1. \A k \in 1..(i - 1) : s[k] \in S
    BY <1>0
  <2>2. /\ SubSeq(s, 1, i - 1) \in Seq(S)
        /\ Len(SubSeq(s, 1, i - 1)) = IF 1 <= i - 1 THEN (i - 1) - 1 + 1 ELSE 0
        /\ \A k \in 1..((i - 1) - 1 + 1) : SubSeq(s, 1, i - 1)[k] = s[1 + k - 1]
    BY <1>0, <2>1, SubSeqProperties
  <2> QED BY <1>0, <2>2
<1>2. /\ back \in Seq(S) /\ Len(back) = Len(s) - i
      /\ \A k \in 1..(Len(s) - i) : back[k] = s[i + k]
  <2>1. \A k \in (i + 1)..Len(s) : s[k] \in S
    BY <1>0
  <2>2. /\ SubSeq(s, i + 1, Len(s)) \in Seq(S)
        /\ Len(SubSeq(s, i + 1, Len(s))) = IF i + 1 <= Len(s) THEN Len(s) - (i + 1) + 1 ELSE 0
        /\ \A k \in 1..(Len(s) - (i + 1) + 1) : SubSeq(s, i + 1, Len(s))[k] = s[(i + 1) + k - 1]
    BY <1>0, <2>1, SubSeqProperties
  <2> QED BY <1>0, <2>2
<1>3. RemoveAt(s, i) = front \o back
  BY DEF RemoveAt
<1>4. /\ front \o back \in Seq(S)
      /\ Len(front \o back) = Len(front) + Len(back)
      /\ \A k \in 1..(Len(front) + Len(back)) :
           (front \o back)[k] = IF k <= Len(front) THEN front[k] ELSE back[k - Len(front)]
  <2> HIDE DEF front, back
  <2> QED BY <1>1, <1>2, ConcatProperties
<1>5. DOMAIN (front \o back) = 1..Len(front \o back)
  BY <1>4, LenProperties
<1> HIDE DEF front, back
<1> QED BY <1>0, <1>1, <1>2, <1>3, <1>4, <1>5

\* What Cons makes: the new element first (index.insert(0, meta)).
LEMMA ConsProperties ==
  ASSUME NEW S, NEW s \in Seq(S), NEW e \in S
  PROVE  /\ Cons(e, s) \in Seq(S)
         /\ Len(Cons(e, s)) = Len(s) + 1
         /\ DOMAIN Cons(e, s) = 1..(Len(s) + 1)
         /\ \A k \in 1..(Len(s) + 1) : Cons(e, s)[k] = IF k = 1 THEN e ELSE s[k - 1]
<1>0. Len(s) \in Nat
  BY LenProperties
<1>1. <<e>> \in Seq(S) /\ Len(<<e>>) = 1 /\ <<e>>[1] = e
  OBVIOUS
<1>2. /\ <<e>> \o s \in Seq(S)
      /\ Len(<<e>> \o s) = Len(<<e>>) + Len(s)
      /\ \A k \in 1..(Len(<<e>>) + Len(s)) :
           (<<e>> \o s)[k] = IF k <= Len(<<e>>) THEN <<e>>[k] ELSE s[k - Len(<<e>>)]
  BY <1>1, ConcatProperties
<1>3. Cons(e, s) = <<e>> \o s
  BY DEF Cons
<1>4. DOMAIN Cons(e, s) = 1..Len(Cons(e, s))
  BY <1>2, <1>3, LenProperties
<1> QED BY <1>0, <1>1, <1>2, <1>3, <1>4

\* The names in a sequence of entries, when an entry is added or removed.
LEMMA IdsOfCons ==
  ASSUME NEW s \in Seq(Entry), NEW e \in Entry
  PROVE  IdsIn(Cons(e, s)) = IdsIn(s) \cup {e.id}
<1>1. Len(s) \in Nat /\ DOMAIN s = 1..Len(s)
  BY LenProperties
<1>2. /\ DOMAIN Cons(e, s) = 1..(Len(s) + 1)
      /\ \A k \in 1..(Len(s) + 1) : Cons(e, s)[k] = IF k = 1 THEN e ELSE s[k - 1]
  BY ConsProperties
<1>3. \A k \in 1..Len(s) : k + 1 \in 1..(Len(s) + 1) /\ Cons(e, s)[k + 1] = s[k]
  BY <1>1, <1>2
<1>4. 1 \in 1..(Len(s) + 1) /\ Cons(e, s)[1] = e
  BY <1>1, <1>2
<1>5. \A k \in 1..(Len(s) + 1) : k = 1 \/ (k - 1 \in 1..Len(s) /\ Cons(e, s)[k] = s[k - 1])
  BY <1>1, <1>2
<1> QED BY <1>1, <1>2, <1>3, <1>4, <1>5, SMTT(30) DEF IdsIn

LEMMA IdsOfAppend ==
  ASSUME NEW s \in Seq(Entry), NEW e \in Entry
  PROVE  IdsIn(Append(s, e)) = IdsIn(s) \cup {e.id}
<1>1. Len(s) \in Nat /\ DOMAIN s = 1..Len(s)
  BY LenProperties
<1>2. /\ DOMAIN Append(s, e) = 1..(Len(s) + 1)
      /\ \A k \in 1..Len(s) : Append(s, e)[k] = s[k]
      /\ Append(s, e)[Len(s) + 1] = e
  BY AppendProperties, LenProperties
<1>3. \A k \in 1..(Len(s) + 1) : k \in 1..Len(s) \/ k = Len(s) + 1
  BY <1>1
<1>4. \A k \in 1..Len(s) : k \in 1..(Len(s) + 1)
  BY <1>1
<1>5. Len(s) + 1 \in 1..(Len(s) + 1)
  BY <1>1
<1> QED BY <1>1, <1>2, <1>3, <1>4, <1>5 DEF IdsIn

\* No name twice.
Unique(s) == \A i, j \in DOMAIN s : s[i].id = s[j].id => i = j

LEMMA IdsOfRemoveAt ==
  ASSUME NEW s \in Seq(Entry), NEW i \in 1..Len(s)
  PROVE  /\ IdsIn(RemoveAt(s, i)) \subseteq IdsIn(s)
         /\ Unique(s) => IdsIn(RemoveAt(s, i)) = IdsIn(s) \ {s[i].id}
         /\ Unique(s) => Unique(RemoveAt(s, i))
<1>1. Len(s) \in Nat /\ DOMAIN s = 1..Len(s)
  BY LenProperties
<1>2. /\ DOMAIN RemoveAt(s, i) = 1..(Len(s) - 1)
      /\ \A k \in 1..(Len(s) - 1) : RemoveAt(s, i)[k] = IF k < i THEN s[k] ELSE s[k + 1]
  BY RemoveAtProperties
<1>3. \A k \in 1..(Len(s) - 1) :
        \E m \in 1..Len(s) : m # i /\ RemoveAt(s, i)[k] = s[m]
  <2> TAKE k \in 1..(Len(s) - 1)
  <2>1. CASE k < i
    BY <1>1, <1>2, <2>1
  <2>2. CASE ~(k < i)
    <3> WITNESS k + 1 \in 1..Len(s)
    <3> QED BY <1>1, <1>2, <2>2
  <2> QED BY <2>1, <2>2
<1>4. \A m \in 1..Len(s) : m # i =>
        \E k \in 1..(Len(s) - 1) : RemoveAt(s, i)[k] = s[m]
  <2> SUFFICES ASSUME NEW m \in 1..Len(s), m # i
               PROVE  \E k \in 1..(Len(s) - 1) : RemoveAt(s, i)[k] = s[m]
    OBVIOUS
  <2>1. CASE m < i
    BY <1>1, <1>2, <2>1
  <2>2. CASE ~(m < i)
    <3>1. m - 1 \in 1..(Len(s) - 1) /\ ~(m - 1 < i) /\ (m - 1) + 1 = m
      BY <1>1, <2>2
    <3> QED BY <1>2, <3>1
  <2> QED BY <2>1, <2>2
<1>5. IdsIn(RemoveAt(s, i)) \subseteq IdsIn(s)
  BY <1>1, <1>2, <1>3 DEF IdsIn
<1>6. ASSUME Unique(s)
      PROVE  IdsIn(RemoveAt(s, i)) = IdsIn(s) \ {s[i].id}
  <2>1. \A x \in IdsIn(RemoveAt(s, i)) : x # s[i].id
    <3>1. \A m \in 1..Len(s) : m # i => s[m].id # s[i].id
      BY <1>1, <1>6 DEF Unique
    <3> QED BY <1>2, <1>3, <3>1 DEF IdsIn
  <2>2. \A x \in IdsIn(s) : x # s[i].id => x \in IdsIn(RemoveAt(s, i))
    <3> SUFFICES ASSUME NEW m \in 1..Len(s), s[m].id # s[i].id
                 PROVE  s[m].id \in IdsIn(RemoveAt(s, i))
      BY <1>1 DEF IdsIn
    <3>1. PICK k \in 1..(Len(s) - 1) : RemoveAt(s, i)[k] = s[m]
      BY <1>4
    <3> QED BY <1>2, <3>1 DEF IdsIn
  <2> QED BY <1>5, <2>1, <2>2
<1>7. ASSUME Unique(s)
      PROVE  Unique(RemoveAt(s, i))
  <2> SUFFICES ASSUME NEW k \in 1..(Len(s) - 1), NEW l \in 1..(Len(s) - 1),
                      RemoveAt(s, i)[k].id = RemoveAt(s, i)[l].id
               PROVE  k = l
    BY <1>2 DEF Unique
  <2> DEFINE src(x) == IF x < i THEN x ELSE x + 1
  <2>1. src(k) \in DOMAIN s /\ src(l) \in DOMAIN s
    BY <1>1
  <2>2. RemoveAt(s, i)[k] = s[src(k)] /\ RemoveAt(s, i)[l] = s[src(l)]
    BY <1>2
  <2>3. src(k) = src(l)
    <3> HIDE DEF src
    <3> QED BY <1>7, <2>1, <2>2 DEF Unique
  <2> QED BY <1>1, <2>3
<1> QED BY <1>5, <1>6, <1>7

-----------------------------------------------------------------------------
(* Types.  A run queues only where its kind of run may queue, and has been  *)
(* asked for something; a snapshot about to enter the index has a name; a   *)
(* delete in progress still has something to delete.                        *)

Queued(r) == /\ pc[r] = "gate" => r \in Launched \cup Calls
             /\ pc[r] = "helper_lock" => r \in Helpers
Asked(r) == pc[r] \notin {"idle", "done"} => kind[r] \in PkexecKinds
Named(r) == pc[r] \in {"import_index", "snap_write"} => snap[r] \in Ids
Busy(r)  == pc[r] \in {"delete_index", "delete_dir"} => victims[r] # <<>>

Sound(r) == Queued(r) /\ Asked(r) /\ Named(r) /\ Busy(r)

TypeInv == TypeOK /\ \A r \in Runs : Sound(r)

LEMMA LabelsListed ==
  /\ DOMAIN Protected = {"stage_lock", "snap_lock", "clear_lock", "delete_lock"}
  /\ Labels = {"idle", "gate", "helper_lock", "begin", "load", "mutate",
               "latest", "exit", "done", "stage_lock", "snap_lock", "clear_lock",
               "delete_lock", "stage_read", "stage_write", "snap_import",
               "import_index", "import_remove", "snap_dir", "snap_write",
               "clear_write", "delete_read", "delete_index", "delete_dir",
               "find", "open", "copy"}
<1>1. DOMAIN Protected = {"stage_lock", "snap_lock", "clear_lock", "delete_lock"}
  BY DEF Protected
<1> QED BY <1>1 DEF Labels, InStore, InRestore

LEMMA FirstStepIsLabel ==
  ASSUME NEW k \in PkexecKinds
  PROVE  FirstStep[k] \in {"stage_lock", "clear_lock", "load", "snap_lock", "latest",
                           "find", "delete_lock"}
BY DEF FirstStep, PkexecKinds, CallKinds, LaunchedKinds, Capturing, Restoring,
       Deleting, Staging

LEMMA OverlayIsConfig ==
  ASSUME NEW base \in Config, NEW over \in Config
  PROVE  Overlay(base, over) \in Config
BY DEF Overlay, Config

LEMMA NothingStagedIsConfig == NothingStaged \in Config
BY DEF NothingStaged, Config

LEMMA EmptySeqs == <<>> \in Seq(Entry) /\ <<>> \in Seq(Ids)
OBVIOUS

\* A run that forgets is as a run that never began.
LEMMA ForgetType ==
  ASSUME TypeOK, NEW gone \in SUBSET Runs, Forget(gone)
  PROVE  /\ kind' \in [Runs -> PkexecKinds \cup {"none"}]
         /\ part' \in [Runs -> Config]
         /\ arg' \in [Runs -> Nat]
         /\ seen' \in [Runs -> Config]
         /\ snap' \in [Runs -> Nat]
         /\ entries' \in [Runs -> Seq(Entry)]
         /\ victims' \in [Runs -> Seq(Ids)]
         /\ whole' \in [Runs -> BOOLEAN]
         /\ result' \in [Runs -> {"none", "ok", "error"}]
         /\ \A r \in Runs \ gone : /\ kind'[r] = kind[r]
                                   /\ snap'[r] = snap[r]
                                   /\ victims'[r] = victims[r]
BY EmptySeqs, NothingStagedIsConfig DEF TypeOK, Forget

LEMMA InitType == Init => TypeInv
<1> SUFFICES ASSUME Init PROVE TypeInv
  OBVIOUS
<1>1. nextId \in 1..(MaxSnapshots + 1) /\ restarts \in 0..MaxRestarts
  BY BoundsAssumption DEF Init
<1>2. TypeOK
  BY <1>1, EmptySeqs, NothingStagedIsConfig, LabelsListed DEF Init, TypeOK
<1> QED BY <1>2 DEF Init, TypeInv, Sound, Queued, Asked, Named, Busy

LEMMA StartType ==
  ASSUME TypeInv, NEW r \in Runs, Start(r)
  PROVE  TypeInv'
<1>1. PICK k \in KindsOf(r) :
        /\ kind' = [kind EXCEPT ![r] = k]
        /\ part' = part \/ \E p \in Config : part' = [part EXCEPT ![r] = p]
        /\ arg' = arg \/ \E n \in Nat : arg' = [arg EXCEPT ![r] = n]
  <2>1. 0..MaxKeep \subseteq Nat /\ 1..(nextId - 1) \subseteq Nat
    BY BoundsAssumption DEF TypeInv, TypeOK
  <2> QED BY <2>1 DEF Start
<1>2. k \in PkexecKinds
  BY DEF KindsOf, PkexecKinds
<1>3. kind' \in [Runs -> PkexecKinds \cup {"none"}] /\ kind'[r] \in PkexecKinds
  BY <1>1, <1>2 DEF TypeInv, TypeOK
<1>4. part' \in [Runs -> Config] /\ arg' \in [Runs -> Nat]
  <2>1. part' \in [Runs -> Config]
    BY <1>1 DEF TypeInv, TypeOK
  <2>2. arg' \in [Runs -> Nat]
    BY <1>1 DEF TypeInv, TypeOK
  <2> QED BY <2>1, <2>2
<1>5. pc' = [pc EXCEPT ![r] = IF r \in Pkexec THEN "helper_lock" ELSE "gate"]
  BY DEF Start, Goto
<1>6. TypeOK'
  BY <1>3, <1>4, <1>5, LabelsListed DEF TypeInv, TypeOK, Start, locks, disk, locals
<1>7. \A q \in Runs : Sound(q)'
  BY <1>1, <1>3, <1>5, SMTT(30)
  DEF TypeInv, TypeOK, Sound, Queued, Asked, Named, Busy, Start, locals, Runs, Helpers
<1> QED BY <1>6, <1>7 DEF TypeInv

LEMMA TakeGateType ==
  ASSUME TypeInv, NEW r \in Runs, TakeGate(r)
  PROVE  TypeInv'
<1>1. TypeOK'
  BY LabelsListed DEF TypeInv, TypeOK, Sound, Queued, Asked, Named, Busy,
     TakeGate, Goto, Runs, Helpers, locks, disk, inputs, locals
<1>2. \A q \in Runs : Sound(q)'
  BY LabelsListed DEF TypeInv, TypeOK, Sound, Queued, Asked, Named, Busy,
     TakeGate, Goto, Runs, Helpers, locks, disk, inputs, locals
<1> QED BY <1>1, <1>2 DEF TypeInv

LEMMA TakeHelperLockType ==
  ASSUME TypeInv, NEW r \in Runs, TakeHelperLock(r)
  PROVE  TypeInv'
<1>1. TypeOK'
  BY LabelsListed DEF TypeInv, TypeOK, Sound, Queued, Asked, Named, Busy,
     TakeHelperLock, Goto, locks, disk, inputs, locals
<1>2. \A q \in Runs : Sound(q)'
  BY LabelsListed DEF TypeInv, TypeOK, Sound, Queued, Asked, Named, Busy,
     TakeHelperLock, Goto, locks, disk, inputs, locals
<1> QED BY <1>1, <1>2 DEF TypeInv

LEMMA BeginType ==
  ASSUME TypeInv, NEW r \in Runs, Begin(r)
  PROVE  TypeInv'
<1>1. FirstStep[kind[r]] \in {"stage_lock", "clear_lock", "load", "snap_lock", "latest",
                             "find", "delete_lock"}
  BY FirstStepIsLabel DEF TypeInv, Sound, Asked, Begin
<1>2. /\ pc[r] = "begin"
      /\ \E l \in {"stage_lock", "clear_lock", "load", "snap_lock", "latest", "find",
                   "delete_lock", "exit"} : pc' = [pc EXCEPT ![r] = l]
      /\ result' \in [Runs -> {"none", "ok", "error"}]
  BY <1>1 DEF TypeInv, TypeOK, Begin, Goto, End
<1>3. TypeOK'
  <2>1. pc' \in [Runs -> Labels]
    BY <1>2, LabelsListed DEF TypeInv, TypeOK
  <2> QED BY <2>1, <1>2 DEF TypeInv, TypeOK, Begin, locks, disk, inputs, locals
<1>4. \A q \in Runs : Sound(q)'
  BY <1>2 DEF TypeInv, TypeOK, Sound, Queued, Asked, Named, Busy, Begin, inputs, locals
<1> QED BY <1>3, <1>4 DEF TypeInv

LEMMA ExitType ==
  ASSUME TypeInv, NEW r \in Runs, Exit(r)
  PROVE  TypeInv'
<1>1. pc' = [pc EXCEPT ![r] = "done"]
  BY DEF Exit, Goto
<1>2. {r} \in SUBSET Runs /\ Forget({r})
  BY DEF Exit
<1>3. TypeOK'
  BY <1>1, <1>2, ForgetType, LabelsListed DEF TypeInv, TypeOK, Exit, disk
<1>4. \A q \in Runs : Sound(q)'
  BY <1>1, <1>2, ForgetType DEF TypeInv, TypeOK, Sound, Queued, Asked, Named, Busy
<1> QED BY <1>3, <1>4 DEF TypeInv

LEMMA TakeStoreLockType ==
  ASSUME TypeInv, NEW r \in Runs, TakeStoreLock(r)
  PROVE  TypeInv'
<1>1. TypeOK'
  BY LabelsListed DEF TypeInv, TypeOK, Sound, Queued, Asked, Named, Busy,
     TakeStoreLock, Goto, Protected, locks, disk, inputs, locals
<1>2. \A q \in Runs : Sound(q)'
  BY LabelsListed DEF TypeInv, TypeOK, Sound, Queued, Asked, Named, Busy,
     TakeStoreLock, Goto, Protected, locks, disk, inputs, locals
<1> QED BY <1>1, <1>2 DEF TypeInv

LEMMA StageReadType ==
  ASSUME TypeInv, NEW r \in Runs, StageRead(r)
  PROVE  TypeInv'
<1>1. TypeOK'
  BY LabelsListed DEF TypeInv, TypeOK, Sound, Queued, Asked, Named, Busy,
     StageRead, Goto, locks, disk, inputs, locals
<1>2. \A q \in Runs : Sound(q)'
  BY LabelsListed DEF TypeInv, TypeOK, Sound, Queued, Asked, Named, Busy,
     StageRead, Goto, locks, disk, inputs, locals
<1> QED BY <1>1, <1>2 DEF TypeInv

LEMMA StageWriteType ==
  ASSUME TypeInv, NEW r \in Runs, StageWrite(r)
  PROVE  TypeInv'
<1>1. TypeOK'
  BY LabelsListed, OverlayIsConfig DEF TypeInv, TypeOK, Sound, Queued, Asked,
     Named, Busy, StageWrite, Goto, End, Unlock, locks, disk, inputs, locals
<1>2. \A q \in Runs : Sound(q)'
  BY LabelsListed, OverlayIsConfig DEF TypeInv, TypeOK, Sound, Queued, Asked,
     Named, Busy, StageWrite, Goto, End, Unlock, locks, disk, inputs, locals
<1> QED BY <1>1, <1>2 DEF TypeInv

LEMMA ClearWriteType ==
  ASSUME TypeInv, NEW r \in Runs, ClearWrite(r)
  PROVE  TypeInv'
<1>1. TypeOK'
  BY LabelsListed, NothingStagedIsConfig DEF TypeInv, TypeOK, Sound, Queued,
     Asked, Named, Busy, ClearWrite, Goto, End, Unlock, locks, disk, inputs,
     locals
<1>2. \A q \in Runs : Sound(q)'
  BY LabelsListed, NothingStagedIsConfig DEF TypeInv, TypeOK, Sound, Queued,
     Asked, Named, Busy, ClearWrite, Goto, End, Unlock, locks, disk, inputs,
     locals
<1> QED BY <1>1, <1>2 DEF TypeInv

LEMMA LoadType ==
  ASSUME TypeInv, NEW r \in Runs, Load(r)
  PROVE  TypeInv'
<1>1. pc[r] = "load" /\ \E l \in {"snap_lock", "exit"} : pc' = [pc EXCEPT ![r] = l]
  BY DEF Load, Goto, End
<1>2. seen' \in [Runs -> Config] /\ result' \in [Runs -> {"none", "ok", "error"}]
  <2>1. CASE pending # NothingStaged
    BY <2>1 DEF TypeInv, TypeOK, Load
  <2>2. CASE pending = NothingStaged
    BY <2>2 DEF TypeInv, TypeOK, Load, End
  <2> QED BY <2>1, <2>2
<1>3. TypeOK'
  <2>1. pc' \in [Runs -> Labels]
    BY <1>1, LabelsListed DEF TypeInv, TypeOK
  <2> QED BY <2>1, <1>1, <1>2 DEF TypeInv, TypeOK, Load, locks, disk, inputs
<1>4. \A q \in Runs : Sound(q)'
  BY <1>1 DEF TypeInv, TypeOK, Sound, Queued, Asked, Named, Busy, Load, inputs
<1> QED BY <1>3, <1>4 DEF TypeInv

\* The names in the index are names.
LEMMA IdsOfIndex ==
  ASSUME TypeInv
  PROVE  \A i \in DOMAIN index : index[i].id \in Ids
<1> TAKE i \in DOMAIN index
<1>1. index \in Seq(Entry)
  BY DEF TypeInv, TypeOK
<1>2. i \in 1..Len(index)
  BY <1>1, LenProperties
<1>3. index[i] \in Entry
  BY <1>1, <1>2, ElementOfSeq
<1> QED BY <1>3 DEF Entry

\* A new payload directory has a name of its own.
LEMMA FreshDirType ==
  ASSUME TypeOK, NEW r \in Runs, FreshDir(r)
  PROVE  /\ dirs' \in SUBSET Ids
         /\ nextId' \in 1..(MaxSnapshots + 1)
         /\ snap' \in [Runs -> Nat] /\ snap'[r] \in Ids
         /\ entries' \in [Runs -> Seq(Entry)]
         /\ \A q \in Runs \ {r} : snap'[q] = snap[q]
<1>1. nextId \in Ids /\ nextId \in Nat /\ nextId + 1 \in 1..(MaxSnapshots + 1)
  BY BoundsAssumption DEF TypeOK, FreshDir, Ids
<1> QED BY <1>1 DEF TypeOK, FreshDir

LEMMA SnapImportType ==
  ASSUME TypeInv, NEW r \in Runs, SnapImport(r)
  PROVE  TypeInv'
<1>1. /\ pc[r] = "snap_import"
      /\ \E l \in {"import_index", "snap_dir"} : pc' = [pc EXCEPT ![r] = l]
      /\ victims' = victims /\ kind' = kind
  BY DEF SnapImport, Goto, inputs
<1>2. /\ dirs' \in SUBSET Ids
      /\ nextId' \in 1..(MaxSnapshots + 1)
      /\ snap' \in [Runs -> Nat]
      /\ pc'[r] = "import_index" => snap'[r] \in Ids
      /\ entries' \in [Runs -> Seq(Entry)]
      /\ \A q \in Runs \ {r} : snap'[q] = snap[q]
  <2>1. CASE legacy
    BY <2>1, FreshDirType DEF TypeInv, SnapImport
  <2>2. CASE ~legacy
    BY <2>2 DEF TypeInv, TypeOK, SnapImport, Goto
  <2> QED BY <2>1, <2>2
<1>3. TypeOK'
  <2>1. pc' \in [Runs -> Labels]
    BY <1>1, LabelsListed DEF TypeInv, TypeOK
  <2> QED BY <2>1, <1>1, <1>2 DEF TypeInv, TypeOK, SnapImport, locks, inputs
<1>4. \A q \in Runs : Sound(q)'
  BY <1>1, <1>2 DEF TypeInv, TypeOK, Sound, Queued, Asked, Named, Busy
<1> QED BY <1>3, <1>4 DEF TypeInv

LEMMA ImportIndexType ==
  ASSUME TypeInv, NEW r \in Runs, ImportIndex(r)
  PROVE  TypeInv'
<1>1. /\ pc[r] = "import_index" /\ pc' = [pc EXCEPT ![r] = "import_remove"]
      /\ snap' = snap /\ victims' = victims /\ kind' = kind
  BY DEF ImportIndex, Goto, inputs, locals
<1>2. [id |-> snap[r], trigger |-> "manual"] \in Entry /\ entries[r] \in Seq(Entry)
  BY <1>1 DEF TypeInv, TypeOK, Sound, Named, Entry, Triggers
<1>3. index' \in Seq(Entry)
  BY <1>2, AppendProperties DEF ImportIndex
<1>4. TypeOK'
  BY <1>1, <1>3, LabelsListed DEF TypeInv, TypeOK, ImportIndex, locks, inputs, locals
<1>5. \A q \in Runs : Sound(q)'
  BY <1>1 DEF TypeInv, TypeOK, Sound, Queued, Asked, Named, Busy
<1> QED BY <1>4, <1>5 DEF TypeInv

LEMMA ImportRemoveType ==
  ASSUME TypeInv, NEW r \in Runs, ImportRemove(r)
  PROVE  TypeInv'
<1>1. TypeOK'
  BY LabelsListed DEF TypeInv, TypeOK, Sound, Queued, Asked, Named, Busy,
     ImportRemove, Goto, locks, disk, inputs, locals
<1>2. \A q \in Runs : Sound(q)'
  BY LabelsListed DEF TypeInv, TypeOK, Sound, Queued, Asked, Named, Busy,
     ImportRemove, Goto, locks, disk, inputs, locals
<1> QED BY <1>1, <1>2 DEF TypeInv

LEMMA SnapDirType ==
  ASSUME TypeInv, NEW r \in Runs, SnapDir(r)
  PROVE  TypeInv'
<1>1. /\ pc[r] = "snap_dir"
      /\ \E l \in {"snap_write", "exit"} : pc' = [pc EXCEPT ![r] = l]
      /\ victims' = victims /\ kind' = kind
  BY DEF SnapDir, Goto, End, inputs
<1>2. /\ dirs' \in SUBSET Ids
      /\ nextId' \in 1..(MaxSnapshots + 1)
      /\ snap' \in [Runs -> Nat]
      /\ pc'[r] = "snap_write" => snap'[r] \in Ids
      /\ entries' \in [Runs -> Seq(Entry)]
      /\ \A q \in Runs \ {r} : snap'[q] = snap[q]
      /\ storeLock' \in Runs \cup {NoRun}
      /\ result' \in [Runs -> {"none", "ok", "error"}]
  <2>1. CASE FreshDir(r) /\ UNCHANGED <<storeLock, result>>
    BY <2>1, FreshDirType DEF TypeInv, TypeOK
  <2>2. CASE Unlock /\ End(r, "ok") /\ UNCHANGED <<dirs, nextId, snap, entries>>
    BY <2>2 DEF TypeInv, TypeOK, Unlock, End, Goto
  <2> QED BY <2>1, <2>2 DEF SnapDir
<1>3. TypeOK'
  <2>1. pc' \in [Runs -> Labels]
    BY <1>1, LabelsListed DEF TypeInv, TypeOK
  <2> QED BY <2>1, <1>1, <1>2 DEF TypeInv, TypeOK, SnapDir, inputs
<1>4. \A q \in Runs : Sound(q)'
  BY <1>1, <1>2 DEF TypeInv, TypeOK, Sound, Queued, Asked, Named, Busy
<1> QED BY <1>3, <1>4 DEF TypeInv

LEMMA SnapWriteType ==
  ASSUME TypeInv, NEW r \in Runs, SnapWrite(r)
  PROVE  TypeInv'
<1>1. /\ pc[r] = "snap_write"
      /\ \E l \in {"mutate", "exit"} : pc' = [pc EXCEPT ![r] = l]
      /\ snap' = snap /\ victims' = victims /\ kind' = kind
      /\ storeLock' = NoRun
  BY DEF SnapWrite, Goto, End, Unlock, inputs, locals
<1>2. [id |-> snap[r], trigger |-> TriggerOf(kind[r])] \in Entry /\ entries[r] \in Seq(Entry)
  <2>1. TriggerOf(kind[r]) \in Triggers
    BY DEF TriggerOf, Triggers
  <2> QED BY <1>1, <2>1 DEF TypeInv, TypeOK, Sound, Named, Entry
<1>3. index' \in Seq(Entry)
  BY <1>2, ConsProperties DEF SnapWrite
<1>4. result' \in [Runs -> {"none", "ok", "error"}]
  BY DEF TypeInv, TypeOK, SnapWrite, End
<1>5. TypeOK'
  <2>1. pc' \in [Runs -> Labels]
    BY <1>1, LabelsListed DEF TypeInv, TypeOK
  <2> QED BY <2>1, <1>1, <1>3, <1>4 DEF TypeInv, TypeOK, SnapWrite, inputs, locals
<1>6. \A q \in Runs : Sound(q)'
  BY <1>1 DEF TypeInv, TypeOK, Sound, Queued, Asked, Named, Busy
<1> QED BY <1>5, <1>6 DEF TypeInv

LEMMA MutateType ==
  ASSUME TypeInv, NEW r \in Runs, Mutate(r)
  PROVE  TypeInv'
<1>1. TypeOK'
  BY LabelsListed DEF TypeInv, TypeOK, Sound, Queued, Asked, Named, Busy,
     Mutate, Goto, End, locks, disk, inputs, locals
<1>2. \A q \in Runs : Sound(q)'
  BY LabelsListed, ZenonT(60) DEF TypeInv, TypeOK, Sound, Queued, Asked, Named, Busy,
     Mutate, Goto, End, locks, disk, inputs, locals
<1> QED BY <1>1, <1>2 DEF TypeInv

LEMMA LatestType ==
  ASSUME TypeInv, NEW r \in Runs, Latest(r)
  PROVE  TypeInv'
<1>1. /\ pc[r] = "latest"
      /\ \E l \in {"find", "exit"} : pc' = [pc EXCEPT ![r] = l]
      /\ victims' = victims /\ kind' = kind
  BY DEF Latest, Goto, End, inputs
<1>2. snap' \in [Runs -> Nat] /\ result' \in [Runs -> {"none", "ok", "error"}]
  <2>1. \A i \in DOMAIN index : index[i].id \in Nat
    BY IdsOfIndex DEF Ids
  <2> QED BY <2>1 DEF TypeInv, TypeOK, Latest, End
<1>3. \A q \in Runs \ {r} : snap'[q] = snap[q]
  BY DEF TypeInv, TypeOK, Latest
<1>4. TypeOK'
  <2>1. pc' \in [Runs -> Labels]
    BY <1>1, LabelsListed DEF TypeInv, TypeOK
  <2> QED BY <2>1, <1>1, <1>2 DEF TypeInv, TypeOK, Latest, locks, disk, inputs
<1>5. \A q \in Runs : Sound(q)'
  BY <1>1, <1>3 DEF TypeInv, TypeOK, Sound, Queued, Asked, Named, Busy
<1> QED BY <1>4, <1>5 DEF TypeInv

LEMMA FindType ==
  ASSUME TypeInv, NEW r \in Runs, Find(r)
  PROVE  TypeInv'
<1>1. TypeOK'
  BY LabelsListed DEF TypeInv, TypeOK, Sound, Queued, Asked, Named, Busy,
     Find, Goto, End, locks, disk, inputs, locals
<1>2. \A q \in Runs : Sound(q)'
  BY LabelsListed, ZenonT(60) DEF TypeInv, TypeOK, Sound, Queued, Asked, Named, Busy,
     Find, Goto, End, locks, disk, inputs, locals
<1> QED BY <1>1, <1>2 DEF TypeInv

LEMMA OpenType ==
  ASSUME TypeInv, NEW r \in Runs, Open(r)
  PROVE  TypeInv'
<1>1. TypeOK'
  BY LabelsListed DEF TypeInv, TypeOK, Sound, Queued, Asked, Named, Busy,
     Open, Goto, End, locks, disk, inputs, locals
<1>2. \A q \in Runs : Sound(q)'
  BY LabelsListed, ZenonT(60) DEF TypeInv, TypeOK, Sound, Queued, Asked, Named, Busy,
     Open, Goto, End, locks, disk, inputs, locals
<1> QED BY <1>1, <1>2 DEF TypeInv

LEMMA CopyType ==
  ASSUME TypeInv, NEW r \in Runs, Copy(r)
  PROVE  TypeInv'
<1>1. TypeOK'
  BY LabelsListed DEF TypeInv, TypeOK, Sound, Queued, Asked, Named, Busy,
     Copy, Goto, End, locks, disk, inputs, locals
<1>2. \A q \in Runs : Sound(q)'
  BY LabelsListed DEF TypeInv, TypeOK, Sound, Queued, Asked, Named, Busy,
     Copy, Goto, End, locks, disk, inputs, locals
<1> QED BY <1>1, <1>2 DEF TypeInv

LEMMA DeleteReadType ==
  ASSUME TypeInv, NEW r \in Runs, DeleteRead(r)
  PROVE  TypeInv'
<1>1. /\ pc[r] = "delete_read"
      /\ \E l \in {"delete_index", "exit"} : pc' = [pc EXCEPT ![r] = l]
      /\ snap' = snap /\ kind' = kind
      /\ entries' = [entries EXCEPT ![r] = index]
  BY DEF DeleteRead, Goto, End, inputs
<1>2. \A i \in 1..Len(index) : index[i].id \in Ids
  BY IdsOfIndex, LenProperties DEF TypeInv, TypeOK
<1>3. /\ storeLock' \in Runs \cup {NoRun}
      /\ result' \in [Runs -> {"none", "ok", "error"}]
      /\ victims' \in [Runs -> Seq(Ids)]
      /\ pc'[r] = "delete_index" => victims'[r] # <<>>
      /\ \A q \in Runs \ {r} : victims'[q] = victims[q]
  <2>1. CASE /\ arg[r] \in IdsIn(index)
             /\ victims' = [victims EXCEPT ![r] = <<arg[r]>>]
             /\ UNCHANGED <<storeLock, result>>
    <3>1. arg[r] \in Ids
      BY <1>2, <2>1, LenProperties DEF TypeInv, TypeOK, IdsIn
    <3>2. <<arg[r]>> \in Seq(Ids) /\ <<arg[r]>> # <<>>
      BY <3>1
    <3> QED BY <2>1, <3>2 DEF TypeInv, TypeOK
  <2>2. CASE /\ Len(index) > arg[r]
             /\ victims' = [victims EXCEPT ![r] = Beyond(arg[r])]
             /\ UNCHANGED <<storeLock, result>>
    <3>1. Len(index) \in Nat /\ arg[r] \in Nat
      BY LenProperties DEF TypeInv, TypeOK
    <3>2. Beyond(arg[r]) \in [1..(Len(index) - arg[r]) -> Ids]
      BY <1>2, <3>1 DEF Beyond
    <3>3. Len(index) - arg[r] \in Nat /\ 1 \in 1..(Len(index) - arg[r])
      BY <2>2, <3>1
    <3>4. Beyond(arg[r]) \in Seq(Ids)
      BY <3>2, <3>3, SeqDef
    <3>5. Beyond(arg[r]) # <<>>
      BY <3>2, <3>3
    <3> QED BY <2>2, <3>4, <3>5 DEF TypeInv, TypeOK
  <2>3. CASE Unlock /\ (End(r, "error") \/ End(r, "ok")) /\ UNCHANGED victims
    BY <2>3 DEF TypeInv, TypeOK, Unlock, End, Goto
  <2> QED BY <2>1, <2>2, <2>3 DEF DeleteRead
<1>4. TypeOK'
  <2>1. pc' \in [Runs -> Labels]
    BY <1>1, LabelsListed DEF TypeInv, TypeOK
  <2> QED BY <2>1, <1>1, <1>3, ZenonT(60) DEF TypeInv, TypeOK, DeleteRead, disk, inputs
<1>5. \A q \in Runs : Sound(q)'
  BY <1>1, <1>3 DEF TypeInv, TypeOK, Sound, Queued, Asked, Named, Busy
<1> QED BY <1>4, <1>5 DEF TypeInv

LEMMA DeleteIndexType ==
  ASSUME TypeInv, NEW r \in Runs, DeleteIndex(r)
  PROVE  TypeInv'
<1>1. /\ pc[r] = "delete_index" /\ pc' = [pc EXCEPT ![r] = "delete_dir"]
      /\ snap' = snap /\ kind' = kind /\ victims' = victims
      /\ entries' = [entries EXCEPT ![r] = index']
  BY DEF DeleteIndex, Goto, inputs
<1>2. index' \in Seq(Entry)
  BY RemoveAtProperties DEF TypeInv, TypeOK, DeleteIndex
<1>3. TypeOK'
  BY <1>1, <1>2, LabelsListed, SMTT(30) DEF TypeInv, TypeOK, DeleteIndex, locks, inputs
<1>4. \A q \in Runs : Sound(q)'
  BY <1>1 DEF TypeInv, TypeOK, Sound, Queued, Asked, Named, Busy
<1> QED BY <1>3, <1>4 DEF TypeInv

LEMMA DeleteDirType ==
  ASSUME TypeInv, NEW r \in Runs, DeleteDir(r)
  PROVE  TypeInv'
<1>1. /\ pc[r] = "delete_dir"
      /\ snap' = snap /\ kind' = kind
      /\ victims' = [victims EXCEPT ![r] = Tail(victims[r])]
      /\ dirs' = dirs \ {Head(victims[r])}
  BY DEF DeleteDir, inputs
<1>2. Tail(victims[r]) \in Seq(Ids)
  BY <1>1, HeadTailProperties DEF TypeInv, TypeOK, Sound, Busy
<1>3. /\ \/ Tail(victims[r]) # <<>> /\ pc' = [pc EXCEPT ![r] = "delete_index"]
         \/ pc' = [pc EXCEPT ![r] = "exit"]
      /\ storeLock' \in Runs \cup {NoRun}
      /\ result' \in [Runs -> {"none", "ok", "error"}]
  BY DEF TypeInv, TypeOK, DeleteDir, Goto, End, Unlock
<1>4. TypeOK'
  <2>1. pc' \in [Runs -> Labels]
    BY <1>3, LabelsListed DEF TypeInv, TypeOK
  <2>2. victims' \in [Runs -> Seq(Ids)] /\ dirs' \in SUBSET Ids
    BY <1>1, <1>2 DEF TypeInv, TypeOK
  <2>3. /\ UNCHANGED <<helperLock, gate, pending, index, legacy, nextId, restarts>>
        /\ UNCHANGED <<kind, part, arg, seen, snap, entries, whole>>
    BY DEF DeleteDir, inputs
  <2> QED BY <2>1, <2>2, <2>3, <1>3 DEF TypeInv, TypeOK
<1>5. \A q \in Runs : Sound(q)'
  BY <1>1, <1>3 DEF TypeInv, TypeOK, Sound, Queued, Asked, Named, Busy
<1> QED BY <1>4, <1>5 DEF TypeInv

LEMMA IoErrorType ==
  ASSUME TypeInv, NEW r \in Runs, IoError(r)
  PROVE  TypeInv'
<1>1. TypeOK'
  BY LabelsListed DEF TypeInv, TypeOK, Sound, Queued, Asked, Named, Busy,
     IoError, Goto, End, Runs, InStore, InRestore, locks, disk, inputs, locals
<1>2. \A q \in Runs : Sound(q)'
  BY LabelsListed DEF TypeInv, TypeOK, Sound, Queued, Asked, Named, Busy,
     IoError, Goto, End, Runs, InStore, InRestore, locks, disk, inputs, locals
<1> QED BY <1>1, <1>2 DEF TypeInv

LEMMA KillType ==
  ASSUME TypeInv, NEW r \in Runs, Kill(r)
  PROVE  TypeInv'
<1>1. TypeOK'
  BY LabelsListed DEF TypeInv, TypeOK, Sound, Queued, Asked, Named, Busy,
     Kill, Goto, End, Runs, locks, disk, inputs, locals
<1>2. \A q \in Runs : Sound(q)'
  BY LabelsListed DEF TypeInv, TypeOK, Sound, Queued, Asked, Named, Busy,
     Kill, Goto, End, Runs, locks, disk, inputs, locals
<1> QED BY <1>1, <1>2 DEF TypeInv

LEMMA RestartDaemonType ==
  ASSUME TypeInv, RestartDaemon
  PROVE  TypeInv'
<1> DEFINE gone == {r \in Runs : Dies(r)}
<1>1. gone \in SUBSET Runs /\ Forget(gone)
  BY DEF RestartDaemon
<1>2. pc' = [r \in Runs |-> IF Dies(r) THEN "done" ELSE pc[r]]
  BY DEF RestartDaemon
<1>3. \A r \in Runs \ gone : /\ kind'[r] = kind[r] /\ snap'[r] = snap[r]
                             /\ victims'[r] = victims[r] /\ pc'[r] = pc[r]
  BY <1>1, <1>2, ForgetType DEF TypeInv
<1>4. \A r \in gone : pc'[r] = "done"
  BY <1>2
<1>5. pc' \in [Runs -> Labels]
  BY <1>2, LabelsListed DEF TypeInv, TypeOK
<1>6. restarts' \in 0..MaxRestarts
  BY BoundsAssumption DEF TypeInv, TypeOK, RestartDaemon
<1>7. TypeOK'
  <2> HIDE DEF gone
  <2> QED BY <1>1, <1>5, <1>6, ForgetType DEF TypeInv, TypeOK, RestartDaemon, disk
<1>8. \A q \in Runs : Sound(q)'
  BY <1>3, <1>4 DEF TypeInv, Sound, Queued, Asked, Named, Busy
<1> QED BY <1>7, <1>8 DEF TypeInv

LEMMA TypeStep ==
  ASSUME TypeInv, [Next]_vars
  PROVE  TypeInv'
<1>1. ASSUME NEW r \in Runs, Start(r) \/ Step(r) \/ IoError(r) \/ Kill(r)
      PROVE  TypeInv'
  <2>1. CASE Start(r) \/ IoError(r) \/ Kill(r)
    BY <2>1, StartType, IoErrorType, KillType
  <2>2. CASE TakeGate(r) \/ TakeHelperLock(r) \/ Begin(r) \/ TakeStoreLock(r) \/ Exit(r)
    BY <2>2, TakeGateType, TakeHelperLockType, BeginType, TakeStoreLockType, ExitType
  <2>3. CASE StoreStep(r) \/ Mutate(r)
    BY <2>3, StageReadType, StageWriteType, ClearWriteType, LoadType, MutateType DEF StoreStep
  <2>4. CASE SnapStep(r)
    BY <2>4, SnapImportType, ImportIndexType, ImportRemoveType, SnapDirType, SnapWriteType
    DEF SnapStep
  <2>5. CASE RestoreStep(r)
    BY <2>5, LatestType, FindType, OpenType, CopyType DEF RestoreStep
  <2>6. CASE DeleteStep(r)
    BY <2>6, DeleteReadType, DeleteIndexType, DeleteDirType DEF DeleteStep
  <2> QED BY <1>1, <2>1, <2>2, <2>3, <2>4, <2>5, <2>6 DEF Step
<1>2. CASE UNCHANGED vars
  BY <1>2 DEF TypeInv, TypeOK, Sound, Queued, Asked, Named, Busy, vars, locks, disk, inputs,
     locals
<1> QED BY <1>1, <1>2, RestartDaemonType DEF Next, Terminated

\* Every reachable state has the types that TypeOK states, for any number of
\* runs and restarts.
THEOREM TypeCorrect == Spec => []TypeOK
<1>1. TypeInv => TypeOK
  BY DEF TypeInv
<1> QED BY <1>1, InitType, TypeStep, PTL DEF Spec

-----------------------------------------------------------------------------
(* Locks.  Whoever is inside the store holds store.lock, and a helper at     *)
(* work holds helper.lock.                                                   *)

InsideHoldsStoreLock == \A r \in Runs : pc[r] \in InStore => storeLock = r
AtWorkHoldsHelperLock == \A r \in Helpers : AtWork(r) => helperLock = r

LockInv == InsideHoldsStoreLock /\ AtWorkHoldsHelperLock

LEMMA InitLocks == Init => LockInv
BY DEF Init, LockInv, InsideHoldsStoreLock, AtWorkHoldsHelperLock, InStore, AtWork, Runs,
       Helpers

LEMMA LockStep ==
  ASSUME TypeInv, LockInv, [Next]_vars
  PROVE  LockInv'
<1> USE RunsAssumption DEF TypeInv, TypeOK, LockInv, InsideHoldsStoreLock,
        AtWorkHoldsHelperLock, InStore, AtWork, Goto, End, Unlock, locks
<1>1. ASSUME NEW r \in Runs, Start(r) PROVE LockInv'
  BY <1>1 DEF Start, Helpers, Runs
<1>2. ASSUME NEW r \in Runs, TakeGate(r) PROVE LockInv'
  BY <1>2 DEF TakeGate, Sound, Queued, Helpers, Runs
<1>3. ASSUME NEW r \in Runs, TakeHelperLock(r) PROVE LockInv'
  BY <1>3 DEF TakeHelperLock, Runs
<1>4. ASSUME NEW r \in Runs, Begin(r) PROVE LockInv'
  <2>1. FirstStep[kind[r]] \notin InStore
    BY <1>4, FirstStepIsLabel DEF Begin, Sound, Asked
  <2> QED BY <1>4, <2>1 DEF Begin, Helpers, Runs
<1>5. ASSUME NEW r \in Runs, TakeStoreLock(r) PROVE LockInv'
  BY <1>5 DEF TakeStoreLock, Protected
<1>6. ASSUME NEW r \in Runs, Exit(r) PROVE LockInv'
  BY <1>6 DEF Exit, Helpers, Runs
<1>7. ASSUME NEW r \in Runs, StageRead(r) PROVE LockInv'
  BY <1>7 DEF StageRead, Helpers, Runs
<1>8. ASSUME NEW r \in Runs, StageWrite(r) PROVE LockInv'
  BY <1>8 DEF StageWrite, Helpers, Runs
<1>9. ASSUME NEW r \in Runs, ClearWrite(r) PROVE LockInv'
  BY <1>9 DEF ClearWrite, Helpers, Runs
<1>10. ASSUME NEW r \in Runs, Load(r) PROVE LockInv'
  BY <1>10 DEF Load, Helpers, Runs
<1>11. ASSUME NEW r \in Runs, SnapImport(r) PROVE LockInv'
  BY <1>11 DEF SnapImport, Helpers, Runs
<1>12. ASSUME NEW r \in Runs, ImportIndex(r) PROVE LockInv'
  BY <1>12 DEF ImportIndex, Helpers, Runs
<1>13. ASSUME NEW r \in Runs, ImportRemove(r) PROVE LockInv'
  BY <1>13 DEF ImportRemove, Helpers, Runs
<1>14. ASSUME NEW r \in Runs, SnapDir(r) PROVE LockInv'
  BY <1>14 DEF SnapDir, Helpers, Runs
<1>15. ASSUME NEW r \in Runs, SnapWrite(r) PROVE LockInv'
  BY <1>15 DEF SnapWrite, Helpers, Runs
<1>16. ASSUME NEW r \in Runs, Mutate(r) PROVE LockInv'
  BY <1>16 DEF Mutate, Helpers, Runs
<1>17. ASSUME NEW r \in Runs, Latest(r) PROVE LockInv'
  BY <1>17 DEF Latest, Helpers, Runs
<1>18. ASSUME NEW r \in Runs, Find(r) PROVE LockInv'
  BY <1>18 DEF Find, Helpers, Runs
<1>19. ASSUME NEW r \in Runs, Open(r) PROVE LockInv'
  BY <1>19 DEF Open, Helpers, Runs
<1>20. ASSUME NEW r \in Runs, Copy(r) PROVE LockInv'
  BY <1>20 DEF Copy, Helpers, Runs
<1>21. ASSUME NEW r \in Runs, DeleteRead(r) PROVE LockInv'
  BY <1>21 DEF DeleteRead, Helpers, Runs
<1>22. ASSUME NEW r \in Runs, DeleteIndex(r) PROVE LockInv'
  BY <1>22 DEF DeleteIndex, Helpers, Runs
<1>23. ASSUME NEW r \in Runs, DeleteDir(r) PROVE LockInv'
  BY <1>23 DEF DeleteDir, Helpers, Runs
<1>24. ASSUME NEW r \in Runs, IoError(r) PROVE LockInv'
  BY <1>24 DEF IoError, Protected, InRestore, Helpers, Runs
<1>25. ASSUME NEW r \in Runs, Kill(r) PROVE LockInv'
  BY <1>25 DEF Kill, Helpers, Runs
<1>26. CASE RestartDaemon
  BY <1>26 DEF RestartDaemon, Dies, Helpers, Runs
<1>27. CASE UNCHANGED vars
  BY <1>27 DEF vars
<1> QED BY <1>1, <1>2, <1>3, <1>4, <1>5, <1>6, <1>7, <1>8, <1>9, <1>10, <1>11,
       <1>12, <1>13, <1>14, <1>15, <1>16, <1>17, <1>18, <1>19, <1>20, <1>21,
       <1>22, <1>23, <1>24, <1>25, <1>26, <1>27 DEF Next, Step, StoreStep,
       SnapStep, RestoreStep, DeleteStep, Terminated

\* No two helpers are ever at work together, whoever started them and however
\* often xzramd restarts.
THEOREM HelpersExclude == Spec => []OneHelperAtWork
<1>1. LockInv => OneHelperAtWork
  BY DEF LockInv, AtWorkHoldsHelperLock, OneHelperAtWork
<1> QED BY <1>1, InitType, TypeStep, InitLocks, LockStep, PTL DEF Spec

-----------------------------------------------------------------------------
(* What a run knows of the store while it holds store.lock, and what is     *)
(* always true of the index.                                                *)

Claiming == {"stage_write", "import_index", "snap_write", "delete_index", "delete_dir"}

Claim(r) ==
  /\ pc[r] = "stage_write" => seen[r] = pending
  /\ pc[r] \in {"import_index", "snap_write", "delete_index", "delete_dir"}
       => entries[r] = index
  /\ pc[r] \in {"import_index", "snap_write"}
       => /\ snap[r] \in dirs /\ snap[r] < nextId
          /\ \A id \in IdsIn(index) : id < snap[r]
  /\ pc[r] = "delete_dir" => Head(victims[r]) \notin IdsIn(index)

IndexInv ==
  /\ Unique(index)
  /\ \A id \in IdsIn(index) : id < nextId
  /\ IndexedHavePayload
  /\ NewestFirst

StoreInv == IndexInv /\ \A r \in Runs : Claim(r)

LEMMA InitStore == Init => StoreInv
<1> SUFFICES ASSUME Init PROVE StoreInv
  OBVIOUS
<1>1. index = <<>> /\ DOMAIN index = {} /\ Len(index) = 0
  BY DEF Init
<1>2. IndexInv
  BY <1>1 DEF IndexInv, Unique, IdsIn, IndexedHavePayload, NewestFirst
<1>3. \A r \in Runs : Claim(r)
  BY DEF Init, Claim
<1> QED BY <1>2, <1>3 DEF StoreInv

\* A run inside the store is alone there, so what the others claim still holds
\* after its step.
LEMMA OthersClaim ==
  ASSUME TypeInv, LockInv, StoreInv, NEW r \in Runs, pc[r] \in InStore,
         NEW q \in Runs, q # r, pc'[q] = pc[q]
  PROVE  Claim(q)'
<1>1. pc[q] \notin InStore
  BY DEF LockInv, InsideHoldsStoreLock
<1> QED BY <1>1 DEF Claim, InStore

\* A step that leaves the store alone, and takes nobody to a claiming step.
LEMMA FrameStore ==
  ASSUME StoreInv, UNCHANGED <<pending, index, dirs, nextId>>,
         \A q \in Runs : \/ pc'[q] \notin Claiming
                        \/ /\ pc'[q] = pc[q] /\ seen'[q] = seen[q] /\ snap'[q] = snap[q]
                           /\ entries'[q] = entries[q] /\ victims'[q] = victims[q]
  PROVE  StoreInv'
<1>1. IndexInv'
  BY DEF StoreInv, IndexInv, Unique, IdsIn, IndexedHavePayload, NewestFirst
<1>2. \A q \in Runs : Claim(q)'
  <2> TAKE q \in Runs
  <2>1. CASE pc'[q] \notin Claiming
    BY <2>1 DEF Claim, Claiming
  <2>2. CASE pc'[q] \in Claiming
    BY <2>2 DEF StoreInv, Claim, IdsIn
  <2> QED BY <2>1, <2>2
<1> QED BY <1>1, <1>2 DEF StoreInv

LEMMA FreshDirStore ==
  ASSUME TypeInv, StoreInv, NEW r \in Runs, FreshDir(r), UNCHANGED index
  PROVE  /\ IndexInv'
         /\ entries'[r] = index' /\ snap'[r] \in dirs' /\ snap'[r] < nextId'
         /\ \A id \in IdsIn(index)' : id < snap'[r]
<1>1. /\ nextId \in Nat /\ nextId' = nextId + 1 /\ dirs' = dirs \cup {nextId}
      /\ snap'[r] = nextId /\ entries'[r] = index
  BY DEF TypeInv, TypeOK, FreshDir
<1>2. IdsIn(index)' = IdsIn(index) /\ \A id \in IdsIn(index) : id \in Int
  BY IdsOfIndex DEF IdsIn, Ids
<1>3. \A id \in IdsIn(index)' : id < nextId'
  BY <1>1, <1>2 DEF StoreInv, IndexInv
<1>4. Unique(index)' /\ NewestFirst'
  BY DEF StoreInv, IndexInv, Unique, NewestFirst
<1>5. IndexedHavePayload'
  BY <1>1, <1>2 DEF StoreInv, IndexInv, IndexedHavePayload
<1>6. \A id \in IdsIn(index)' : id < snap'[r]
  BY <1>1, <1>2 DEF StoreInv, IndexInv
<1> QED BY <1>1, <1>3, <1>4, <1>5, <1>6 DEF IndexInv

\* Adding the snapshot a run has made: in front ...
LEMMA ConsStore ==
  ASSUME TypeInv, StoreInv, NEW e \in Entry, index' = Cons(e, index),
         e.id \in dirs, e.id < nextId, \A id \in IdsIn(index) : id < e.id,
         UNCHANGED <<dirs, nextId>>
  PROVE  IndexInv'
<1>1. /\ index \in Seq(Entry) /\ Len(index) \in Nat /\ DOMAIN index = 1..Len(index)
      /\ e.id \in Int
      /\ \A i \in 1..Len(index) : index[i].id \in Int /\ index[i].id \in IdsIn(index)
  <2>1. index \in Seq(Entry)
    BY DEF TypeInv, TypeOK
  <2>2. Len(index) \in Nat /\ DOMAIN index = 1..Len(index)
    BY <2>1, LenProperties
  <2>3. e.id \in Int
    BY DEF Entry, Ids
  <2>4. \A i \in 1..Len(index) : index[i].id \in Int
    BY <2>2, IdsOfIndex DEF Ids
  <2>5. \A i \in 1..Len(index) : index[i].id \in IdsIn(index)
    BY <2>2 DEF IdsIn
  <2> QED BY <2>1, <2>2, <2>3, <2>4, <2>5
<1>2. /\ Len(index') = Len(index) + 1 /\ DOMAIN index' = 1..(Len(index) + 1)
      /\ \A k \in 1..(Len(index) + 1) : index'[k] = IF k = 1 THEN e ELSE index[k - 1]
  <2>1. /\ Len(Cons(e, index)) = Len(index) + 1
        /\ DOMAIN Cons(e, index) = 1..(Len(index) + 1)
        /\ \A k \in 1..(Len(index) + 1) :
             Cons(e, index)[k] = IF k = 1 THEN e ELSE index[k - 1]
    <3>1. \A t \in Seq(Entry) :
            /\ Len(Cons(e, t)) = Len(t) + 1
            /\ DOMAIN Cons(e, t) = 1..(Len(t) + 1)
            /\ \A k \in 1..(Len(t) + 1) : Cons(e, t)[k] = IF k = 1 THEN e ELSE t[k - 1]
      BY ConsProperties
    <3> QED BY <1>1, <3>1
  <2> QED BY <2>1
<1>3. IdsIn(index)' = IdsIn(index) \cup {e.id}
  <2>1. IdsIn(index)' = IdsIn(index')
    BY DEF IdsIn
  <2> QED BY <1>1, <2>1, IdsOfCons
<1>4. IndexedHavePayload' /\ \A id \in IdsIn(index)' : id < nextId'
  BY <1>3 DEF StoreInv, IndexInv, IndexedHavePayload
<1>5. ASSUME NEW i \in 1..(Len(index) + 1), NEW j \in 1..(Len(index) + 1), i < j
      PROVE  /\ index'[i].id # index'[j].id
             /\ index'[j].trigger = "pre_apply" => index'[i].id > index'[j].id
  <2>1. j - 1 \in 1..Len(index) /\ index'[j] = index[j - 1]
    BY <1>1, <1>2, <1>5
  <2>2. CASE i = 1
    <3>1. index'[i] = e
      BY <1>1, <1>2, <2>2
    <3>2. index[j - 1].id < e.id
      BY <1>1, <2>1
    <3> QED BY <1>1, <2>1, <3>1, <3>2
  <2>3. CASE i # 1
    <3>1. /\ i - 1 \in 1..Len(index) /\ index'[i] = index[i - 1] /\ i - 1 < j - 1
      BY <1>1, <1>2, <1>5, <2>3
    <3> QED BY <2>1, <3>1 DEF StoreInv, IndexInv, NewestFirst
  <2> QED BY <2>2, <2>3
<1>6. NewestFirst'
  BY <1>2, <1>5 DEF NewestFirst
<1>7. Unique(index)'
  <2> SUFFICES ASSUME NEW i \in 1..(Len(index) + 1), NEW j \in 1..(Len(index) + 1),
                      index'[i].id = index'[j].id
               PROVE  i = j
    BY <1>2 DEF Unique
  <2> QED BY <1>1, <1>5
<1> QED BY <1>4, <1>6, <1>7 DEF IndexInv

\* ... or, for an import, at the end.
LEMMA AppendStore ==
  ASSUME TypeInv, StoreInv, NEW e \in Entry, index' = Append(index, e),
         e.id \in dirs, e.id < nextId, \A id \in IdsIn(index) : id < e.id,
         e.trigger = "manual", UNCHANGED <<dirs, nextId>>
  PROVE  IndexInv'
<1>1. /\ index \in Seq(Entry) /\ Len(index) \in Nat /\ DOMAIN index = 1..Len(index)
      /\ e.id \in Int
      /\ \A i \in 1..Len(index) : index[i].id \in Int /\ index[i].id \in IdsIn(index)
  <2>1. index \in Seq(Entry)
    BY DEF TypeInv, TypeOK
  <2>2. Len(index) \in Nat /\ DOMAIN index = 1..Len(index)
    BY <2>1, LenProperties
  <2>3. e.id \in Int
    BY DEF Entry, Ids
  <2>4. \A i \in 1..Len(index) : index[i].id \in Int
    BY <2>2, IdsOfIndex DEF Ids
  <2>5. \A i \in 1..Len(index) : index[i].id \in IdsIn(index)
    BY <2>2 DEF IdsIn
  <2> QED BY <2>1, <2>2, <2>3, <2>4, <2>5
<1>2. /\ Len(index') = Len(index) + 1 /\ DOMAIN index' = 1..(Len(index) + 1)
      /\ \A k \in 1..Len(index) : index'[k] = index[k]
      /\ index'[Len(index) + 1] = e
  BY <1>1, AppendProperties, LenProperties
<1>3. IdsIn(index)' = IdsIn(index) \cup {e.id}
  <2>1. IdsIn(index)' = IdsIn(index')
    BY DEF IdsIn
  <2> QED BY <1>1, <2>1, IdsOfAppend
<1>4. IndexedHavePayload' /\ \A id \in IdsIn(index)' : id < nextId'
  BY <1>3 DEF StoreInv, IndexInv, IndexedHavePayload
<1>5. ASSUME NEW i \in 1..(Len(index) + 1), NEW j \in 1..(Len(index) + 1), i < j
      PROVE  /\ index'[i].id # index'[j].id
             /\ index'[j].trigger = "pre_apply" => index'[i].id > index'[j].id
  <2>1. i \in 1..Len(index) /\ index'[i] = index[i]
    BY <1>1, <1>2, <1>5
  <2>2. CASE j = Len(index) + 1
    <3>1. index'[j] = e
      BY <1>2, <2>2
    <3>2. index[i].id < e.id
      BY <1>1, <2>1
    <3> QED BY <1>1, <2>1, <3>1, <3>2
  <2>3. CASE j # Len(index) + 1
    <3>1. j \in 1..Len(index) /\ index'[j] = index[j]
      BY <1>1, <1>2, <2>3
    <3> QED BY <1>5, <2>1, <3>1 DEF StoreInv, IndexInv, NewestFirst
  <2> QED BY <2>2, <2>3
<1>6. NewestFirst'
  BY <1>2, <1>5 DEF NewestFirst
<1>7. Unique(index)'
  <2> SUFFICES ASSUME NEW i \in 1..(Len(index) + 1), NEW j \in 1..(Len(index) + 1),
                      index'[i].id = index'[j].id
               PROVE  i = j
    BY <1>2 DEF Unique
  <2> QED BY <1>1, <1>5
<1> QED BY <1>4, <1>6, <1>7 DEF IndexInv

\* Removing one entry.
LEMMA RemoveStore ==
  ASSUME TypeInv, StoreInv, NEW i \in 1..Len(index), index' = RemoveAt(index, i),
         UNCHANGED <<dirs, nextId>>
  PROVE  IndexInv' /\ index[i].id \notin IdsIn(index)'
<1>1. index \in Seq(Entry) /\ Len(index) \in Nat /\ Unique(index)
  BY LenProperties DEF TypeInv, TypeOK, StoreInv, IndexInv
<1>2. /\ IdsIn(index)' = IdsIn(index) \ {index[i].id}
      /\ Unique(index)'
  <2>1. IdsIn(index)' = IdsIn(index') /\ (Unique(index)' <=> Unique(index'))
    BY DEF IdsIn, Unique
  <2> QED BY <1>1, <2>1, IdsOfRemoveAt
<1>3. /\ Len(index') = Len(index) - 1
      /\ \A k \in 1..(Len(index) - 1) : index'[k] = IF k < i THEN index[k] ELSE index[k + 1]
  BY <1>1, RemoveAtProperties
<1>4. NewestFirst'
  <2> SUFFICES ASSUME NEW k \in 1..(Len(index) - 1), NEW l \in 1..(Len(index) - 1), k < l
               PROVE  /\ index'[k].id # index'[l].id
                      /\ index'[l].trigger = "pre_apply" => index'[k].id > index'[l].id
    BY <1>3 DEF NewestFirst
  <2> DEFINE src(x) == IF x < i THEN x ELSE x + 1
  <2>1. /\ src(k) \in 1..Len(index) /\ src(l) \in 1..Len(index) /\ src(k) < src(l)
        /\ index'[k] = index[src(k)] /\ index'[l] = index[src(l)]
    BY <1>1, <1>3
  <2> HIDE DEF src
  <2> QED BY <2>1 DEF StoreInv, IndexInv, NewestFirst
<1> QED BY <1>2, <1>4 DEF StoreInv, IndexInv, IndexedHavePayload

LEMMA StoreInvStep ==
  ASSUME TypeInv, LockInv, StoreInv, [Next]_vars
  PROVE  StoreInv'
<1>1. ASSUME NEW r \in Runs, Start(r) PROVE StoreInv'
  BY <1>1, FrameStore
  DEF TypeInv, TypeOK, Start, Goto, End, Claiming, disk, locals
<1>2. ASSUME NEW r \in Runs, TakeGate(r) PROVE StoreInv'
  BY <1>2, FrameStore
  DEF TypeInv, TypeOK, TakeGate, Goto, End, Claiming, disk, locals
<1>3. ASSUME NEW r \in Runs, TakeHelperLock(r) PROVE StoreInv'
  BY <1>3, FrameStore
  DEF TypeInv, TypeOK, TakeHelperLock, Goto, End, Claiming, disk, locals
<1>4. ASSUME NEW r \in Runs, Begin(r) PROVE StoreInv'
  <2>1. FirstStep[kind[r]] \notin Claiming
    BY <1>4, FirstStepIsLabel DEF TypeInv, Sound, Asked, Begin, Claiming
  <2>2. /\ UNCHANGED <<pending, index, dirs, nextId, locals>>
        /\ \A q \in Runs : pc'[q] \notin Claiming \/ pc'[q] = pc[q]
    BY <1>4, <2>1 DEF TypeInv, TypeOK, Begin, Goto, End, Claiming, disk
  <2> QED BY <2>2, FrameStore DEF locals
<1>5. ASSUME NEW r \in Runs, TakeStoreLock(r) PROVE StoreInv'
  BY <1>5, FrameStore
  DEF TypeInv, TypeOK, TakeStoreLock, Goto, End, Claiming, disk, locals, Protected
<1>6. ASSUME NEW r \in Runs, Exit(r) PROVE StoreInv'
  BY <1>6, FrameStore
  DEF TypeInv, TypeOK, Exit, Goto, End, Claiming, disk, locals, Forget
<1>7. ASSUME NEW r \in Runs, Load(r) PROVE StoreInv'
  BY <1>7, FrameStore
  DEF TypeInv, TypeOK, Load, Goto, End, Claiming, disk, locals
<1>8. ASSUME NEW r \in Runs, ImportRemove(r) PROVE StoreInv'
  BY <1>8, FrameStore
  DEF TypeInv, TypeOK, ImportRemove, Goto, End, Claiming, disk, locals
<1>9. ASSUME NEW r \in Runs, Mutate(r) PROVE StoreInv'
  BY <1>9, FrameStore
  DEF TypeInv, TypeOK, Mutate, Goto, End, Claiming, disk, locals
<1>10. ASSUME NEW r \in Runs, Latest(r) PROVE StoreInv'
  BY <1>10, FrameStore
  DEF TypeInv, TypeOK, Latest, Goto, End, Claiming, disk, locals
<1>11. ASSUME NEW r \in Runs, Find(r) PROVE StoreInv'
  BY <1>11, FrameStore
  DEF TypeInv, TypeOK, Find, Goto, End, Claiming, disk, locals
<1>12. ASSUME NEW r \in Runs, Open(r) PROVE StoreInv'
  BY <1>12, FrameStore
  DEF TypeInv, TypeOK, Open, Goto, End, Claiming, disk, locals
<1>13. ASSUME NEW r \in Runs, Copy(r) PROVE StoreInv'
  BY <1>13, FrameStore
  DEF TypeInv, TypeOK, Copy, Goto, End, Claiming, disk, locals
<1>14. ASSUME NEW r \in Runs, IoError(r) PROVE StoreInv'
  BY <1>14, FrameStore
  DEF TypeInv, TypeOK, IoError, Goto, End, Claiming, disk, locals
<1>15. ASSUME NEW r \in Runs, Kill(r) PROVE StoreInv'
  BY <1>15, FrameStore
  DEF TypeInv, TypeOK, Kill, Goto, End, Claiming, disk, locals
<1>16. CASE RestartDaemon
  <2> DEFINE gone == {r \in Runs : Dies(r)}
  <2>1. /\ \A q \in gone : pc'[q] = "done"
        /\ \A q \in Runs \ gone :
             /\ pc'[q] = pc[q] /\ seen'[q] = seen[q] /\ snap'[q] = snap[q]
             /\ entries'[q] = entries[q] /\ victims'[q] = victims[q]
    BY <1>16 DEF RestartDaemon, Forget
  <2>2. UNCHANGED <<pending, index, dirs, nextId>>
    BY <1>16 DEF RestartDaemon, disk
  <2> HIDE DEF gone
  <2> QED BY <2>1, <2>2, FrameStore DEF Claiming
<1>17. CASE UNCHANGED vars
  BY <1>17, FrameStore DEF vars, disk, locals
<1>18. ASSUME NEW r \in Runs, StageRead(r) PROVE StoreInv'
  <2>1. /\ pc[r] \in InStore
        /\ \A q \in Runs \ {r} : pc'[q] = pc[q]
        /\ pc'[r] = "stage_write" /\ seen'[r] = pending'
    BY <1>18 DEF TypeInv, TypeOK, StageRead, Goto, InStore, disk
  <2>2. IndexInv'
    BY <1>18 DEF StageRead, disk, StoreInv, IndexInv, Unique, IdsIn, IndexedHavePayload, NewestFirst
  <2>3. Claim(r)'
    BY <2>1 DEF Claim
  <2> QED BY <2>1, <2>2, <2>3, OthersClaim DEF StoreInv
<1>19. ASSUME NEW r \in Runs, StageWrite(r) PROVE StoreInv'
  <2>1. /\ pc[r] \in InStore
        /\ \A q \in Runs \ {r} : pc'[q] = pc[q]
        /\ pc'[r] \in {"load", "exit"}
    BY <1>19 DEF TypeInv, TypeOK, StageWrite, Goto, End, InStore
  <2>2. IndexInv'
    BY <1>19 DEF StageWrite, StoreInv, IndexInv, Unique, IdsIn, IndexedHavePayload, NewestFirst
  <2>3. Claim(r)'
    BY <2>1 DEF Claim
  <2> QED BY <2>1, <2>2, <2>3, OthersClaim DEF StoreInv
<1>20. ASSUME NEW r \in Runs, ClearWrite(r) PROVE StoreInv'
  <2>1. /\ pc[r] \in InStore
        /\ \A q \in Runs \ {r} : pc'[q] = pc[q]
        /\ pc'[r] \in {"load", "exit"}
    BY <1>20 DEF TypeInv, TypeOK, ClearWrite, Goto, End, InStore
  <2>2. IndexInv'
    BY <1>20 DEF ClearWrite, StoreInv, IndexInv, Unique, IdsIn, IndexedHavePayload, NewestFirst
  <2>3. Claim(r)'
    BY <2>1 DEF Claim
  <2> QED BY <2>1, <2>2, <2>3, OthersClaim DEF StoreInv
<1>21. ASSUME NEW r \in Runs, SnapImport(r) PROVE StoreInv'
  <2>1. /\ pc[r] \in InStore
        /\ \A q \in Runs \ {r} : pc'[q] = pc[q]
        /\ index' = index
    BY <1>21 DEF TypeInv, TypeOK, SnapImport, Goto, InStore
  <2>2. CASE legacy
    <3>1. FreshDir(r) /\ pc'[r] = "import_index"
      BY <1>21, <2>2 DEF TypeInv, TypeOK, SnapImport, Goto
    <3>2. Claim(r)'
      BY <2>1, <3>1, FreshDirStore DEF Claim
    <3> QED BY <2>1, <3>1, <3>2, FreshDirStore, OthersClaim DEF StoreInv
  <2>3. CASE ~legacy
    <3>1. UNCHANGED <<pending, index, dirs, nextId>> /\ pc'[r] = "snap_dir"
      BY <1>21, <2>3 DEF TypeInv, TypeOK, SnapImport, Goto
    <3>2. IndexInv'
      BY <3>1 DEF StoreInv, IndexInv, Unique, IdsIn, IndexedHavePayload, NewestFirst
    <3>3. Claim(r)'
      BY <3>1 DEF Claim
    <3> QED BY <2>1, <3>2, <3>3, OthersClaim DEF StoreInv
  <2> QED BY <2>2, <2>3
<1>22. ASSUME NEW r \in Runs, ImportIndex(r) PROVE StoreInv'
  <2>1. /\ pc[r] = "import_index" /\ pc[r] \in InStore
        /\ \A q \in Runs \ {r} : pc'[q] = pc[q]
        /\ pc'[r] = "import_remove"
        /\ UNCHANGED <<dirs, nextId>>
    BY <1>22 DEF TypeInv, TypeOK, ImportIndex, Goto, InStore
  <2> DEFINE e == [id |-> snap[r], trigger |-> "manual"]
  <2>2. /\ index' = Append(index, e) /\ e \in Entry /\ e.id = snap[r] /\ e.trigger = "manual"
    BY <1>22, <2>1 DEF ImportIndex, StoreInv, Claim, TypeInv, Sound, Named, Entry, Triggers
  <2>3. /\ snap[r] \in dirs /\ snap[r] < nextId /\ \A id \in IdsIn(index) : id < snap[r]
    BY <2>1 DEF StoreInv, Claim
  <2>4. IndexInv'
    <3> HIDE DEF e
    <3> QED BY <2>1, <2>2, <2>3, AppendStore
  <2>5. Claim(r)'
    BY <2>1 DEF Claim
  <2> QED BY <2>1, <2>4, <2>5, OthersClaim DEF StoreInv
<1>23. ASSUME NEW r \in Runs, SnapDir(r) PROVE StoreInv'
  <2>1. /\ pc[r] \in InStore
        /\ \A q \in Runs \ {r} : pc'[q] = pc[q]
        /\ index' = index
    BY <1>23 DEF TypeInv, TypeOK, SnapDir, Goto, End, InStore
  <2>2. CASE FreshDir(r) /\ Goto(r, "snap_write")
    <3>1. pc'[r] = "snap_write"
      BY <2>2 DEF TypeInv, TypeOK, Goto
    <3>2. Claim(r)'
      BY <2>1, <2>2, <3>1, FreshDirStore DEF Claim
    <3> QED BY <2>1, <2>2, <3>2, FreshDirStore, OthersClaim DEF StoreInv
  <2>3. CASE End(r, "ok") /\ UNCHANGED <<dirs, nextId>>
    <3>1. pc'[r] = "exit"
      BY <2>3 DEF TypeInv, TypeOK, End, Goto
    <3>2. IndexInv'
      BY <2>1, <2>3 DEF StoreInv, IndexInv, Unique, IdsIn, IndexedHavePayload, NewestFirst
    <3>3. Claim(r)'
      BY <3>1 DEF Claim
    <3> QED BY <2>1, <3>2, <3>3, OthersClaim DEF StoreInv
  <2> QED BY <1>23, <2>2, <2>3 DEF SnapDir
<1>24. ASSUME NEW r \in Runs, SnapWrite(r) PROVE StoreInv'
  <2>1. /\ pc[r] = "snap_write" /\ pc[r] \in InStore
        /\ \A q \in Runs \ {r} : pc'[q] = pc[q]
        /\ pc'[r] \in {"exit", "mutate"}
        /\ UNCHANGED <<dirs, nextId>>
    BY <1>24 DEF TypeInv, TypeOK, SnapWrite, Goto, End, InStore
  <2> DEFINE e == [id |-> snap[r], trigger |-> TriggerOf(kind[r])]
  <2>2. index' = Cons(e, index)
    BY <1>24, <2>1 DEF SnapWrite, StoreInv, Claim
  <2>3. e \in Entry /\ e.id = snap[r]
    <3>1. TriggerOf(kind[r]) \in Triggers
      BY DEF TriggerOf, Triggers
    <3> QED BY <2>1, <3>1 DEF TypeInv, Sound, Named, Entry
  <2>4. /\ snap[r] \in dirs /\ snap[r] < nextId /\ \A id \in IdsIn(index) : id < snap[r]
    BY <2>1 DEF StoreInv, Claim
  <2>5. IndexInv'
    <3> HIDE DEF e
    <3> QED BY <2>1, <2>2, <2>3, <2>4, ConsStore
  <2>6. Claim(r)'
    BY <2>1 DEF Claim
  <2> QED BY <2>1, <2>5, <2>6, OthersClaim DEF StoreInv
<1>25. ASSUME NEW r \in Runs, DeleteRead(r) PROVE StoreInv'
  <2>1. /\ pc[r] \in InStore
        /\ \A q \in Runs \ {r} : pc'[q] = pc[q]
        /\ pc'[r] \in {"delete_index", "exit"} /\ entries'[r] = index
        /\ UNCHANGED <<index, dirs, nextId>>
    BY <1>25 DEF TypeInv, TypeOK, DeleteRead, Goto, End, InStore, disk
  <2>2. IndexInv'
    BY <2>1 DEF StoreInv, IndexInv, Unique, IdsIn, IndexedHavePayload, NewestFirst
  <2>3. Claim(r)'
    BY <2>1 DEF Claim
  <2> QED BY <2>1, <2>2, <2>3, OthersClaim DEF StoreInv
<1>26. ASSUME NEW r \in Runs, DeleteIndex(r) PROVE StoreInv'
  <2>1. /\ pc[r] = "delete_index" /\ pc[r] \in InStore
        /\ \A q \in Runs \ {r} : pc'[q] = pc[q]
        /\ pc'[r] = "delete_dir" /\ entries'[r] = index' /\ victims' = victims
        /\ UNCHANGED <<dirs, nextId>>
    BY <1>26 DEF TypeInv, TypeOK, DeleteIndex, Goto, InStore
  <2>2. entries[r] = index
    BY <2>1 DEF StoreInv, Claim
  <2>3. PICK i \in 1..Len(index) : index[i].id = Head(victims[r]) /\ index' = RemoveAt(index, i)
    BY <1>26, <2>2 DEF DeleteIndex
  <2>4. IndexInv' /\ Head(victims[r]) \notin IdsIn(index)'
    BY <2>1, <2>3, RemoveStore
  <2>5. Claim(r)'
    BY <2>1, <2>4 DEF Claim
  <2> QED BY <2>1, <2>4, <2>5, OthersClaim DEF StoreInv
<1>27. ASSUME NEW r \in Runs, DeleteDir(r) PROVE StoreInv'
  <2>1. /\ pc[r] = "delete_dir" /\ pc[r] \in InStore
        /\ \A q \in Runs \ {r} : pc'[q] = pc[q]
        /\ pc'[r] \in {"delete_index", "exit"} /\ entries' = entries
        /\ dirs' = dirs \ {Head(victims[r])}
        /\ UNCHANGED <<index, nextId>>
    BY <1>27 DEF TypeInv, TypeOK, DeleteDir, Goto, End, InStore
  <2>2. entries[r] = index /\ Head(victims[r]) \notin IdsIn(index)
    BY <2>1 DEF StoreInv, Claim
  <2>3. IdsIn(index)' = IdsIn(index)
    BY <2>1 DEF IdsIn
  <2>4. IndexedHavePayload'
    BY <2>1, <2>2, <2>3 DEF StoreInv, IndexInv, IndexedHavePayload
  <2>5. IndexInv'
    BY <2>1, <2>3, <2>4 DEF StoreInv, IndexInv, Unique, NewestFirst
  <2>6. Claim(r)'
    BY <2>1, <2>2 DEF Claim
  <2> QED BY <2>1, <2>5, <2>6, OthersClaim DEF StoreInv
<1> QED BY <1>1, <1>2, <1>3, <1>4, <1>5, <1>6, <1>7, <1>8, <1>9, <1>10, <1>11,
       <1>12, <1>13, <1>14, <1>15, <1>16, <1>17, <1>18, <1>19, <1>20, <1>21,
       <1>22, <1>23, <1>24, <1>25, <1>26, <1>27 DEF Next, Step, StoreStep,
       SnapStep, RestoreStep, DeleteStep, Terminated

\* Every snapshot on offer has its payload directory, in every reachable state.
THEOREM SnapshotsHavePayload == Spec => []IndexedHavePayload
<1>1. StoreInv => IndexedHavePayload
  BY DEF StoreInv, IndexInv
<1> QED BY <1>1, InitType, TypeStep, InitLocks, LockStep, InitStore, StoreInvStep, PTL
        DEF Spec

\* The index lists no snapshot twice, and the newest first.
THEOREM IndexNewestFirst == Spec => []NewestFirst
<1>1. StoreInv => NewestFirst
  BY DEF StoreInv, IndexInv
<1> QED BY <1>1, InitType, TypeStep, InitLocks, LockStep, InitStore, StoreInvStep, PTL
        DEF Spec

-----------------------------------------------------------------------------
(* Refinement.  Every step of XZramStore is one whole operation on the      *)
(* store, or none.                                                          *)

LEMMA InitRefines == Init => Store!Init
BY DEF Init, Store!Init, Config, Store!Config

LEMMA StepRefines ==
  ASSUME TypeInv, LockInv, StoreInv, [Next]_vars
  PROVE  [Store!Next]_<<pending, index>>
<1> USE DEF TypeInv, TypeOK
<1>1. ASSUME NEW r \in Runs, StageWrite(r) PROVE Store!Next
  <2>1. pending' = Store!Overlay(pending, part[r]) /\ part[r] \in Store!Config /\ index' = index
    BY <1>1 DEF StageWrite, StoreInv, Claim, Overlay, Store!Overlay, Config, Store!Config
  <2> QED BY <2>1 DEF Store!Next, Store!Stage
<1>2. ASSUME NEW r \in Runs, ClearWrite(r) PROVE Store!Next
  BY <1>2 DEF ClearWrite, Store!Next, Store!Discard, NothingStaged, Store!NothingStaged
<1>3. ASSUME NEW r \in Runs, ImportIndex(r) PROVE Store!Next
  <2> DEFINE e == [id |-> snap[r], trigger |-> "manual"]
  <2>1. pc[r] = "import_index" /\ e \in Store!Entry /\ pending' = pending
    BY <1>3 DEF ImportIndex, Sound, Named, Store!Entry, Triggers
  <2>2. index' = Append(index, e) /\ snap[r] \notin Store!IdsIn(index)
    <3>1. \A id \in IdsIn(index) : id < snap[r] /\ id \in Int
      BY <2>1, IdsOfIndex DEF StoreInv, Claim, IdsIn, Ids
    <3>2. snap[r] \notin IdsIn(index)
      BY <3>1
    <3> QED BY <1>3, <2>1, <3>2 DEF ImportIndex, StoreInv, Claim, IdsIn, Store!IdsIn
  <2> QED BY <2>1, <2>2 DEF Store!Next, Store!Import
<1>4. ASSUME NEW r \in Runs, SnapWrite(r) PROVE Store!Next
  <2> DEFINE e == [id |-> snap[r], trigger |-> TriggerOf(kind[r])]
  <2>1. TriggerOf(kind[r]) \in Triggers
    BY DEF TriggerOf, Triggers
  <2>2. pc[r] = "snap_write" /\ e \in Store!Entry /\ pending' = pending
    BY <1>4, <2>1 DEF SnapWrite, Sound, Named, Store!Entry
  <2>3. index' = Cons(e, index) /\ snap[r] \notin Store!IdsIn(index)
    <3>1. \A id \in IdsIn(index) : id < snap[r] /\ id \in Int
      BY <2>2, IdsOfIndex DEF StoreInv, Claim, IdsIn, Ids
    <3>2. snap[r] \notin IdsIn(index)
      BY <3>1
    <3> QED BY <1>4, <2>2, <3>2 DEF SnapWrite, StoreInv, Claim, IdsIn, Store!IdsIn
  <2> QED BY <2>2, <2>3 DEF Store!Next, Store!Record, Cons, Store!Cons
<1>5. ASSUME NEW r \in Runs, DeleteIndex(r) PROVE Store!Next
  <2>1. pending' = pending /\ \E i \in 1..Len(index) : index' = RemoveAt(index, i)
    BY <1>5 DEF DeleteIndex, StoreInv, Claim
  <2> QED BY <2>1 DEF Store!Next, Store!Drop, RemoveAt, Store!RemoveAt
<1>6. ASSUME NEW r \in Runs,
             \/ Start(r) \/ IoError(r) \/ Kill(r) \/ TakeGate(r) \/ TakeHelperLock(r)
             \/ Begin(r) \/ TakeStoreLock(r) \/ Exit(r) \/ StageRead(r) \/ Load(r)
             \/ SnapImport(r) \/ ImportRemove(r) \/ SnapDir(r) \/ Mutate(r)
             \/ RestoreStep(r) \/ DeleteRead(r) \/ DeleteDir(r)
      PROVE  UNCHANGED <<pending, index>>
  BY <1>6 DEF Start, IoError, Kill, TakeGate, TakeHelperLock, Begin, TakeStoreLock, Exit,
     StageRead, Load, SnapImport, ImportRemove, SnapDir, Mutate, RestoreStep, Latest, Find,
     Open, Copy, DeleteRead, DeleteDir, disk
<1>7. CASE RestartDaemon \/ UNCHANGED vars
  BY <1>7 DEF RestartDaemon, vars, disk
<1> QED BY <1>1, <1>2, <1>3, <1>4, <1>5, <1>6, <1>7
        DEF Next, Step, StoreStep, SnapStep, DeleteStep, Terminated

\* However the runs interleave, fail or die, what they do to pending.json and
\* to the index is a sequence of whole operations, each on the latest state:
\* XZramStore implements SnapshotStore.
THEOREM StoreRefines == Spec => StoreIsAtomic
<1> QED BY InitType, TypeStep, InitLocks, LockStep, InitStore, StoreInvStep, InitRefines,
           StepRefines, PTL DEF Spec, StoreIsAtomic, Store!Spec, Store!storeVars

-----------------------------------------------------------------------------
(* Paths.  Where a run is tells which operations it can be performing, and  *)
(* only a run on its way out has a result.                                  *)

SnapSteps == {"snap_lock", "snap_import", "import_index", "import_remove", "snap_dir",
              "snap_write"}

Path(r) ==
  /\ pc[r] \in {"stage_lock", "stage_read", "stage_write"} => kind[r] \in Staging
  /\ pc[r] \in {"clear_lock", "clear_write"} => kind[r] \in {"clear"} \cup Applying
  /\ pc[r] = "load" => kind[r] \in Applying
  /\ pc[r] \in SnapSteps => kind[r] \in Applying \cup {"direct"} \cup Capturing
  /\ pc[r] = "mutate" => kind[r] \in Applying \cup {"direct"}
  /\ pc[r] = "latest" => kind[r] = "rollback"
  /\ pc[r] \in InRestore => kind[r] \in Applying \cup Restoring
  /\ pc[r] \in {"delete_lock", "delete_read", "delete_index", "delete_dir"}
       => kind[r] \in Deleting
  /\ pc[r] # "exit" => result[r] = "none"

PathInv == \A r \in Runs : Path(r)

LEMMA InitPath == Init => PathInv
BY DEF Init, PathInv, Path, SnapSteps, InRestore

LEMMA FirstStepPath ==
  ASSUME NEW k \in PkexecKinds
  PROVE  LET l == FirstStep[k] IN
         /\ l = "stage_lock" => k \in Staging
         /\ l = "clear_lock" => k = "clear"
         /\ l = "load" => k = "apply"
         /\ l = "snap_lock" => k \in {"direct"} \cup Capturing
         /\ l = "latest" => k = "rollback"
         /\ l = "find" => k = "restore"
         /\ l = "delete_lock" => k \in Deleting
BY DEF FirstStep, PkexecKinds, CallKinds, LaunchedKinds, Staging, Capturing, Restoring, Deleting

LEMMA PathStep ==
  ASSUME TypeInv, PathInv, [Next]_vars
  PROVE  PathInv'
<1> USE DEF TypeInv, TypeOK, PathInv, Path, SnapSteps, InRestore, Goto, End, inputs,
        Staging, Applying, Restoring, Capturing, Deleting
<1>1. ASSUME NEW r \in Runs, Start(r) PROVE PathInv'
  <2>1. /\ pc' = [pc EXCEPT ![r] = IF r \in Pkexec THEN "helper_lock" ELSE "gate"]
        /\ pc[r] = "idle" /\ result' = result
        /\ \A q \in Runs \ {r} : kind'[q] = kind[q]
    BY <1>1, SMTT(30) DEF Start
  <2> QED BY <2>1, SMTT(30)
<1>2. ASSUME NEW r \in Runs, TakeGate(r) PROVE PathInv'
  BY <1>2, SMTT(30) DEF TakeGate
<1>3. ASSUME NEW r \in Runs, TakeHelperLock(r) PROVE PathInv'
  BY <1>3, SMTT(30) DEF TakeHelperLock
<1>4. ASSUME NEW r \in Runs, Begin(r) PROVE PathInv'
  <2>1. kind[r] \in PkexecKinds
    BY <1>4 DEF Sound, Asked, Begin
  <2>2. /\ FirstStep[kind[r]] \in {"stage_lock", "clear_lock", "load", "snap_lock", "latest",
                                 "find", "delete_lock"}
    BY <2>1, FirstStepIsLabel, SMTT(30)
  <2>3. kind' = kind /\ \A q \in Runs \ {r} : pc'[q] = pc[q] /\ result'[q] = result[q]
    BY <1>4, SMTT(30) DEF Begin
  <2>4. \/ pc'[r] = FirstStep[kind[r]] /\ result'[r] = result[r]
        \/ pc'[r] = "exit"
    BY <1>4, SMTT(30) DEF Begin
  <2>5. Path(r)'
    <3>1. kind'[r] = kind[r]
      BY <2>3
    <3>2. CASE pc'[r] = "exit"
      BY <3>2
    <3>3. CASE pc'[r] = FirstStep[kind[r]] /\ result'[r] = result[r]
      <4>1. result[r] = "none"
        BY <1>4 DEF Begin
      <4> QED BY <2>1, <2>2, <3>1, <3>3, <4>1, FirstStepPath
    <3> QED BY <2>4, <3>2, <3>3
  <2>6. ASSUME NEW q \in Runs, q # r PROVE Path(q)'
    BY <2>3, <2>6, SMTT(30)
  <2> QED BY <2>5, <2>6, SMTT(30)
<1>5. ASSUME NEW r \in Runs, TakeStoreLock(r) PROVE PathInv'
  BY <1>5, SMTT(30) DEF TakeStoreLock, Protected
<1>6. ASSUME NEW r \in Runs, Exit(r) PROVE PathInv'
  BY <1>6, SMTT(30) DEF Exit, Forget
<1>7. ASSUME NEW r \in Runs, StageRead(r) PROVE PathInv'
  BY <1>7, SMTT(30) DEF StageRead
<1>8. ASSUME NEW r \in Runs, StageWrite(r) PROVE PathInv'
  BY <1>8, SMTT(30) DEF StageWrite
<1>9. ASSUME NEW r \in Runs, ClearWrite(r) PROVE PathInv'
  BY <1>9, SMTT(30) DEF ClearWrite
<1>10. ASSUME NEW r \in Runs, Load(r) PROVE PathInv'
  BY <1>10, SMTT(30) DEF Load
<1>11. ASSUME NEW r \in Runs, SnapImport(r) PROVE PathInv'
  BY <1>11, SMTT(30) DEF SnapImport
<1>12. ASSUME NEW r \in Runs, ImportIndex(r) PROVE PathInv'
  BY <1>12, SMTT(30) DEF ImportIndex
<1>13. ASSUME NEW r \in Runs, ImportRemove(r) PROVE PathInv'
  BY <1>13, SMTT(30) DEF ImportRemove
<1>14. ASSUME NEW r \in Runs, SnapDir(r) PROVE PathInv'
  BY <1>14, SMTT(30) DEF SnapDir
<1>15. ASSUME NEW r \in Runs, SnapWrite(r) PROVE PathInv'
  BY <1>15, SMTT(30) DEF SnapWrite
<1>16. ASSUME NEW r \in Runs, Mutate(r) PROVE PathInv'
  <2>1. /\ pc[r] = "mutate" /\ kind' = kind
        /\ \/ /\ kind[r] \in Applying /\ result' = result
              /\ \E l \in {"clear_lock", "find"} : pc' = [pc EXCEPT ![r] = l]
           \/ /\ pc' = [pc EXCEPT ![r] = "exit"]
              /\ \A q \in Runs \ {r} : result'[q] = result[q]
    BY <1>16, SMTT(30) DEF Mutate
  <2> QED BY <2>1, SMTT(30)
<1>17. ASSUME NEW r \in Runs, Latest(r) PROVE PathInv'
  BY <1>17, SMTT(30) DEF Latest
<1>18. ASSUME NEW r \in Runs, Find(r) PROVE PathInv'
  BY <1>18, SMTT(30) DEF Find
<1>19. ASSUME NEW r \in Runs, Open(r) PROVE PathInv'
  BY <1>19, SMTT(30) DEF Open
<1>20. ASSUME NEW r \in Runs, Copy(r) PROVE PathInv'
  BY <1>20, SMTT(30) DEF Copy
<1>21. ASSUME NEW r \in Runs, DeleteRead(r) PROVE PathInv'
  BY <1>21, SMTT(30) DEF DeleteRead
<1>22. ASSUME NEW r \in Runs, DeleteIndex(r) PROVE PathInv'
  BY <1>22, SMTT(30) DEF DeleteIndex
<1>23. ASSUME NEW r \in Runs, DeleteDir(r) PROVE PathInv'
  <2>1. /\ pc[r] = "delete_dir" /\ kind' = kind
        /\ \/ result' = result /\ pc' = [pc EXCEPT ![r] = "delete_index"]
           \/ /\ pc' = [pc EXCEPT ![r] = "exit"]
              /\ \A q \in Runs \ {r} : result'[q] = result[q]
    BY <1>23, SMTT(30) DEF DeleteDir
  <2> QED BY <2>1, SMTT(30)
<1>24. ASSUME NEW r \in Runs, IoError(r) PROVE PathInv'
  BY <1>24, SMTT(30) DEF IoError
<1>25. ASSUME NEW r \in Runs, Kill(r) PROVE PathInv'
  BY <1>25, SMTT(30) DEF Kill
<1>26. CASE RestartDaemon
  <2> DEFINE gone == {r \in Runs : Dies(r)}
  <2>1. /\ \A q \in gone : pc'[q] = "done" /\ result'[q] = "none"
        /\ \A q \in Runs \ gone : pc'[q] = pc[q] /\ kind'[q] = kind[q] /\ result'[q] = result[q]
    BY <1>26, SMTT(30) DEF RestartDaemon, Forget
  <2> HIDE DEF gone
  <2> QED BY <2>1, SMTT(30)
<1>27. CASE UNCHANGED vars
  BY <1>27, SMTT(30) DEF vars
<1> QED BY <1>1, <1>2, <1>3, <1>4, <1>5, <1>6, <1>7, <1>8, <1>9, <1>10, <1>11, SMTT(30),
       <1>12, <1>13, <1>14, <1>15, <1>16, <1>17, <1>18, <1>19, <1>20, <1>21,
       <1>22, <1>23, <1>24, <1>25, <1>26, <1>27 DEF Next, Step, StoreStep,
       SnapStep, RestoreStep, DeleteStep, Terminated

-----------------------------------------------------------------------------
(* Helpers only.  As long as xzramd serves no call inside its own process,  *)
(* helper.lock makes a whole run exclusive: what it has read and the        *)
(* snapshot it has taken stay what they are.  (With such calls it does not: *)
(* run store_lost_update is a counterexample.)                              *)

\* Steps of an apply between reading pending.json and emptying it.
Loaded == SnapSteps \cup {"mutate", "clear_lock", "clear_write"}

\* The newest snapshot is the pre_apply snapshot named id, and it is complete.
Heads(id) == /\ 1 \in DOMAIN index /\ index[1] = [id |-> id, trigger |-> "pre_apply"]
             /\ id \in dirs

Hold(r) ==
  /\ kind[r] \in Applying /\ pc[r] \in Loaded => seen[r] = pending
  /\ kind[r] \in Applying \cup {"direct"} /\ pc[r] \in Changing => Heads(snap[r])
  /\ pc[r] = "copy" => Target(r) \in dirs
  /\ kind[r] \in Restoring /\ result[r] = "ok" => whole[r]

HoldInv == \A r \in Runs : Hold(r)

Inv == TypeInv /\ LockInv /\ StoreInv /\ PathInv

LEMMA InitHold == Init => HoldInv
BY DEF Init, HoldInv, Hold, Loaded, SnapSteps, Changing, InRestore

\* While r is at work, nobody else is, so nobody else relies on the store.
LEMMA OthersHold ==
  ASSUME Inv, HoldInv, Calls = {}, NEW r \in Runs, AtWork(r),
         NEW q \in Runs, q # r,
         pc'[q] = pc[q], kind'[q] = kind[q], result'[q] = result[q], whole'[q] = whole[q]
  PROVE  Hold(q)'
<1>1. r \in Helpers /\ q \in Helpers
  BY DEF Runs
<1>2. ~AtWork(q)
  BY <1>1 DEF Inv, LockInv, AtWorkHoldsHelperLock
<1> QED BY <1>2 DEF HoldInv, Hold, AtWork, Loaded, SnapSteps, Changing, InRestore

\* Steps that leave the store alone and bring nobody to a step that relies on it.
LEMMA FrameHold ==
  ASSUME HoldInv, UNCHANGED <<pending, index, dirs>>,
         \A q \in Runs :
           \/ /\ pc'[q] \in {"idle", "gate", "helper_lock", "begin", "exit", "done"}
              /\ result'[q] # "ok"
           \/ /\ pc'[q] = pc[q] /\ kind'[q] = kind[q] /\ seen'[q] = seen[q]
              /\ snap'[q] = snap[q] /\ result'[q] = result[q] /\ whole'[q] = whole[q]
              /\ arg'[q] = arg[q]
  PROVE  HoldInv'
<1> SUFFICES ASSUME NEW q \in Runs PROVE Hold(q)'
  BY DEF HoldInv
<1>1. CASE /\ pc'[q] \in {"idle", "gate", "helper_lock", "begin", "exit", "done"}
           /\ result'[q] # "ok"
  BY <1>1 DEF Hold, Loaded, SnapSteps, Changing, InRestore
<1>2. CASE /\ pc'[q] = pc[q] /\ kind'[q] = kind[q] /\ seen'[q] = seen[q]
           /\ snap'[q] = snap[q] /\ result'[q] = result[q] /\ whole'[q] = whole[q]
           /\ arg'[q] = arg[q]
  BY <1>2 DEF HoldInv, Hold, Heads, Target
<1> QED BY <1>1, <1>2

LEMMA HoldStep ==
  ASSUME Inv, HoldInv, Calls = {}, [Next]_vars
  PROVE  HoldInv'
<1>0. /\ pc \in [Runs -> Labels] /\ result \in [Runs -> {"none", "ok", "error"}]
      /\ whole \in [Runs -> BOOLEAN]
  BY DEF Inv, TypeInv, TypeOK
<1> USE DEF TypeInv, TypeOK
<1>1. ASSUME NEW r \in Runs, Start(r) PROVE HoldInv'
  <2>1. /\ UNCHANGED <<pending, index, dirs>> /\ result' = result /\ seen' = seen /\ snap' = snap
        /\ whole' = whole /\ pc'[r] \in {"gate", "helper_lock"} /\ result'[r] = "none"
        /\ \A q \in Runs \ {r} : pc'[q] = pc[q] /\ kind'[q] = kind[q] /\ arg'[q] = arg[q]
    BY <1>1 DEF Inv, Start, Goto, disk, locals, PathInv, Path
  <2> QED BY <2>1, FrameHold
<1>2. ASSUME NEW r \in Runs, TakeGate(r) PROVE HoldInv'
  BY <1>2, FrameHold DEF Inv, TakeGate, Goto, disk, inputs, locals, PathInv, Path
<1>3. ASSUME NEW r \in Runs, TakeHelperLock(r) PROVE HoldInv'
  BY <1>3, FrameHold DEF Inv, TakeHelperLock, Goto, disk, inputs, locals, PathInv, Path
<1>4. ASSUME NEW r \in Runs, Exit(r) PROVE HoldInv'
  BY <1>4, FrameHold DEF Inv, Exit, Goto, disk, inputs, locals, Forget
<1>5. CASE RestartDaemon
  <2> DEFINE gone == {r \in Runs : Dies(r)}
  <2>1. /\ \A q \in gone : pc'[q] = "done" /\ result'[q] = "none"
        /\ \A q \in Runs \ gone :
             /\ pc'[q] = pc[q] /\ kind'[q] = kind[q] /\ seen'[q] = seen[q]
             /\ snap'[q] = snap[q] /\ result'[q] = result[q] /\ whole'[q] = whole[q]
             /\ arg'[q] = arg[q]
        /\ UNCHANGED <<pending, index, dirs>>
    BY <1>5 DEF RestartDaemon, Forget, disk
  <2> HIDE DEF gone
  <2> QED BY <2>1, FrameHold
<1>6. CASE UNCHANGED vars
  BY <1>6, FrameHold DEF vars, disk, inputs, locals
<1>7. ASSUME NEW r \in Runs, Begin(r) PROVE HoldInv'
  <2>1. /\ AtWork(r)
        /\ \A q \in Runs \ {r} : /\ pc'[q] = pc[q] /\ kind'[q] = kind[q]
                                 /\ result'[q] = result[q] /\ whole'[q] = whole[q]
    BY <1>7, <1>0 DEF Begin, AtWork, Goto, End, inputs, locals
  <2>2. Hold(r)'
    <3>1. kind[r] \in PkexecKinds /\ result[r] = "none"
      BY <1>7 DEF Inv, Begin, Sound, Asked, PathInv, Path
    <3>2. FirstStep[kind[r]] \in {"stage_lock", "clear_lock", "load", "snap_lock", "latest",
                                 "find", "delete_lock"}
      BY <3>1, FirstStepIsLabel
    <3>3. /\ kind' = kind
          /\ \/ pc'[r] = FirstStep[kind[r]] /\ result'[r] = "none"
             \/ pc'[r] = "exit" /\ result'[r] = "error"
      BY <1>7, <1>0, <3>1 DEF Begin, Goto, End, inputs
    <3>4. FirstStep[kind[r]] \in {"snap_lock", "clear_lock", "find"}
            => kind[r] \notin Applying \cup {"direct"} \/ FirstStep[kind[r]] = "snap_lock"
      BY <3>1, <3>2, FirstStepPath DEF Applying, Restoring
    <3>5. FirstStep[kind[r]] = "snap_lock" => kind[r] \notin Applying
      BY <3>1, FirstStepPath DEF Applying, Capturing
    <3> QED BY <3>1, <3>2, <3>3, <3>4, <3>5
            DEF Hold, Loaded, SnapSteps, Changing, InRestore, Applying
  <2> QED BY <2>1, <2>2, OthersHold DEF HoldInv
<1>8. ASSUME NEW r \in Runs, TakeStoreLock(r) PROVE HoldInv'
  <2>1. /\ AtWork(r)
        /\ \A q \in Runs \ {r} : /\ pc'[q] = pc[q] /\ kind'[q] = kind[q]
                                 /\ result'[q] = result[q] /\ whole'[q] = whole[q]
    BY <1>8, <1>0 DEF TakeStoreLock, AtWork, Goto, End, inputs, locals, Protected
  <2>2. Hold(r)'
    BY <1>8 DEF Inv, HoldInv, Hold, Loaded, SnapSteps, Changing, InRestore, TakeStoreLock, Goto, End, disk, inputs, locals, PathInv, Path,
       Applying, Restoring, Capturing, Staging, Deleting, Heads, Target, Protected
  <2> QED BY <2>1, <2>2, OthersHold DEF HoldInv
<1>9. ASSUME NEW r \in Runs, StageRead(r) PROVE HoldInv'
  <2>1. /\ AtWork(r)
        /\ \A q \in Runs \ {r} : /\ pc'[q] = pc[q] /\ kind'[q] = kind[q]
                                 /\ result'[q] = result[q] /\ whole'[q] = whole[q]
    BY <1>9, <1>0 DEF StageRead, AtWork, Goto, End, inputs, locals
  <2>2. Hold(r)'
    BY <1>9 DEF Inv, HoldInv, Hold, Loaded, SnapSteps, Changing, InRestore, StageRead, Goto, End, disk, inputs, locals, PathInv, Path,
       Applying, Restoring, Capturing, Staging, Deleting, Heads, Target
  <2> QED BY <2>1, <2>2, OthersHold DEF HoldInv
<1>10. ASSUME NEW r \in Runs, StageWrite(r) PROVE HoldInv'
  <2>1. /\ AtWork(r)
        /\ \A q \in Runs \ {r} : /\ pc'[q] = pc[q] /\ kind'[q] = kind[q]
                                 /\ result'[q] = result[q] /\ whole'[q] = whole[q]
    BY <1>10, <1>0 DEF StageWrite, AtWork, Goto, End, inputs, locals
  <2>2. Hold(r)'
    BY <1>10 DEF Inv, HoldInv, Hold, Loaded, SnapSteps, Changing, InRestore, StageWrite, Goto, End, disk, inputs, locals, PathInv, Path,
       Applying, Restoring, Capturing, Staging, Deleting, Heads, Target
  <2> QED BY <2>1, <2>2, OthersHold DEF HoldInv
<1>11. ASSUME NEW r \in Runs, ClearWrite(r) PROVE HoldInv'
  <2>1. /\ AtWork(r)
        /\ \A q \in Runs \ {r} : /\ pc'[q] = pc[q] /\ kind'[q] = kind[q]
                                 /\ result'[q] = result[q] /\ whole'[q] = whole[q]
    BY <1>11, <1>0 DEF ClearWrite, AtWork, Goto, End, inputs, locals
  <2>2. Hold(r)'
    BY <1>11 DEF Inv, HoldInv, Hold, Loaded, SnapSteps, Changing, InRestore, ClearWrite, Goto, End, disk, inputs, locals, PathInv, Path,
       Applying, Restoring, Capturing, Staging, Deleting, Heads, Target
  <2> QED BY <2>1, <2>2, OthersHold DEF HoldInv
<1>12. ASSUME NEW r \in Runs, Load(r) PROVE HoldInv'
  <2>1. /\ AtWork(r)
        /\ \A q \in Runs \ {r} : /\ pc'[q] = pc[q] /\ kind'[q] = kind[q]
                                 /\ result'[q] = result[q] /\ whole'[q] = whole[q]
    BY <1>12, <1>0 DEF Load, AtWork, Goto, End, inputs, locals
  <2>2. Hold(r)'
    BY <1>12 DEF Inv, HoldInv, Hold, Loaded, SnapSteps, Changing, InRestore, Load, Goto, End, disk, inputs, locals, PathInv, Path,
       Applying, Restoring, Capturing, Staging, Deleting, Heads, Target
  <2> QED BY <2>1, <2>2, OthersHold DEF HoldInv
<1>13. ASSUME NEW r \in Runs, SnapImport(r) PROVE HoldInv'
  <2>1. /\ AtWork(r)
        /\ \A q \in Runs \ {r} : /\ pc'[q] = pc[q] /\ kind'[q] = kind[q]
                                 /\ result'[q] = result[q] /\ whole'[q] = whole[q]
    BY <1>13, <1>0 DEF SnapImport, AtWork, Goto, End, inputs, locals
  <2>2. Hold(r)'
    BY <1>13 DEF Inv, HoldInv, Hold, Loaded, SnapSteps, Changing, InRestore, SnapImport, Goto, End, disk, inputs, locals, PathInv, Path,
       Applying, Restoring, Capturing, Staging, Deleting, Heads, Target, FreshDir
  <2> QED BY <2>1, <2>2, OthersHold DEF HoldInv
<1>14. ASSUME NEW r \in Runs, ImportIndex(r) PROVE HoldInv'
  <2>1. /\ AtWork(r)
        /\ \A q \in Runs \ {r} : /\ pc'[q] = pc[q] /\ kind'[q] = kind[q]
                                 /\ result'[q] = result[q] /\ whole'[q] = whole[q]
    BY <1>14, <1>0 DEF ImportIndex, AtWork, Goto, End, inputs, locals
  <2>2. Hold(r)'
    BY <1>14 DEF Inv, HoldInv, Hold, Loaded, SnapSteps, Changing, InRestore, ImportIndex, Goto, End, disk, inputs, locals, PathInv, Path,
       Applying, Restoring, Capturing, Staging, Deleting, Heads, Target
  <2> QED BY <2>1, <2>2, OthersHold DEF HoldInv
<1>15. ASSUME NEW r \in Runs, ImportRemove(r) PROVE HoldInv'
  <2>1. /\ AtWork(r)
        /\ \A q \in Runs \ {r} : /\ pc'[q] = pc[q] /\ kind'[q] = kind[q]
                                 /\ result'[q] = result[q] /\ whole'[q] = whole[q]
    BY <1>15, <1>0 DEF ImportRemove, AtWork, Goto, End, inputs, locals
  <2>2. Hold(r)'
    BY <1>15 DEF Inv, HoldInv, Hold, Loaded, SnapSteps, Changing, InRestore, ImportRemove, Goto, End, disk, inputs, locals, PathInv, Path,
       Applying, Restoring, Capturing, Staging, Deleting, Heads, Target
  <2> QED BY <2>1, <2>2, OthersHold DEF HoldInv
<1>16. ASSUME NEW r \in Runs, SnapDir(r) PROVE HoldInv'
  <2>1. /\ AtWork(r)
        /\ \A q \in Runs \ {r} : /\ pc'[q] = pc[q] /\ kind'[q] = kind[q]
                                 /\ result'[q] = result[q] /\ whole'[q] = whole[q]
    BY <1>16, <1>0 DEF SnapDir, AtWork, Goto, End, inputs, locals
  <2>2. Hold(r)'
    BY <1>16 DEF Inv, HoldInv, Hold, Loaded, SnapSteps, Changing, InRestore, SnapDir, Goto, End, disk, inputs, locals, PathInv, Path,
       Applying, Restoring, Capturing, Staging, Deleting, Heads, Target, FreshDir
  <2> QED BY <2>1, <2>2, OthersHold DEF HoldInv
<1>17. ASSUME NEW r \in Runs, SnapWrite(r) PROVE HoldInv'
  <2>1. /\ AtWork(r)
        /\ \A q \in Runs \ {r} : /\ pc'[q] = pc[q] /\ kind'[q] = kind[q]
                                 /\ result'[q] = result[q] /\ whole'[q] = whole[q]
    BY <1>17, <1>0 DEF SnapWrite, AtWork, Goto, End, inputs, locals
  <2>2. Hold(r)'
    <3>1. /\ pc[r] = "snap_write" /\ kind' = kind /\ seen' = seen /\ snap' = snap /\ dirs' = dirs
          /\ pending' = pending /\ pc'[r] \in {"exit", "mutate"}
          /\ kind[r] \in Applying \cup {"direct"} \cup Capturing
          /\ pc'[r] = "exit" => kind[r] \in Capturing
      BY <1>17 DEF Inv, SnapWrite, Goto, End, inputs, locals, PathInv, Path, SnapSteps
    <3>2. kind[r] \in Applying \cup {"direct"} => TriggerOf(kind[r]) = "pre_apply"
      BY DEF TriggerOf, Applying
    <3>3. [id |-> snap[r], trigger |-> TriggerOf(kind[r])] \in Entry
      <4>1. TriggerOf(kind[r]) \in Triggers
        BY DEF TriggerOf, Triggers
      <4> QED BY <3>1, <4>1 DEF Inv, Sound, Named, Entry
    <3>4. /\ 1 \in DOMAIN index'
          /\ index'[1] = [id |-> snap[r], trigger |-> TriggerOf(kind[r])]
      <4> DEFINE e == [id |-> snap[r], trigger |-> TriggerOf(kind[r])]
      <4>1. \A t \in Seq(Entry) : 1 \in DOMAIN Cons(e, t) /\ Cons(e, t)[1] = e
        <5> HIDE DEF e
        <5> SUFFICES ASSUME NEW t \in Seq(Entry)
                     PROVE  1 \in DOMAIN Cons(e, t) /\ Cons(e, t)[1] = e
          OBVIOUS
        <5>1. e \in Entry /\ Len(t) \in Nat
          BY <3>3, LenProperties DEF e
        <5>2. 1 \in 1..(Len(t) + 1)
          BY <5>1
        <5>3. /\ DOMAIN Cons(e, t) = 1..(Len(t) + 1)
              /\ \A k \in 1..(Len(t) + 1) : Cons(e, t)[k] = IF k = 1 THEN e ELSE t[k - 1]
          BY <5>1, ConsProperties
        <5> QED BY <5>2, <5>3
      <4>2. index' = Cons(e, entries[r]) /\ entries[r] \in Seq(Entry)
        BY <1>17 DEF Inv, SnapWrite
      <4> QED BY <4>1, <4>2
    <3>5. snap[r] \in dirs /\ result[r] = "none"
      BY <3>1 DEF Inv, StoreInv, Claim, PathInv, Path
    <3>6. kind[r] \in Applying => seen[r] = pending
      BY <3>1 DEF HoldInv, Hold, Loaded, SnapSteps
    <3> QED BY <3>1, <3>2, <3>4, <3>5, <3>6
            DEF Hold, Heads, Loaded, SnapSteps, Changing, InRestore, Applying, Capturing, Restoring
  <2> QED BY <2>1, <2>2, OthersHold DEF HoldInv
<1>18. ASSUME NEW r \in Runs, Mutate(r) PROVE HoldInv'
  <2>1. /\ AtWork(r)
        /\ \A q \in Runs \ {r} : /\ pc'[q] = pc[q] /\ kind'[q] = kind[q]
                                 /\ result'[q] = result[q] /\ whole'[q] = whole[q]
    BY <1>18, <1>0 DEF Mutate, AtWork, Goto, End, inputs, locals
  <2>2. Hold(r)'
    BY <1>18 DEF Inv, HoldInv, Hold, Loaded, SnapSteps, Changing, InRestore, Mutate, Goto, End, disk, inputs, locals, PathInv, Path,
       Applying, Restoring, Capturing, Staging, Deleting, Heads, Target
  <2> QED BY <2>1, <2>2, OthersHold DEF HoldInv
<1>19. ASSUME NEW r \in Runs, Latest(r) PROVE HoldInv'
  <2>1. /\ AtWork(r)
        /\ \A q \in Runs \ {r} : /\ pc'[q] = pc[q] /\ kind'[q] = kind[q]
                                 /\ result'[q] = result[q] /\ whole'[q] = whole[q]
    BY <1>19, <1>0 DEF Latest, AtWork, Goto, End, inputs, locals
  <2>2. Hold(r)'
    BY <1>19 DEF Inv, HoldInv, Hold, Loaded, SnapSteps, Changing, InRestore, Latest, Goto, End, disk, inputs, locals, PathInv, Path,
       Applying, Restoring, Capturing, Staging, Deleting, Heads, Target
  <2> QED BY <2>1, <2>2, OthersHold DEF HoldInv
<1>20. ASSUME NEW r \in Runs, Find(r) PROVE HoldInv'
  <2>1. /\ AtWork(r)
        /\ \A q \in Runs \ {r} : /\ pc'[q] = pc[q] /\ kind'[q] = kind[q]
                                 /\ result'[q] = result[q] /\ whole'[q] = whole[q]
    BY <1>20, <1>0 DEF Find, AtWork, Goto, End, inputs, locals
  <2>2. Hold(r)'
    BY <1>20 DEF Inv, HoldInv, Hold, Loaded, SnapSteps, Changing, InRestore, Find, Goto, End, disk, inputs, locals, PathInv, Path,
       Applying, Restoring, Capturing, Staging, Deleting, Heads, Target
  <2> QED BY <2>1, <2>2, OthersHold DEF HoldInv
<1>21. ASSUME NEW r \in Runs, Open(r) PROVE HoldInv'
  <2>1. /\ AtWork(r)
        /\ \A q \in Runs \ {r} : /\ pc'[q] = pc[q] /\ kind'[q] = kind[q]
                                 /\ result'[q] = result[q] /\ whole'[q] = whole[q]
    BY <1>21, <1>0 DEF Open, AtWork, Goto, End, inputs, locals
  <2>2. Hold(r)'
    BY <1>21 DEF Inv, HoldInv, Hold, Loaded, SnapSteps, Changing, InRestore, Open, Goto, End, disk, inputs, locals, PathInv, Path,
       Applying, Restoring, Capturing, Staging, Deleting, Heads, Target
  <2> QED BY <2>1, <2>2, OthersHold DEF HoldInv
<1>22. ASSUME NEW r \in Runs, Copy(r) PROVE HoldInv'
  <2>1. /\ AtWork(r)
        /\ \A q \in Runs \ {r} : /\ pc'[q] = pc[q] /\ kind'[q] = kind[q]
                                 /\ result'[q] = result[q] /\ whole'[q] = whole[q]
    BY <1>22, <1>0 DEF Copy, AtWork, Goto, End, inputs, locals
  <2>2. Hold(r)'
    BY <1>22 DEF Inv, HoldInv, Hold, Loaded, SnapSteps, Changing, InRestore, Copy, Goto, End, disk, inputs, locals, PathInv, Path,
       Applying, Restoring, Capturing, Staging, Deleting, Heads, Target
  <2> QED BY <2>1, <2>2, OthersHold DEF HoldInv
<1>23. ASSUME NEW r \in Runs, DeleteRead(r) PROVE HoldInv'
  <2>1. /\ AtWork(r)
        /\ \A q \in Runs \ {r} : /\ pc'[q] = pc[q] /\ kind'[q] = kind[q]
                                 /\ result'[q] = result[q] /\ whole'[q] = whole[q]
    BY <1>23, <1>0 DEF DeleteRead, AtWork, Goto, End, inputs, locals
  <2>2. Hold(r)'
    BY <1>23 DEF Inv, HoldInv, Hold, Loaded, SnapSteps, Changing, InRestore, DeleteRead, Goto, End, disk, inputs, locals, PathInv, Path,
       Applying, Restoring, Capturing, Staging, Deleting, Heads, Target
  <2> QED BY <2>1, <2>2, OthersHold DEF HoldInv
<1>24. ASSUME NEW r \in Runs, DeleteIndex(r) PROVE HoldInv'
  <2>1. /\ AtWork(r)
        /\ \A q \in Runs \ {r} : /\ pc'[q] = pc[q] /\ kind'[q] = kind[q]
                                 /\ result'[q] = result[q] /\ whole'[q] = whole[q]
    BY <1>24, <1>0 DEF DeleteIndex, AtWork, Goto, End, inputs, locals
  <2>2. Hold(r)'
    BY <1>24 DEF Inv, HoldInv, Hold, Loaded, SnapSteps, Changing, InRestore, DeleteIndex, Goto, End, disk, inputs, locals, PathInv, Path,
       Applying, Restoring, Capturing, Staging, Deleting, Heads, Target
  <2> QED BY <2>1, <2>2, OthersHold DEF HoldInv
<1>25. ASSUME NEW r \in Runs, DeleteDir(r) PROVE HoldInv'
  <2>1. /\ AtWork(r)
        /\ \A q \in Runs \ {r} : /\ pc'[q] = pc[q] /\ kind'[q] = kind[q]
                                 /\ result'[q] = result[q] /\ whole'[q] = whole[q]
    BY <1>25, <1>0 DEF DeleteDir, AtWork, Goto, End, inputs, locals
  <2>2. Hold(r)'
    BY <1>25 DEF Inv, HoldInv, Hold, Loaded, SnapSteps, Changing, InRestore, DeleteDir, Goto, End, disk, inputs, locals, PathInv, Path,
       Applying, Restoring, Capturing, Staging, Deleting, Heads, Target
  <2> QED BY <2>1, <2>2, OthersHold DEF HoldInv
<1>26. ASSUME NEW r \in Runs, IoError(r) PROVE HoldInv'
  BY <1>26, <1>0, FrameHold DEF IoError, Goto, End, disk, inputs, locals
<1>27. ASSUME NEW r \in Runs, Kill(r) PROVE HoldInv'
  BY <1>27, <1>0, FrameHold DEF Kill, Goto, End, disk, inputs, locals
<1> QED BY <1>1, <1>2, <1>3, <1>4, <1>5, <1>6, <1>7, <1>8, <1>9, <1>10, <1>11,
       <1>12, <1>13, <1>14, <1>15, <1>16, <1>17, <1>18, <1>19, <1>20, <1>21,
       <1>22, <1>23, <1>24, <1>25, <1>26, <1>27 DEF Next, Step, StoreStep,
       SnapStep, RestoreStep, DeleteStep, Terminated

LEMMA Invariance ==
  ASSUME Inv, [Next]_vars
  PROVE  Inv'
BY TypeStep, LockStep, StoreInvStep, PathStep DEF Inv

LEMMA InitInv == Init => Inv
BY InitType, InitLocks, InitStore, InitPath DEF Inv

\* Without calls served by xzramd itself, an apply that succeeds discards
\* nothing it has not applied.
THEOREM NothingDropped ==
  ASSUME Calls = {}
  PROVE  Spec => NoStagedChangeDropped
<1>1. Inv /\ HoldInv /\ [Next]_vars =>
        [\A r \in Runs :
           (kind[r] \in Applying /\ pc[r] = "clear_write" /\ result'[r] = "ok" /\ result[r] = "none")
             => \A s \in Slots : pending[s] \in {Unset, seen[r][s]}]_vars
  BY DEF HoldInv, Hold, Loaded
<1>2. Inv /\ HoldInv /\ [Next]_vars => HoldInv'
  BY HoldStep
<1> QED BY <1>1, <1>2, InitInv, Invariance, InitHold, PTL DEF Spec, NoStagedChangeDropped

\* Without such calls, a run that is changing the system can count on its
\* pre_apply snapshot: it is complete, and a rollback would pick it.
THEOREM TargetKept ==
  ASSUME Calls = {}
  PROVE  Spec => []RollbackTargetKept
<1>1. Inv /\ HoldInv => RollbackTargetKept
  <2> SUFFICES ASSUME Inv, HoldInv, NEW r \in Helpers,
                      kind[r] \in Applying \cup {"direct"}, pc[r] \in Changing
               PROVE  /\ \E i \in DOMAIN index : IsNewestPreApply(i) /\ index[i].id = snap[r]
                      /\ snap[r] \in dirs
    BY DEF RollbackTargetKept
  <2>1. Heads(snap[r])
    BY DEF HoldInv, Hold, Runs
  <2>2. \A j \in DOMAIN index : 1 <= j
    BY LenProperties DEF Inv, TypeInv, TypeOK
  <2>3. IsNewestPreApply(1) /\ index[1].id = snap[r]
    BY <2>1, <2>2 DEF Heads, IsNewestPreApply
  <2> QED BY <2>1, <2>3 DEF Heads
<1>2. Inv /\ HoldInv /\ [Next]_vars => HoldInv'
  BY HoldStep
<1> QED BY <1>1, <1>2, InitInv, Invariance, InitHold, PTL DEF Spec

\* Without such calls, a restore that reports success restored every file.
THEOREM RestoreIsWhole ==
  ASSUME Calls = {}
  PROVE  Spec => []SuccessfulRestoreIsWhole
<1>1. Inv /\ HoldInv => SuccessfulRestoreIsWhole
  BY DEF HoldInv, Hold, SuccessfulRestoreIsWhole
<1>2. Inv /\ HoldInv /\ [Next]_vars => HoldInv'
  BY HoldStep
<1> QED BY <1>1, <1>2, InitInv, Invariance, InitHold, PTL DEF Spec

-----------------------------------------------------------------------------
(* A prune.  None of the snapshots it is about to delete stands among the    *)
(* first ones, which it was asked to keep: not when it has read the index,   *)
(* and not after it has taken one out.                                       *)

Pruning == {"delete_index", "delete_dir"}

Spares(r) ==
  kind[r] = "prune" /\ pc[r] \in Pruning =>
    \A i \in DOMAIN entries[r], k \in DOMAIN victims[r] :
      entries[r][i].id = victims[r][k] => arg[r] < i

PruneInv == \A r \in Runs : Spares(r)

LEMMA InitPrune == Init => PruneInv
BY DEF Init, PruneInv, Spares, Pruning

\* A step that takes nobody to a step of a prune.
LEMMA FramePrune ==
  ASSUME PruneInv,
         \A q \in Runs : \/ pc'[q] \notin Pruning
                         \/ /\ pc'[q] = pc[q] /\ kind'[q] = kind[q] /\ arg'[q] = arg[q]
                            /\ entries'[q] = entries[q] /\ victims'[q] = victims[q]
  PROVE  PruneInv'
BY DEF PruneInv, Spares

\* What a prune finds beyond the entries to keep is not among them: no snapshot
\* is listed twice.
LEMMA DeleteReadSpares ==
  ASSUME Inv, NEW r \in Runs, DeleteRead(r)
  PROVE  Spares(r)'
<1> SUFFICES ASSUME kind'[r] = "prune", pc'[r] \in Pruning,
                    NEW i \in DOMAIN entries'[r], NEW k \in DOMAIN victims'[r],
                    entries'[r][i].id = victims'[r][k]
             PROVE  arg'[r] < i
  BY DEF Spares
<1>1. kind' = kind /\ arg' = arg /\ pc \in [Runs -> Labels]
  BY DEF DeleteRead, inputs, Inv, TypeInv, TypeOK
<1>2. entries'[r] = index /\ index \in Seq(Entry) /\ arg[r] \in Nat
  BY DEF DeleteRead, Inv, TypeInv, TypeOK
<1>3. /\ Len(index) > arg[r] /\ victims'[r] = Beyond(arg[r])
  BY <1>1 DEF DeleteRead, Inv, TypeInv, TypeOK, Goto, End, Pruning
<1>4. Len(index) \in Nat /\ DOMAIN index = 1..Len(index)
  BY <1>2, LenProperties
<1>5. k \in 1..(Len(index) - arg[r]) /\ victims'[r][k] = index[arg[r] + k].id
  BY <1>3 DEF Beyond
<1>6. arg[r] + k \in DOMAIN index
  BY <1>2, <1>4, <1>5
<1>7. i = arg[r] + k
  BY <1>2, <1>5, <1>6 DEF Inv, StoreInv, IndexInv, Unique
<1> QED BY <1>1, <1>2, <1>4, <1>5, <1>7

\* Taking out an entry beyond those to keep leaves the others beyond them.
LEMMA DeleteIndexSpares ==
  ASSUME Inv, PruneInv, NEW r \in Runs, DeleteIndex(r)
  PROVE  Spares(r)'
<1> SUFFICES ASSUME kind[r] = "prune",
                    NEW i \in DOMAIN entries'[r], NEW k \in DOMAIN victims[r],
                    entries'[r][i].id = victims[r][k]
             PROVE  arg[r] < i
  BY DEF Spares, DeleteIndex, inputs
<1>1. /\ entries[r] \in Seq(Entry) /\ arg[r] \in Nat /\ victims[r] \in Seq(Ids)
      /\ victims[r] # <<>> /\ pc[r] = "delete_index"
  BY DEF DeleteIndex, Inv, TypeInv, TypeOK, Sound, Busy
<1>2. PICK j \in 1..Len(entries[r]) :
        entries[r][j].id = Head(victims[r]) /\ index' = RemoveAt(entries[r], j)
  BY DEF DeleteIndex
<1>3. entries'[r] = RemoveAt(entries[r], j)
  BY <1>2 DEF DeleteIndex, Inv, TypeInv, TypeOK
<1>4. /\ DOMAIN entries'[r] = 1..(Len(entries[r]) - 1)
      /\ entries'[r][i] = IF i < j THEN entries[r][i] ELSE entries[r][i + 1]
  BY <1>1, <1>2, <1>3, RemoveAtProperties
<1>5. Len(entries[r]) \in Nat /\ DOMAIN entries[r] = 1..Len(entries[r])
  BY <1>1, LenProperties
<1>6. \A m \in DOMAIN entries[r], n \in DOMAIN victims[r] :
        entries[r][m].id = victims[r][n] => arg[r] < m
  BY <1>1 DEF PruneInv, Spares, Pruning
<1>7. 1 \in DOMAIN victims[r] /\ Head(victims[r]) = victims[r][1]
  BY <1>1
<1>8. arg[r] < j
  BY <1>2, <1>5, <1>6, <1>7
<1>9. CASE i < j
  BY <1>4, <1>5, <1>6, <1>9
<1>10. CASE ~ i < j
  BY <1>1, <1>4, <1>5, <1>8, <1>10
<1> QED BY <1>9, <1>10

\* What is still to delete was to be deleted before.
LEMMA DeleteDirSpares ==
  ASSUME Inv, PruneInv, NEW r \in Runs, DeleteDir(r)
  PROVE  Spares(r)'
<1> SUFFICES ASSUME kind[r] = "prune",
                    NEW i \in DOMAIN entries[r], NEW k \in DOMAIN victims'[r],
                    entries[r][i].id = victims'[r][k]
             PROVE  arg[r] < i
  BY DEF Spares, DeleteDir, inputs
<1>1. /\ victims[r] \in Seq(Ids) /\ victims[r] # <<>> /\ pc[r] = "delete_dir"
      /\ victims'[r] = Tail(victims[r])
  BY DEF DeleteDir, Inv, TypeInv, TypeOK, Sound, Busy
<1>2. k + 1 \in DOMAIN victims[r] /\ victims'[r][k] = victims[r][k + 1]
  BY <1>1, HeadTailProperties, LenProperties
<1> QED BY <1>1, <1>2 DEF PruneInv, Spares, Pruning

LEMMA PruneStep ==
  ASSUME Inv, PruneInv, [Next]_vars
  PROVE  PruneInv'
<1>0. pc \in [Runs -> Labels] /\ kind \in [Runs -> PkexecKinds \cup {"none"}]
      /\ arg \in [Runs -> Nat] /\ entries \in [Runs -> Seq(Entry)]
      /\ victims \in [Runs -> Seq(Ids)]
  BY DEF Inv, TypeInv, TypeOK
<1>1. ASSUME NEW r \in Runs, Start(r) PROVE PruneInv'
  <2>1. /\ pc'[r] \notin Pruning /\ entries' = entries /\ victims' = victims
        /\ \A q \in Runs \ {r} : pc'[q] = pc[q] /\ kind'[q] = kind[q] /\ arg'[q] = arg[q]
    BY <1>0, <1>1 DEF Start, Goto, locals, Pruning
  <2> QED BY <2>1, FramePrune
<1>2. ASSUME NEW r \in Runs, Begin(r) PROVE PruneInv'
  <2>1. kind[r] \in PkexecKinds
    BY <1>2 DEF Inv, TypeInv, Begin, Sound, Asked
  <2>2. FirstStep[kind[r]] \notin Pruning
    BY <2>1, FirstStepIsLabel DEF Pruning
  <2>3. /\ pc'[r] \notin Pruning /\ entries' = entries /\ victims' = victims
        /\ kind' = kind /\ arg' = arg
        /\ \A q \in Runs \ {r} : pc'[q] = pc[q]
    BY <1>0, <1>2, <2>2 DEF Begin, Goto, End, locals, inputs, Pruning
  <2> QED BY <2>3, FramePrune
<1>3. ASSUME NEW r \in Runs, TakeGate(r) \/ TakeHelperLock(r) \/ TakeStoreLock(r)
                              \/ StageRead(r) \/ StageWrite(r) \/ ClearWrite(r) \/ Load(r)
      PROVE  PruneInv'
  <2>1. /\ pc'[r] \notin Pruning /\ entries' = entries /\ victims' = victims
        /\ kind' = kind /\ arg' = arg
        /\ \A q \in Runs \ {r} : pc'[q] = pc[q]
    BY <1>0, <1>3 DEF TakeGate, TakeHelperLock, TakeStoreLock, Protected, StageRead, StageWrite,
       ClearWrite, Load, Goto, End, locals, inputs, Pruning
  <2> QED BY <2>1, FramePrune
<1>4. ASSUME NEW r \in Runs, SnapStep(r) \/ Mutate(r) \/ RestoreStep(r)
      PROVE  PruneInv'
  <2>1. /\ pc'[r] \notin Pruning /\ victims' = victims /\ kind' = kind /\ arg' = arg
        /\ \A q \in Runs \ {r} : pc'[q] = pc[q] /\ entries'[q] = entries[q]
    <3>1. CASE SnapImport(r) \/ ImportIndex(r) \/ ImportRemove(r)
      BY <1>0, <3>1
         DEF SnapImport, ImportIndex, ImportRemove, FreshDir, Goto, End, locals, inputs, Pruning
    <3>2. CASE SnapDir(r) \/ SnapWrite(r)
      BY <1>0, <3>2 DEF SnapDir, SnapWrite, FreshDir, Goto, End, locals, inputs, Pruning
    <3>3. CASE Mutate(r) \/ Latest(r)
      BY <1>0, <3>3 DEF Mutate, Latest, Goto, End, locals, inputs, Pruning
    <3>4. CASE Find(r) \/ Open(r) \/ Copy(r)
      BY <1>0, <3>4 DEF Find, Open, Copy, Goto, End, locals, inputs, Pruning
    <3> QED BY <1>4, <3>1, <3>2, <3>3, <3>4 DEF SnapStep, RestoreStep
  <2> QED BY <2>1, FramePrune
<1>5. ASSUME NEW r \in Runs, DeleteStep(r) PROVE PruneInv'
  <2>1. /\ kind' = kind /\ arg' = arg
        /\ \A q \in Runs \ {r} :
             pc'[q] = pc[q] /\ entries'[q] = entries[q] /\ victims'[q] = victims[q]
    BY <1>0, <1>5 DEF DeleteStep, DeleteRead, DeleteIndex, DeleteDir, Goto, End, locals, inputs
  <2>2. Spares(r)'
    BY <1>5, DeleteReadSpares, DeleteIndexSpares, DeleteDirSpares DEF DeleteStep
  <2> QED BY <2>1, <2>2 DEF PruneInv, Spares
<1>6. ASSUME NEW r \in Runs, Exit(r) \/ IoError(r) \/ Kill(r) PROVE PruneInv'
  <2>1. /\ pc'[r] \notin Pruning
        /\ \A q \in Runs \ {r} :
             /\ pc'[q] = pc[q] /\ kind'[q] = kind[q] /\ arg'[q] = arg[q]
             /\ entries'[q] = entries[q] /\ victims'[q] = victims[q]
    <3>1. CASE Exit(r)
      BY <1>0, <3>1 DEF Exit, Forget, Goto, Pruning
    <3>2. CASE IoError(r) \/ Kill(r)
      BY <1>0, <3>2 DEF IoError, Kill, Goto, End, locals, inputs, Pruning
    <3> QED BY <1>6, <3>1, <3>2
  <2> QED BY <2>1, FramePrune
<1>7. CASE RestartDaemon
  <2> DEFINE gone == {r \in Runs : Dies(r)}
  <2>1. /\ \A q \in gone : pc'[q] = "done"
        /\ \A q \in Runs \ gone :
             /\ pc'[q] = pc[q] /\ kind'[q] = kind[q] /\ arg'[q] = arg[q]
             /\ entries'[q] = entries[q] /\ victims'[q] = victims[q]
    BY <1>7 DEF RestartDaemon, Forget
  <2>2. "done" \notin Pruning
    BY DEF Pruning
  <2> HIDE DEF gone
  <2> QED BY <2>1, <2>2, FramePrune
<1>8. CASE UNCHANGED vars
  BY <1>8, FramePrune DEF vars, inputs, locals
<1> QED BY <1>1, <1>2, <1>3, <1>4, <1>5, <1>6, <1>7, <1>8
        DEF Next, Step, StoreStep, Terminated

\* Only one step takes a run from the index entry to the directory.
LEMMA OnlyDeleteIndex ==
  ASSUME TypeInv, Next, NEW r \in Runs, pc[r] = "delete_index", pc'[r] = "delete_dir"
  PROVE  DeleteIndex(r)
<1>0. pc \in [Runs -> Labels]
  BY DEF TypeInv, TypeOK
<1>1. ASSUME NEW q \in Runs, Start(q) \/ TakeGate(q) \/ TakeHelperLock(q) \/ TakeStoreLock(q)
      PROVE  FALSE
  BY <1>0, <1>1 DEF Start, TakeGate, TakeHelperLock, TakeStoreLock, Protected, Goto
<1>2. ASSUME NEW q \in Runs, Begin(q) \/ Exit(q) \/ StoreStep(q) \/ Mutate(q) PROVE FALSE
  BY <1>0, <1>2
     DEF Begin, Exit, StoreStep, StageRead, StageWrite, ClearWrite, Load, Mutate, Goto, End
<1>3. ASSUME NEW q \in Runs, SnapStep(q) \/ RestoreStep(q) PROVE FALSE
  BY <1>0, <1>3 DEF SnapStep, SnapImport, ImportIndex, ImportRemove, SnapDir, SnapWrite,
     RestoreStep, Latest, Find, Open, Copy, Goto, End
<1>4. ASSUME NEW q \in Runs, IoError(q) \/ Kill(q) PROVE FALSE
  BY <1>0, <1>4 DEF IoError, Kill, Goto, End
<1>5. ASSUME NEW q \in Runs, DeleteStep(q) PROVE DeleteIndex(r)
  BY <1>0, <1>5 DEF DeleteStep, DeleteRead, DeleteIndex, DeleteDir, Goto, End
<1>6. CASE RestartDaemon
  BY <1>0, <1>6 DEF RestartDaemon
<1>7. CASE Terminated
  BY <1>7 DEF Terminated, vars
<1> QED BY <1>1, <1>2, <1>3, <1>4, <1>5, <1>6, <1>7 DEF Next, Step

\* The entries a prune was asked to keep stay what they are and where they are,
\* whoever else works on the store (prune_snapshots).
THEOREM PruneSparesNewest == Spec => PruneKeepsNewest
<1>1. Inv /\ PruneInv /\ [Next]_vars =>
        [\A r \in Runs :
           (kind[r] = "prune" /\ pc[r] = "delete_index" /\ pc'[r] = "delete_dir")
             => SubSeq(index', 1, arg[r]) = SubSeq(index, 1, arg[r])]_vars
  <2> SUFFICES ASSUME Inv, PruneInv, Next, NEW r \in Runs,
                      kind[r] = "prune", pc[r] = "delete_index", pc'[r] = "delete_dir"
               PROVE  SubSeq(index', 1, arg[r]) = SubSeq(index, 1, arg[r])
    OBVIOUS
  <2>1. DeleteIndex(r)
    BY OnlyDeleteIndex DEF Inv
  <2>2. /\ entries[r] = index /\ index \in Seq(Entry) /\ arg[r] \in Nat
        /\ victims[r] \in Seq(Ids) /\ victims[r] # <<>>
    <3>1. Claim(r) /\ Sound(r) /\ TypeOK
      BY DEF Inv, StoreInv, TypeInv
    <3> QED BY <3>1 DEF Claim, TypeOK, Sound, Busy
  <2>3. PICK i \in 1..Len(index) : index[i].id = victims[r][1] /\ index' = RemoveAt(index, i)
    BY <2>1, <2>2 DEF DeleteIndex
  <2>4. Len(index) \in Nat /\ DOMAIN index = 1..Len(index)
    BY <2>2, LenProperties
  <2>5. arg[r] < i
    BY <2>2, <2>3, <2>4 DEF PruneInv, Spares, Pruning
  <2>6. /\ index' \in Seq(Entry) /\ Len(index') = Len(index) - 1
        /\ \A k \in 1..(Len(index) - 1) : index'[k] = IF k < i THEN index[k] ELSE index[k + 1]
    BY <2>2, <2>3, RemoveAtProperties
  <2> DEFINE n == arg[r]
  <2>7. n \in Nat /\ n < i /\ i <= Len(index)
    BY <2>2, <2>3, <2>4, <2>5
  <2>8. SubSeq(index, 1, n) = [k \in 1..n |-> index[k]]
    BY <2>2, <2>4, <2>7
  <2>9. SubSeq(index', 1, n) = [k \in 1..n |-> index'[k]]
    BY <2>4, <2>6, <2>7
  <2>10. \A k \in 1..n : index'[k] = index[k]
    BY <2>4, <2>6, <2>7
  <2> QED BY <2>8, <2>9, <2>10
<1>2. Inv /\ PruneInv /\ [Next]_vars => PruneInv'
  BY PruneStep
<1> QED BY <1>1, <1>2, InitInv, Invariance, InitPrune, PTL DEF Spec, PruneKeepsNewest

=============================================================================
